--------------------------- MODULE WorkerLoopProofs ---------------------------
(***************************************************************************)
(* The order in which plugins start and what their flags say between two   *)
(* runs, for every number of plugins and every choice of receivers.        *)
(***************************************************************************)
EXTENDS WorkerLoop, TLAPS

Booleans == [Plugins -> BOOLEAN]
Between == {"top", "pausing", "siblings"}

Typed ==
    /\ next \in 1..N + 1 /\ cancelled \in BOOLEAN /\ quit \in BOOLEAN
    /\ pc \in [Plugins -> Pcs]
    /\ initial \in Booleans /\ stopped \in Booleans /\ ran \in Booleans
    /\ preparing \in Booleans /\ paused \in Booleans /\ failed \in Booleans

\* The plugins before the last one that was started have finished their
\* initial runs.
StartedInOrder ==
    main # "exited" => \A q \in Plugins : q + 1 < next => initial[q]

\* A plugin runs after its start and until the process ends, and looks for
\* jobs after its own initial run.
Started(p) ==
    /\ pc[p] # "off" => main # "exited" /\ p < next
    /\ pc[p] = "off" => ~ran[p] /\ ~stopped[p]
    /\ pc[p] \in PickPcs => initial[p]

\* Until the worker is cancelled, a run of a plugin that was not stopped ends
\* with an error or with both flags cleared, and they stay so.
Cleared(p) ==
    /\ stopped[p] /\ pc[p] \notin {"top", "returned"} => cancelled
    /\ pc[p] = "after" /\ ~failed[p] /\ ~cancelled => ~preparing[p] /\ ~paused[p]
    /\ pc[p] \in Between /\ ran[p] /\ ~cancelled => ~preparing[p] /\ ~paused[p]

IInv ==
    /\ Typed /\ StartedInOrder
    /\ \A p \in Plugins : Started(p) /\ Cleared(p)

LEMMA InitIInv == Init => IInv
<1> SUFFICES ASSUME Init PROVE IInv
  OBVIOUS
<1> USE DEF Init
<1>1. Typed
  <2>1. next \in 1..N + 1
    BY WorkerAssumption
  <2>2. pc \in [Plugins -> Pcs]
    BY DEF Pcs
  <2>3. QED BY <2>1, <2>2 DEF Typed, Booleans
<1>2. StartedInOrder
  BY WorkerAssumption DEF StartedInOrder, Plugins
<1>3. ASSUME NEW p \in Plugins
      PROVE  Started(p) /\ Cleared(p)
  BY <1>3 DEF Started, Cleared, PickPcs, Between
<1>4. QED BY <1>1, <1>2, <1>3 DEF IInv

-----------------------------------------------------------------------------
(* Steps of one plugin.                                                     *)

\* What a step of plugin p leaves alone: main, and the variables of others.
Others(p) ==
    /\ main' = main /\ next' = next
    /\ quit' \in BOOLEAN /\ cancelled' \in BOOLEAN /\ (cancelled => cancelled')
    /\ pc' \in [Plugins -> Pcs]
    /\ initial' \in Booleans /\ stopped' \in Booleans /\ ran' \in Booleans
    /\ preparing' \in Booleans /\ paused' \in Booleans /\ failed' \in Booleans
    /\ \A q \in Plugins \ {p} :
          /\ pc'[q] = pc[q] /\ initial'[q] = initial[q] /\ stopped'[q] = stopped[q]
          /\ ran'[q] = ran[q] /\ preparing'[q] = preparing[q]
          /\ paused'[q] = paused[q] /\ failed'[q] = failed[q]
    /\ initial[p] => initial'[p]

LEMMA PluginKeepsIInv ==
    ASSUME IInv, NEW p \in Plugins, Others(p), Started(p)', Cleared(p)'
    PROVE  IInv'
<1>1. Typed' /\ StartedInOrder'
  BY DEF IInv, Typed, StartedInOrder, Others
<1>2. ASSUME NEW q \in Plugins, q # p
      PROVE  Started(q)' /\ Cleared(q)'
  BY <1>2 DEF IInv, Others, Started, Cleared
<1>3. QED BY <1>1, <1>2 DEF IInv

LEMMA LoopKeepsIInv ==
    ASSUME IInv, NEW p \in Plugins, Loop(p)
    PROVE  IInv'
<1> USE DEF IInv, Typed, Booleans, Mark, Goto, Others, Started, Cleared, Between,
            worker, flags, run, Pcs, LoopPcs, RunPcs, PickPcs, Canceled
<1>1. Others(p) /\ Started(p)' /\ Cleared(p)'
  <2>1. CASE LeaveLoop(p)
    BY <2>1 DEF LeaveLoop
  <2>2. CASE BeginRound(p)
    BY <2>2 DEF BeginRound
  <2>3. CASE NoneIsPaused(p)
    BY <2>3 DEF NoneIsPaused
  <2>4. CASE SiblingIsPreparing(p)
    BY <2>4 DEF SiblingIsPreparing
  <2>5. CASE NoSiblingIsPreparing(p)
    BY <2>5 DEF NoSiblingIsPreparing
  <2>6. CASE RunFailed(p)
    BY <2>6 DEF RunFailed
  <2>7. CASE RunReturned(p)
    BY <2>7 DEF RunReturned
  <2>8. QED BY <2>1, <2>2, <2>3, <2>4, <2>5, <2>6, <2>7 DEF Loop
<1>2. QED BY <1>1, PluginKeepsIInv
LEMMA RunKeepsIInv ==
    ASSUME IInv, NEW p \in Plugins, Run(p)
    PROVE  IInv'
<1> USE DEF IInv, Typed, Booleans, Mark, Goto, Others, Started, Cleared, Between,
            worker, flags, run, Pcs, LoopPcs, RunPcs, PickPcs, Canceled,
            Handlers, Return, Watch, Obtaining, Forget
<1>1. Others(p) /\ Started(p)' /\ Cleared(p)'
  <2>1. CASE ReceiverStarts(p)
    BY <2>1 DEF ReceiverStarts
  <2>2. CASE ReceiverFails(p)
    BY <2>2 DEF ReceiverFails
  <2>3. CASE ReceiverStops(p)
    BY <2>3 DEF ReceiverStops
  <2>4. CASE Prepare(p)
    BY <2>4 DEF Prepare
  <2>5. CASE SkipRun(p)
    BY <2>5 DEF SkipRun
  <2>6. CASE SetupFails(p)
    BY <2>6 DEF SetupFails
  <2>7. CASE StartChecker(p)
    BY <2>7 DEF StartChecker
  <2>8. CASE EndAtFirstCheck(p)
    BY <2>8 DEF EndAtFirstCheck
  <2>9. CASE ResumeWatching(p)
    BY <2>9 DEF ResumeWatching
  <2>10. CASE FinalizeCleanup(p)
    BY <2>10 DEF FinalizeCleanup
  <2>11. CASE PickNothing(p)
    BY <2>11 DEF PickNothing
  <2>12. CASE PickFails(p)
    BY <2>12 DEF PickFails
  <2>13. CASE PickJob(p)
    BY <2>13 DEF PickJob
  <2>14. CASE ClaimedIsCanceled(p)
    BY <2>14 DEF ClaimedIsCanceled
  <2>15. CASE DropClaim(p)
    BY <2>15 DEF DropClaim
  <2>16. CASE ClaimedIsRunning(p)
    BY <2>16 DEF ClaimedIsRunning
  <2>17. CASE RetryIsRunning(p)
    BY <2>17 DEF RetryIsRunning
  <2>18. CASE AwaitResources(p)
    BY <2>18 DEF AwaitResources
  <2>19. CASE StopAwaiting(p)
    <3>1. /\ pc[p] = "short" /\ pc' = [pc EXCEPT ![p] = "ending"]
          /\ paused' = [paused EXCEPT ![p] = FALSE]
          /\ UNCHANGED <<main, next, cancelled, quit, stopped, ran, initial, preparing>>
      BY <2>19 DEF StopAwaiting
    <3>2. failed' \in Booleans /\ \A q \in Plugins \ {p} : failed'[q] = failed[q]
      BY <2>19 DEF StopAwaiting
    <3>3. Others(p)
      BY <3>1, <3>2
    <3>4. QED BY <3>1, <3>3
  <2>20. CASE ObtainFails(p)
    BY <2>20 DEF ObtainFails
  <2>21. CASE ObtainIsCanceled(p)
    BY <2>21 DEF ObtainIsCanceled
  <2>22. CASE ObtainVM(p)
    BY <2>22 DEF ObtainVM
  <2>23. CASE StartRunner(p)
    BY <2>23 DEF StartRunner
  <2>24. CASE EndWatch(p)
    BY <2>24 DEF EndWatch
  <2>25. CASE WatchFails(p)
    BY <2>25 DEF WatchFails
  <2>26. CASE CleanUp(p)
    BY <2>26 DEF CleanUp
  <2>27. QED BY <2>1, <2>2, <2>3, <2>4, <2>5, <2>6, <2>7, <2>8, <2>9, <2>10,
            <2>11, <2>12, <2>13, <2>14, <2>15, <2>16, <2>17, <2>18, <2>19,
            <2>20, <2>21, <2>22, <2>23, <2>24, <2>25, <2>26 DEF Run
<1>2. QED BY <1>1, PluginKeepsIInv

\* The checker, the job and the goroutine that passes on the cancellation.
LEMMA BesideKeepsIInv ==
    ASSUME IInv, NEW p \in Plugins,
           PassOnCancel(p) \/ Checker(p) \/ CheckerFails(p) \/ JobEnds(p)
    PROVE  IInv'
<1> USE DEF IInv, Typed, Booleans, Mark, Others, Started, Cleared, Between,
            worker, flags, run
<1>1. Others(p) /\ Started(p)' /\ Cleared(p)'
  <2>1. CASE PassOnCancel(p)
    BY <2>1 DEF PassOnCancel
  <2>2. CASE Checker(p)
    BY <2>2 DEF Checker, CheckerPasses, CheckerSeesEnd, CheckerEnds, EndChecker
  <2>3. CASE CheckerFails(p)
    BY <2>3 DEF CheckerFails, EndChecker
  <2>4. CASE JobEnds(p)
    BY <2>4 DEF JobEnds
  <2>5. QED BY <2>1, <2>2, <2>3, <2>4
<1>2. QED BY <1>1, PluginKeepsIInv

-----------------------------------------------------------------------------
(* Steps of main and of the signals.                                        *)

LEMMA EndProcessKeepsIInv ==
    ASSUME IInv, EndProcess, next' = next, cancelled' = cancelled, quit' = quit
    PROVE  IInv'
<1> USE DEF EndProcess
<1>1. Typed'
  BY DEF IInv, Typed, Booleans, Pcs
<1>2. StartedInOrder'
  BY DEF StartedInOrder
<1>3. ASSUME NEW p \in Plugins
      PROVE  Started(p)' /\ Cleared(p)'
  BY <1>3 DEF Started, Cleared, PickPcs, Between
<1>4. QED BY <1>1, <1>2, <1>3 DEF IInv

\* The plugin that is started has not run, and the one before it has finished
\* its initial run.
LEMMA StartPluginKeepsIInv ==
    ASSUME IInv, StartPlugin
    PROVE  IInv'
<1> USE DEF StartPlugin, Goto
<1>1. /\ next \in Plugins /\ next' = next + 1 /\ next \in 1..N
      /\ main = "starting" /\ main' = main
      /\ initial' = initial /\ stopped' = stopped /\ ran' = ran
      /\ preparing' = preparing /\ failed' = failed /\ cancelled' = cancelled
      /\ quit' = quit
  BY DEF Plugins, run
<1>2. Typed'
  BY <1>1, WorkerAssumption DEF IInv, Typed, Booleans, Pcs, LoopPcs
<1>3. StartedInOrder'
  <2>1. ASSUME NEW q \in Plugins, q + 1 < next'
        PROVE  initial[q]
    <3>1. CASE q + 1 < next
      BY <1>1, <3>1 DEF IInv, StartedInOrder
    <3>2. CASE ~(q + 1 < next)
      BY <1>1, <2>1, <3>2 DEF Plugins
    <3>3. QED BY <3>1, <3>2
  <2>2. QED BY <1>1, <2>1 DEF StartedInOrder
<1>4. ASSUME NEW p \in Plugins
      PROVE  Started(p)' /\ Cleared(p)'
  <2>1. CASE p = next
    <3>1. pc[p] = "off" /\ ~ran[p] /\ ~stopped[p]
      BY <1>1, <2>1 DEF IInv, Started
    <3>2. pc'[p] = "top"
      BY <2>1, <1>1 DEF IInv, Typed
    <3>3. QED BY <1>1, <2>1, <3>1, <3>2 DEF Started, Cleared, PickPcs, Between
  <2>2. CASE p # next
    <3>1. pc'[p] = pc[p] /\ paused'[p] = paused[p]
      BY <2>2 DEF IInv, Typed, Booleans
    <3>2. p < next => p < next'
      BY <1>1 DEF Plugins
    <3>3. QED BY <1>1, <3>1, <3>2 DEF IInv, Started, Cleared, PickPcs, Between
  <2>3. QED BY <2>1, <2>2
<1>5. QED BY <1>2, <1>3, <1>4 DEF IInv

\* The other steps of main, and the first interrupt.
LEMMA SameKeepsIInv ==
    ASSUME IInv, main # "exited", main' # "exited", next' = next,
           UNCHANGED <<pc, stopped, ran, flags, failed>>,
           quit' \in BOOLEAN, cancelled' \in BOOLEAN, cancelled => cancelled'
    PROVE  IInv'
  BY DEF IInv, Typed, StartedInOrder, Started, Cleared, flags

LEMMA MainKeepsIInv ==
    ASSUME IInv, Main \/ Quit \/ Interrupt
    PROVE  IInv'
<1> USE DEF run, IInv, Typed
<1>1. CASE StartPlugin
  BY <1>1, StartPluginKeepsIInv
<1>2. CASE StopStarting
  BY <1>2, SameKeepsIInv DEF StopStarting
<1>3. CASE AllStarted
  BY <1>3, SameKeepsIInv DEF AllStarted
<1>4. CASE AllReturned
  BY <1>4, SameKeepsIInv DEF AllReturned
<1>5. CASE Exit
  BY <1>5, EndProcessKeepsIInv DEF Exit
<1>6. CASE Quit
  BY <1>6, SameKeepsIInv DEF Quit
<1>7. CASE Interrupt
  <2>1. CASE interrupts = 0
    BY <1>7, <2>1, SameKeepsIInv DEF Interrupt
  <2>2. CASE interrupts # 0
    BY <1>7, <2>2, EndProcessKeepsIInv DEF Interrupt
  <2>3. QED BY <2>1, <2>2
<1>8. QED BY <1>1, <1>2, <1>3, <1>4, <1>5, <1>6, <1>7 DEF Main

LEMMA NextKeepsIInv == IInv /\ [Next]_vars => IInv'
<1> SUFFICES ASSUME IInv, [Next]_vars PROVE IInv'
  OBVIOUS
<1>1. CASE Main \/ Quit \/ Interrupt
  BY <1>1, MainKeepsIInv
<1>2. ASSUME NEW p \in Plugins,
             Plugin(p) \/ PassOnCancel(p) \/ Checker(p) \/ CheckerFails(p) \/ JobEnds(p)
      PROVE  IInv'
  BY <1>2, LoopKeepsIInv, RunKeepsIInv, BesideKeepsIInv DEF Plugin
<1>3. CASE UNCHANGED vars
  BY <1>3 DEF vars, worker, flags, run, IInv, Typed, StartedInOrder, Started, Cleared
<1>4. QED BY <1>1, <1>2, <1>3 DEF Next

-----------------------------------------------------------------------------

\* Plugins start one by one in the order of the config, and a handler looks
\* for jobs only after its own initial run and those of all plugins before it
\* (the loop over the plugins in worker, the deferred function of Run).
THEOREM StartsInOrder == Spec => []InOrder
<1>1. IInv => InOrder
  <2> SUFFICES ASSUME IInv, NEW p \in Plugins, NEW q \in Plugins,
                      (pc[p] # "off" /\ q < p) \/ (pc[p] \in PickPcs /\ q = p)
               PROVE  initial[q]
    BY DEF InOrder
  <2>1. CASE pc[p] # "off" /\ q < p
    <3>1. main # "exited" /\ p < next
      BY <2>1 DEF IInv, Started
    <3>2. q + 1 < next
      BY <2>1, <3>1 DEF Plugins, IInv, Typed
    <3>3. QED BY <3>1, <3>2 DEF IInv, StartedInOrder
  <2>2. CASE pc[p] \in PickPcs /\ q = p
    BY <2>2 DEF IInv, Started
  <2>3. QED BY <2>1, <2>2
<1>2. QED BY <1>1, InitIInv, NextKeepsIInv, PTL DEF Spec

\* A plugin between two runs holds nobody up: its flags Preparing and Paused
\* are cleared (the deferred functions of Run), until the worker is cancelled.
THEOREM FlagsAreCleared == Spec => []FlagsCleared
<1>1. IInv => FlagsCleared
  BY DEF IInv, Cleared, FlagsCleared, Between
<1>2. QED BY <1>1, InitIInv, NextKeepsIInv, PTL DEF Spec

-----------------------------------------------------------------------------
(* The types, and the checker of a handler that is in a run.                *)

NeedsChecker == PickPcs \cup {"first", "watching", "ending"}

\* What a step of plugin p leaves alone or keeps well typed.
OthersTyped(p) ==
    /\ UNCHANGED <<receivers, main, next, interrupts>>
    /\ cancelled' \in BOOLEAN /\ quit' \in BOOLEAN
    /\ pc' \in [Plugins -> Pcs]
    /\ stopped' \in Booleans /\ ran' \in Booleans /\ initial' \in Booleans
    /\ preparing' \in Booleans /\ paused' \in Booleans /\ failed' \in Booleans
    /\ checker' \in [Plugins -> {"none", "checking", "ended"}]
    /\ checked' \in Booleans /\ told' \in Booleans
    /\ job' \in [Plugins -> {"none", "running", "over", "seen"}]
    /\ \A q \in Plugins \ {p} : pc'[q] = pc[q] /\ checker'[q] = checker[q]
    /\ pc'[p] \in NeedsChecker => checker'[p] # "none"

LEMMA PluginKeepsTypes ==
    ASSUME TypeOK, NEW p \in Plugins, OthersTyped(p)
    PROVE  TypeOK'
<1>1. ASSUME NEW q \in Plugins
      PROVE  pc'[q] \in NeedsChecker => checker'[q] # "none"
  BY <1>1 DEF TypeOK, OthersTyped, NeedsChecker
<1>2. QED BY <1>1 DEF TypeOK, OthersTyped, NeedsChecker, Booleans

LEMMA LoopKeepsTypes ==
    ASSUME TypeOK, NEW p \in Plugins, Loop(p)
    PROVE  TypeOK'
<1> USE DEF TypeOK, Booleans, Mark, Goto, OthersTyped, NeedsChecker,
            worker, flags, run, Pcs, LoopPcs, RunPcs, PickPcs
<1>1. OthersTyped(p)
  <2>1. CASE LeaveLoop(p)
    BY <2>1 DEF LeaveLoop
  <2>2. CASE BeginRound(p)
    BY <2>2 DEF BeginRound
  <2>3. CASE NoneIsPaused(p)
    BY <2>3 DEF NoneIsPaused
  <2>4. CASE SiblingIsPreparing(p)
    BY <2>4 DEF SiblingIsPreparing
  <2>5. CASE NoSiblingIsPreparing(p)
    BY <2>5 DEF NoSiblingIsPreparing
  <2>6. CASE RunFailed(p)
    BY <2>6 DEF RunFailed
  <2>7. CASE RunReturned(p)
    BY <2>7 DEF RunReturned
  <2>8. QED BY <2>1, <2>2, <2>3, <2>4, <2>5, <2>6, <2>7 DEF Loop
<1>2. QED BY <1>1, PluginKeepsTypes

LEMMA RunKeepsTypes ==
    ASSUME TypeOK, NEW p \in Plugins, Run(p)
    PROVE  TypeOK'
<1> USE DEF TypeOK, Booleans, Mark, Goto, OthersTyped, NeedsChecker,
            worker, flags, run, Pcs, LoopPcs, RunPcs, PickPcs,
            Return, Watch, Obtaining, Forget
<1>1. OthersTyped(p)
  <2>1. CASE ReceiverStarts(p)
    BY <2>1 DEF ReceiverStarts
  <2>2. CASE ReceiverFails(p)
    BY <2>2 DEF ReceiverFails
  <2>3. CASE ReceiverStops(p)
    BY <2>3 DEF ReceiverStops
  <2>4. CASE Prepare(p)
    BY <2>4 DEF Prepare
  <2>5. CASE SkipRun(p)
    BY <2>5 DEF SkipRun
  <2>6. CASE SetupFails(p)
    BY <2>6 DEF SetupFails
  <2>7. CASE StartChecker(p)
    BY <2>7 DEF StartChecker
  <2>8. CASE EndAtFirstCheck(p)
    BY <2>8 DEF EndAtFirstCheck
  <2>9. CASE ResumeWatching(p)
    BY <2>9 DEF ResumeWatching
  <2>10. CASE FinalizeCleanup(p)
    BY <2>10 DEF FinalizeCleanup
  <2>11. CASE PickNothing(p)
    BY <2>11 DEF PickNothing
  <2>12. CASE PickFails(p)
    BY <2>12 DEF PickFails
  <2>13. CASE PickJob(p)
    BY <2>13 DEF PickJob
  <2>14. CASE ClaimedIsCanceled(p)
    BY <2>14 DEF ClaimedIsCanceled
  <2>15. CASE DropClaim(p)
    BY <2>15 DEF DropClaim
  <2>16. CASE ClaimedIsRunning(p)
    BY <2>16 DEF ClaimedIsRunning
  <2>17. CASE RetryIsRunning(p)
    BY <2>17 DEF RetryIsRunning
  <2>18. CASE AwaitResources(p)
    BY <2>18 DEF AwaitResources
  <2>19. CASE StopAwaiting(p)
    BY <2>19 DEF StopAwaiting
  <2>20. CASE ObtainFails(p)
    BY <2>20 DEF ObtainFails
  <2>21. CASE ObtainIsCanceled(p)
    BY <2>21 DEF ObtainIsCanceled
  <2>22. CASE ObtainVM(p)
    BY <2>22 DEF ObtainVM
  <2>23. CASE StartRunner(p)
    BY <2>23 DEF StartRunner
  <2>24. CASE EndWatch(p)
    BY <2>24 DEF EndWatch
  <2>25. CASE WatchFails(p)
    BY <2>25 DEF WatchFails
  <2>26. CASE CleanUp(p)
    BY <2>26 DEF CleanUp
  <2>27. QED BY <2>1, <2>2, <2>3, <2>4, <2>5, <2>6, <2>7, <2>8, <2>9, <2>10,
            <2>11, <2>12, <2>13, <2>14, <2>15, <2>16, <2>17, <2>18, <2>19,
            <2>20, <2>21, <2>22, <2>23, <2>24, <2>25, <2>26 DEF Run
<1>2. QED BY <1>1, PluginKeepsTypes

LEMMA BesideKeepsTypes ==
    ASSUME TypeOK, NEW p \in Plugins,
           PassOnCancel(p) \/ Checker(p) \/ CheckerFails(p) \/ JobEnds(p)
    PROVE  TypeOK'
<1> USE DEF TypeOK, Booleans, Mark, OthersTyped, NeedsChecker, worker, flags, run
<1>1. OthersTyped(p)
  <2>1. CASE PassOnCancel(p)
    BY <2>1 DEF PassOnCancel
  <2>2. CASE CheckerPasses(p)
    BY <2>2 DEF CheckerPasses
  <2>3. CASE CheckerSeesEnd(p)
    BY <2>3 DEF CheckerSeesEnd
  <2>4. CASE EndChecker(p)
    BY <2>4 DEF EndChecker
  <2>5. CASE JobEnds(p)
    BY <2>5 DEF JobEnds
  <2>6. QED BY <2>1, <2>2, <2>3, <2>4, <2>5 DEF Checker, CheckerEnds, CheckerFails
<1>2. QED BY <1>1, PluginKeepsTypes

LEMMA EndProcessKeepsTypes ==
    ASSUME TypeOK, EndProcess, UNCHANGED <<receivers, next, quit>>,
           cancelled' \in BOOLEAN, interrupts' \in 0..2
    PROVE  TypeOK'
  BY DEF TypeOK, EndProcess, Pcs, PickPcs

LEMMA MainKeepsTypes ==
    ASSUME TypeOK, Main \/ Quit \/ Interrupt
    PROVE  TypeOK'
<1> USE DEF flags, run
<1>1. CASE StartPlugin
  <2>1. next' \in 1..N + 1
    BY <1>1, WorkerAssumption DEF StartPlugin, TypeOK, Plugins
  <2>2. /\ pc' = [pc EXCEPT ![next] = "top"]
        /\ paused' \in [Plugins -> BOOLEAN]
        /\ UNCHANGED <<receivers, main, cancelled, quit, interrupts, stopped, ran,
                       initial, preparing, failed, checker, checked, told, job>>
    BY <1>1 DEF StartPlugin, Goto, TypeOK
  <2>3. pc' \in [Plugins -> Pcs]
    BY <2>2 DEF TypeOK, Pcs, LoopPcs
  <2>4. ASSUME NEW q \in Plugins
        PROVE  pc'[q] \in NeedsChecker => checker'[q] # "none"
    BY <2>2, <2>4 DEF TypeOK, NeedsChecker, PickPcs
  <2>5. QED BY <2>1, <2>2, <2>3, <2>4 DEF TypeOK, NeedsChecker
<1>2. CASE StopStarting
  BY <1>2 DEF StopStarting, TypeOK
<1>3. CASE AllStarted
  BY <1>3 DEF AllStarted, TypeOK
<1>4. CASE AllReturned
  BY <1>4 DEF AllReturned, TypeOK
<1>5. CASE Exit
  BY <1>5, EndProcessKeepsTypes DEF Exit, TypeOK
<1>6. CASE Quit
  BY <1>6 DEF Quit, TypeOK
<1>7. CASE Interrupt
  <2>1. interrupts' \in 0..2
    BY <1>7 DEF Interrupt, TypeOK
  <2>2. CASE interrupts = 0
    BY <1>7, <2>1, <2>2 DEF Interrupt, TypeOK
  <2>3. CASE interrupts # 0
    BY <1>7, <2>1, <2>3, EndProcessKeepsTypes DEF Interrupt, TypeOK
  <2>4. QED BY <2>2, <2>3
<1>8. QED BY <1>1, <1>2, <1>3, <1>4, <1>5, <1>6, <1>7 DEF Main

\* Every handler between the start of its checker and its cleanup has a checker
\* to wait for (the wait group of Run), besides the types of the variables.
THEOREM WorkerTypesCorrect == Spec => []TypeOK
<1>1. Init => TypeOK
  <2> SUFFICES ASSUME Init PROVE TypeOK
    OBVIOUS
  <2>1. receivers \in SUBSET Plugins /\ next \in 1..N + 1
    BY WorkerAssumption DEF Init
  <2>2. pc \in [Plugins -> Pcs]
    BY DEF Init, Pcs
  <2>3. ASSUME NEW p \in Plugins
        PROVE  pc[p] \notin PickPcs \cup {"first", "watching", "ending"}
    BY <2>3 DEF Init, PickPcs
  <2>4. /\ stopped \in [Plugins -> BOOLEAN] /\ ran \in [Plugins -> BOOLEAN]
        /\ initial \in [Plugins -> BOOLEAN]
        /\ preparing \in [Plugins -> BOOLEAN] /\ paused \in [Plugins -> BOOLEAN]
        /\ failed \in [Plugins -> BOOLEAN]
    BY DEF Init
  <2>5. /\ checker \in [Plugins -> {"none", "checking", "ended"}]
        /\ checked \in [Plugins -> BOOLEAN] /\ told \in [Plugins -> BOOLEAN]
        /\ job \in [Plugins -> {"none", "running", "over", "seen"}]
    BY DEF Init
  <2>6. main \in {"starting", "waiting", "leaving", "exited"} /\ interrupts = 0
    BY DEF Init
  <2>7. cancelled \in BOOLEAN /\ quit \in BOOLEAN
    BY DEF Init
  <2>8. QED BY <2>1, <2>2, <2>3, <2>4, <2>5, <2>6, <2>7 DEF TypeOK
<1>2. TypeOK /\ [Next]_vars => TypeOK'
  <2> SUFFICES ASSUME TypeOK, [Next]_vars PROVE TypeOK'
    OBVIOUS
  <2>1. CASE Main \/ Quit \/ Interrupt
    BY <2>1, MainKeepsTypes
  <2>2. ASSUME NEW p \in Plugins,
               Plugin(p) \/ PassOnCancel(p) \/ Checker(p) \/ CheckerFails(p) \/ JobEnds(p)
        PROVE  TypeOK'
    BY <2>2, LoopKeepsTypes, RunKeepsTypes, BesideKeepsTypes DEF Plugin
  <2>3. CASE UNCHANGED vars
    BY <2>3 DEF vars, worker, flags, run, TypeOK
  <2>4. QED BY <2>1, <2>2, <2>3 DEF Next
<1>3. QED BY <1>1, <1>2, PTL DEF Spec
=============================================================================
