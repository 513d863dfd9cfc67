--------------------------- MODULE TemplateStore ---------------------------
(***************************************************************************)
(* The VM templates of one host.  Each handler plugin, before it clones a  *)
(* VM, ensures that its job's template is on the host: it asks Anka for    *)
(* the local copy, makes room by deleting the least used templates, pulls, *)
(* and keeps a TemplateTracker that all plugins of the worker share.  The  *)
(* plugins of a host are kept apart only by their Preparing flags, which   *)
(* the worker loop reads and Run sets later.                               *)
(*                                                                         *)
(* Abstracted: sizes are small numbers, a template has an old and a new    *)
(* tag, time is the number of runs started.  The field InUse is left out:  *)
(* SetTemplateInUse has no caller, so it is always false.  VMs take no     *)
(* space.                                                                  *)
(***************************************************************************)
EXTENDS Naturals, Sequences, FiniteSets, SequencesExt

CONSTANTS
    Plugins,             \* handler plugins of the host
    Templates, None,
    Published,           \* templates in the registry, with both tags
    OldSize, NewSize,    \* template -> bytes of its tags
    Overlap,             \* template -> what Anka reports as cached of the other tag
    DiskSize, BufferSize,
    MaxRuns, MaxFaults   \* bounds: runs started, commands that fail

Usage == [size : Nat, count : Nat, accessed : Nat, pulling : BOOLEAN]

ASSUME StoreAssumption ==
    /\ IsFiniteSet(Templates) /\ None \notin Templates /\ None \notin Usage
    /\ Published \subseteq Templates
    /\ OldSize \in [Templates -> Nat \ {0}] /\ NewSize \in [Templates -> Nat \ {0}]
    /\ Overlap \in [Templates -> Nat]
    /\ DiskSize \in Nat /\ BufferSize \in Nat
    /\ MaxRuns \in Nat /\ MaxFaults \in Nat

VARIABLES
    store,      \* template -> its tag on the host, or "none" (external: Anka)
    accessed,   \* template -> when a VM was last cloned from it (external: Anka)
    tracker,    \* TemplateTracker.Templates: template -> usage, or None
    discovered, \* the last discovery of the templates on the host succeeded
    preparing,  \* plugin -> its Preparing flag
    pc,
    want, tag,  \* the template and tag of the plugin's job
    lru,        \* templates the plugin still may delete, head first
    tried,      \* templates it has tried to delete
    result,     \* what EnsureVMTemplateExists returned
    runs, faults

disk == <<store, accessed>>
job == <<want, tag>>
vars == <<disk, tracker, discovered, preparing, pc, job, lru, tried, result, runs, faults>>

Tags == {"old", "new"}
Tracks(t) == tracker[t] # None

SizeOf(t, v) == CASE v = "old" -> OldSize[t] [] v = "new" -> NewSize[t] [] OTHER -> 0
Available ==
    LET used == SumFunction([t \in Templates |-> SizeOf(t, store[t])])
    IN IF used < DiskSize THEN DiskSize - used ELSE 0

-----------------------------------------------------------------------------
(* TemplateTracker.                                                         *)

\* A size that could not be read is 0 and does not replace the one known.
Updated(t, size, now) ==
    IF Tracks(t)
    THEN [tracker[t] EXCEPT !.accessed = now, !.count = @ + 1,
                            !.size = IF size > 0 THEN size ELSE @]
    ELSE [size |-> size, count |-> 1, accessed |-> now, pulling |-> FALSE]
UpdateTemplateUsage(t, size, now) == tracker' = [tracker EXCEPT ![t] = Updated(t, size, now)]

SetTemplatePulling(t) ==
    tracker' = [tracker EXCEPT ![t] =
        IF Tracks(t) THEN [@ EXCEPT !.pulling = TRUE]
        ELSE [size |-> 0, count |-> 0, accessed |-> runs, pulling |-> TRUE]]

\* Variant for NoStuckPull: the flag is cleared only after a successful pull.
MutantClearPulling(t) == UNCHANGED tracker
ClearPulling(t) ==
    tracker' = [tracker EXCEPT ![t] = IF Tracks(t) THEN [@ EXCEPT !.pulling = FALSE] ELSE @]

RemoveTemplate(t) == tracker' = [tracker EXCEPT ![t] = None]
HasPullingTemplates == \E t \in Templates : Tracks(t) /\ tracker[t].pulling

\* GetLeastRecentlyUsedTemplates exchanges the elements of every pair of
\* positions that is out of order: one pass for each i, over the j after it.
OutOfOrder(s, t) ==
    \/ tracker[s].count > tracker[t].count
    \/ tracker[s].count = tracker[t].count /\ tracker[s].accessed > tracker[t].accessed
Exchange(seq, i, j) ==
    IF OutOfOrder(seq[i], seq[j]) THEN [seq EXCEPT ![i] = seq[j], ![j] = seq[i]] ELSE seq
\* Variant for LeastUsedFirst: the inner loop ends one index too early.
MutantPass(seq, i) ==
    LET after[j \in i..Len(seq)] ==
            IF j = i THEN seq ELSE Exchange(after[j - 1], i, j)
    IN after[IF i < Len(seq) THEN Len(seq) - 1 ELSE i]
Pass(seq, i) ==
    LET after[j \in i..Len(seq)] ==
            IF j = i THEN seq ELSE Exchange(after[j - 1], i, j)
    IN after[Len(seq)]
Sorted(seq) ==
    LET passes[i \in 0..Len(seq)] == IF i = 0 THEN seq ELSE Pass(passes[i - 1], i)
    IN passes[Len(seq)]
\* The map is read in any order.
LeastRecentlyUsed ==
    {Sorted(s) : s \in SetToSeqs({t \in Templates : Tracks(t) /\ ~tracker[t].pulling})}

\* DiscoverAndPopulateExistingTemplates, at the start of the worker: a template
\* is tracked with no size if that cannot be read (sized), and as used just now
\* if it cannot be shown (shown).
Discovered(sized, shown) ==
    [t \in Templates |->
        IF store[t] = "none" THEN None
        ELSE [size |-> IF t \in sized THEN SizeOf(t, store[t]) ELSE 0, count |-> 0,
              accessed |-> IF t \in shown THEN accessed[t] ELSE runs, pulling |-> FALSE]]

Init ==
    /\ store \in [Templates -> Tags \cup {"none"}]
    /\ SumFunction([t \in Templates |-> SizeOf(t, store[t])]) <= DiskSize
    /\ accessed \in [Templates -> 0..1]
    /\ tracker = Discovered(Templates, Templates) /\ discovered = TRUE
    /\ preparing = [p \in Plugins |-> FALSE]
    /\ pc = [p \in Plugins |-> "idle"]
    /\ want = [p \in Plugins |-> None] /\ tag = [p \in Plugins |-> "latest"]
    /\ lru = [p \in Plugins |-> <<>>] /\ tried = [p \in Plugins |-> {}]
    /\ result = [p \in Plugins |-> "none"]
    /\ runs = 1 /\ faults = 0

Goto(p, l) == pc' = [pc EXCEPT ![p] = l]
Return(p, r) == result' = [result EXCEPT ![p] = r] /\ Goto(p, IF r = "ok" THEN "clone" ELSE "ended")
\* An Anka command that fails (bound MaxFaults).
Fault == faults < MaxFaults /\ faults' = faults + 1
NoFault == UNCHANGED faults
Failing(certain) == IF certain THEN NoFault ELSE Fault
Quiet == UNCHANGED <<disk, discovered, preparing, job, runs>>

-----------------------------------------------------------------------------
(* The worker loop and Run up to the template.                              *)

\* The loop goes on when no sibling is preparing ...
LoopPasses(p) ==
    /\ pc[p] = "idle" /\ runs < MaxRuns
    /\ \A q \in Plugins \ {p} : ~preparing[q]
    /\ Goto(p, "admitted")
    /\ runs' = runs + 1
    /\ UNCHANGED <<disk, tracker, discovered, preparing, job, lru, tried, result, faults>>

\* ... and Run says that this plugin does; then it takes a job.
RunPrepares(p) ==
    /\ pc[p] = "admitted"
    /\ preparing' = [preparing EXCEPT ![p] = TRUE]
    /\ \E t \in Templates, v \in Tags \cup {"latest"} :
          want' = [want EXCEPT ![p] = t] /\ tag' = [tag EXCEPT ![p] = v]
    /\ lru' = [lru EXCEPT ![p] = <<>>]
    /\ tried' = [tried EXCEPT ![p] = {}]
    /\ result' = [result EXCEPT ![p] = "none"]
    /\ Goto(p, "list")
    /\ UNCHANGED <<disk, tracker, discovered, runs, faults>>

\* Cleanup ends the run of a job that got no VM.
RunEnds(p) ==
    /\ pc[p] \in {"ended", "running"}
    /\ preparing' = [preparing EXCEPT ![p] = FALSE]
    /\ Goto(p, "idle")
    /\ UNCHANGED <<disk, tracker, discovered, job, lru, tried, result, runs, faults>>

-----------------------------------------------------------------------------
(* EnsureVMTemplateExists.                                                  *)

T(p) == want[p]
Version(p) == IF tag[p] = "latest" THEN "new" ELSE tag[p]
\* The latest tag is always pulled.
PullNeeded(p) == store[T(p)] = "none" \/ tag[p] = "latest" \/ store[T(p)] # tag[p]

\* anka list of the template.  When it fails the registry is asked, and a
\* template that the registry shows is pulled.
ListTemplate(p) ==
    /\ pc[p] = "list"
    /\ \/ store[T(p)] # "none" /\ Goto(p, IF PullNeeded(p) THEN "check" ELSE "use") /\ NoFault
       \/ /\ Failing(store[T(p)] = "none")
          /\ T(p) \in Published /\ Goto(p, "check")
    /\ Quiet /\ UNCHANGED <<tracker, lru, tried, result>>

ListFails(p) ==
    /\ pc[p] = "list"
    /\ Failing(T(p) \notin Published /\ store[T(p)] = "none")
    /\ Return(p, "error")
    /\ Quiet /\ UNCHANGED <<tracker, lru, tried>>

\* The local copy will do: its size and access date are read again.
UseLocal(p) ==
    /\ pc[p] = "use"
    /\ \/ UpdateTemplateUsage(T(p), SizeOf(T(p), store[T(p)]), accessed[T(p)]) /\ NoFault
       \/ UpdateTemplateUsage(T(p), 0, runs) /\ Fault
    /\ Return(p, "ok")
    /\ Quiet /\ UNCHANGED <<lru, tried>>

CheckPulling(p) ==
    /\ pc[p] = "check"
    /\ IF HasPullingTemplates THEN Return(p, "busy") ELSE Goto(p, "space") /\ UNCHANGED result
    /\ Quiet /\ UNCHANGED <<tracker, lru, tried, faults>>

-----------------------------------------------------------------------------
(* EnsureSpaceForTemplate.                                                  *)

\* anka pull --check-download-size; the answer for a template that is there
\* already is empty.
Here(p) == store[T(p)] = Version(p)
CheckAnswers(p) == Here(p) \/ T(p) \in Published
TotalSize(p) == IF Here(p) THEN 0 ELSE SizeOf(T(p), Version(p))
Cached(p) == IF store[T(p)] = "none" THEN 0 ELSE Overlap[T(p)]
DownloadSize(p) ==
    IF Cached(p) >= TotalSize(p) THEN 0 ELSE TotalSize(p) - Cached(p)
\* Variant for BufferKept: the buffer is not kept free.
MutantUsableSpace == Available
UsableSpace == IF Available > BufferSize THEN Available - BufferSize ELSE 0
EnoughSpace(p) == UsableSpace >= DownloadSize(p)

SpaceUnknown(p) ==
    /\ pc[p] \in {"space", "final"}
    /\ Failing(~CheckAnswers(p))
    /\ Return(p, "error")
    /\ Quiet /\ UNCHANGED <<tracker, lru, tried>>

SpaceSuffices(p) ==
    /\ pc[p] = "space" /\ CheckAnswers(p)
    /\ TotalSize(p) > 0 => TotalSize(p) < DiskSize /\ EnoughSpace(p)
    /\ Goto(p, "pull")
    /\ Quiet /\ UNCHANGED <<tracker, lru, tried, result, faults>>

\* Both loops over the list skip the template that is to be pulled.
Candidates(p, all) ==
    LET kept[i \in 0..Len(all)] ==
            IF i = 0 THEN <<>>
            ELSE IF all[i] = T(p) THEN kept[i - 1] ELSE Append(kept[i - 1], all[i])
    IN kept[Len(all)]
Freeable(p, all) == SumFunction([t \in ToSet(Candidates(p, all)) |-> tracker[t].size])
CountForCleanup(p, all) ==
    LET n == Len(all) IN IF Tracks(T(p)) /\ n > 0 THEN n - 1 ELSE n

\* Variant for NotInVain: the sum of the sizes is not compared.
MutantHopeless(p, all) ==
    \/ TotalSize(p) >= DiskSize
    \/ Available < BufferSize
    \/ CountForCleanup(p, all) = 0
Hopeless(p, all) ==
    \/ TotalSize(p) >= DiskSize
    \/ Available < BufferSize
    \/ CountForCleanup(p, all) = 0
    \/ UsableSpace + Freeable(p, all) < DownloadSize(p)

\* The tracker is read right after the answer of the command.
PlanCleanup(p) ==
    /\ pc[p] = "space" /\ CheckAnswers(p) /\ TotalSize(p) > 0
    /\ TotalSize(p) >= DiskSize \/ ~EnoughSpace(p)
    /\ \E all \in LeastRecentlyUsed :
          IF Hopeless(p, all)
          THEN Return(p, "space") /\ UNCHANGED lru
          ELSE /\ Goto(p, "delete") /\ UNCHANGED result
               /\ lru' = [lru EXCEPT ![p] = Candidates(p, all)]
    /\ Quiet /\ UNCHANGED <<tracker, tried, faults>>

\* AnkaDeleteTemplate of the next candidate: the command ...
Victim(p) == Head(lru[p])
\* Variant for TypeOK: the loop does not end with the list.
MutantNextCandidate(p) ==
    /\ lru' = [lru EXCEPT ![p] = Tail(@)]
    /\ Goto(p, "delete")
NextCandidate(p) ==
    /\ lru' = [lru EXCEPT ![p] = Tail(@)]
    /\ Goto(p, IF Len(lru[p]) = 1 THEN "final" ELSE "delete")

DeleteTemplate(p) ==
    /\ pc[p] = "delete" /\ store[Victim(p)] # "none"
    /\ store' = [store EXCEPT ![Victim(p)] = "none"]
    /\ tried' = [tried EXCEPT ![p] = @ \cup {Victim(p)}]
    /\ Goto(p, "untrack")
    /\ UNCHANGED <<accessed, tracker, discovered, preparing, job, lru, result, runs, faults>>

\* ... whose failure is logged, ...
DeleteFails(p) ==
    /\ pc[p] = "delete"
    /\ Failing(store[Victim(p)] = "none")
    /\ tried' = [tried EXCEPT ![p] = @ \cup {Victim(p)}]
    /\ NextCandidate(p)
    /\ Quiet /\ UNCHANGED <<tracker, result>>

\* Variant for Tracked: the tracker forgets the template that is pulled.
MutantUntrack(p) ==
    /\ pc[p] = "untrack"
    /\ RemoveTemplate(T(p))
    /\ Goto(p, "recheck")
    /\ Quiet /\ UNCHANGED <<lru, tried, result, faults>>
\* ... and the tracker.
Untrack(p) ==
    /\ pc[p] = "untrack"
    /\ RemoveTemplate(Victim(p))
    /\ Goto(p, "recheck")
    /\ Quiet /\ UNCHANGED <<lru, tried, result, faults>>

\* A re-check that fails, or finds too little, goes on with the next.
Recheck(p) ==
    /\ pc[p] = "recheck"
    /\ \/ CheckAnswers(p) /\ EnoughSpace(p) /\ NoFault
          /\ Goto(p, "final") /\ UNCHANGED lru
       \/ CheckAnswers(p) /\ ~EnoughSpace(p) /\ NoFault /\ NextCandidate(p)
       \/ Failing(~CheckAnswers(p)) /\ NextCandidate(p)
    /\ Quiet /\ UNCHANGED <<tracker, tried, result>>

FinalCheck(p) ==
    /\ pc[p] = "final" /\ CheckAnswers(p)
    /\ IF EnoughSpace(p) THEN Goto(p, "pull") /\ UNCHANGED result ELSE Return(p, "space")
    /\ Quiet /\ UNCHANGED <<tracker, lru, tried, faults>>

-----------------------------------------------------------------------------
(* AnkaRegistryPull.                                                        *)

StartPull(p) ==
    /\ pc[p] = "pull"
    /\ SetTemplatePulling(T(p))
    /\ Goto(p, "pulling")
    /\ Quiet /\ UNCHANGED <<lru, tried, result, faults>>

\* The pull with --shrink ends, and the template's size is read.
Pulled(p) ==
    /\ pc[p] = "pulling" /\ T(p) \in Published
    /\ store' = [store EXCEPT ![T(p)] = Version(p)]
    /\ tracker' = [tracker EXCEPT ![T(p)] =
          [Updated(T(p), SizeOf(T(p), Version(p)), runs) EXCEPT !.pulling = FALSE]]
    /\ Return(p, "ok")
    /\ UNCHANGED <<accessed, discovered, preparing, job, lru, tried, runs, faults>>

\* The pull is done but its size cannot be read, or the pull itself fails: in
\* either case AnkaRegistryPull returns nil and an error, and the nil is looked
\* at first.
PullFails(p) ==
    /\ pc[p] = "pulling"
    /\ Failing(T(p) \notin Published)
    /\ \/ UNCHANGED store
       \/ T(p) \in Published /\ store' = [store EXCEPT ![T(p)] = Version(p)]
    /\ ClearPulling(T(p))
    /\ Return(p, "missing")
    /\ UNCHANGED <<accessed, discovered, preparing, job, lru, tried, runs>>

\* The contexts are cancelled, before or after the end of the command:
\* EnsureVMTemplateExists returns no error, and Run ends because of the contexts.
PullCancelled(p) ==
    /\ pc[p] = "pulling" /\ Fault
    /\ \/ UNCHANGED store
       \/ T(p) \in Published /\ store' = [store EXCEPT ![T(p)] = Version(p)]
    /\ ClearPulling(T(p))
    /\ result' = [result EXCEPT ![p] = "ok"]
    /\ Goto(p, "ended")
    /\ UNCHANGED <<accessed, discovered, preparing, job, lru, tried, runs>>

-----------------------------------------------------------------------------
(* The VM.                                                                  *)

Clone(p) ==
    /\ pc[p] = "clone"
    /\ \/ /\ store[T(p)] # "none"
          /\ accessed' = [accessed EXCEPT ![T(p)] = runs]
          /\ preparing' = [preparing EXCEPT ![p] = FALSE]
          /\ Goto(p, "running") /\ NoFault
       \/ /\ Failing(store[T(p)] = "none")
          /\ Goto(p, "ended") /\ UNCHANGED <<accessed, preparing>>
    /\ UNCHANGED <<store, tracker, discovered, job, lru, tried, result, runs>>

\* The worker is killed and started again; a discovery that fails, or fails for
\* some templates, is logged.
WorkerRestarts ==
    /\ Fault
    /\ \/ /\ \E sized, shown \in SUBSET Templates : tracker' = Discovered(sized, shown)
          /\ discovered' = TRUE
       \/ tracker' = [t \in Templates |-> None] /\ discovered' = FALSE
    /\ preparing' = [p \in Plugins |-> FALSE]
    /\ pc' = [p \in Plugins |-> "idle"]
    /\ lru' = [p \in Plugins |-> <<>>] /\ tried' = [p \in Plugins |-> {}]
    /\ result' = [p \in Plugins |-> "none"]
    /\ UNCHANGED <<disk, job, runs>>

Plugin(p) ==
    \/ LoopPasses(p) \/ RunPrepares(p) \/ RunEnds(p)
    \/ ListTemplate(p) \/ ListFails(p) \/ UseLocal(p) \/ CheckPulling(p)
    \/ SpaceUnknown(p) \/ SpaceSuffices(p) \/ PlanCleanup(p)
    \/ DeleteTemplate(p) \/ DeleteFails(p) \/ Untrack(p) \/ Recheck(p) \/ FinalCheck(p)
    \/ StartPull(p) \/ Pulled(p) \/ PullFails(p) \/ PullCancelled(p)
    \/ Clone(p)

Next == WorkerRestarts \/ \E p \in Plugins : Plugin(p)

Spec == Init /\ [][Next]_vars

-----------------------------------------------------------------------------
(* Properties.                                                              *)

Pcs == {"idle", "admitted", "list", "use", "check", "space", "delete", "untrack",
        "recheck", "final", "pull", "pulling", "clone", "running", "ended"}
\* The types of the variables; a plugin that deletes has a template to delete,
\* and it is not the one it makes room for.
TypeOK ==
    /\ store \in [Templates -> Tags \cup {"none"}]
    /\ accessed \in [Templates -> Nat]
    /\ tracker \in [Templates -> Usage \cup {None}]
    /\ discovered \in BOOLEAN
    /\ preparing \in [Plugins -> BOOLEAN]
    /\ pc \in [Plugins -> Pcs]
    /\ want \in [Plugins -> Templates \cup {None}]
    /\ tag \in [Plugins -> Tags \cup {"latest"}]
    /\ lru \in [Plugins -> Seq(Templates)]
    /\ tried \in [Plugins -> SUBSET Templates]
    /\ result \in [Plugins -> {"none", "ok", "busy", "error", "space", "missing"}]
    /\ runs \in Nat /\ faults \in Nat
    /\ \A p \in Plugins :
          pc[p] \in {"delete", "untrack", "recheck"} => lru[p] # <<>> /\ Victim(p) # T(p)

\* A template is marked as being pulled only while a plugin pulls it, whatever
\* fails or is cancelled: a flag left behind would refuse every later pull on
\* the host (the deferred call in AnkaRegistryPull).
NoStuckPull ==
    \A t \in Templates :
        Tracks(t) /\ tracker[t].pulling => \E p \in Plugins : pc[p] = "pulling" /\ want[p] = t

\* The tracker knows every template on the host, or it could never be deleted,
\* whichever command fails and whenever the worker restarts; unless the
\* discovery failed.  For plugins that do not overlap: one that pulls what
\* another has just deleted can lose its entry (the two steps of
\* AnkaDeleteTemplate).
Tracked == discovered => \A t \in Templates : store[t] # "none" => Tracks(t)

\* A pull leaves the buffer free (template_disk_buffer): what EnsureSpace found
\* enough still is when the template is there.
BufferKept ==
    [][\A t \in Templates :
          /\ store'[t] # "none"
          /\ SizeOf(t, store'[t]) > SizeOf(t, store[t])
          => Available' >= BufferSize]_vars

\* Nothing is deleted while a template that was used less, or as often but
\* longer ago, has not been tried (GetLeastRecentlyUsedTemplates).  For plugins
\* that do not overlap: one may use a template that another has listed.
LeastUsedFirst ==
    [][\A p \in Plugins, s, t \in Templates :
          /\ store[t] # "none" /\ store'[t] = "none" /\ t \in tried'[p] \ tried[p]
          /\ Tracks(s) /\ ~tracker[s].pulling /\ OutOfOrder(t, s)
          => s = T(p) \/ s \in tried[p]]_vars

\* When no command fails, templates are deleted only if that makes enough room
\* ("If even deleting all LRU templates wouldn't free enough space, don't
\* delete anything", lru_cleanup.go:169).
NotInVain ==
    \A p \in Plugins : faults = 0 /\ result[p] = "space" => tried[p] = {}
=============================================================================
