----------------------------- MODULE RepoMirror -----------------------------
(***************************************************************************)
(* The life of one repository's mirror: the state that gitclone/manager.go *)
(* keeps in memory, the directory on disk, and those who build the mirror: *)
(* clone jobs and requests that need it (strategy/git/git.go startClone,   *)
(* ensureCloneReady), the restore deferred after a cold snapshot           *)
(* (snapshot.go) and the Go module strategy (private_fetcher.go).          *)
(***************************************************************************)
EXTENDS FiniteSets, Integers

CONSTANTS
    Job,            \* goroutines that may build the mirror
    MaxFaults,      \* bound: failures of git, of the file system or of a restore
    MaxRestarts     \* bound: restarts of the process

VARIABLES
    state,          \* "unknown" (not in Manager.clones), "empty", "cloning", "ready"
    disk,           \* the directory: "none", "restored", "whole", "damaged" (no HEAD)
    job,            \* job -> [kind, pc]
    deferredOnce,   \* deferredRestoreOnce
    serving,        \* followers of the cold snapshot that still stream (coldEntry.serving)
    adopted,        \* history: this process took the directory over from an earlier one
    swept,          \* history: a deferred restore removed the directory after its claim
    faults, restarts

vars == <<state, disk, job, deferredOnce, serving, adopted, swept, faults, restarts>>

NoJob == [kind |-> "none", pc |-> "idle"]
Kind == {"clone", "ensure", "deferred", "module"}
\* Jobs of the upstream's queue run one at a time; handlers run beside them.
Queued == {"clone", "deferred"}
Claimed == {"serves", "restore", "fetch", "remove", "clone", "mark"}

Init ==
    /\ state = "unknown" /\ disk \in {"none", "restored", "whole"}
    /\ job = [j \in Job |-> NoJob]
    /\ deferredOnce = FALSE /\ serving = 0 /\ adopted = FALSE /\ swept = FALSE
    /\ faults = 0 /\ restarts = 0

Fault == faults < MaxFaults /\ faults' = faults + 1
At(j, pc) == job[j].pc = pc
Go(j, pc) == job' = [job EXCEPT ![j].pc = pc]
Done(j) == job' = [job EXCEPT ![j] = NoJob]

-----------------------------------------------------------------------------
(* gitclone/manager.go.                                                    *)

\* GetOrCreate, for a request or for DiscoverExisting: a directory with a HEAD is
\* sanitised and served; an unsafe one is removed; other errors forget the repository.
GetOrCreate ==
    /\ state = "unknown"
    /\ \/ /\ disk \in {"restored", "whole"} /\ state' = "ready" /\ adopted' = TRUE
          /\ UNCHANGED <<disk, faults>>
       \/ /\ disk \in {"restored", "whole"} /\ Fault
          /\ disk' = "none" /\ state' = "empty" /\ UNCHANGED adopted
       \/ /\ disk \in {"none", "damaged"} /\ state' = "empty" /\ UNCHANGED <<disk, adopted, faults>>
    /\ UNCHANGED <<job, deferredOnce, serving, swept, restarts>>

\* warmExistingRepos: a failed fetch leaves the adopted mirror in service.
WarmExisting ==
    /\ state = "ready" /\ adopted /\ disk = "restored" /\ disk' = "whole"
    /\ UNCHANGED <<state, job, deferredOnce, serving, adopted, swept, faults, restarts>>

TryStartCloningAlways(j, won, lost) ==
    IF state = "ready" THEN Go(j, lost) /\ UNCHANGED state ELSE state' = "cloning" /\ Go(j, won)
TryStartCloning(j, won, lost) ==
    IF state = "empty" THEN state' = "cloning" /\ Go(j, won) ELSE Go(j, lost) /\ UNCHANGED state
ResetToEmpty == state' = "empty"
MarkReady == state' = "ready" /\ adopted' = FALSE

\* CloneClaimed, executeClone: the rename fails over a directory that is not empty.
ExecuteClone(j) ==
    /\ At(j, "clone")
    /\ \/ disk = "none" /\ disk' = "whole" /\ Go(j, "mark") /\ UNCHANGED <<state, faults>>
       \/ /\ Fault \/ (disk # "none" /\ UNCHANGED faults)
          /\ ResetToEmpty /\ Done(j) /\ UNCHANGED disk
    /\ UNCHANGED <<deferredOnce, serving, adopted, swept, restarts>>
CloneMark(j) ==
    /\ At(j, "mark") /\ MarkReady /\ Done(j)
    /\ UNCHANGED <<disk, deferredOnce, serving, swept, faults, restarts>>

-----------------------------------------------------------------------------
(* Who builds the mirror.                                                  *)

\* handleGitRequest and handleLFSSnapshotRequest submit a clone job, the handlers
\* of bundles and refs and the cold preparation call ensureCloneReady, the Go
\* module strategy clones, and the first cold snapshot submits a deferred restore.
Start(j, kind) ==
    /\ At(j, "idle") /\ state \in {"empty", "cloning"}
    /\ job' = [job EXCEPT ![j] = [kind |-> kind, pc |-> "start"]]
    /\ kind = "deferred" => ~deferredOnce
    /\ deferredOnce' = (deferredOnce \/ kind = "deferred")
    /\ UNCHANGED <<state, disk, serving, adopted, swept, faults, restarts>>

Claim(j) ==
    /\ At(j, "start")
    /\ job[j].kind \in Queued
       => \A o \in Job \ {j} : job[o].kind \in Queued => job[o].pc \in {"idle", "start"}
    /\ CASE job[j].kind = "module" -> TryStartCloning(j, "clone", "wait")
         [] job[j].kind = "ensure" -> TryStartCloning(j, "restore", "wait")
         [] job[j].kind = "clone" -> TryStartCloning(j, "restore", "end")
         [] job[j].kind = "deferred" -> TryStartCloning(j, "serves", "end")
    /\ UNCHANGED <<disk, deferredOnce, serving, adopted, swept, faults, restarts>>

\* ensureCloneReady polls and starts over when the clone it waits for failed;
\* Repository.clone gives up then, and both give up when their context ends.
Wait(j) ==
    /\ At(j, "wait")
    /\ \/ state = "ready" /\ Done(j)
       \/ state = "empty" /\ (IF job[j].kind = "ensure" THEN Go(j, "start") ELSE Done(j))
       \/ state = "cloning" /\ Done(j)
    /\ UNCHANGED <<state, disk, deferredOnce, serving, adopted, swept, faults, restarts>>
EndJob(j) ==
    /\ At(j, "end") /\ Done(j)
    /\ UNCHANGED <<state, disk, deferredOnce, serving, adopted, swept, faults, restarts>>

\* A cold snapshot that is being streamed, and the deferred restore that waits.
ColdServe ==
    /\ \/ state \in {"empty", "cloning"} /\ serving = 0 /\ serving' = 1
       \/ serving > 0 /\ serving' = serving - 1
    /\ UNCHANGED <<state, disk, job, deferredOnce, adopted, swept, faults, restarts>>
AwaitServes(j) ==
    /\ At(j, "serves") /\ serving = 0 /\ Go(j, "restore")
    /\ UNCHANGED <<state, disk, deferredOnce, serving, adopted, swept, faults, restarts>>

\* tryRestoreSnapshot extracts beside the mirror and renames.
TryRestoreSnapshot(j) ==
    /\ At(j, "restore")
    /\ \/ disk = "none" /\ disk' = "restored" /\ Go(j, "fetch") /\ UNCHANGED <<state, faults>>
       \/ /\ Fault \/ (disk # "none" /\ UNCHANGED faults)
          /\ UNCHANGED disk
          /\ IF job[j].kind = "deferred" THEN ResetToEmpty /\ Done(j)
             ELSE Go(j, "clone") /\ UNCHANGED state
    /\ UNCHANGED <<deferredOnce, serving, adopted, swept, restarts>>

\* The fetch after a restore.  The deferred restore gives its claim up before it
\* removes the directory; startClone removes it first.
FetchLenient(j) ==
    /\ At(j, "fetch")
    /\ \/ disk = "restored" /\ disk' = "whole" /\ MarkReady /\ Done(j) /\ UNCHANGED faults
       \/ /\ Fault /\ Go(j, "remove") /\ UNCHANGED <<disk, adopted>>
          /\ IF job[j].kind = "deferred" THEN ResetToEmpty ELSE UNCHANGED state
    /\ UNCHANGED <<deferredOnce, serving, swept, restarts>>
RemoveMirror(j) ==
    /\ At(j, "remove")
    /\ \/ /\ disk' = "none" /\ UNCHANGED <<state, faults>>
          /\ IF job[j].kind = "deferred" THEN Done(j) ELSE Go(j, "clone")
       \/ /\ Fault /\ disk' \in {disk, "damaged"} /\ Done(j)
          /\ IF job[j].kind = "deferred" THEN UNCHANGED state ELSE ResetToEmpty
    /\ swept' = (swept \/ job[j].kind = "deferred")
    /\ UNCHANGED <<deferredOnce, serving, adopted, restarts>>

Restart ==
    /\ restarts < MaxRestarts /\ restarts' = restarts + 1
    /\ state' = "unknown" /\ job' = [j \in Job |-> NoJob]
    /\ deferredOnce' = FALSE /\ serving' = 0 /\ adopted' = FALSE /\ swept' = FALSE
    /\ UNCHANGED <<disk, faults>>

Next ==
    \/ GetOrCreate \/ WarmExisting \/ ColdServe \/ Restart
    \/ \E j \in Job : \/ \E k \in Kind : Start(j, k)
                      \/ Claim(j) \/ Wait(j) \/ EndJob(j) \/ AwaitServes(j)
                      \/ TryRestoreSnapshot(j) \/ FetchLenient(j) \/ RemoveMirror(j)
                      \/ ExecuteClone(j) \/ CloneMark(j)

Spec == Init /\ [][Next]_vars

-----------------------------------------------------------------------------
Building(j) ==
    /\ job[j].pc \in Claimed
    /\ ~(At(j, "remove") /\ job[j].kind = "deferred")

\* "cloning" has exactly one owner, who will leave it: no two goroutines restore
\* or clone into the directory, and nobody waits for a clone that does not run
\* (manager.go TryStartCloning, git.go startClone).
OneBuilder == Cardinality({j \in Job : Building(j)}) = IF state = "cloning" THEN 1 ELSE 0

\* A mirror that is served is on disk, and it was cloned or fetched since it was
\* restored, unless a restarted process adopted it or a deferred restore removed
\* the directory after it had given its claim up (git.go startClone).
ReadyFetched == state = "ready" /\ ~swept => disk = "whole" \/ (adopted /\ disk = "restored")

\* The mirror has one builder and is served only when that builder is through.
MirrorSound == OneBuilder /\ ReadyFetched
=============================================================================
