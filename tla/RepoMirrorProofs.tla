-------------------------- MODULE RepoMirrorProofs --------------------------
(***************************************************************************)
(* The life of a mirror, for any number of goroutines that build it, of    *)
(* failures and of restarts: "cloning" has exactly one owner, and a mirror *)
(* that is served was fetched.                                             *)
(***************************************************************************)
EXTENDS RepoMirror, FiniteSetTheorems, TLAPS

Pc == {"idle", "start", "wait", "end"} \cup Claimed
Entry == [kind : Kind \cup {"none"}, pc : Pc]

MirrorTypes ==
    /\ state \in {"unknown", "empty", "cloning", "ready"}
    /\ job \in [Job -> Entry]
    /\ \A j \in Job : job[j].pc # "idle" => job[j].kind \in Kind

\* The claim on the directory belongs to those who build, and to one of them only.
ClaimHeld ==
    /\ \A j \in Job : Building(j) => state = "cloning"
    /\ state = "cloning" => \E j \in Job : Building(j)
    /\ \A i, j \in Job : Building(i) /\ Building(j) => i = j

\* What was cloned is still there when it is marked as ready.
CloneWhole == \A j \in Job : At(j, "mark") /\ ~swept => disk = "whole"

\* The inductive invariant.
MirrorInv == MirrorTypes /\ ClaimHeld /\ CloneWhole /\ ReadyFetched

-----------------------------------------------------------------------------
(* Steps of one goroutine, and what they do to the claim.                  *)

Others(j) == \A o \in Job \ {j} : job'[o] = job[o]

\* Go changes the place of one goroutine, Done makes it idle.
LEMMA GoMoves ==
    ASSUME MirrorTypes, NEW j \in Job, NEW pc \in Pc, Go(j, pc), ~At(j, "idle")
    PROVE  /\ job' \in [Job -> Entry] /\ Others(j)
           /\ job'[j].pc = pc /\ job'[j].kind = job[j].kind /\ job[j].kind \in Kind
  BY DEF MirrorTypes, Go, At, Others, Entry

LEMMA DoneMoves ==
    ASSUME MirrorTypes, NEW j \in Job, Done(j)
    PROVE  /\ job' \in [Job -> Entry] /\ Others(j) /\ job'[j].pc = "idle"
  BY DEF MirrorTypes, Done, Others, Entry, NoJob, Pc

\* The types survive a step of a goroutine that keeps its kind or becomes idle.
LEMMA TypesKept ==
    ASSUME MirrorTypes, NEW j \in Job, job' \in [Job -> Entry], Others(j),
           job'[j].pc = "idle" \/ job'[j].kind \in Kind,
           state' \in {"unknown", "empty", "cloning", "ready"}
    PROVE  MirrorTypes'
  BY DEF MirrorTypes, Others

LEMMA OthersBuild ==
    ASSUME NEW j \in Job, Others(j)
    PROVE  \A o \in Job \ {j} : Building(o)' <=> Building(o)
  BY DEF Others, Building, At

\* The claim stays with its owner, is taken when it is free, or is given up.
LEMMA ClaimKept ==
    ASSUME ClaimHeld, NEW j \in Job, Others(j), Building(j)' <=> Building(j),
           (state' = "cloning") <=> (state = "cloning")
    PROVE  ClaimHeld'
<1>1. \A o \in Job : Building(o)' <=> Building(o)
  BY OthersBuild
<1> QED
  BY <1>1, Zenon DEF ClaimHeld

LEMMA ClaimTaken ==
    ASSUME ClaimHeld, NEW j \in Job, Others(j), Building(j)',
           state # "cloning", state' = "cloning"
    PROVE  ClaimHeld'
<1>1. \A o \in Job : Building(o)' => o = j
  BY OthersBuild, Zenon DEF ClaimHeld
<1> QED
  BY <1>1, Zenon DEF ClaimHeld

LEMMA ClaimGiven ==
    ASSUME ClaimHeld, NEW j \in Job, Others(j), Building(j), ~Building(j)',
           state' # "cloning"
    PROVE  ClaimHeld'
<1>1. \A o \in Job : ~Building(o)'
  BY OthersBuild, Zenon DEF ClaimHeld
<1> QED
  BY <1>1, Zenon DEF ClaimHeld

\* Nobody else is about to mark the mirror while one goroutine builds it.
LEMMA AloneAtMark ==
    ASSUME ClaimHeld, NEW j \in Job, Building(j)
    PROVE  \A o \in Job \ {j} : ~At(o, "mark")
<1>1. \A o \in Job : At(o, "mark") => Building(o)
  BY DEF Building, At, Claimed
<1> QED
  BY <1>1, Zenon DEF ClaimHeld

-----------------------------------------------------------------------------
(* One step per action.                                                    *)

LEMMA InitMirror == Init => MirrorInv
<1> SUFFICES ASSUME Init PROVE MirrorInv
  OBVIOUS
<1>1. \A j \in Job : job[j].pc = "idle" /\ job[j] \in Entry
  BY DEF Init, NoJob, Entry, Pc
<1>2. MirrorTypes
  BY <1>1 DEF MirrorTypes, Init, Entry
<1>3. ClaimHeld
  BY <1>1 DEF ClaimHeld, Building, Claimed, Init
<1>4. CloneWhole /\ ReadyFetched
  BY <1>1 DEF CloneWhole, At, ReadyFetched, Init
<1> QED
  BY <1>2, <1>3, <1>4 DEF MirrorInv

\* Steps of the manager, in which no goroutine moves.
LEMMA ManagerStep ==
    ASSUME MirrorInv, GetOrCreate \/ WarmExisting \/ ColdServe
    PROVE  MirrorInv'
<1> USE DEF MirrorInv
<1>1. UNCHANGED <<job, swept>>
  BY DEF GetOrCreate, WarmExisting, ColdServe
<1>2. /\ state' \in {"unknown", "empty", "cloning", "ready"}
      /\ (state' = "cloning") <=> (state = "cloning")
  BY DEF GetOrCreate, WarmExisting, ColdServe, MirrorTypes
<1>3. MirrorTypes'
  BY <1>1, <1>2 DEF MirrorTypes
<1>4. ClaimHeld'
  <2>1. \A j \in Job : Building(j)' <=> Building(j)
    BY <1>1 DEF Building, At
  <2> QED
    BY <1>2, <2>1, Zenon DEF ClaimHeld
<1>5. CloneWhole'
  <2>1. CASE state = "cloning"
    BY <1>1, <2>1 DEF GetOrCreate, WarmExisting, ColdServe, CloneWhole, At
  <2>2. CASE state # "cloning"
    <3>1. \A j \in Job : ~At(j, "mark")
      BY <2>2 DEF ClaimHeld, Building, At, Claimed
    <3> QED
      BY <1>1, <3>1 DEF CloneWhole, At
  <2> QED
    BY <2>1, <2>2
<1>6. ReadyFetched'
  BY <1>1 DEF GetOrCreate, WarmExisting, ColdServe, ReadyFetched
<1> QED
  BY <1>3, <1>4, <1>5, <1>6

LEMMA RestartStep == MirrorInv /\ Restart => MirrorInv'
<1> SUFFICES ASSUME MirrorInv, Restart PROVE MirrorInv'
  OBVIOUS
<1>1. \A j \in Job : job'[j].pc = "idle" /\ job'[j] \in Entry
  BY DEF Restart, NoJob, Entry, Pc
<1>2. MirrorTypes'
  BY <1>1 DEF MirrorTypes, Restart, Entry
<1>3. ClaimHeld'
  BY <1>1 DEF ClaimHeld, Building, Claimed, Restart
<1>4. CloneWhole' /\ ReadyFetched'
  BY <1>1 DEF CloneWhole, At, ReadyFetched, Restart
<1> QED
  BY <1>2, <1>3, <1>4 DEF MirrorInv

\* A goroutine that does not build takes a step and leaves the mirror alone.
LEMMA Bystander ==
    ASSUME MirrorInv, NEW j \in Job, job' \in [Job -> Entry], Others(j),
           job'[j].pc = "idle" \/ job'[j].kind \in Kind,
           ~Building(j), ~Building(j)', UNCHANGED <<state, disk, adopted, swept>>
    PROVE  MirrorInv'
<1> USE DEF MirrorInv
<1>1. MirrorTypes'
  BY TypesKept DEF MirrorTypes
<1>2. ClaimHeld'
  BY ClaimKept
<1>3. CloneWhole'
  <2>1. ~At(j, "mark")'
    BY DEF Building, At, Claimed
  <2> QED
    BY <2>1 DEF CloneWhole, At, Others
<1>4. ReadyFetched'
  BY DEF ReadyFetched
<1> QED
  BY <1>1, <1>2, <1>3, <1>4

LEMMA BystanderStep ==
    ASSUME MirrorInv, NEW j \in Job,
           (\E k \in Kind : Start(j, k)) \/ Wait(j) \/ EndJob(j)
    PROVE  MirrorInv'
<1> USE DEF MirrorInv
<1>1. CASE \E k \in Kind : Start(j, k)
  <2>1. PICK k \in Kind : Start(j, k)
    BY <1>1
  <2>2. /\ job' \in [Job -> Entry] /\ Others(j)
        /\ job'[j].pc = "start" /\ job'[j].kind \in Kind
    BY <2>1 DEF Start, MirrorTypes, Entry, Pc, Others
  <2>3. ~Building(j) /\ ~Building(j)' /\ UNCHANGED <<state, disk, adopted, swept>>
    BY <2>1, <2>2 DEF Start, Building, At, Claimed
  <2> QED
    BY <2>2, <2>3, Bystander
<1>2. CASE Wait(j)
  <2>1. /\ At(j, "wait") /\ UNCHANGED <<state, disk, adopted, swept>>
        /\ Done(j) \/ Go(j, "start")
    BY <1>2 DEF Wait
  <2>2. /\ job' \in [Job -> Entry] /\ Others(j)
        /\ job'[j].pc = "idle" \/ (job'[j].pc = "start" /\ job'[j].kind \in Kind)
    BY <2>1, GoMoves, DoneMoves DEF Pc, At
  <2>3. ~Building(j) /\ ~Building(j)'
    BY <2>1, <2>2 DEF Building, At, Claimed
  <2> QED
    BY <2>1, <2>2, <2>3, Bystander
<1>3. CASE EndJob(j)
  <2>1. At(j, "end") /\ UNCHANGED <<state, disk, adopted, swept>> /\ Done(j)
    BY <1>3 DEF EndJob
  <2>2. job' \in [Job -> Entry] /\ Others(j) /\ job'[j].pc = "idle"
    BY <2>1, DoneMoves
  <2>3. ~Building(j) /\ ~Building(j)'
    BY <2>1, <2>2 DEF Building, At, Claimed
  <2> QED
    BY <2>1, <2>2, <2>3, Bystander
<1> QED
  BY <1>1, <1>2, <1>3
\* The owner of the claim goes on.
LEMMA BuilderGoesOn ==
    ASSUME MirrorInv, NEW j \in Job, NEW pc \in Pc, Go(j, pc), ~At(j, "idle"),
           Building(j), Building(j)', state' = state, pc = "mark" => disk' = "whole"
    PROVE  MirrorInv'
<1> USE DEF MirrorInv
<1>1. /\ job' \in [Job -> Entry] /\ Others(j)
      /\ job'[j].pc = pc /\ job'[j].kind = job[j].kind /\ job[j].kind \in Kind
  BY GoMoves
<1>2. MirrorTypes'
  BY <1>1, TypesKept DEF MirrorTypes
<1>3. ClaimHeld'
  BY <1>1, ClaimKept
<1>4. CloneWhole'
  <2>1. \A o \in Job \ {j} : ~At(o, "mark")
    BY AloneAtMark
  <2> QED
    BY <1>1, <2>1 DEF CloneWhole, At, Others
<1>5. ReadyFetched'
  BY DEF ReadyFetched, ClaimHeld
<1> QED
  BY <1>2, <1>3, <1>4, <1>5

\* The owner gives its claim up: the mirror is empty again, or ready and whole.
LEMMA BuilderLeaves ==
    ASSUME MirrorInv, NEW j \in Job, job' \in [Job -> Entry], Others(j),
           job'[j].pc = "idle" \/ job'[j].kind \in Kind,
           Building(j), ~Building(j)', state' \in {"empty", "ready"},
           state' = "ready" /\ ~swept' => disk' = "whole"
    PROVE  MirrorInv'
<1> USE DEF MirrorInv
<1>1. MirrorTypes'
  BY TypesKept
<1>2. ClaimHeld'
  BY ClaimGiven
<1>3. CloneWhole'
  <2>1. \A o \in Job \ {j} : ~At(o, "mark")
    BY AloneAtMark
  <2>2. ~At(j, "mark")'
    BY DEF Building, At, Claimed
  <2> QED
    BY <2>1, <2>2 DEF CloneWhole, At, Others
<1>4. ReadyFetched'
  BY DEF ReadyFetched
<1> QED
  BY <1>1, <1>2, <1>3, <1>4

LEMMA ClaimStep ==
    ASSUME MirrorInv, NEW j \in Job, Claim(j)
    PROVE  MirrorInv'
<1> USE DEF MirrorInv
<1>1. At(j, "start") /\ UNCHANGED <<disk, adopted, swept>> /\ job[j].kind \in Kind
  BY DEF Claim, At, MirrorTypes
<1>2. PICK won \in {"clone", "restore", "serves"}, lost \in {"wait", "end"} :
        TryStartCloning(j, won, lost)
  BY <1>1 DEF Claim, Kind
<1>3. won \in Pc /\ lost \in Pc /\ ~At(j, "idle") /\ ~Building(j)
  BY <1>1 DEF Pc, Claimed, At, Building
<1>4. CASE state = "empty"
  <2>1. state' = "cloning" /\ Go(j, won)
    BY <1>2, <1>4 DEF TryStartCloning
  <2>2. /\ job' \in [Job -> Entry] /\ Others(j)
        /\ job'[j].pc = won /\ job'[j].kind = job[j].kind
    BY <1>3, <2>1, GoMoves
  <2>3. Building(j)'
    BY <2>2 DEF Building, At, Claimed
  <2>4. MirrorTypes'
    BY <1>1, <2>1, <2>2, TypesKept
  <2>5. ClaimHeld'
    BY <1>4, <2>1, <2>2, <2>3, ClaimTaken
  <2>6. CloneWhole' /\ ReadyFetched'
    BY <1>1, <2>1, <2>2 DEF CloneWhole, ReadyFetched, At, Others
  <2> QED
    BY <2>4, <2>5, <2>6
<1>5. CASE state # "empty"
  <2>1. state' = state /\ Go(j, lost)
    BY <1>2, <1>5 DEF TryStartCloning
  <2>2. /\ job' \in [Job -> Entry] /\ Others(j)
        /\ job'[j].pc = lost /\ job'[j].kind \in Kind
    BY <1>3, <2>1, GoMoves
  <2>3. ~Building(j)'
    BY <2>2 DEF Building, At, Claimed
  <2> QED
    BY <1>1, <1>3, <2>1, <2>2, <2>3, Bystander
<1> QED
  BY <1>4, <1>5

LEMMA BuilderStep ==
    ASSUME MirrorInv, NEW j \in Job,
           AwaitServes(j) \/ TryRestoreSnapshot(j) \/ ExecuteClone(j) \/ CloneMark(j)
    PROVE  MirrorInv'
<1> USE DEF MirrorInv
<1>1. Building(j) /\ ~At(j, "idle")
  BY DEF AwaitServes, TryRestoreSnapshot, ExecuteClone, CloneMark, Building, At, Claimed
<1>2. CASE /\ Done(j) /\ state' \in {"empty", "ready"}
           /\ state' = "ready" /\ ~swept' => disk' = "whole"
  <2>1. job' \in [Job -> Entry] /\ Others(j) /\ job'[j].pc = "idle"
    BY <1>2, DoneMoves
  <2>2. ~Building(j)'
    BY <2>1 DEF Building, Claimed
  <2> QED
    BY <1>1, <1>2, <2>1, <2>2, BuilderLeaves
<1>3. CASE \E pc \in {"restore", "fetch", "clone", "mark"} :
             Go(j, pc) /\ state' = state /\ (pc = "mark" => disk' = "whole")
  <2>1. PICK pc \in {"restore", "fetch", "clone", "mark"} :
          Go(j, pc) /\ state' = state /\ (pc = "mark" => disk' = "whole")
    BY <1>3
  <2>2. pc \in Pc
    BY DEF Pc, Claimed
  <2>3. Building(j)'
    <3>1. job'[j].pc = pc
      BY <1>1, <2>1, <2>2, GoMoves
    <3> QED
      BY <3>1 DEF Building, At, Claimed
  <2> QED
    BY <1>1, <2>1, <2>2, <2>3, BuilderGoesOn
<1>4. CASE CloneMark(j)
  BY <1>2, <1>4 DEF CloneMark, MarkReady, CloneWhole
<1>5. CASE ExecuteClone(j)
  BY <1>2, <1>3, <1>5 DEF ExecuteClone, ResetToEmpty
<1>6. CASE TryRestoreSnapshot(j)
  BY <1>2, <1>3, <1>6 DEF TryRestoreSnapshot, ResetToEmpty
<1>7. CASE AwaitServes(j)
  BY <1>3, <1>7 DEF AwaitServes
<1> QED
  BY <1>4, <1>5, <1>6, <1>7

LEMMA FetchStep ==
    ASSUME MirrorInv, NEW j \in Job, FetchLenient(j)
    PROVE  MirrorInv'
<1> USE DEF MirrorInv
<1>1. Building(j) /\ ~At(j, "idle") /\ "remove" \in Pc /\ UNCHANGED swept
  BY DEF FetchLenient, Building, At, Claimed, Pc
<1>2. CASE disk' = "whole" /\ MarkReady /\ Done(j)
  <2>1. job' \in [Job -> Entry] /\ Others(j) /\ job'[j].pc = "idle"
    BY <1>2, DoneMoves
  <2>2. ~Building(j)'
    BY <2>1 DEF Building, Claimed
  <2> QED
    BY <1>1, <1>2, <2>1, <2>2, BuilderLeaves DEF MarkReady
<1>3. CASE Go(j, "remove") /\ job[j].kind = "deferred" /\ ResetToEmpty
  <2>1. /\ job' \in [Job -> Entry] /\ Others(j)
        /\ job'[j].pc = "remove" /\ job'[j].kind = job[j].kind /\ job[j].kind \in Kind
    BY <1>1, <1>3, GoMoves
  <2>2. ~Building(j)'
    BY <1>3, <2>1 DEF Building, At
  <2> QED
    BY <1>1, <1>3, <2>1, <2>2, BuilderLeaves DEF ResetToEmpty
<1>4. CASE Go(j, "remove") /\ job[j].kind # "deferred" /\ UNCHANGED state
  <2>1. job'[j].pc = "remove" /\ job'[j].kind = job[j].kind
    BY <1>1, <1>4, GoMoves
  <2>2. Building(j)'
    BY <1>4, <2>1 DEF Building, At, Claimed
  <2> QED
    BY <1>1, <1>4, <2>2, BuilderGoesOn
<1> QED
  BY <1>2, <1>3, <1>4 DEF FetchLenient

LEMMA RemoveStep ==
    ASSUME MirrorInv, NEW j \in Job, RemoveMirror(j)
    PROVE  MirrorInv'
<1> USE DEF MirrorInv
<1>1. At(j, "remove") /\ ~At(j, "idle") /\ "clone" \in Pc
  BY DEF RemoveMirror, At, Claimed, Pc
<1>2. CASE job[j].kind = "deferred"
  <2>1. state' = state /\ Done(j) /\ swept'
    BY <1>2 DEF RemoveMirror
  <2>2. job' \in [Job -> Entry] /\ Others(j) /\ job'[j].pc = "idle"
    BY <2>1, DoneMoves
  <2>3. ~Building(j) /\ ~Building(j)'
    BY <1>1, <1>2, <2>2 DEF Building, At, Claimed
  <2>4. MirrorTypes'
    BY <2>1, <2>2, TypesKept DEF MirrorTypes
  <2>5. ClaimHeld'
    BY <2>1, <2>2, <2>3, ClaimKept
  <2>6. CloneWhole' /\ ReadyFetched'
    BY <2>1 DEF CloneWhole, ReadyFetched
  <2> QED
    BY <2>4, <2>5, <2>6
<1>3. CASE job[j].kind # "deferred"
  <2>1. Building(j)
    BY <1>1, <1>3 DEF Building, At, Claimed
  <2>2. CASE Go(j, "clone") /\ UNCHANGED state
    <3>1. job'[j].pc = "clone"
      BY <1>1, <2>2, GoMoves
    <3>2. Building(j)'
      BY <3>1 DEF Building, At, Claimed
    <3> QED
      BY <1>1, <2>1, <2>2, <3>2, BuilderGoesOn
  <2>3. CASE Done(j) /\ ResetToEmpty
    <3>1. job' \in [Job -> Entry] /\ Others(j) /\ job'[j].pc = "idle"
      BY <2>3, DoneMoves
    <3>2. ~Building(j)'
      BY <3>1 DEF Building, Claimed
    <3> QED
      BY <2>1, <2>3, <3>1, <3>2, BuilderLeaves DEF ResetToEmpty
  <2> QED
    BY <1>3, <2>2, <2>3 DEF RemoveMirror
<1> QED
  BY <1>2, <1>3

-----------------------------------------------------------------------------
\* MirrorInv holds in every reachable state.
LEMMA MirrorInductive == Spec => []MirrorInv
<1>1. MirrorInv /\ [Next]_vars => MirrorInv'
  <2> SUFFICES ASSUME MirrorInv, [Next]_vars PROVE MirrorInv'
    OBVIOUS
  <2>1. CASE Next
    BY <2>1, ManagerStep, RestartStep, BystanderStep, ClaimStep, BuilderStep, FetchStep,
       RemoveStep, Zenon DEF Next
  <2>2. CASE UNCHANGED vars
    BY <2>2 DEF vars, MirrorInv, MirrorTypes, ClaimHeld, CloneWhole, ReadyFetched, Building, At
  <2> QED
    BY <2>1, <2>2
<1> QED
  BY InitMirror, <1>1, PTL DEF Spec

\* With a claim that is held by all who build and by one only, the builders are
\* one or none.
LEMMA InvSound == MirrorInv => MirrorSound
<1> SUFFICES ASSUME MirrorInv PROVE MirrorSound
  OBVIOUS
<1> DEFINE B == {j \in Job : Building(j)}
<1>1. CASE state = "cloning"
  <2>1. PICK j \in Job : Building(j)
    BY <1>1, Zenon DEF MirrorInv, ClaimHeld
  <2>2. B = {j}
    BY <2>1, Zenon DEF MirrorInv, ClaimHeld
  <2>3. Cardinality(B) = 1
    BY <2>2, FS_Singleton, Zenon
  <2> QED
    BY <1>1, <2>3 DEF MirrorInv, MirrorSound, OneBuilder
<1>2. CASE state # "cloning"
  <2>1. B = {}
    BY <1>2, Zenon DEF MirrorInv, ClaimHeld
  <2>2. Cardinality(B) = 0
    BY <2>1, FS_EmptySet, Zenon
  <2> QED
    BY <1>2, <2>2 DEF MirrorInv, MirrorSound, OneBuilder
<1> QED
  BY <1>1, <1>2

\* The mirror has exactly one builder while it is "cloning" and none otherwise,
\* and one that is served was cloned or fetched, whatever number of jobs and
\* handlers start clones, restores fail and processes restart (manager.go
\* TryStartCloning, git.go startClone, snapshot.go deferred restore).
THEOREM MirrorSoundAlways == Spec => []MirrorSound
  BY MirrorInductive, InvSound, PTL
=============================================================================
