---------------------------- MODULE SnapshotJobs ----------------------------
(***************************************************************************)
(* The generation of one snapshot artifact by several replicas: the claims *)
(* of strategy/git/snapshotcoord.go over a last-write-wins store, the jobs *)
(* that snapshot.go wraps in them, the generation on demand beside them,   *)
(* and the repack of gitclone/manager.go that shares their queue.          *)
(***************************************************************************)
EXTENDS Integers

CONSTANTS
    Replica,
    Kinds,                                      \* of the work that happens
    Interval, ClaimTTL, MaxAge,
    MaxClock, MaxPush, MaxClaims, MaxFaults     \* bounds

VARIABLES
    clock, upstream,
    shared,         \* the record in the store
    view,           \* replica -> its local copy
    mirror,         \* replica -> HEAD of its mirror
    artifact,       \* the commit of the artifact in the shared cache, 0 if none
    run,            \* process -> the job it runs
    marker, dup,    \* replica -> repack marker, duplicate packs in the mirror
    ids,            \* claims so far
    raced,          \* history: a record was written over one that its writer had not seen
    uploads,        \* history: when uploads ended, or LFS found nothing to upload
    unclean,        \* history: a job uploaded a mirror with duplicate packs
    faults

vars == <<clock, upstream, shared, view, mirror, artifact, run, marker, dup, ids, raced,
          uploads, unclean, faults>>

\* The queue of the upstream runs one job at a time; a request that generates on
\* demand runs beside it.
Proc == Replica \X {"queue", "demand"}
Zero == [started |-> 0, completed |-> 0, checked |-> 0, expires |-> 0, commit |-> 0, id |-> 0]
Idle == [kind |-> "none", pc |-> "idle", id |-> 0, expires |-> 0, commit |-> 0]

Init ==
    /\ clock = 1 /\ upstream = 1 /\ shared = Zero
    /\ view = [r \in Replica |-> Zero] /\ mirror = [r \in Replica |-> 1]
    /\ artifact = 0 /\ run = [p \in Proc |-> Idle]
    /\ marker = [r \in Replica |-> FALSE] /\ dup = [r \in Replica |-> FALSE]
    /\ ids = 0 /\ raced = FALSE /\ uploads = {} /\ unclean = FALSE /\ faults = 0

Fault == faults < MaxFaults /\ faults' = faults + 1
At(p, pc) == run[p].pc = pc
Go(p, pc) == run' = [run EXCEPT ![p].pc = pc]
End(p) == run' = [run EXCEPT ![p] = Idle]
store == <<shared, view, ids, raced>>
world == <<clock, upstream, mirror, marker, dup>>
history == <<uploads, unclean>>

\* Recording a result takes less than a tick (snapshotClaimCleanupTimeout).
Recording == {"complete", "skip", "fail", "setcomplete", "setskip", "setfail"}
Tick ==
    /\ clock < MaxClock /\ clock' = clock + 1
    /\ \A p \in Proc : run[p].pc \notin Recording
    /\ UNCHANGED <<upstream, mirror, marker, dup, store, artifact, run, history, faults>>
Push ==
    /\ upstream < MaxPush /\ upstream' = upstream + 1
    /\ UNCHANGED <<clock, mirror, marker, dup, store, artifact, run, history, faults>>
\* The store's sync loop, and an entry lost from the shared cache.
Sync(r) ==
    /\ view' = [view EXCEPT ![r] = shared]
    /\ UNCHANGED <<world, shared, ids, raced, artifact, run, history, faults>>
Lose ==
    /\ artifact # 0 /\ Fault /\ artifact' = 0
    /\ UNCHANGED <<world, store, run, history>>

-----------------------------------------------------------------------------
(* The coordinator.                                                        *)

InProgress(rec) == rec.completed < rec.started
Fresh(at, interval) == at # 0 /\ clock - at < interval
Declines(rec, interval) ==
    \/ Fresh(rec.completed, interval) \/ Fresh(rec.checked, interval)
    \/ InProgress(rec) /\ clock < rec.expires
Put(r, rec) ==
    /\ shared' = rec /\ view' = [view EXCEPT ![r] = rec]
    /\ raced' = (raced \/ view[r] # shared)
Released(rec) == [rec EXCEPT !.id = 0, !.expires = 0]
Completed(rec, commit) == Released([rec EXCEPT !.completed = clock, !.commit = commit])
Unclaimed(rec) == IF InProgress(rec) THEN [rec EXCEPT !.started = rec.completed] ELSE rec
Skipped(rec) == Released(Unclaimed([rec EXCEPT !.checked = clock]))
Failed(rec) == IF InProgress(rec) THEN Released(Unclaimed(rec)) ELSE rec

\* The claim of a preparation lasts as long as its clone may take.
TTL(p) == IF run[p].kind = "cold" THEN ClaimTTL + 1 ELSE ClaimTTL

\* ClaimWithTTL.  The cold preparation claims whatever was done recently.  A
\* store that fails lets the work go on although the write may not be there; the
\* preparation keeps the identity it tried to write, a job forgets it.
Claim(p) ==
    LET r == p[1]
        rec == view[r]
        mine == [rec EXCEPT !.started = clock, !.id = ids + 1, !.expires = clock + TTL(p)] IN
    /\ At(p, "claim") /\ ids < MaxClaims
    /\ \/ /\ Declines(rec, IF run[p].kind = "cold" THEN 0 ELSE Interval)
          /\ End(p) /\ UNCHANGED <<store, faults>>
       \/ /\ ~Declines(rec, IF run[p].kind = "cold" THEN 0 ELSE Interval)
          /\ clock # rec.completed      \* the code's clock is finer: never the same instant
          /\ \/ /\ Put(r, mine) /\ ids' = ids + 1 /\ UNCHANGED faults
                /\ run' = [run EXCEPT ![p].pc = "freshen", ![p].id = ids + 1,
                              ![p].expires = clock + TTL(p)]
             \/ Fault /\ Go(p, "freshen") /\ UNCHANGED store
             \/ /\ Fault /\ Put(r, mine) /\ ids' = ids + 1
                /\ run' = [run EXCEPT ![p].pc = "freshen",
                              ![p].id = IF run[p].kind = "cold" THEN ids + 1 ELSE 0]
    /\ UNCHANGED <<world, artifact, history>>

\* CompleteClaim, SkipClaim and Fail refresh the view and write if the claim is
\* still theirs.  A failed attempt to complete or skip is followed by Fail.
Prime(p) ==
    LET to == CASE At(p, "complete") -> "setcomplete" [] At(p, "skip") -> "setskip"
                [] OTHER -> "setfail" IN
    /\ run[p].pc \in {"complete", "skip", "fail"}
    /\ \/ /\ run[p].id = 0 /\ End(p) /\ UNCHANGED <<view, faults>>
       \/ /\ run[p].id # 0 /\ view' = [view EXCEPT ![p[1]] = shared] /\ Go(p, to) /\ UNCHANGED faults
       \/ /\ run[p].id # 0 /\ Fault /\ UNCHANGED view
          /\ IF At(p, "fail") THEN End(p) ELSE Go(p, "fail")
    /\ UNCHANGED <<world, shared, ids, raced, artifact, history>>
Result(p) ==
    LET rec == view[p[1]] IN
    CASE At(p, "setcomplete") -> Completed(rec, run[p].commit)
      [] At(p, "setskip") -> Skipped(rec)
      [] At(p, "setfail") -> Failed(rec)
RecordUnowned(p) ==
    /\ run[p].pc \in {"setcomplete", "setskip", "setfail"}
    /\ Put(p[1], Result(p)) /\ End(p)
    /\ UNCHANGED <<world, ids, artifact, history, faults>>
Record(p) ==
    /\ run[p].pc \in {"setcomplete", "setskip", "setfail"}
    /\ \/ /\ view[p[1]].id # run[p].id /\ End(p) /\ UNCHANGED <<shared, view, raced, faults>>
       \/ /\ view[p[1]].id = run[p].id /\ Put(p[1], Result(p)) /\ End(p) /\ UNCHANGED faults
       \/ /\ view[p[1]].id = run[p].id /\ Fault /\ UNCHANGED <<shared, view, raced>>
          /\ IF At(p, "setfail") THEN End(p) ELSE Go(p, "fail")
    /\ UNCHANGED <<world, ids, artifact, history>>

-----------------------------------------------------------------------------
(* The jobs.                                                               *)

\* coordinatedSnapshotJob by the scheduler, prepareColdSnapshot after a miss, and
\* the background upload of a snapshot that was spooled on demand.  A preparation
\* refreshes first and stops if the artifact is published; if it cannot look it
\* goes on, and if it cannot refresh it goes on without a claim.
Begin(r, kind) ==
    LET p == <<r, IF kind = "demand" THEN kind ELSE "queue">>
        start(pc) == run' = [run EXCEPT ![p] = [Idle EXCEPT !.kind = kind, !.pc = pc]] IN
    /\ kind \in Kinds \ {"repack"} /\ At(p, "idle")
    /\ \/ /\ kind = "demand" /\ ~At(<<r, "queue">>, "upload")       \* TryLock
          /\ start("check") /\ UNCHANGED <<view, faults>>
       \/ kind \in {"job", "lfs"} /\ start("claim") /\ UNCHANGED <<view, faults>>
       \/ /\ kind = "cold" /\ start("claim") /\ view' = [view EXCEPT ![r] = shared]
          /\ IF artifact = 0 THEN UNCHANGED faults ELSE Fault
       \/ kind = "cold" /\ artifact = 0 /\ Fault /\ start("freshen") /\ UNCHANGED view
    /\ UNCHANGED <<world, shared, ids, raced, artifact, history>>

\* The fetch before a snapshot may fail; a clone that fails ends the preparation.
\* The LFS objects come from the mirror as it is, repacked or not.
Freshen(p) ==
    /\ At(p, "freshen")
    /\ \/ run[p].kind = "lfs" /\ Go(p, "generate") /\ UNCHANGED <<mirror, faults>>
       \/ /\ run[p].kind # "lfs" /\ Go(p, "check")
          /\ mirror' = [mirror EXCEPT ![p[1]] = upstream] /\ UNCHANGED faults
       \/ /\ run[p].kind # "lfs" /\ Fault /\ UNCHANGED mirror
          /\ Go(p, IF run[p].kind = "cold" THEN "fail" ELSE "check")
    /\ UNCHANGED <<clock, upstream, marker, dup, store, artifact, history>>

\* checkRepackHealthy, before the mutex of the upstream.
CheckRepackHealthy(p) ==
    /\ At(p, "check")
    /\ Go(p, CASE ~marker[p[1]] -> "generate" [] run[p].kind = "demand" -> "idle" [] OTHER -> "fail")
    /\ UNCHANGED <<world, store, artifact, history, faults>>

\* snapshotUnchanged asks the record and the shared cache.
Unchanged(r) ==
    /\ view[r].commit = mirror[r] /\ Fresh(view[r].completed, MaxAge)
    /\ artifact # 0
Generate(p) ==
    LET r == p[1] IN
    /\ At(p, "generate") /\ \A o \in Proc : o[1] = r => ~At(o, "upload")
    /\ IF Unchanged(r)
       THEN Go(p, IF run[p].kind = "demand" THEN "idle" ELSE "skip")
       ELSE run' = [run EXCEPT ![p].pc = "upload", ![p].commit = mirror[r]]
    /\ UNCHANGED <<world, store, artifact, history, faults>>
\* A repository without LFS is recorded as completed at its head.
FindNoLFS(p) ==
    /\ At(p, "generate") /\ run[p].kind = "lfs" /\ ~Unchanged(p[1])
    /\ run' = [run EXCEPT ![p].pc = "complete", ![p].commit = mirror[p[1]]]
    /\ uploads' = uploads \cup {clock}
    /\ UNCHANGED <<world, store, artifact, unclean, faults>>
Upload(p) ==
    LET next(pc) == IF run[p].kind = "demand" THEN End(p) ELSE Go(p, pc) IN
    /\ At(p, "upload")
    /\ \/ /\ artifact' = run[p].commit /\ next("complete") /\ UNCHANGED faults
          /\ uploads' = uploads \cup {clock}
          /\ unclean' = (unclean \/ (dup[p[1]] /\ run[p].kind \notin {"demand", "lfs"}))
       \/ Fault /\ next("fail") /\ UNCHANGED <<artifact, history>>
    /\ UNCHANGED <<world, store>>

\* Repack: the marker is there before git runs and goes only after it succeeded.
RepackStart(r) ==
    /\ "repack" \in Kinds /\ At(<<r, "queue">>, "idle")
    /\ run' = [run EXCEPT ![<<r, "queue">>] = [Idle EXCEPT !.kind = "repack", !.pc = "repack"]]
    /\ marker' = [marker EXCEPT ![r] = TRUE] /\ dup' = [dup EXCEPT ![r] = TRUE]
    /\ UNCHANGED <<clock, upstream, mirror, store, artifact, history, faults>>
RepackEndAnyhow(p) ==
    /\ At(p, "repack") /\ End(p)
    /\ marker' = [marker EXCEPT ![p[1]] = FALSE]
    /\ \/ dup' = [dup EXCEPT ![p[1]] = FALSE] /\ UNCHANGED faults
       \/ Fault /\ UNCHANGED dup
    /\ UNCHANGED <<clock, upstream, mirror, store, artifact, history>>
RepackEnd(p) ==
    /\ At(p, "repack") /\ End(p)
    /\ \/ /\ marker' = [marker EXCEPT ![p[1]] = FALSE] /\ dup' = [dup EXCEPT ![p[1]] = FALSE]
          /\ UNCHANGED faults
       \/ Fault /\ UNCHANGED <<marker, dup>>
    /\ UNCHANGED <<clock, upstream, mirror, store, artifact, history>>

\* A restarted replica keeps its mirror and the marker, and has seen no record.
Crash(r) ==
    /\ Fault
    /\ run' = [p \in Proc |-> IF p[1] = r THEN Idle ELSE run[p]]
    /\ view' = [view EXCEPT ![r] = Zero]
    /\ UNCHANGED <<world, shared, ids, raced, artifact, history>>

Next ==
    \/ Tick \/ Push \/ Lose
    \/ \E r \in Replica : \/ Sync(r) \/ RepackStart(r) \/ Crash(r)
                          \/ \E k \in Kinds : Begin(r, k)
    \/ \E p \in Proc : \/ Claim(p) \/ Prime(p) \/ Record(p) \/ Freshen(p) \/ CheckRepackHealthy(p)
                       \/ Generate(p) \/ FindNoLFS(p) \/ Upload(p) \/ RepackEnd(p)

Spec == Init /\ [][Next]_vars

-----------------------------------------------------------------------------
Working(p) == run[p].pc \in {"freshen", "check", "generate", "upload"} /\ run[p].id # 0

\* Two replicas generate under a claim at once only if the earlier claim had
\* expired, or a record was written by a replica that had not seen the latest one
\* (snapshotcoord.go ClaimWithTTL).
OverlapExplained ==
    \A p, q \in Proc : Working(p) /\ Working(q) /\ run[p].id < run[q].id
        => clock >= run[p].expires \/ raced

\* While its owner works and time is left, a claim stands in the store: the late
\* result of an earlier owner does not take it away, unless it was written over
\* a record that its writer had not seen (CompleteClaim, SkipClaim, Fail).
ClaimStands ==
    \A p \in Proc : Working(p) /\ clock < run[p].expires /\ ~raced => shared.id = run[p].id

\* The time of completion is the time of an upload (or of finding no LFS), never of a
\* check that found nothing to do: the maximum age counts from the last upload (SkipClaim).
CompletionIsUpload == shared.completed # 0 => shared.completed \in uploads

\* The record in the store tells what its owners do and did, as far as a store
\* without transactions can.
ClaimsSound == OverlapExplained /\ ClaimStands /\ CompletionIsUpload

\* No scheduled job publishes a mirror that holds the duplicate packs of an
\* unfinished repack, even one a crash interrupted (checkRepackHealthy, Repack).
PublishedClean == ~unclean
=============================================================================
