--------------------------- MODULE SnapshotServing ---------------------------
(***************************************************************************)
(* Requests for the snapshot of one repository on one replica              *)
(* (strategy/git/snapshot.go handleSnapshotRequest): while the mirror is   *)
(* not ready one request looks into the cache for all, and a miss registers*)
(* a preparation with the job scheduler.                                   *)
(***************************************************************************)
EXTENDS Integers

CONSTANTS Req, Nobody, MaxChanges      \* bound: what others do to the cache and the mirror

VARIABLES
    ready,          \* the mirror's state is Ready
    cached,         \* the snapshot is in the cache
    healthy,        \* no repack is pending
    cold,           \* coldSnapshotMu: the request whose entry is in the table
    done,           \* request -> its entry's channel is closed
    registered,     \* mirrorPreparations holds the upstream
    job,            \* the preparation: "none", "queued", "running", "deferred", "delete"
    scheduled,      \* snapshotJobsScheduled
    req,            \* request -> [pc, on, answer, missing]
    changes

vars == <<ready, cached, healthy, cold, done, registered, job, scheduled, req, changes>>

\* on: the request whose cold entry it uses; missing: history, the snapshot was
\* absent from the cache, or unreadable, at some time since the request arrived.
Init ==
    /\ ready \in BOOLEAN /\ cached = FALSE /\ healthy = TRUE /\ cold = Nobody
    /\ done = [r \in Req |-> FALSE] /\ registered = FALSE /\ job = "none" /\ scheduled = FALSE
    /\ req = [r \in Req |-> [pc |-> "new", on |-> Nobody, answer |-> "none", missing |-> FALSE]]
    /\ changes = 0

At(r, pc) == req[r].pc = pc
Go(r, pc) == req' = [req EXCEPT ![r].pc = pc]
\* A request with an entry of its own runs its deferred function when it returns.
Answer(r, a) == req' = [req EXCEPT ![r].answer = a, ![r].pc = IF req[r].on = r THEN "close" ELSE "end"]
Change == changes < MaxChanges /\ changes' = changes + 1
mirror == <<ready, cached, healthy>>
table == <<cold, done>>
prep == <<registered, job, scheduled>>

-----------------------------------------------------------------------------
(* What other replicas, other requests and expiry do.                      *)

Publish == Change /\ ~cached /\ cached' = TRUE /\ UNCHANGED <<ready, healthy, table, prep, req>>
Expire ==
    /\ Change /\ cached /\ cached' = FALSE
    /\ req' = [r \in Req |-> [req[r] EXCEPT !.missing = @ \/ req[r].pc \notin {"new", "end"}]]
    /\ UNCHANGED <<ready, healthy, table, prep>>
\* A git request readies the mirror and schedules the jobs, unless a preparation
\* is registered (scheduleSnapshotJobs).
Warm ==
    /\ Change /\ ~ready /\ ready' = TRUE /\ scheduled' = (scheduled \/ ~registered)
    /\ UNCHANGED <<cached, healthy, table, registered, job, req>>
Repack == Change /\ ready /\ healthy' = ~healthy /\ UNCHANGED <<ready, cached, table, prep, req>>

-----------------------------------------------------------------------------
(* handleSnapshotRequest.                                                  *)

\* LoadOrStore of coldSnapshotMu while the mirror is not ready.
Arrive(r) ==
    LET wins == ~ready /\ cold = Nobody IN
    /\ At(r, "new")
    /\ req' = [req EXCEPT ![r] = [
            pc |-> CASE ready -> "open" [] wins -> "peek" [] OTHER -> "follow",
            on |-> CASE ready -> Nobody [] wins -> r [] OTHER -> cold,
            answer |-> "none", missing |-> ~cached]]
    /\ cold' = IF wins THEN r ELSE cold
    /\ UNCHANGED <<mirror, done, prep, changes>>
\* HEAD asks the cache's metadata only (serveSnapshotHead).
Head(r) ==
    /\ At(r, "new")
    /\ req' = [req EXCEPT ![r] = [@ EXCEPT !.pc = "end", !.missing = ~cached,
                                           !.answer = IF cached THEN "cached" ELSE "404"]]
    /\ UNCHANGED <<mirror, table, prep, changes>>

\* Followers wait until the winner has returned, and look for themselves.
FollowBlindly(r) ==
    /\ At(r, "follow") /\ done[req[r].on] /\ Go(r, "state")
    /\ UNCHANGED <<mirror, table, prep, changes>>
Follow(r) ==
    /\ At(r, "follow") /\ done[req[r].on] /\ Go(r, "peek")
    /\ UNCHANGED <<mirror, table, prep, changes>>
Peek(r) ==
    /\ At(r, "peek")
    /\ \/ cached /\ Answer(r, "cached") /\ UNCHANGED changes
       \/ ~cached /\ Go(r, "state") /\ UNCHANGED changes
       \/ cached /\ Change /\ req' = [req EXCEPT ![r].pc = "state", ![r].missing = TRUE]
    /\ UNCHANGED <<mirror, table, prep>>

\* scheduleColdSnapshotPreparation, then 404; a queue that is full refuses.
State(r) ==
    /\ At(r, "state")
    /\ \/ ready /\ Go(r, "open") /\ UNCHANGED registered
       \/ ~ready /\ registered /\ Answer(r, "404") /\ UNCHANGED registered
       \/ ~ready /\ ~registered /\ Go(r, "submit") /\ registered' = TRUE
    /\ UNCHANGED <<mirror, table, job, scheduled, changes>>
TrySubmit(r) ==
    /\ At(r, "submit") /\ Answer(r, "404")
    /\ \/ job' = "queued" /\ UNCHANGED registered
       \/ registered' = FALSE /\ UNCHANGED job
    /\ UNCHANGED <<mirror, table, scheduled, changes>>

\* With a mirror a hit is served, and a miss is generated through the spool (which
\* also schedules the jobs) unless the mirror is being prepared or repacked.
Open(r) ==
    /\ At(r, "open")
    /\ \/ cached /\ Answer(r, "cached") /\ UNCHANGED <<scheduled, changes>>
       \/ cached /\ Change /\ Answer(r, "500") /\ UNCHANGED scheduled
       \/ ~cached /\ (registered \/ ~healthy) /\ Answer(r, "404") /\ UNCHANGED <<scheduled, changes>>
       \/ /\ ~cached /\ ~registered /\ healthy
          /\ Answer(r, "spool") /\ scheduled' = TRUE /\ UNCHANGED changes
    /\ UNCHANGED <<mirror, table, registered, job>>

\* The winner announces its return, then removes its entry.
Close(r) ==
    /\ At(r, "close") /\ done' = [done EXCEPT ![r] = TRUE] /\ Go(r, "delete")
    /\ UNCHANGED <<mirror, cold, prep, changes>>
Delete(r) ==
    /\ At(r, "delete") /\ cold' = Nobody /\ Go(r, "end")
    /\ UNCHANGED <<mirror, done, prep, changes>>

-----------------------------------------------------------------------------
(* prepareColdSnapshot as a job; its claim and its upload are SnapshotJobs.*)

JobStart ==
    /\ job = "queued" /\ job' = "running"
    /\ UNCHANGED <<mirror, table, registered, scheduled, req, changes>>
\* It finds the snapshot published, is declined or fails; or it clones the mirror,
\* and its upload may still fail.
JobRun ==
    /\ job = "running" /\ job' = "deferred"
    /\ \/ UNCHANGED <<ready, cached>>
       \/ ready' = TRUE /\ cached' \in {cached, TRUE}
    /\ UNCHANGED <<healthy, table, registered, scheduled, req, changes>>
\* The deferred calls: the jobs of a mirror that is ready now, then the registration.
JobDeferred ==
    /\ job = "deferred" /\ job' = "delete" /\ scheduled' = (scheduled \/ ready)
    /\ UNCHANGED <<mirror, table, registered, req, changes>>
JobEnd ==
    /\ job = "delete" /\ job' = "none" /\ registered' = FALSE
    /\ UNCHANGED <<mirror, table, scheduled, req, changes>>

Next ==
    \/ Publish \/ Expire \/ Warm \/ Repack
    \/ JobStart \/ JobRun \/ JobDeferred \/ JobEnd
    \/ \E r \in Req : \/ Arrive(r) \/ Head(r) \/ Follow(r) \/ Peek(r) \/ State(r) \/ TrySubmit(r)
                      \/ Open(r) \/ Close(r) \/ Delete(r)

Spec == Init /\ [][Next]_vars

-----------------------------------------------------------------------------
\* A request is told "not cached" only if the snapshot was missing or unreadable
\* at some time while it was handled, however long it followed another request
\* (handleSnapshotRequest looks again after the wait).
NotFoundMeansMissing == \A r \in Req : req[r].answer = "404" => req[r].missing

\* A registered preparation is queued, running or about to be submitted: a refused
\* one is taken back, or the repository would never be prepared again
\* (scheduleColdSnapshotPreparation).
RegistrationHasJob == registered <=> (job # "none" \/ \E r \in Req : At(r, "submit"))

\* A follower waits only for a winner that has not returned (the deferred close).
ColdFollowersReleased ==
    \A r \in Req : At(r, "follow") => done[req[r].on] \/ req[req[r].on].pc \notin {"delete", "end"}

\* Requests that share one lookup, and the preparation behind it, are neither
\* misled nor left behind by it.
ColdServed == NotFoundMeansMissing /\ RegistrationHasJob /\ ColdFollowersReleased
=============================================================================
