----------------------------- MODULE BundleBuild -----------------------------
(***************************************************************************)
(* The building of one delta bundle, shared by the requests that want it   *)
(* (strategy/git/snapshot.go: bundleBuild, handleBundleRequest,            *)
(* pregenerateBundle, publishBundle).  Every request allocates a build; the*)
(* one that gets its build into the table builds, the others wait for it   *)
(* and read its file.  Creating the bundle from the mirror is MirrorFetch. *)
(***************************************************************************)
EXTENDS FiniteSets, Integers

CONSTANTS Req, Nobody

VARIABLES
    table,      \* bundleBuilds: the owner of the build in the table, or Nobody
    build,      \* request -> the build it allocated
    req,        \* request -> [pc, kind, on: owner of the build it uses]
    publisher,  \* request -> the goroutine that caches its bundle
    cached      \* the bundle is in the cache

vars == <<table, build, req, publisher, cached>>

Init ==
    /\ table = Nobody /\ cached = FALSE
    /\ build = [r \in Req |-> [done |-> FALSE, empty |-> FALSE, file |-> "none", refs |-> 1]]
    /\ req = [r \in Req |-> [pc |-> "new", kind |-> "get", on |-> Nobody]]
    /\ publisher = [r \in Req |-> "none"]

At(r, pc) == req[r].pc = pc
Go(r, pc) == req' = [req EXCEPT ![r].pc = pc]

\* retain fails once the last reference is gone; release closes the file with it.
Retained(b) == [b EXCEPT !.refs = @ + 1]
Released(b) ==
    [b EXCEPT !.refs = @ - 1, !.file = IF b.refs = 1 /\ b.file = "open" THEN "closed" ELSE @]

-----------------------------------------------------------------------------
Arrive(r, kind) ==
    /\ At(r, "new")
    /\ req' = [req EXCEPT ![r] = [pc |-> IF kind = "get" THEN "open" ELSE "join",
                                  kind |-> kind, on |-> Nobody]]
    /\ UNCHANGED <<table, build, publisher, cached>>

\* The cache is asked before the table, and again by the builder.  A hit is served.
Open(r) ==
    /\ At(r, "open") /\ Go(r, IF cached THEN "end" ELSE "join")
    /\ UNCHANGED <<table, build, publisher, cached>>
OpenAgain(r) ==
    /\ At(r, "again") /\ Go(r, IF cached THEN "finish" ELSE "build")
    /\ UNCHANGED <<table, build, publisher, cached>>

\* LoadOrStore.  A request that only prepares a bundle for later leaves.
Join(r) ==
    /\ At(r, "join")
    /\ IF table = Nobody
       THEN table' = r /\ req' = [req EXCEPT ![r].pc = "again", ![r].on = r]
       ELSE /\ UNCHANGED table
            /\ req' = IF req[r].kind = "get" THEN [req EXCEPT ![r].pc = "retain", ![r].on = table]
                                             ELSE [req EXCEPT ![r].pc = "end"]
    /\ UNCHANGED <<build, publisher, cached>>

Retain(r) ==
    LET b == req[r].on IN
    /\ At(r, "retain")
    /\ IF build[b].refs > 0
       THEN build' = [build EXCEPT ![b] = Retained(@)] /\ Go(r, "wait")
       ELSE UNCHANGED build /\ req' = [req EXCEPT ![r].pc = "open", ![r].on = Nobody]
    /\ UNCHANGED <<table, publisher, cached>>

\* A follower waits for the build or for its deadline.
Wait(r) ==
    LET b == req[r].on IN
    /\ At(r, "wait") /\ build[b].done
    /\ IF ~build[b].empty /\ build[b].file # "none"
       THEN Go(r, "copy") /\ UNCHANGED build
       ELSE /\ build' = [build EXCEPT ![b] = Released(@)]
            /\ req' = [req EXCEPT ![r] = [@ EXCEPT !.pc = IF build[b].empty THEN "end" ELSE "open",
                                                   !.on = Nobody]]
    /\ UNCHANGED <<table, publisher, cached>>
TimeOut(r) ==
    /\ At(r, "wait")
    /\ build' = [build EXCEPT ![req[r].on] = Released(@)]
    /\ req' = [req EXCEPT ![r].pc = "end", ![r].on = Nobody]
    /\ UNCHANGED <<table, publisher, cached>>

\* serveGenerated: the whole file, then the reference is given back.
Copy(r) ==
    /\ At(r, "copy")
    /\ IF req[r].on = r
       THEN Go(r, "finish") /\ UNCHANGED build
       ELSE /\ build' = [build EXCEPT ![req[r].on] = Released(@)]
            /\ req' = [req EXCEPT ![r].pc = "end", ![r].on = Nobody]
    /\ UNCHANGED <<table, publisher, cached>>

\* The mirror is unavailable or lacks the base, or a verified fetch found nothing
\* newer, or there is a bundle (which is published unless its size is unknown).
BuildFails(r) ==
    /\ At(r, "build") /\ Go(r, "finish")
    /\ UNCHANGED <<table, build, publisher, cached>>
BuildEmpty(r) ==
    /\ At(r, "build") /\ Go(r, "finish")
    /\ build' = [build EXCEPT ![r].empty = (req[r].kind = "get")]
    /\ UNCHANGED <<table, publisher, cached>>
PublishBundleUnretained(r) ==
    /\ At(r, "build") /\ publisher' = [publisher EXCEPT ![r] = "copy"]
    /\ build' = [build EXCEPT ![r] = [@ EXCEPT !.file = "open", !.done = TRUE]]
    /\ Go(r, IF req[r].kind = "get" THEN "copy" ELSE "finish")
    /\ UNCHANGED <<table, cached>>
PublishBundle(r) ==
    /\ At(r, "build") /\ publisher' = [publisher EXCEPT ![r] = "copy"]
    /\ build' = [build EXCEPT ![r] = Retained([@ EXCEPT !.file = "open", !.done = TRUE])]
    /\ Go(r, IF req[r].kind = "get" THEN "copy" ELSE "finish")
    /\ UNCHANGED <<table, cached>>

\* cacheBundle may fail.  The entry goes before the reference.
CacheBundle(r) ==
    /\ publisher[r] = "copy" /\ publisher' = [publisher EXCEPT ![r] = "delete"]
    /\ cached' \in {cached, TRUE}
    /\ UNCHANGED <<table, build, req>>
PublisherDelete(r) ==
    /\ publisher[r] = "delete" /\ publisher' = [publisher EXCEPT ![r] = "release"]
    /\ table' = Nobody
    /\ UNCHANGED <<build, req, cached>>
PublisherRelease(r) ==
    /\ publisher[r] = "release" /\ publisher' = [publisher EXCEPT ![r] = "end"]
    /\ build' = [build EXCEPT ![r] = Released(@)]
    /\ UNCHANGED <<table, req, cached>>

\* finishBundleBuild: without a file the entry goes first, then the followers.
FinishDelete(r) ==
    /\ At(r, "finish")
    /\ IF build[r].file = "none" THEN table' = Nobody /\ Go(r, "close")
                                 ELSE UNCHANGED table /\ Go(r, "release")
    /\ UNCHANGED <<build, publisher, cached>>
FinishClose(r) ==
    /\ At(r, "close") /\ build' = [build EXCEPT ![r].done = TRUE] /\ Go(r, "release")
    /\ UNCHANGED <<table, publisher, cached>>
FinishRelease(r) ==
    /\ At(r, "release")
    /\ build' = [build EXCEPT ![r] = Released(@)]
    /\ req' = [req EXCEPT ![r].pc = "end", ![r].on = Nobody]
    /\ UNCHANGED <<table, publisher, cached>>

\* The bundle's time to live in the cache ends.
Expire == cached /\ cached' = FALSE /\ UNCHANGED <<table, build, req, publisher>>

Next ==
    \/ Expire
    \/ \E r \in Req :
        \/ \E k \in {"get", "pregenerate"} : Arrive(r, k)
        \/ Open(r) \/ OpenAgain(r) \/ Join(r) \/ Retain(r) \/ Wait(r) \/ TimeOut(r) \/ Copy(r)
        \/ BuildFails(r) \/ BuildEmpty(r) \/ PublishBundle(r)
        \/ CacheBundle(r) \/ PublisherDelete(r) \/ PublisherRelease(r)
        \/ FinishDelete(r) \/ FinishClose(r) \/ FinishRelease(r)

Spec == Init /\ [][Next]_vars

-----------------------------------------------------------------------------
\* Nobody reads a bundle's file after it was closed: neither the builder, nor a
\* follower, nor the goroutine that caches it (bundleBuild retain and release).
ReadsOpenFile ==
    /\ \A r \in Req : At(r, "copy") => build[req[r].on].file = "open"
    /\ \A r \in Req : publisher[r] = "copy" => build[r].file = "open"

\* A bundle is built by one request at a time, and no entry of the table outlives
\* the build it announces (bundleBuilds LoadOrStore and the deferred deletes).
OneBuild ==
    /\ Cardinality({r \in Req : req[r].on = r /\ req[r].pc \in {"again", "build"}}) <= 1
    /\ table # Nobody => build[table].refs > 0

\* A follower waits only for a build whose owner will still announce its end.
FollowersAnnounced ==
    \A r \in Req : At(r, "wait") /\ ~build[req[r].on].done =>
        req[req[r].on].pc \in {"again", "build", "finish", "close"}

\* When the last request and publisher have left, no file is left open.
FilesClosed ==
    (\A r \in Req : req[r].pc = "end" /\ publisher[r] \in {"none", "end"})
        => \A r \in Req : build[r].file # "open"

\* Requests share one build and its file from the first to the last of them.
BundleShared == ReadsOpenFile /\ OneBuild /\ FollowersAnnounced /\ FilesClosed
=============================================================================
