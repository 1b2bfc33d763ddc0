----------------------------- MODULE MCServices -----------------------------
(***************************************************************************)
(* The git strategy and what it stands on: spooled responses, the mirror's *)
(* life and its freshness, snapshot jobs, bundles and snapshot requests,   *)
(* clone counts, the callers' side of the metadata store and the meaning   *)
(* of its operations, and GitHub tokens.  focus is the one that runs, with *)
(* the instance it runs on; the others stay in an initial state.           *)
(***************************************************************************)
EXTENDS Integers

CONSTANTS p1, p2, q1, q2, q3, Nobody, None, Capacity, RetentionDays, RefCheckInterval, Width

VARIABLES
    focus, faults,
    owner, spoolTable, last, sp, path, content, follower, cleanup, crossed,
    state, disk, job, deferredOnce, serving, adopted, swept, restarts,
    upstream, mirror, past, clock, sem, fetches, lastFetch, valid, checkedAt, call,
    snapClock, head, shared, view, heads, artifact, run, marker, dup, ids, raced, uploads, unclean,
    table, build, wanting, publisher, bundled,
    ready, cached, healthy, cold, done, registered, preparation, scheduled, req, changes,
    day, counts, reap, cloned, counted,
    ctx, applyCh, batch, writer, result, caller, reply, durable, applied,
    loop, flushes, flusher, flushing, passed,
    kind, local, replayed,
    login, installed, orgToApp, installations, owners, tokens, asking

spoolVars == <<owner, spoolTable, last, sp, path, content, follower, cleanup, crossed>>
mirrorVars == <<state, disk, job, deferredOnce, serving, adopted, swept, restarts>>
fetchVars == <<upstream, mirror, past, clock, sem, fetches, lastFetch, valid, checkedAt, call>>
snapVars == <<snapClock, head, shared, view, heads, artifact, run, marker, dup, ids, raced,
              uploads, unclean>>
bundleVars == <<table, build, wanting, publisher, bundled>>
serveVars == <<ready, cached, healthy, cold, done, registered, preparation, scheduled, req, changes>>
countVars == <<day, counts, reap, cloned, counted>>
commitVars == <<ctx, applyCh, batch, writer, result, caller, reply, durable, applied,
                loop, flushes, flusher, flushing, passed>>
opVars == <<kind, local, replayed>>
tokenVars == <<login, installed, orgToApp, installations, owners, tokens, asking>>
git == <<spoolVars, mirrorVars, fetchVars, snapVars, bundleVars, serveVars>>
services == <<countVars, commitVars, opVars, tokenVars>>
vars == <<focus, faults, git, services>>

Two == {p1, p2}
Three == {q1, q2, q3}

\* One generation with three requests, and two generations with two.
Spool == INSTANCE ResponseSpool WITH Req <- Three, Gens <- 1, Chunks <- 2, MaxFaults <- 2,
             table <- spoolTable, req <- follower
Respool == INSTANCE ResponseSpool WITH Req <- Two, Gens <- 2, Chunks <- 2, MaxFaults <- 1,
             table <- spoolTable, req <- follower
Mirror == INSTANCE RepoMirror WITH Job <- Three, MaxFaults <- 2, MaxRestarts <- 1
\* Advertisements, for which time passes, and the requests that depend on a commit.
Advertise == INSTANCE MirrorFetch WITH Caller <- Two, Kinds <- {"discover", "fetch"},
             MaxPush <- 1, MaxClock <- 3, MaxFaults <- 1
Freshen == INSTANCE MirrorFetch WITH Caller <- Two, Kinds <- {"pack", "ensure", "bundle", "fetch"},
             MaxPush <- 1, MaxClock <- 1, MaxFaults <- 1
\* Two replicas with claims, one with on-demand work and repacks, two with LFS.
Claims == INSTANCE SnapshotJobs WITH Replica <- Two, Kinds <- {"job", "cold"}, Interval <- 1,
             ClaimTTL <- 1, MaxAge <- 2, MaxClock <- 3, MaxPush <- 1, MaxClaims <- 2,
             MaxFaults <- 1, clock <- snapClock, upstream <- head, mirror <- heads
Repacks == INSTANCE SnapshotJobs WITH Replica <- {"one"}, Kinds <- {"job", "demand", "repack"},
             Interval <- 1, ClaimTTL <- 1, MaxAge <- 2, MaxClock <- 2, MaxPush <- 2,
             MaxClaims <- 2, MaxFaults <- 1, clock <- snapClock, upstream <- head, mirror <- heads
LFS == INSTANCE SnapshotJobs WITH Replica <- Two, Kinds <- {"lfs"}, Interval <- 1,
             ClaimTTL <- 1, MaxAge <- 2, MaxClock <- 3, MaxPush <- 1, MaxClaims <- 2,
             MaxFaults <- 0, clock <- snapClock, upstream <- head, mirror <- heads
Bundle == INSTANCE BundleBuild WITH Req <- Three, req <- wanting, cached <- bundled
Serve == INSTANCE SnapshotServing WITH Req <- Three, MaxChanges <- 2, job <- preparation
Count == INSTANCE RepoCounts WITH Replica <- Two, Repo <- {"repo"}, MaxDay <- RetentionDays + 1,
             MaxCount <- 1, InspectLimit <- 2, Lookahead <- 1
Commit == INSTANCE GroupCommit WITH Caller <- Two, Flusher <- Two, MaxConsecutiveFlushes <- 1,
             state <- applied, serving <- flushing
Ops == INSTANCE MetadataOps WITH Operands <- {-8, -1, 0, 2, 3}, MaxList <- 2
Token == INSTANCE TokenCache WITH Caller <- Two, Apps <- 2, Org <- {"old", "new", "spare"},
             Account <- {"acme", "spare"}, FallbackOrg <- "spare", MaxFaults <- 1,
             AccountOf <- [old |-> "acme", new |-> "acme", spare |-> "spare"], call <- asking

Focus == {"spool", "respool", "mirror", "advertise", "freshen", "claims", "repacks", "lfs",
          "bundle", "serve", "count", "commit", "ops", "token"}

Init ==
    /\ focus \in Focus
    /\ IF focus = "respool" THEN Respool!Init ELSE Spool!Init
    /\ focus \in {"spool", "respool"} \/ owner = "repo"
    /\ Mirror!Init /\ (focus = "mirror" \/ disk = "none")
    /\ IF focus = "freshen" THEN Freshen!Init ELSE Advertise!Init
    /\ IF focus = "repacks" THEN Repacks!Init ELSE Claims!Init
    /\ Bundle!Init /\ Serve!Init /\ (focus = "serve" \/ ready)
    /\ Count!Init /\ Commit!Init /\ (focus = "commit" \/ loop = "poll")
    /\ Ops!Init /\ (focus = "ops" \/ kind = "int")
    /\ Token!Init /\ login["acme"] = "old" /\ "spare" \in installed[1]
    /\ focus = "token" \/ installed = [a \in 1 .. 2 |-> {"spare"}]

SpoolNext ==
    /\ \/ focus = "spool" /\ Spool!Next
       \/ focus = "respool" /\ Respool!Next
    /\ UNCHANGED <<focus, mirrorVars, fetchVars, snapVars, bundleVars, serveVars, services>>
MirrorNext ==
    /\ focus = "mirror" /\ Mirror!Next
    /\ UNCHANGED <<focus, spoolVars, fetchVars, snapVars, bundleVars, serveVars, services>>
FetchNext ==
    /\ \/ focus = "advertise" /\ Advertise!Next
       \/ focus = "freshen" /\ Freshen!Next
    /\ UNCHANGED <<focus, spoolVars, mirrorVars, snapVars, bundleVars, serveVars, services>>
SnapNext ==
    /\ \/ focus = "claims" /\ Claims!Next
       \/ focus = "repacks" /\ Repacks!Next
       \/ focus = "lfs" /\ LFS!Next
    /\ UNCHANGED <<focus, spoolVars, mirrorVars, fetchVars, bundleVars, serveVars, services>>
BundleNext ==
    /\ focus = "bundle" /\ Bundle!Next
    /\ UNCHANGED <<focus, faults, spoolVars, mirrorVars, fetchVars, snapVars, serveVars, services>>
ServeNext ==
    /\ focus = "serve" /\ Serve!Next
    /\ UNCHANGED <<focus, faults, spoolVars, mirrorVars, fetchVars, snapVars, bundleVars, services>>
CountNext ==
    focus = "count" /\ Count!Next /\ UNCHANGED <<focus, faults, git, commitVars, opVars, tokenVars>>
CommitNext ==
    focus = "commit" /\ Commit!Next /\ UNCHANGED <<focus, faults, git, countVars, opVars, tokenVars>>
OpsNext ==
    focus = "ops" /\ Ops!Next /\ UNCHANGED <<focus, faults, git, countVars, commitVars, tokenVars>>
TokenNext ==
    focus = "token" /\ Token!Next /\ UNCHANGED <<focus, git, countVars, commitVars, opVars>>

Next ==
    \/ SpoolNext \/ MirrorNext \/ FetchNext \/ SnapNext \/ BundleNext \/ ServeNext
    \/ CountNext \/ CommitNext \/ OpsNext \/ TokenNext

Spec == Init /\ [][Next]_vars

\* The requests that depend on a fetch, by themselves.
FreshenSpec == Init /\ focus = "freshen" /\ [][Next]_vars

-----------------------------------------------------------------------------
(* The properties, in the words of the modules that define them.           *)

\* ResponseSpool: followers get the whole response or an error, in the end.
SpoolFaithful ==
    /\ focus = "spool" => Spool!SpoolFaithful
    /\ focus = "respool" => Respool!SpoolFaithful

\* RepoMirror: cloning has exactly one owner, and what is served was fetched.
MirrorSound == focus = "mirror" => Mirror!MirrorSound

\* MirrorFetch: advertised refs are a check interval old at most.
AdvertisedFresh ==
    /\ focus = "advertise" => Advertise!AdvertisedFresh
    /\ focus = "freshen" => Freshen!AdvertisedFresh

\* MirrorFetch: "up to date" and "missing" were true of upstream.
AnswersVerified ==
    /\ focus = "advertise" => Advertise!AnswersVerified
    /\ focus = "freshen" => Freshen!AnswersVerified

\* MirrorFetch: a missing commit was missing, whichever fetch was waited for.
EnsureRefsFetches ==
    /\ focus = "advertise" => Advertise!EnsureRefsFetches
    /\ focus = "freshen" => Freshen!EnsureRefsFetches

\* SnapshotJobs: claims exclude each other, stand, and record uploads only.
ClaimsSound ==
    /\ focus \in {"claims", "lfs"} => Claims!ClaimsSound
    /\ focus = "repacks" => Repacks!ClaimsSound

\* SnapshotJobs: no job publishes an unfinished repack.
PublishedClean ==
    /\ focus \in {"claims", "lfs"} => Claims!PublishedClean
    /\ focus = "repacks" => Repacks!PublishedClean

\* BundleBuild: one build, whose file is open while it is read and closed after.
BundleShared == focus = "bundle" => Bundle!BundleShared

\* SnapshotServing: a shared lookup misleads nobody and leaves nobody behind.
ColdServed == focus = "serve" => Serve!ColdServed

\* RepoCounts: no clone is overlooked or reaped too early.
CountsComplete == focus = "count" => Count!CountsComplete

\* GroupCommit: what a caller is told about its write is true.
WritesAnswered == focus = "commit" => Commit!WritesAnswered

\* GroupCommit: a Flush is answered soon, and Close ends the loops.
FlushAnswered == focus = "commit" => Commit!FlushAnswered

\* MetadataOps: replayed and native state answer alike.
ReplayAgrees == focus = "ops" => Ops!ReplayAgrees

\* TokenCache: tokens, installations and owners belong together.
TokensRight == focus = "token" => Token!TokensRight
=============================================================================
