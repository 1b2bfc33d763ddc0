----------------------------- MODULE MCTransfers ----------------------------
(***************************************************************************)
(* What moves objects: the tiered cache of two replicas, the backfill of   *)
(* tier 0, the parallel download, the upload to a remote tier, the caching *)
(* of upstream responses, and the answer to a conditional request.  focus  *)
(* is the one that runs; the others stay in an initial state.              *)
(***************************************************************************)
EXTENDS Naturals, TLC

CONSTANTS r1, r2, w1, w2, None, MaxEvents, MaxFaults, BufSize, BackfillChunks,
          ChunkSize, Concurrency, Total, ResumeAttempts, MaxBreaks, MaxRev,
          UploadChunks, FetchChunks, MaxSize

\* Sizes: an object may be empty, a chunk and a set of workers are not.
ASSUME SizesAssumption ==
    /\ BackfillChunks \in Nat /\ BufSize \in Nat
    /\ ChunkSize \in Nat \ {0} /\ Concurrency \in Nat \ {0} /\ Total \in Nat
    /\ MaxSize \in Nat

VARIABLES
    focus,
    local, shared, log, seen, writer, open, fills, heal, deleter, opens, faults,
    unordered, disturbed, order, held, floor,
    pos, ch, chClosed, cancelled, caller, eof, bg, written, writeFailed, dst, filled,
    pages, pending, frontier, readOff, closed, rclosed, bufErr, stream,
    rev, mode, pinned, nextSeq, low, done, worker, egCancelled, failed, breaks,
    putCaller, sent, ctx, aborted, cause, pipe, transport, wireEnd, server, putGot, object, status,
    kind, copier, fetchPos, upstream, copyErr, teeErr, cached, entry, client, fetchGot,
    size, etag, request, answer

tieredVars == <<local, shared, log, seen, writer, open, fills, heal, deleter, opens, faults,
                unordered, disturbed, order, held, floor>>
fillVars == <<pos, ch, chClosed, cancelled, caller, eof, bg, written, writeFailed, dst, filled>>
getVars == <<pages, pending, frontier, readOff, closed, rclosed, bufErr, stream,
             rev, mode, pinned, nextSeq, low, done, worker, egCancelled, failed, breaks>>
putVars == <<putCaller, sent, ctx, aborted, cause, pipe, transport, wireEnd, server, putGot,
             object, status>>
fetchVars == <<kind, copier, fetchPos, upstream, copyErr, teeErr, cached, entry, client, fetchGot>>
askVars == <<size, etag, request, answer>>
vars == <<focus, tieredVars, fillVars, getVars, putVars, fetchVars, askVars>>

\* Each replica writes once; one of them serves requests.
Tiered == INSTANCE TieredCache WITH
              Replica <- {r1, r2}, Writer <- {w1, w2}, At <- (w1 :> r1 @@ w2 :> r2),
              Kind <- {"get", "range", "ifrange", "match", "nonematch", "head"}, Reading <- {r1}
Fill == INSTANCE Backfill WITH Chunks <- BackfillChunks
Get == INSTANCE ParallelGet WITH cancelled <- egCancelled
Put == INSTANCE RemoteUpload WITH Chunks <- UploadChunks, caller <- putCaller, got <- putGot
Fetch == INSTANCE CachingFetch WITH Chunks <- FetchChunks, pos <- fetchPos, got <- fetchGot
Conditional == INSTANCE ConditionalGet WITH Tag <- {"e1", "e2"}

Init ==
    /\ focus \in {"tiered", "fill", "get", "put", "fetch", "ask"}
    /\ Tiered!Init /\ Fill!Init /\ Get!Init /\ Put!Init
    /\ Fetch!Init /\ (focus = "fetch" \/ kind = "handler")
    /\ Conditional!Init /\ (focus = "ask" \/ <<size, etag>> = <<0, "">>)

Next ==
    \/ focus = "tiered" /\ Tiered!Next /\ UNCHANGED <<focus, fillVars, getVars, putVars, fetchVars, askVars>>
    \/ focus = "fill" /\ Fill!Next /\ UNCHANGED <<focus, tieredVars, getVars, putVars, fetchVars, askVars>>
    \/ focus = "get" /\ Get!Next /\ UNCHANGED <<focus, tieredVars, fillVars, putVars, fetchVars, askVars>>
    \/ focus = "put" /\ Put!Next /\ UNCHANGED <<focus, tieredVars, fillVars, getVars, fetchVars, askVars>>
    \/ focus = "fetch" /\ Fetch!Next /\ UNCHANGED <<focus, tieredVars, fillVars, getVars, putVars, askVars>>
    \/ focus = "ask" /\ Conditional!Next /\ UNCHANGED <<focus, tieredVars, fillVars, getVars, putVars, fetchVars>>

Spec == Init /\ [][Next]_vars

\* The backfill by itself.
FillSpec == Init /\ focus = "fill" /\ [][Next]_vars

-----------------------------------------------------------------------------
(* The properties, in the words of the modules that define them.           *)

\* TieredCache: the pinned version, or none older than the replica knew.
VersionRight == Tiered!VersionRight

\* TieredCache: in a quiet system a local copy is current or known to be stale.
Converges == Tiered!Converges

\* Backfill: a channel that never filled up commits whole objects only.
CommittedWholeUnlessFull == Fill!CommittedWholeUnlessFull

\* Backfill: tier 0 commits whole objects only.
CommittedWhole == Fill!CommittedWhole

\* ParallelGet: the reader gets the object, whole and of one revision.
StreamIntact == Get!StreamIntact

\* ParallelGet: workers and reader do not wait for each other.
NeverStuck == Get!NeverStuck

\* RemoteUpload: Close and the server agree on what exists.
UploadFaithful == Put!UploadFaithful

\* CachingFetch: complete responses are cached, and the client gets its own.
FetchFaithful == Fetch!FetchFaithful

\* ConditionalGet: an answer carries what its request selects.
AnswersFaithful == Conditional!AnswersFaithful
=============================================================================
