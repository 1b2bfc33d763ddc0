---------------------------- MODULE CachingFetch ----------------------------
(***************************************************************************)
(* A response streamed from upstream to a client and into the cache at     *)
(* once: streamAndCache of internal/strategy/handler/handler.go, and       *)
(* FetchDirect of internal/cache/http.go.  A goroutine copies the body     *)
(* into a pipe the client reads and into a cache writer.                   *)
(***************************************************************************)
EXTENDS Integers

CONSTANTS Chunks    \* the body

VARIABLES
    kind,           \* "handler" or "fetch"
    copier,         \* "lookup", "read", "pipe", "tee", "finish", "close", "done"
    pos,            \* chunks read from upstream
    upstream,       \* "live", "eof", "failed"
    copyErr, teeErr,
    cached, entry,  \* chunks written to the cache writer; "none", "open",
                    \* "committed", "discarded"
    client,         \* "reading", "eof", "error", "gone"
    got             \* chunks the client has

vars == <<kind, copier, pos, upstream, copyErr, teeErr, cached, entry, client, got>>

Init ==
    /\ kind \in {"handler", "fetch"}
    /\ copier = "lookup" /\ pos = 0 /\ upstream = "live"
    /\ copyErr = FALSE /\ teeErr = FALSE
    /\ cached = 0 /\ entry = "none" /\ client = "reading" /\ got = 0

\* A miss, an upstream response with status 200, and Create; without a cache
\* writer the handler still streams, and FetchDirect fails.  A hit, a cache
\* error and any other status end the request here.
Start ==
    /\ copier = "lookup"
    /\ \/ copier' = "read" /\ entry' = "open" /\ UNCHANGED client
       \/ kind = "handler" /\ copier' = "read" /\ UNCHANGED <<entry, client>>
       \/ kind = "fetch" /\ copier' = "done" /\ client' = "error" /\ UNCHANGED entry
    /\ UNCHANGED <<kind, pos, upstream, copyErr, teeErr, cached, got>>

\* io.Copy: the next chunk, EOF, or a broken upstream.
ReadUpstream ==
    /\ copier = "read"
    /\ \/ pos < Chunks /\ pos' = pos + 1 /\ copier' = "pipe" /\ UNCHANGED <<upstream, copyErr>>
       \/ pos = Chunks /\ upstream' = "eof" /\ copier' = "finish" /\ UNCHANGED <<pos, copyErr>>
       \/ upstream' = "failed" /\ copyErr' = TRUE /\ copier' = "finish" /\ UNCHANGED pos
    /\ UNCHANGED <<kind, teeErr, cached, entry, client, got>>

\* The pipe is synchronous, and first in the MultiWriter.
WritePipe ==
    /\ copier = "pipe"
    /\ \/ client = "reading" /\ got' = got + 1 /\ copier' = "tee" /\ UNCHANGED copyErr
       \/ client = "gone" /\ copyErr' = TRUE /\ copier' = "finish" /\ UNCHANGED got
    /\ UNCHANGED <<kind, pos, upstream, teeErr, cached, entry, client>>

\* cacheTee swallows a failed write and remembers it; FetchDirect writes to the
\* cache writer itself, whose error ends the copy.
Tee ==
    /\ copier = "tee"
    /\ \/ (entry = "none" \/ teeErr) /\ copier' = "read" /\ UNCHANGED <<cached, teeErr, copyErr>>
       \/ entry = "open" /\ ~teeErr /\ cached' = cached + 1 /\ copier' = "read"
          /\ UNCHANGED <<teeErr, copyErr>>
       \/ /\ entry = "open" /\ ~teeErr /\ UNCHANGED cached
          /\ IF kind = "handler" THEN teeErr' = TRUE /\ copier' = "read" /\ UNCHANGED copyErr
             ELSE copyErr' = TRUE /\ copier' = "finish" /\ UNCHANGED teeErr
    /\ UNCHANGED <<kind, pos, upstream, entry, client, got>>

\* Abort after any error, Close otherwise; the request's context ends with the
\* client, and then Close discards as well.
FinishAlways ==
    /\ copier = "finish"
    /\ copier' = "close"
    /\ entry' = IF entry = "open" /\ ~copyErr THEN "committed" ELSE "discarded"
    /\ UNCHANGED <<kind, pos, upstream, copyErr, teeErr, cached, client, got>>
Finish ==
    /\ copier = "finish"
    /\ copier' = "close"
    /\ entry' \in IF entry = "none" THEN {"none"}
                  ELSE {"discarded"} \cup
                       {e \in {"committed"} : ~copyErr /\ ~teeErr /\ client # "gone"}
    /\ UNCHANGED <<kind, pos, upstream, copyErr, teeErr, cached, client, got>>

\* pw.CloseWithError: FetchDirect also passes on that the cache failed.
ClosePipe ==
    /\ copier = "close"
    /\ copier' = "done"
    /\ client' = CASE client = "gone" -> client
                   [] client # "gone" /\ (copyErr \/ (kind = "fetch" /\ entry = "discarded")) -> "error"
                   [] OTHER -> "eof"
    /\ UNCHANGED <<kind, pos, upstream, copyErr, teeErr, cached, entry, got>>

\* The client goes away; its end of the pipe is closed.
Leave ==
    /\ client = "reading"
    /\ client' = "gone"
    /\ UNCHANGED <<kind, copier, pos, upstream, copyErr, teeErr, cached, entry, got>>

Next == Start \/ ReadUpstream \/ WritePipe \/ Tee \/ Finish \/ ClosePipe \/ Leave

Spec == Init /\ [][Next]_vars

-----------------------------------------------------------------------------
\* Only a response that was complete, and was written to the cache without an
\* error, becomes an entry; the client has it all by then.
EntryWhole == entry = "committed" => upstream = "eof" /\ cached = Chunks /\ got = Chunks

\* The handler's client gets the whole response unless it left or upstream
\* failed, whatever the cache does.
CacheNeverInterrupts ==
    kind = "handler" /\ copier = "done" /\ client # "gone" /\ upstream # "failed"
        => client = "eof" /\ got = Chunks

\* The client and the cache get the response, or the one that failed does not
\* disturb the other (streamAndCache, FetchDirect).
FetchFaithful == EntryWhole /\ CacheNeverInterrupts
=============================================================================
