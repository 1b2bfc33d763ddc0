---------------------------- MODULE RemoteUpload ----------------------------
(***************************************************************************)
(* An object written through the client (client/client.go Create and its   *)
(* writeCloser) to the server's API (internal/strategy/apiv1.go putObject):*)
(* the caller feeds a pipe, the HTTP transport sends what it reads from    *)
(* it, and the server copies the body into a cache writer.                 *)
(***************************************************************************)
EXTENDS Integers

CONSTANTS Chunks    \* what the caller may write

VARIABLES
    caller,         \* "writing", "close": doClose is next, "waiting", "ok", "failed"
    sent,           \* chunks the transport took from the pipe
    ctx,            \* the upload's context: "live" or "cancelled"
    aborted,        \* history: Abort was called
    cause,          \* doClose found the context cancelled
    pipe,           \* "open", "eof", "error"
    transport,      \* "active", "error", "200", "500"
    wireEnd,        \* what ends the request on the wire: "open", "eof", "cut"
    server,         \* "idle", "copy", "close", "done"
    got,            \* chunks the server copied
    object,         \* "none", "committed", "discarded"
    status          \* the server's response: "none", "200", "500"

vars == <<caller, sent, ctx, aborted, cause, pipe, transport, wireEnd, server, got, object, status>>
clientVars == <<caller, sent, ctx, aborted, cause, pipe>>
serverVars == <<server, got, object, status>>

Init ==
    /\ caller = "writing" /\ sent = 0 /\ ctx = "live" /\ aborted = FALSE /\ cause = FALSE
    /\ pipe = "open" /\ transport = "active" /\ wireEnd = "open"
    /\ server = "idle" /\ got = 0 /\ object = "none" /\ status = "none"

-----------------------------------------------------------------------------
(* The caller.                                                             *)

Write ==
    /\ caller = "writing" /\ sent < Chunks /\ transport = "active" /\ wireEnd = "open"
    /\ sent' = sent + 1
    /\ UNCHANGED <<caller, ctx, aborted, cause, pipe, transport, wireEnd, serverVars>>

CancelContext ==
    /\ ctx = "live" /\ caller \in {"writing", "close", "waiting"}
    /\ ctx' = "cancelled"
    /\ UNCHANGED <<caller, sent, aborted, cause, pipe, transport, wireEnd, serverVars>>

Abort ==
    /\ caller = "writing"
    /\ ctx' = "cancelled" /\ aborted' = TRUE /\ caller' = "close"
    /\ UNCHANGED <<sent, cause, pipe, transport, wireEnd, serverVars>>

Close ==
    /\ caller = "writing"
    /\ caller' = "close"
    /\ UNCHANGED <<sent, ctx, aborted, cause, pipe, transport, wireEnd, serverVars>>

\* doClose ends the pipe cleanly only under a live context, then waits.
DoCloseCleanly ==
    /\ caller = "close"
    /\ cause' = (ctx = "cancelled")
    /\ pipe' = "eof" /\ caller' = "waiting"
    /\ UNCHANGED <<sent, ctx, aborted, transport, wireEnd, serverVars>>
DoClose ==
    /\ caller = "close"
    /\ cause' = (ctx = "cancelled")
    /\ pipe' = IF cause' THEN "error" ELSE "eof"
    /\ caller' = "waiting"
    /\ UNCHANGED <<sent, ctx, aborted, transport, wireEnd, serverVars>>
Return ==
    /\ caller = "waiting" /\ transport # "active"
    /\ caller' = IF transport = "200" /\ ~cause THEN "ok" ELSE "failed"
    /\ UNCHANGED <<sent, ctx, aborted, cause, pipe, transport, wireEnd, serverVars>>

-----------------------------------------------------------------------------
(* The transport: it may end the body before it sees a cancellation.       *)

SendEOF ==
    /\ transport = "active" /\ wireEnd = "open" /\ pipe = "eof"
    /\ wireEnd' = "eof"
    /\ UNCHANGED <<clientVars, transport, serverVars>>

\* The context ends, the pipe fails, or the connection breaks.
Cut ==
    /\ transport = "active"
    /\ transport' = "error"
    /\ wireEnd' = IF wireEnd = "open" THEN "cut" ELSE wireEnd
    /\ UNCHANGED <<clientVars, serverVars>>

Respond ==
    /\ transport = "active" /\ status # "none"
    /\ transport' = status
    /\ UNCHANGED <<clientVars, wireEnd, serverVars>>

-----------------------------------------------------------------------------
(* putObject.                                                              *)

PutCreate ==
    /\ server = "idle"
    /\ \/ server' = "copy" /\ UNCHANGED status
       \/ server' = "done" /\ status' = "500"
    /\ UNCHANGED <<clientVars, transport, wireEnd, got, object>>

PutAbort == object' = "discarded" /\ status' = "500" /\ server' = "done"
PutCopy ==
    /\ server = "copy"
    /\ \/ got < sent /\ got' = got + 1 /\ UNCHANGED <<server, object, status>>
       \/ got < sent /\ PutAbort /\ UNCHANGED got
       \/ got = sent /\ wireEnd = "eof" /\ server' = "close" /\ UNCHANGED <<got, object, status>>
       \/ wireEnd = "cut" /\ PutAbort /\ UNCHANGED got
    /\ UNCHANGED <<clientVars, transport, wireEnd>>

\* The cache commits under a live request context; a broken connection ends it.
PutClose ==
    /\ server = "close"
    /\ \/ object' = "committed" /\ status' = "200" /\ server' = "done"
       \/ PutAbort
    /\ UNCHANGED <<clientVars, transport, wireEnd, got>>

Next ==
    \/ Write \/ CancelContext \/ Abort \/ Close \/ DoClose \/ Return
    \/ SendEOF \/ Cut \/ Respond
    \/ PutCreate \/ PutCopy \/ PutClose

Spec == Init /\ [][Next]_vars

-----------------------------------------------------------------------------
\* When Close returns success, the server has committed every chunk.
CloseConfirms == caller = "ok" => object = "committed" /\ got = sent

\* What Abort was called on never becomes visible, and neither does an upload
\* that its caller did not finish, however the cancellation races the transport.
UnfinishedNeverVisible == object = "committed" => ~aborted /\ pipe = "eof" /\ got = sent /\ ~cause

\* Close and the server agree on whether the object exists (doClose, putObject).
UploadFaithful == CloseConfirms /\ UnfinishedNeverVisible
=============================================================================
