---------------------------- MODULE GroupCommit ----------------------------
(***************************************************************************)
(* The callers' side of one namespace of the S3 metadata backend           *)
(* (metadatadb/s3): apply and writeLoop over a buffered channel, flush and *)
(* runLoop over an unbuffered one, and Close.  What a segment becomes in   *)
(* the bucket, and what a tick does, is MetadataJournal.                   *)
(***************************************************************************)
EXTENDS FiniteSets, Integers, Sequences, SequencesExt

CONSTANTS Caller, Flusher, Capacity, MaxConsecutiveFlushes, Nobody

VARIABLES
    ctx,        \* the backend: "open", "cancelled", "closed" (Close has returned)
    applyCh,    \* callers whose requests are buffered
    batch,      \* the requests of the PUT in flight
    writer,     \* writeLoop: "select", "put", "insert", "reply", "drain", "end"
    result,     \* of the commit: "none", "ok", "error"
    caller,     \* caller -> "new", "waiting", "ok", "error", "closed", "cancelled"
    reply,      \* caller -> "none", "ok", "error"
    durable,    \* batches in the bucket, as a sequence
    state,      \* requests applied to the served state, in order
    loop,       \* runLoop: "poll", "select", "tick", "flush", "end"
    flushes,    \* Flush ticks in a row
    flusher,    \* flusher -> "new", "sending", "waiting", "ok", "error"
    serving,    \* the flusher whose tick runs
    passed      \* ghost: flusher -> background ticks begun, with no Flush served, since it sends

vars == <<ctx, applyCh, batch, writer, result, caller, reply, durable, state,
          loop, flushes, flusher, serving, passed>>
writeSide == <<applyCh, batch, writer, result, caller, reply, durable, state>>
flushSide == <<loop, flushes, flusher, serving, passed>>

Init ==
    /\ ctx = "open" /\ applyCh = <<>> /\ batch = <<>> /\ writer = "select" /\ result = "none"
    /\ caller = [c \in Caller |-> "new"] /\ reply = [c \in Caller |-> "none"]
    /\ durable = <<>> /\ state = <<>>
    /\ loop \in {"tick", "poll"}     \* runInitialTick, or a namespace that a Flush created
    /\ flushes = 0 /\ flusher = [f \in Flusher |-> "new"] /\ serving = Nobody
    /\ passed = [f \in Flusher |-> 0]

-----------------------------------------------------------------------------
(* apply.                                                                  *)

\* The first select: the channel, the caller's context, or the backend's.
Send(c) ==
    /\ caller[c] = "new" /\ Len(applyCh) < Capacity
    /\ applyCh' = Append(applyCh, c) /\ caller' = [caller EXCEPT ![c] = "waiting"]
    /\ UNCHANGED <<ctx, batch, writer, result, reply, durable, state, flushSide>>
Refused(c) ==
    /\ caller[c] = "new"
    /\ \/ caller' = [caller EXCEPT ![c] = "cancelled"]
       \/ ctx # "open" /\ caller' = [caller EXCEPT ![c] = "closed"]
    /\ UNCHANGED <<ctx, applyCh, batch, writer, result, reply, durable, state, flushSide>>

\* The second select ignores the caller's context; a reply beats the shutdown.
AwaitReplyOrCancel(c) ==
    /\ caller[c] = "waiting"
    /\ caller' = [caller EXCEPT ![c] = IF reply[c] = "none" THEN "cancelled" ELSE reply[c]]
    /\ UNCHANGED <<ctx, applyCh, batch, writer, result, reply, durable, state, flushSide>>
AwaitReply(c) ==
    /\ caller[c] = "waiting" /\ (reply[c] # "none" \/ ctx # "open")
    /\ caller' = [caller EXCEPT ![c] = IF reply[c] = "none" THEN "closed" ELSE reply[c]]
    /\ UNCHANGED <<ctx, applyCh, batch, writer, result, reply, durable, state, flushSide>>

-----------------------------------------------------------------------------
(* writeLoop and commit.                                                   *)

\* A first request, then everything that is buffered.
Collect ==
    /\ writer = "select" /\ applyCh # <<>>
    /\ batch' = applyCh /\ applyCh' = <<>> /\ writer' = "put"
    /\ UNCHANGED <<ctx, result, caller, reply, durable, state, flushSide>>
\* The PUT lands and is answered, or fails, landed or not.
PutSegment ==
    /\ writer = "put"
    /\ \/ writer' = "insert" /\ durable' = Append(durable, batch) /\ UNCHANGED result
       \/ writer' = "reply" /\ result' = "error" /\ durable' \in {durable, Append(durable, batch)}
    /\ UNCHANGED <<ctx, applyCh, batch, caller, reply, state, flushSide>>
Insert ==
    /\ writer = "insert" /\ state' = state \o batch /\ result' = "ok" /\ writer' = "reply"
    /\ UNCHANGED <<ctx, applyCh, batch, caller, reply, durable, flushSide>>
Reply ==
    /\ writer = "reply" /\ writer' = "select" /\ result' = "none" /\ batch' = <<>>
    /\ reply' = [c \in Caller |-> IF c \in ToSet(batch) THEN result ELSE reply[c]]
    /\ UNCHANGED <<ctx, applyCh, caller, durable, state, flushSide>>
\* On shutdown the buffered requests are refused; the loop ends when it finds none.
Drain ==
    /\ writer \in {"select", "drain"} /\ ctx # "open"
    /\ \/ /\ applyCh = <<>> /\ writer' = "end" /\ UNCHANGED <<applyCh, reply>>
       \/ /\ applyCh # <<>> /\ writer' = "drain"
          /\ reply' = [reply EXCEPT ![Head(applyCh)] = "error"] /\ applyCh' = Tail(applyCh)
    /\ UNCHANGED <<ctx, batch, result, caller, durable, state, flushSide>>

-----------------------------------------------------------------------------
(* flush and runLoop.                                                      *)

Sending == {f \in Flusher : flusher[f] = "sending"}
Flush(f) ==
    /\ flusher[f] = "new" /\ flusher' = [flusher EXCEPT ![f] = "sending"]
    /\ UNCHANGED <<ctx, writeSide, loop, flushes, serving, passed>>
\* The caller's deadline ends either wait, the shutdown only the first.
FlushGivesUp(f) ==
    /\ flusher[f] \in {"sending", "waiting"} /\ flusher' = [flusher EXCEPT ![f] = "error"]
    /\ passed' = [passed EXCEPT ![f] = 0]
    /\ UNCHANGED <<ctx, writeSide, loop, flushes, serving>>
Receive ==
    \E f \in Sending :
        /\ flusher' = [flusher EXCEPT ![f] = "waiting"] /\ loop' = "flush" /\ serving' = f
        /\ passed' = [g \in Flusher |-> 0] /\ UNCHANGED flushes

\* A waiting Flush beats the ticker, up to MaxConsecutiveFlushes times in a row.
PollNever ==
    /\ loop = "poll" /\ loop' = "select" /\ UNCHANGED <<flusher, serving, flushes, passed>>
    /\ UNCHANGED <<ctx, writeSide>>
Poll ==
    /\ loop = "poll"
    /\ \/ flushes < MaxConsecutiveFlushes /\ Receive
       \/ /\ flushes >= MaxConsecutiveFlushes \/ Sending = {}
          /\ flushes' = (IF flushes < MaxConsecutiveFlushes THEN flushes ELSE 0)
          /\ loop' = "select" /\ UNCHANGED <<flusher, serving, passed>>
    /\ UNCHANGED <<ctx, writeSide>>
Select ==
    /\ loop = "select"
    /\ \/ Receive
       \/ /\ loop' = "tick" /\ flushes' = 0
          /\ passed' = [f \in Flusher |-> IF f \in Sending THEN passed[f] + 1 ELSE 0]
          /\ UNCHANGED <<flusher, serving>>
       \/ /\ ctx # "open" /\ loop' = "end" /\ UNCHANGED <<flusher, serving, flushes, passed>>
    /\ UNCHANGED <<ctx, writeSide>>
Background ==
    /\ loop = "tick" /\ loop' = "poll" /\ UNCHANGED <<ctx, writeSide, flusher, flushes, serving, passed>>
FlushTick ==
    /\ loop = "flush" /\ loop' = "poll" /\ serving' = Nobody /\ flushes' = flushes + 1
    /\ \E answer \in {"ok", "error"} :
          flusher' = IF flusher[serving] # "waiting" THEN flusher
                     ELSE [flusher EXCEPT ![serving] = answer]
    /\ UNCHANGED <<ctx, writeSide, passed>>

-----------------------------------------------------------------------------
\* Close cancels, then waits for both loops.
Cancel == ctx = "open" /\ ctx' = "cancelled" /\ UNCHANGED <<writeSide, flushSide>>
Closed ==
    /\ ctx = "cancelled" /\ writer = "end" /\ loop = "end" /\ ctx' = "closed"
    /\ UNCHANGED <<writeSide, flushSide>>

Next ==
    \/ Collect \/ PutSegment \/ Insert \/ Reply \/ Drain
    \/ Poll \/ Select \/ Background \/ FlushTick \/ Cancel \/ Closed
    \/ \E c \in Caller : Send(c) \/ Refused(c) \/ AwaitReply(c)
    \/ \E f \in Flusher : Flush(f) \/ FlushGivesUp(f)

Spec == Init /\ [][Next]_vars

-----------------------------------------------------------------------------
Durable(c) == \E i \in DOMAIN durable : c \in ToSet(durable[i])

\* A caller is told of success only when its write is in the bucket and in the
\* served state, exactly once (apply, writeLoop, commit).
AckedOnce ==
    \A c \in Caller : caller[c] = "ok" =>
        /\ Durable(c)
        /\ Cardinality({i \in DOMAIN state : state[i] = c}) = 1

\* An accepted write is never reported as cancelled, because a retry would apply
\* it twice; a write that was refused is never in the bucket (apply).
CancelledNeverLands == \A c \in Caller : caller[c] = "cancelled" => c \notin ToSet(applyCh) /\ ~Durable(c)

\* A write is in at most one segment: its batch is gone before the next is made.
InOneSegment ==
    \A c \in Caller : Cardinality({i \in DOMAIN durable : c \in ToSet(durable[i])}) <= 1

\* An accepted Flush is being served: the second select of flush does not watch the
\* backend, so runLoop must answer every request it took (flushTick under Close).
FlushServed == \A f \in Flusher : flusher[f] = "waiting" => serving = f

\* A Flush that waits is passed over by at most one background tick before runLoop
\* serves a Flush ("A waiting Flush beats the ticker so it cannot be starved").
FlushBeatsTicker == \A f \in Flusher : passed[f] <= 1

\* After Close has returned, no goroutine of the namespace is at work (Close, wg).
ClosedQuiet == ctx = "closed" => writer = "end" /\ loop = "end"

\* What a caller is told about its write is true, and leaves it free to retry.
WritesAnswered == AckedOnce /\ CancelledNeverLands /\ InOneSegment

\* A Flush is answered soon, and Close leaves nobody at work.
FlushAnswered == FlushServed /\ FlushBeatsTicker /\ ClosedQuiet
=============================================================================
