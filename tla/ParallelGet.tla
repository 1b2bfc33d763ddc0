----------------------------- MODULE ParallelGet ----------------------------
(***************************************************************************)
(* ParallelGetReader (client/parallel_get.go): workers fetch an object in  *)
(* chunks pinned to one ETag, write them to a StreamBuffer, resume chunks  *)
(* whose response breaks, and stay within a window of the oldest chunk     *)
(* that is not complete, so that a slow reader blocks them but never for   *)
(* good.                                                                   *)
(*                                                                         *)
(* The server holds one object, as revisions 1, 2, ...; a response body is *)
(* one revision's.  An ETag is the revision.                               *)
(***************************************************************************)
EXTENDS StreamBuffer

CONSTANTS
    Total,          \* units of the object
    ResumeAttempts, \* chunkResumeAttempts
    MaxBreaks,      \* bound: responses that break, or requests that fail
    MaxRev          \* bound: revisions of the object

VARIABLES
    rev,            \* what the server holds
    mode,           \* "start", "ranged", "full": one response is the whole object,
                    \* "returned"
    pinned,         \* the ETag of the discovery response
    nextSeq,
    low, done,      \* dispatchGate
    worker,         \* [1..Concurrency -> its state]
    cancelled,      \* egCtx
    failed,         \* a worker returned an error
    breaks

getVars == <<rev, mode, pinned, nextSeq, low, done, worker, cancelled, failed, breaks>>
vars == <<bufVars, getVars>>

Worker == 1..Concurrency
NumChunks == 1 + (Total - 1) \div ChunkSize
Window == 2 * Concurrency
IdleWorker == [pc |-> "take", seq |-> 0, off |-> 0, end |-> 0, attempt |-> 0]

Init ==
    /\ BufInit
    /\ rev = 1 /\ mode = "start" /\ pinned = 0 /\ nextSeq = 1
    /\ low = 0 /\ done = [i \in 0..(Window - 1) |-> FALSE]
    /\ worker = [i \in Worker |-> [IdleWorker EXCEPT !.pc = "exit"]]
    /\ cancelled = FALSE /\ failed = FALSE /\ breaks = 0

Break == breaks < MaxBreaks /\ breaks' = breaks + 1
Set(i, w) == worker' = [worker EXCEPT ![i] = w]
Fail(i) ==
    /\ Set(i, [worker[i] EXCEPT !.pc = "exit"])
    /\ failed' = TRUE /\ cancelled' = TRUE

\* The object is written again.
Rewrite ==
    /\ rev < MaxRev
    /\ rev' = rev + 1
    /\ UNCHANGED <<bufVars, mode, pinned, nextSeq, low, done, worker, cancelled, failed, breaks>>

-----------------------------------------------------------------------------
\* discoverFirstChunk: the response carries chunk zero, the size and the ETag;
\* or it ignores the range, or has no ETag and is followed by a full read; or
\* it cannot be had.
Discover ==
    /\ mode = "start" /\ ~cancelled
    /\ pinned' = rev
    /\ \/ /\ mode' = "ranged"
          /\ worker' = [i \in Worker |->
                 IF i = 1 THEN [IdleWorker EXCEPT !.pc = "copy", !.end = Min({ChunkSize, Total})]
                 ELSE IdleWorker]
          /\ UNCHANGED <<cancelled, failed, breaks>>
       \/ /\ mode' = "full"
          /\ Set(1, [IdleWorker EXCEPT !.pc = "copy", !.end = Total])
          /\ UNCHANGED <<cancelled, failed, breaks>>
       \/ /\ Break /\ mode' = "full" /\ Fail(1)
    /\ UNCHANGED <<bufVars, rev, nextSeq, low, done>>

\* A worker takes the next chunk, and waits for the gate.
Take(i) ==
    LET seq == nextSeq IN
    /\ worker[i].pc = "take"
    /\ IF seq >= NumChunks
       THEN Set(i, [worker[i] EXCEPT !.pc = "exit"]) /\ UNCHANGED nextSeq
       ELSE /\ nextSeq' = seq + 1
            /\ Set(i, [pc |-> "gate", seq |-> seq, off |-> seq * ChunkSize,
                       end |-> Min({(seq + 1) * ChunkSize, Total}), attempt |-> 0])
    /\ UNCHANGED <<bufVars, rev, mode, pinned, low, done, cancelled, failed, breaks>>

GateWait(i) ==
    /\ worker[i].pc = "gate"
    /\ \/ ~cancelled /\ worker[i].seq - low < Window
          /\ Set(i, [worker[i] EXCEPT !.pc = "open"]) /\ UNCHANGED <<cancelled, failed>>
       \/ cancelled /\ Fail(i)
    /\ UNCHANGED <<bufVars, rev, mode, pinned, nextSeq, low, done, breaks>>

\* fetchChunk after a broken response or a request that failed transiently: it
\* goes on from the offset it reached, a few times.
Resume(i) ==
    IF cancelled \/ mode = "full" \/ worker[i].attempt = ResumeAttempts THEN Fail(i)
    ELSE /\ Set(i, [worker[i] EXCEPT !.pc = "open", !.attempt = @ + 1])
         /\ UNCHANGED <<cancelled, failed>>

\* openChunk: another revision is final, and so are replicas that go on
\* ignoring the range.
OpenChunkUnpinned(i) ==
    /\ worker[i].pc = "open"
    /\ \/ cancelled /\ Fail(i) /\ UNCHANGED <<pinned, breaks>>
       \/ /\ ~cancelled /\ pinned' = rev /\ UNCHANGED <<breaks, cancelled, failed>>
          /\ Set(i, [worker[i] EXCEPT !.pc = "copy"])
       \/ ~cancelled /\ Break /\ (Resume(i) \/ Fail(i)) /\ UNCHANGED pinned
    /\ UNCHANGED <<bufVars, rev, mode, nextSeq, low, done>>
OpenChunk(i) ==
    /\ worker[i].pc = "open"
    /\ \/ (cancelled \/ rev # pinned) /\ Fail(i) /\ UNCHANGED breaks
       \/ /\ ~cancelled /\ rev = pinned /\ UNCHANGED <<breaks, cancelled, failed>>
          /\ Set(i, [worker[i] EXCEPT !.pc = "copy"])
       \/ ~cancelled /\ Break /\ (Resume(i) \/ Fail(i))
    /\ UNCHANGED <<bufVars, rev, mode, pinned, nextSeq, low, done>>

\* writeChunkAt copies a unit, blocking while it is beyond the buffer's window.
Copy(i) ==
    /\ worker[i].pc = "copy" /\ worker[i].off < worker[i].end
    /\ WriteSome(worker[i].off, pinned)
    /\ Set(i, [worker[i] EXCEPT !.off = @ + 1])
    /\ UNCHANGED <<rev, mode, pinned, nextSeq, low, done, cancelled, failed, breaks>>

\* The body fails, or ends before the chunk does; a cancelled one fails too.
BodyEnds(i) ==
    /\ worker[i].pc = "copy" /\ worker[i].off < worker[i].end
    /\ IF cancelled THEN UNCHANGED breaks ELSE Break
    /\ Resume(i)
    /\ UNCHANGED <<bufVars, rev, mode, pinned, nextSeq, low, done>>

\* The write fails: the buffer was closed.
WriteFails(i) ==
    /\ worker[i].pc = "copy" /\ worker[i].off < worker[i].end
    /\ WriteClosed /\ Fail(i)
    /\ UNCHANGED <<bufVars, rev, mode, pinned, nextSeq, low, done, breaks>>

\* gate.complete: the window moves over the chunks that are complete.
Contiguous(d, from) ==
    Max({n \in 0..Window : \A k \in 0..(n - 1) : d[(from + k) % Window]})
CompleteUncleared(i) ==
    LET seq == worker[i].seq
        d == [done EXCEPT ![seq % Window] = TRUE]
    IN
    /\ worker[i].pc = "copy" /\ worker[i].off = worker[i].end
    /\ IF mode = "full"
       THEN Set(i, [worker[i] EXCEPT !.pc = "exit"]) /\ UNCHANGED <<low, done>>
       ELSE /\ Set(i, IdleWorker)
            /\ low' = IF seq = low THEN low + Contiguous(d, low) ELSE low
            /\ done' = d
    /\ UNCHANGED <<bufVars, rev, mode, pinned, nextSeq, cancelled, failed, breaks>>
Complete(i) ==
    LET seq == worker[i].seq
        d == [done EXCEPT ![seq % Window] = TRUE]
        n == IF seq = low THEN Contiguous(d, low) ELSE 0
    IN
    /\ worker[i].pc = "copy" /\ worker[i].off = worker[i].end
    /\ IF mode = "full"
       THEN Set(i, [worker[i] EXCEPT !.pc = "exit"]) /\ UNCHANGED <<low, done>>
       ELSE /\ Set(i, IdleWorker)
            /\ low' = low + n
            /\ done' = [k \in DOMAIN d |-> d[k] /\ ~\E m \in 0..(n - 1) : (low + m) % Window = k]
    /\ UNCHANGED <<bufVars, rev, mode, pinned, nextSeq, cancelled, failed, breaks>>

\* eg.Wait returns, and the goroutine of ParallelGetReader finishes the stream.
Return ==
    /\ mode \in {"ranged", "full"} /\ \A i \in Worker : worker[i].pc = "exit"
    /\ mode' = "returned" /\ cancelled' = TRUE
    /\ CloseWrite(failed)
    /\ UNCHANGED <<rev, pinned, nextSeq, low, done, worker, failed, breaks>>

\* The reader, and its Close, which cancels the download.
ReadStream == Read /\ UNCHANGED getVars
CloseStream ==
    /\ CloseRead
    /\ cancelled' = TRUE
    /\ mode' = IF mode = "start" THEN "returned" ELSE mode
    /\ UNCHANGED <<rev, pinned, nextSeq, low, done, worker, failed, breaks>>

Step(i) ==
    \/ Take(i) \/ GateWait(i) \/ OpenChunk(i) \/ Copy(i) \/ BodyEnds(i) \/ WriteFails(i)
    \/ Complete(i)
Next ==
    \/ Rewrite \/ Discover \/ Return \/ ReadStream \/ CloseStream
    \/ \E i \in Worker : Step(i)

Spec == Init /\ [][Next]_vars

-----------------------------------------------------------------------------
Writing(i) == worker[i].pc = "copy" /\ worker[i].off < worker[i].end

\* Every write in flight fits the buffer once the reader has caught up with
\* the frontier, so a blocked one is released by reading alone, even after a
\* sibling failed; and the gate's ring never aliases two chunks.
BlockedWritesDrain ==
    /\ \A i \in Worker : Writing(i) /\ mode = "ranged" =>
           worker[i].off \div ChunkSize < (frontier \div ChunkSize) + Ring
    /\ \A k \in 0..(Window - 1) : done[k] => \E s \in low..(low + Window - 1) :
           s % Window = k /\ s < nextSeq

\* What the reader gets next is the unit at its offset, of the revision that
\* the download began with: no page is reused before it was read, and no chunk
\* of another revision is spliced in.
NextUnitIntact ==
    stream = "reading" /\ readOff < frontier =>
        pages[Cell(readOff)] = [off |-> readOff, rev |-> pinned]

\* The stream ends in EOF only after the whole object.
NeverTruncated == stream = "eof" => readOff = Total

\* Until the download has returned, some step other than the reader's Close
\* and the server's is possible: workers and reader never wait for each other.
NoneWaitsForAll ==
    mode \in {"ranged", "full"} =>
        \/ stream = "reading" /\ readOff < frontier
        \/ \A i \in Worker : worker[i].pc = "exit"
        \/ \E i \in Worker :
               \/ worker[i].pc \in {"take", "open"}
               \/ worker[i].pc = "gate" /\ (cancelled \/ worker[i].seq - low < Window)
               \/ worker[i].pc = "copy" /\ (~Writing(i) \/ WriteClosed \/ InWindow(worker[i].off))

\* The reader gets the object, whole and of one revision, or an error.
StreamIntact == NextUnitIntact /\ NeverTruncated

\* The window, the ring and the gate never block a download for good.
NeverStuck == BlockedWritesDrain /\ NoneWaitsForAll
=============================================================================
