------------------------------ MODULE Backfill ------------------------------
(***************************************************************************)
(* The reader that backfills tier 0 while its caller reads an object       *)
(* (backfillReadCloser of internal/cache/tiered.go): chunks go through a   *)
(* bounded channel to a goroutine that writes them and commits the entry.  *)
(*                                                                         *)
(* The destination commits what was written to it when it is closed under  *)
(* a live context, and nothing otherwise (CacheContract).                  *)
(***************************************************************************)
EXTENDS Integers, Sequences

CONSTANTS
    Chunks,         \* the object is the chunks 1..Chunks
    BufSize         \* backfillBufSize

VARIABLES
    pos,            \* chunks the caller has read
    ch, chClosed,   \* the channel; b.closed
    cancelled,      \* the write context
    caller,         \* "reading"; "full": between close(b.ch) and b.cancel();
                    \* "failed": between b.cancel() and closeChan after a read error;
                    \* "ended": after EOF or an error;
                    \* "abandoned", "closing", "closed": the steps of Close
    eof,
    bg,             \* the goroutine: "drain", "done"
    written,        \* chunks the destination was given
    writeFailed,
    dst,            \* "open", "committed", "discarded"
    filled          \* history: a chunk found the channel full

vars == <<pos, ch, chClosed, cancelled, caller, eof, bg, written, writeFailed, dst, filled>>

Init ==
    /\ pos = 0 /\ ch = <<>> /\ chClosed = FALSE /\ cancelled = FALSE
    /\ caller = "reading" /\ eof = FALSE
    /\ bg = "drain" /\ written = <<>> /\ writeFailed = FALSE /\ dst = "open"
    /\ filled = FALSE

\* Read: the chunk is offered to the channel; a full channel ends the backfill,
\* and its context is cancelled after the channel was closed.
ReadChunk ==
    /\ caller = "reading" /\ pos < Chunks
    /\ pos' = pos + 1
    /\ CASE chClosed -> UNCHANGED <<ch, chClosed, caller, filled>>
         [] ~chClosed /\ Len(ch) < BufSize ->
              ch' = Append(ch, pos + 1) /\ UNCHANGED <<chClosed, caller, filled>>
         [] OTHER -> chClosed' = TRUE /\ caller' = "full" /\ filled' = TRUE /\ UNCHANGED ch
    /\ UNCHANGED <<cancelled, eof, bg, written, writeFailed, dst>>
CancelFull ==
    /\ caller = "full"
    /\ cancelled' = TRUE /\ caller' = "reading"
    /\ UNCHANGED <<pos, ch, chClosed, eof, bg, written, writeFailed, dst, filled>>

\* Read finds io.EOF, with the last chunk or after it.
ReadEOF ==
    /\ caller = "reading" /\ pos = Chunks
    /\ eof' = TRUE /\ chClosed' = TRUE /\ caller' = "ended"
    /\ UNCHANGED <<pos, ch, cancelled, bg, written, writeFailed, dst, filled>>

\* Read fails: the context is cancelled before the channel is closed.
ReadErrorKeeping ==
    /\ caller = "reading"
    /\ caller' = "failed"
    /\ UNCHANGED <<pos, ch, chClosed, cancelled, eof, bg, written, writeFailed, dst, filled>>
ReadError ==
    /\ caller = "reading"
    /\ cancelled' = TRUE /\ caller' = "failed"
    /\ UNCHANGED <<pos, ch, chClosed, eof, bg, written, writeFailed, dst, filled>>
CloseChan ==
    /\ caller \in {"failed", "abandoned"}
    /\ chClosed' = TRUE
    /\ caller' = IF caller = "failed" THEN "ended" ELSE "closing"
    /\ UNCHANGED <<pos, ch, cancelled, eof, bg, written, writeFailed, dst, filled>>

\* Close before EOF cancels; then it closes the channel and waits.
Close ==
    /\ caller \in {"reading", "ended"}
    /\ cancelled' = (cancelled \/ ~eof)
    /\ caller' = "abandoned"
    /\ UNCHANGED <<pos, ch, chClosed, eof, bg, written, writeFailed, dst, filled>>
CloseReturns ==
    /\ caller = "closing" /\ bg = "done"
    /\ caller' = "closed"
    /\ UNCHANGED <<pos, ch, chClosed, cancelled, eof, bg, written, writeFailed, dst, filled>>

\* The goroutine writes the chunks in order; after a failed write it cancels
\* and only drains.
Drain ==
    /\ bg = "drain" /\ ch # <<>>
    /\ ch' = Tail(ch)
    /\ \/ writeFailed /\ UNCHANGED <<written, writeFailed, cancelled>>
       \/ ~writeFailed /\ written' = Append(written, Head(ch))
          /\ UNCHANGED <<writeFailed, cancelled>>
       \/ ~writeFailed /\ writeFailed' = TRUE /\ cancelled' = TRUE /\ UNCHANGED written
    /\ UNCHANGED <<pos, chClosed, caller, eof, bg, dst, filled>>
Finish ==
    /\ bg = "drain" /\ ch = <<>> /\ chClosed
    /\ bg' = "done"
    /\ dst' = IF cancelled THEN "discarded" ELSE "committed"
    /\ UNCHANGED <<pos, ch, chClosed, cancelled, caller, eof, written, writeFailed, filled>>

Next ==
    \/ ReadChunk \/ CancelFull \/ ReadEOF \/ ReadError \/ CloseChan
    \/ Close \/ CloseReturns \/ Drain \/ Finish

Spec == Init /\ [][Next]_vars

-----------------------------------------------------------------------------
Whole == written = [i \in 1..Chunks |-> i]

\* Only an object that was read to its end is committed to tier 0.
CommittedWhole == dst = "committed" => Whole

\* The same, for streams whose channel never filled up: neither a failing
\* source, an early Close nor a failing destination leaves a truncated entry.
CommittedWholeUnlessFull == dst = "committed" /\ ~filled => Whole
=============================================================================
