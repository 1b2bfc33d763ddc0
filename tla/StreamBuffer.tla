---------------------------- MODULE StreamBuffer ----------------------------
(***************************************************************************)
(* The reordering buffer of a parallel download (client/stream_buffer.go): *)
(* writes at any offset, reads in order, and a ring of pages in between.   *)
(* A unit stands for some bytes of a page, copied in one step under the    *)
(* mutex; a condition variable is the guard of a step.                     *)
(***************************************************************************)
EXTENDS Integers, FiniteSets, FiniteSetsExt

CONSTANTS
    ChunkSize,      \* units of a page
    Concurrency     \* the ring has 2 * Concurrency pages

VARIABLES
    pages,          \* the ring, as its units: [off, rev] or Empty
    pending,        \* written intervals beyond the frontier
    frontier, readOff,
    closed, rclosed,
    bufErr,         \* what Read reports after the last byte: "none", "error"
    stream          \* the reader: "reading", "eof", "error", "closed"

bufVars == <<pages, pending, frontier, readOff, closed, rclosed, bufErr, stream>>

Ring == 2 * Concurrency
Empty == [off |-> -1, rev |-> 0]
Cell(off) == ((off \div ChunkSize) % Ring) * ChunkSize + (off % ChunkSize)

BufInit ==
    /\ pages = [i \in 0..(Ring * ChunkSize - 1) |-> Empty]
    /\ pending = {} /\ frontier = 0 /\ readOff = 0
    /\ closed = FALSE /\ rclosed = FALSE /\ bufErr = "none"
    /\ stream = "reading"

\* The window is counted in pages from the page being read.
InWindowLate(off) == off \div ChunkSize <= (readOff \div ChunkSize) + Ring
InWindow(off) == off \div ChunkSize < (readOff \div ChunkSize) + Ring
WriteClosed == rclosed \/ closed

\* extendLocked: the new interval joins those it touches, and the frontier
\* moves over the first one if it reaches it.
Touching(s, e) == {iv \in pending : iv.start <= e /\ s <= iv.end}
Joined(s, e) ==
    LET T == Touching(s, e) \cup {[start |-> s, end |-> e]}
    IN  (pending \ T) \cup {[start |-> Min({iv.start : iv \in T}), end |-> Max({iv.end : iv \in T})]}
ExtendAnywhere(s, e) == pending' = {} /\ frontier' = Max({e, frontier})
Extend(s, e) ==
    LET reached == {iv \in Joined(s, e) : iv.start <= frontier} IN
    /\ frontier' = Max({frontier} \cup {iv.end : iv \in reached})
    /\ pending' = Joined(s, e) \ reached

\* writeSome, of one unit.
WriteSome(off, rev) ==
    /\ InWindow(off) /\ ~WriteClosed
    /\ pages' = [pages EXCEPT ![Cell(off)] = [off |-> off, rev |-> rev]]
    /\ Extend(off, off + 1)
    /\ UNCHANGED <<readOff, closed, rclosed, bufErr, stream>>

\* Read, of one unit; after the write side is finished, the error or EOF.
Read ==
    /\ stream = "reading" /\ ~rclosed
    /\ \/ /\ readOff < frontier
          /\ readOff' = readOff + 1
          /\ UNCHANGED stream
       \/ /\ readOff = frontier /\ closed
          /\ stream' = IF bufErr = "none" THEN "eof" ELSE "error"
          /\ UNCHANGED readOff
    /\ UNCHANGED <<pages, pending, frontier, closed, rclosed, bufErr>>

\* closeWrite: success over a gap is an error.
CloseWrite(err) ==
    /\ ~closed
    /\ closed' = TRUE
    /\ bufErr' = IF err \/ pending # {} THEN "error" ELSE "none"
    /\ UNCHANGED <<pages, pending, frontier, readOff, rclosed, stream>>

CloseRead ==
    /\ ~rclosed
    /\ rclosed' = TRUE /\ stream' = "closed"
    /\ UNCHANGED <<pages, pending, frontier, readOff, closed, bufErr>>
=============================================================================
