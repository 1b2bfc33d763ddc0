--------------------------- MODULE TransferProofs ---------------------------
(***************************************************************************)
(* What holds of the transfers for every size: the upload to a remote      *)
(* tier, the caching of an upstream response, the backfill of tier 0, the  *)
(* answer to a conditional request, and the parallel download.  Each has   *)
(* an inductive invariant of its own; a step of another one leaves it as   *)
(* it is.                                                                  *)
(***************************************************************************)
EXTENDS MCTransfers, Integers, Sequences, TLAPS

\* What the transport and the server know of an upload is what the client did.
UploadInv ==
    /\ sent \in Nat /\ putGot \in 0..sent
    /\ status \in {"none", "200", "500"}
    /\ pipe = "open" <=> putCaller \in {"writing", "close"}
    /\ aborted => ctx = "cancelled" /\ putCaller # "writing"
    /\ pipe = "eof" => ~cause /\ ~aborted
    /\ wireEnd = "eof" => pipe = "eof"
    /\ server = "close" => wireEnd = "eof" /\ putGot = sent
    /\ object = "committed" => status = "200"
    /\ status = "200" => object = "committed" /\ wireEnd = "eof" /\ putGot = sent /\ server = "done"
    /\ object = "committed" => server = "done"
    /\ transport = "200" => status = "200"
    /\ putCaller = "ok" => status = "200"

\* The invariant of an upload holds when it starts.
LEMMA UploadInit == Put!Init => UploadInv
  BY DEF Put!Init, UploadInv

\* The steps of the writing client keep it.
LEMMA UploadClient ==
    ASSUME UploadInv,
           Put!Write \/ Put!CancelContext \/ Put!Abort \/ Put!Close \/ Put!DoClose \/ Put!Return
    PROVE  UploadInv'
<1>. USE DEF UploadInv, Put!serverVars
<1>1. CASE Put!Write BY <1>1 DEF Put!Write
<1>2. CASE Put!CancelContext BY <1>2 DEF Put!CancelContext
<1>3. CASE Put!Abort BY <1>3 DEF Put!Abort
<1>4. CASE Put!Close BY <1>4 DEF Put!Close
<1>5. CASE Put!DoClose BY <1>5 DEF Put!DoClose
<1>6. CASE Put!Return BY <1>6 DEF Put!Return
<1>. QED BY <1>1, <1>2, <1>3, <1>4, <1>5, <1>6

\* The pipe and the connection keep it: a cut body is never taken for a whole
\* one.
LEMMA UploadWire ==
    ASSUME UploadInv, Put!SendEOF \/ Put!Cut \/ Put!Respond
    PROVE  UploadInv'
  BY DEF UploadInv, Put!SendEOF, Put!Cut, Put!Respond, Put!clientVars, Put!serverVars

\* The steps of the PUT handler keep it.
LEMMA UploadServer ==
    ASSUME UploadInv, Put!PutCreate \/ Put!PutCopy \/ Put!PutClose
    PROVE  UploadInv'
  BY DEF UploadInv, Put!PutCreate, Put!PutCopy, Put!PutClose, Put!PutAbort, Put!clientVars

\* An upload that Close reports as done, and only such a one, is on the server.
THEOREM UploadFaithfulAlways == Spec => []UploadFaithful
<1>1. UploadInv /\ [Next]_vars => UploadInv'
  <2>1. ASSUME UploadInv, UNCHANGED putVars PROVE UploadInv'
    BY <2>1 DEF UploadInv, putVars
  <2>2. ASSUME UploadInv, Put!Next PROVE UploadInv'
    BY <2>2, UploadClient, UploadWire, UploadServer DEF Put!Next
  <2>. QED
    BY <2>1, <2>2 DEF Next, vars
<1>2. UploadInv => UploadFaithful
  BY DEF UploadInv, UploadFaithful, Put!UploadFaithful, Put!CloseConfirms, Put!UnfinishedNeverVisible
<1>3. Init => UploadInv
  BY UploadInit DEF Init
<1>. QED
  BY <1>1, <1>2, <1>3, PTL DEF Spec

-----------------------------------------------------------------------------
(* CachingFetch.                                                           *)

\* How far the client and the cache are behind the copier.
FetchInv ==
    /\ kind \in {"handler", "fetch"}
    /\ copier \in {"lookup", "read", "pipe", "tee", "finish", "close", "done"}
    /\ fetchPos \in Nat
    /\ client \in {"reading", "eof", "error", "gone"}
    /\ entry \in {"none", "open", "committed", "discarded"}
    /\ client \in {"eof", "error"} => copier = "done"
    /\ entry \in {"committed", "discarded"} => copier \in {"close", "done"}
    /\ copier \in {"lookup", "read", "pipe", "tee"} => upstream = "live" /\ ~copyErr
    /\ copier = "lookup" => fetchPos = 0 /\ cached = 0 /\ fetchGot = 0 /\ entry = "none"
    /\ fetchGot \in Nat /\ cached \in Nat
    /\ copier = "pipe" => fetchGot + 1 = fetchPos
    /\ copier # "pipe" /\ ~copyErr => fetchGot = fetchPos
    /\ entry = "open" /\ ~teeErr /\ ~copyErr =>
           IF copier \in {"pipe", "tee"} THEN cached + 1 = fetchPos ELSE cached = fetchPos
    /\ copier \in {"finish", "close", "done"} /\ (kind = "handler" \/ copier # "done") /\ ~copyErr
           => upstream = "eof" /\ fetchPos = FetchChunks
    /\ copyErr /\ kind = "handler" => upstream = "failed" \/ client = "gone"
    /\ entry = "committed" => upstream = "eof" /\ cached = FetchChunks /\ fetchGot = FetchChunks
    /\ copier = "done" /\ kind = "handler" /\ client # "gone" /\ upstream # "failed" =>
           client = "eof" /\ fetchGot = FetchChunks

\* The invariant of a fetch holds when it starts.
LEMMA FetchInit == Fetch!Init => FetchInv
  BY DEF Fetch!Init, FetchInv

\* Every step of httputil and of its caller keeps it.
LEMMA FetchStep == FetchInv /\ Fetch!Next => FetchInv'
<1>. SUFFICES ASSUME FetchInv, Fetch!Next PROVE FetchInv'
  OBVIOUS
<1>. USE DEF FetchInv
<1>1. CASE Fetch!Start BY <1>1 DEF Fetch!Start
<1>2. CASE Fetch!ReadUpstream BY <1>2 DEF Fetch!ReadUpstream
<1>3. CASE Fetch!WritePipe BY <1>3 DEF Fetch!WritePipe
<1>4. CASE Fetch!Tee BY <1>4 DEF Fetch!Tee
<1>5. CASE Fetch!Finish BY <1>5 DEF Fetch!Finish
<1>6. CASE Fetch!ClosePipe BY <1>6 DEF Fetch!ClosePipe
<1>7. CASE Fetch!Leave BY <1>7 DEF Fetch!Leave
<1>. QED
  BY <1>1, <1>2, <1>3, <1>4, <1>5, <1>6, <1>7 DEF Fetch!Next

\* For every length of the response: what streamAndCache and FetchDirect commit
\* is the whole response, and the cache never interrupts the handler's client.
THEOREM FetchFaithfulAlways == Spec => []FetchFaithful
<1>1. FetchInv /\ [Next]_vars => FetchInv'
  <2>1. ASSUME FetchInv, UNCHANGED fetchVars PROVE FetchInv'
    BY <2>1 DEF FetchInv, fetchVars
  <2>. QED
    BY <2>1, FetchStep DEF Next, vars
<1>2. FetchInv => FetchFaithful
  BY DEF FetchInv, FetchFaithful, Fetch!FetchFaithful, Fetch!EntryWhole, Fetch!CacheNeverInterrupts
<1>3. Init => FetchInv
  BY FetchInit DEF Init
<1>. QED
  BY <1>1, <1>2, <1>3, PTL DEF Spec

-----------------------------------------------------------------------------
(* Backfill.                                                               *)

FillTypes ==
    /\ pos \in Nat /\ pos <= BackfillChunks
    /\ ch \in Seq(Nat) /\ written \in Seq(Nat)

\* What the goroutine wrote and what waits for it are the chunks in order.
InOrder ==
    /\ \A i \in 1..Len(written) : written[i] = i
    /\ \A i \in 1..Len(ch) : ch[i] = Len(written) + i

\* A channel that is closed under a live context was closed at EOF, or because
\* it was full.
FillInv ==
    /\ FillTypes
    /\ ~writeFailed => InOrder
    /\ writeFailed => cancelled
    /\ bg = "done" => chClosed
    /\ caller = "failed" => cancelled
    /\ caller = "abandoned" => cancelled \/ chClosed
    /\ eof => chClosed
    /\ ~writeFailed /\ ~chClosed => Len(written) + Len(ch) = pos
    /\ ~writeFailed /\ chClosed /\ ~cancelled /\ ~filled =>
           Len(written) + Len(ch) = BackfillChunks
    /\ dst # "open" => bg = "done"
    /\ dst = "committed" /\ ~filled => Fill!Whole

\* The invariant of a backfill holds when it starts.
LEMMA FillInit == Fill!Init => FillInv
  BY SizesAssumption DEF Fill!Init, FillInv, FillTypes, InOrder

\* What the provers need of a channel.
LEMMA Appended ==
    ASSUME NEW s \in Seq(Nat), NEW e \in Nat
    PROVE  /\ Append(s, e) \in Seq(Nat) /\ Len(Append(s, e)) = Len(s) + 1
           /\ \A i \in 1..Len(Append(s, e)) :
                 Append(s, e)[i] = IF i <= Len(s) THEN s[i] ELSE e
  OBVIOUS

\* A read of the backfilling reader keeps it: what is passed on is what was
\* read.
LEMMA FillReader ==
    ASSUME FillInv, Fill!ReadChunk
    PROVE  FillInv'
<1>0. /\ pos \in Nat /\ pos' = pos + 1 /\ pos' \in Nat /\ pos' <= BackfillChunks
      /\ Len(written) \in Nat /\ Len(ch) \in Nat /\ ch \in Seq(Nat)
      /\ UNCHANGED <<cancelled, eof, bg, written, writeFailed, dst>>
  BY SizesAssumption DEF FillInv, FillTypes, Fill!ReadChunk
<1>1. CASE chClosed
  BY <1>0, <1>1 DEF FillInv, FillTypes, Fill!ReadChunk, InOrder, Fill!Whole
<1>2. CASE ~chClosed /\ Len(ch) < BufSize
  <2>1. ch' = Append(ch, pos + 1) /\ UNCHANGED <<chClosed, caller, filled>>
    BY <1>2 DEF Fill!ReadChunk
  <2>2. ch' \in Seq(Nat) /\ Len(ch') = Len(ch) + 1
    BY <1>0, <2>1, Appended
  <2>3. \A i \in 1..Len(ch') : ch'[i] = IF i <= Len(ch) THEN ch[i] ELSE pos + 1
    BY <1>0, <2>1, Appended
  <2>4. ASSUME ~writeFailed PROVE InOrder'
    <3>1. InOrder /\ Len(written) + Len(ch) = pos
      BY <1>2, <2>4 DEF FillInv
    <3>2. ASSUME NEW i \in 1..Len(ch') PROVE ch'[i] = Len(written) + i
      <4>1. CASE i <= Len(ch)
        <5>1. i \in 1..Len(ch) /\ ch'[i] = ch[i]
          BY <1>0, <2>2, <2>3, <4>1
        <5>. QED
          BY <3>1, <5>1, Zenon DEF InOrder
      <4>2. CASE ~(i <= Len(ch))
        <5>1. ch'[i] = pos + 1 /\ i = Len(ch) + 1
          BY <1>0, <2>2, <2>3, <4>2
        <5>. QED
          BY <1>0, <3>1, <5>1
      <4>. QED
        BY <4>1, <4>2
    <3>. QED
      BY <1>0, <3>1, <3>2 DEF InOrder
  <2>5. ~writeFailed => Len(written') + Len(ch') = pos'
    <3>1. ~writeFailed => Len(written) + Len(ch) = pos
      BY <1>2 DEF FillInv
    <3>2. written' = written /\ pos' = pos + 1
      BY <1>0, Zenon
    <3>3. Len(written) \in Nat /\ Len(ch) \in Nat /\ pos \in Nat
      BY <1>0, Zenon
    <3>. QED
      BY <2>2, <3>1, <3>2, <3>3
  <2>. QED
    BY <1>0, <1>2, <2>1, <2>2, <2>4, <2>5 DEF FillInv, FillTypes, Fill!Whole
<1>3. CASE ~chClosed /\ ~(Len(ch) < BufSize)
  BY <1>0, <1>3 DEF FillInv, FillTypes, Fill!ReadChunk, InOrder, Fill!Whole
<1>. QED
  BY <1>1, <1>2, <1>3

\* The other steps of the reader keep it.
LEMMA FillCaller ==
    ASSUME FillInv,
           \/ Fill!CancelFull \/ Fill!ReadEOF \/ Fill!ReadError
           \/ Fill!CloseChan \/ Fill!Close \/ Fill!CloseReturns
    PROVE  FillInv'
<1>. USE DEF FillInv, FillTypes, InOrder, Fill!Whole
<1>1. CASE Fill!CancelFull BY <1>1 DEF Fill!CancelFull
<1>2. CASE Fill!ReadEOF BY <1>2 DEF Fill!ReadEOF
<1>3. CASE Fill!ReadError BY <1>3 DEF Fill!ReadError
<1>4. CASE Fill!CloseChan BY <1>4 DEF Fill!CloseChan
<1>5. CASE Fill!Close BY <1>5 DEF Fill!Close
<1>6. CASE Fill!CloseReturns BY <1>6 DEF Fill!CloseReturns
<1>. QED
  BY <1>1, <1>2, <1>3, <1>4, <1>5, <1>6

\* The drain keeps it: the chunks reach the writer in the order of the
\* channel.
LEMMA FillDrain ==
    ASSUME FillInv, Fill!Drain
    PROVE  FillInv'
<1>1. /\ ch' = Tail(ch) /\ ch' \in Seq(Nat) /\ Len(ch') = Len(ch) - 1
      /\ Len(ch) \in Nat \ {0} /\ Len(written) \in Nat /\ Head(ch) \in Nat
      /\ \A i \in 1..Len(ch') : ch'[i] = ch[i + 1]
  BY DEF Fill!Drain, FillInv, FillTypes
<1>2. UNCHANGED <<pos, chClosed, caller, eof, bg, dst, filled>> /\ dst = "open"
  BY DEF Fill!Drain, FillInv
<1>3. CASE writeFailed /\ UNCHANGED <<written, writeFailed, cancelled>>
  BY <1>1, <1>2, <1>3 DEF FillInv, FillTypes
<1>4. CASE ~writeFailed /\ writeFailed' = TRUE /\ cancelled' = TRUE /\ UNCHANGED written
  BY <1>1, <1>2, <1>4 DEF FillInv, FillTypes
<1>5. CASE /\ ~writeFailed /\ written' = Append(written, Head(ch))
           /\ UNCHANGED <<writeFailed, cancelled>>
  <2>1. written' \in Seq(Nat) /\ Len(written') = Len(written) + 1
    BY <1>1, <1>5 DEF FillInv, FillTypes
  <2>2. InOrder
    BY <1>5 DEF FillInv
  <2>3. Head(ch) = Len(written) + 1
    BY <1>1, <2>2 DEF InOrder, FillInv, FillTypes
  <2>4. \A i \in 1..Len(written') : written'[i] = i
    BY <1>1, <1>5, <2>1, <2>2, <2>3 DEF InOrder, FillInv, FillTypes
  <2>5. \A i \in 1..Len(ch') : ch'[i] = Len(written') + i
    BY <1>1, <2>1, <2>2 DEF InOrder
  <2>6. InOrder'
    BY <2>4, <2>5 DEF InOrder
  <2>7. Len(written') + Len(ch') = Len(written) + Len(ch)
    BY <1>1, <2>1
  <2>. QED
    BY <1>1, <1>2, <1>5, <2>1, <2>6, <2>7 DEF FillInv, FillTypes
<1>. QED
  BY <1>3, <1>4, <1>5 DEF Fill!Drain

\* The end of the drain keeps it: the writer is closed only after the whole
\* source.
LEMMA FillFinish ==
    ASSUME FillInv, Fill!Finish
    PROVE  FillInv'
<1>1. CASE cancelled \/ filled
  BY <1>1 DEF FillInv, FillTypes, InOrder, Fill!Finish
<1>2. CASE ~cancelled /\ ~filled
  <2>1. written = [i \in 1..BackfillChunks |-> i]
    BY <1>2 DEF FillInv, FillTypes, InOrder, Fill!Finish
  <2>. QED
    BY <1>2, <2>1 DEF FillInv, FillTypes, InOrder, Fill!Finish, Fill!Whole
<1>. QED
  BY <1>1, <1>2

\* For every size of the object and of the channel: what is committed to tier 0
\* under a channel that never filled up is the whole object, whatever the
\* source, the destination and the caller do (backfillReadCloser).
THEOREM CommittedWholeUnlessFullAlways == Spec => []CommittedWholeUnlessFull
<1>1. FillInv /\ [Next]_vars => FillInv'
  <2>1. ASSUME FillInv, UNCHANGED fillVars PROVE FillInv'
    BY <2>1 DEF FillInv, FillTypes, InOrder, Fill!Whole, fillVars
  <2>2. FillInv /\ Fill!Next => FillInv'
    BY FillReader, FillCaller, FillDrain, FillFinish DEF Fill!Next
  <2>. QED
    BY <2>1, <2>2 DEF Next, vars
<1>2. FillInv => CommittedWholeUnlessFull
  BY DEF FillInv, CommittedWholeUnlessFull, Fill!CommittedWholeUnlessFull
<1>3. Init => FillInv
  BY FillInit DEF Init
<1>. QED
  BY <1>1, <1>2, <1>3, PTL DEF Spec

-----------------------------------------------------------------------------
(* ConditionalGet.                                                         *)

Between(start, length) == {p \in 0..(MaxSize + 1) : start <= p /\ p < start + length}

\* What resolveByteRange makes of a specifier is what the specifier selects.
Resolves(s, r) ==
    /\ r.outcome \in {"full", "partial", "unsatisfiable"}
    /\ r.outcome = "full" => s.form \in {"none", "malformed"}
    /\ r.outcome = "unsatisfiable" => Conditional!Selected(s) = {}
    /\ r.outcome = "partial" =>
           /\ Between(r.start, r.length) = Conditional!Selected(s)
           /\ Conditional!Selected(s) # {}

\* resolveByteRange resolves a specifier to the bytes that it selects.
LEMMA RangeSelects ==
    ASSUME size \in 0..MaxSize, NEW s \in Conditional!Specs, Conditional!Ordered(s)
    PROVE  Resolves(s, Conditional!ResolveByteRange(s))
<1>. USE SizesAssumption
<1>. DEFINE r == Conditional!ResolveByteRange(s)
<1>0. size \in Nat /\ size <= MaxSize
  OBVIOUS
<1>1. CASE s.form \in {"none", "malformed"}
  BY <1>1 DEF Resolves, Conditional!ResolveByteRange, Conditional!Full
<1>2. CASE s.form = "suffix"
  <2>0. s.a \in 0..(MaxSize + 1)
    BY <1>2 DEF Conditional!Specs, Conditional!NoRange, Conditional!Malformed
  <2>1. CASE s.a = 0 \/ size = 0
    <3>1. r = Conditional!Unsatisfiable
      BY <1>2, <2>1 DEF Conditional!ResolveByteRange
    <3>2. Conditional!Selected(s) = {}
      BY <1>0, <1>2, <2>0, <2>1 DEF Conditional!Selected
    <3>. QED
      BY <3>1, <3>2 DEF Resolves, Conditional!Unsatisfiable
  <2>2. CASE ~(s.a = 0 \/ size = 0)
    <3>. DEFINE m == Conditional!Least(s.a, size)
    <3>1. r = Conditional!Partial(size - m, m)
      BY <1>2, <2>2 DEF Conditional!ResolveByteRange
    <3>2. m \in Nat \ {0} /\ m <= size /\ m <= s.a /\ (m = size \/ m = s.a)
      BY <1>0, <2>0, <2>2 DEF Conditional!Least
    <3>. HIDE DEF m
    <3>3. Between(size - m, m) = Conditional!Selected(s)
      BY <1>0, <1>2, <2>0, <3>2 DEF Conditional!Selected, Between
    <3>4. size - 1 \in Conditional!Selected(s)
      BY <1>0, <1>2, <2>0, <2>2 DEF Conditional!Selected
    <3>. QED
      BY <3>1, <3>3, <3>4 DEF Resolves, Conditional!Partial
  <2>. QED
    BY <2>1, <2>2
<1>3. CASE s.form = "from"
  <2>0. s.a \in 0..(MaxSize + 1)
    BY <1>3 DEF Conditional!Specs, Conditional!NoRange, Conditional!Malformed
  <2>1. CASE s.a >= size
    <3>1. r = Conditional!Unsatisfiable
      BY <1>3, <2>1 DEF Conditional!ResolveByteRange
    <3>2. Conditional!Selected(s) = {}
      BY <1>0, <1>3, <2>0, <2>1 DEF Conditional!Selected
    <3>. QED
      BY <3>1, <3>2 DEF Resolves, Conditional!Unsatisfiable
  <2>2. CASE ~(s.a >= size)
    <3>1. r = Conditional!Partial(s.a, size - s.a)
      BY <1>3, <2>2 DEF Conditional!ResolveByteRange
    <3>3. Between(s.a, size - s.a) = Conditional!Selected(s)
      BY <1>0, <1>3, <2>0, <2>2 DEF Conditional!Selected, Between
    <3>4. s.a \in Conditional!Selected(s)
      BY <1>0, <1>3, <2>0, <2>2 DEF Conditional!Selected
    <3>. QED
      BY <3>1, <3>3, <3>4 DEF Resolves, Conditional!Partial
  <2>. QED
    BY <2>1, <2>2
<1>4. CASE s.form = "span"
  <2>0. s.a \in 0..(MaxSize + 1) /\ s.b \in 0..(MaxSize + 1) /\ s.a <= s.b
    BY <1>4 DEF Conditional!Specs, Conditional!NoRange, Conditional!Malformed, Conditional!Ordered
  <2>1. CASE s.a >= size
    <3>1. r = Conditional!Unsatisfiable
      BY <1>4, <2>1 DEF Conditional!ResolveByteRange
    <3>2. Conditional!Selected(s) = {}
      BY <1>0, <1>4, <2>0, <2>1 DEF Conditional!Selected
    <3>. QED
      BY <3>1, <3>2 DEF Resolves, Conditional!Unsatisfiable
  <2>2. CASE ~(s.a >= size)
    <3>. DEFINE m == Conditional!Least(s.b, size - 1)
    <3>1. r = Conditional!Partial(s.a, m - s.a + 1)
      BY <1>4, <2>0, <2>2 DEF Conditional!ResolveByteRange
    <3>2. m \in Nat /\ m < size /\ m <= s.b /\ (m = size - 1 \/ m = s.b) /\ s.a <= m
      BY <1>0, <2>0, <2>2 DEF Conditional!Least
    <3>. HIDE DEF m
    <3>3. Between(s.a, m - s.a + 1) = Conditional!Selected(s)
      BY <1>0, <1>4, <2>0, <3>2 DEF Conditional!Selected, Between
    <3>4. s.a \in Conditional!Selected(s)
      BY <1>0, <1>4, <2>0, <2>2 DEF Conditional!Selected
    <3>. QED
      BY <3>1, <3>3, <3>4 DEF Resolves, Conditional!Partial
  <2>. QED
    BY <2>1, <2>2
<1>. QED
  BY <1>1, <1>2, <1>3, <1>4 DEF Conditional!Specs, Conditional!NoRange, Conditional!Malformed

\* Arithmetic of chunks.
LEMMA ProductMonotone ==
    ASSUME NEW c \in Nat, NEW i \in Nat, NEW j \in Nat, i <= j
    PROVE  i * c <= j * c /\ i * c \in Nat /\ j * c \in Nat
  OBVIOUS

\* The next chunk starts one chunk size further.
LEMMA ProductNext ==
    ASSUME NEW c \in Nat, NEW i \in Nat
    PROVE  (i + 1) * c = i * c + c
  OBVIOUS

\* The chunk of a byte is the one that starts at or below it and ends above
\* it.
LEMMA DivBelow ==
    ASSUME NEW c \in Nat \ {0}, NEW n \in Nat
    PROVE  /\ n \div c \in Nat /\ (n \div c) * c <= n /\ n < (n \div c) * c + c
           /\ n % c \in 0..(c - 1) /\ n = (n \div c) * c + (n % c)
<1>1. n \div c \in Int /\ n % c \in 0..(c - 1)
  OBVIOUS
<1>2. n = c * (n \div c) + (n % c)
  OBVIOUS
<1>3. n \div c >= 0
  OBVIOUS
<1>4. c * (n \div c) = (n \div c) * c
  BY <1>1
<1>. QED
  BY <1>1, <1>2, <1>3, <1>4

\* The chunks of a parallel download resolve to disjoint ranges that make up
\* the object.
LEMMA ChunksTiled ==
    ASSUME size \in 0..MaxSize
    PROVE  Conditional!ChunksTile
<1>. USE SizesAssumption
<1>1. SUFFICES ASSUME NEW c \in 1..MaxSize, size > 0,
                      NEW i \in 0..((1 + (size - 1) \div c) - 1)
               PROVE  LET r == Conditional!ResolveByteRange(Conditional!Range(i * c, (i + 1) * c))
                      IN  /\ r.outcome = "partial" /\ r.start = i * c
                          /\ r.length = Conditional!Least((i + 1) * c, size) - i * c
  BY DEF Conditional!ChunksTile
<1>2. /\ size - 1 \in Nat /\ c \in Nat \ {0}
      /\ (size - 1) \div c \in Nat /\ ((size - 1) \div c) * c <= size - 1
  BY <1>1, DivBelow
<1>3. i \in Nat /\ i <= (size - 1) \div c
  BY <1>2
<1>. DEFINE a == i * c
            b == (i + 1) * c
<1>4. a \in Nat /\ a <= size - 1 /\ b = a + c
  BY <1>2, <1>3, ProductMonotone, ProductNext
<1>. HIDE DEF a, b
<1>5. Conditional!ResolveByteRange(Conditional!Range(a, b))
      = Conditional!Partial(a, Conditional!Least(b - 1, size - 1) - a + 1)
  BY <1>1, <1>2, <1>4 DEF Conditional!ResolveByteRange, Conditional!Range
<1>6. Conditional!Least(b - 1, size - 1) - a + 1 = Conditional!Least(b, size) - a
  BY <1>2, <1>4 DEF Conditional!Least
<1>. QED
  BY <1>5, <1>6 DEF Conditional!Partial, a, b

\* The state of a request: not asked, or answered.
AskInv ==
    /\ size \in 0..MaxSize /\ etag \in {"e1", "e2", ""}
    /\ answer # Conditional!Pending =>
           request \in Conditional!Requests /\ answer = Conditional!Respond(request)

\* A failed precondition is answered before a range is looked at.
LEMMA Refused ==
    ASSUME Conditional!Check(request) # "ok"
    PROVE  Conditional!Respond(request) \in {Conditional!Body(412, 0, 0), Conditional!Body(304, 0, 0)}
<1>1. Conditional!Check(request) \in {"precondition failed", "not modified"}
  BY DEF Conditional!Check
<1>. HIDE DEF Conditional!Check
<1>2. ASSUME Conditional!Check(request) = "precondition failed"
      PROVE  Conditional!Respond(request) = Conditional!Body(412, 0, 0)
  BY <1>2 DEF Conditional!Respond
<1>3. ASSUME Conditional!Check(request) = "not modified"
      PROVE  Conditional!Respond(request) = Conditional!Body(304, 0, 0)
  BY <1>3 DEF Conditional!Respond
<1>. QED
  BY <1>1, <1>2, <1>3, Zenon

\* Every answer carries the bytes that its request selects.
LEMMA AnswerSelects ==
    ASSUME size \in 0..MaxSize, request \in Conditional!Requests,
           answer = Conditional!Respond(request)
    PROVE  Conditional!AnswersSelection
<1>. USE SizesAssumption
<1>0. SUFFICES ASSUME Conditional!Ordered(request.range) PROVE Conditional!AnswersSelection
  BY DEF Conditional!AnswersSelection
<1>. DEFINE s == request.range
            r == Conditional!ResolveRange(request)
            Answer(st) ==
                CASE st = 206 ->
                         /\ request.ifRange \in {"none", etag}
                         /\ Conditional!Sent = Conditional!Selected(s) /\ Conditional!Sent # {}
                  [] st = 416 ->
                         /\ request.ifRange \in {"none", etag} /\ Conditional!Selected(s) = {}
                  [] st = 200 ->
                         /\ Conditional!Sent = 0..(size - 1)
                         /\ s.form \in {"none", "malformed"} \/ request.ifRange \notin {"none", etag}
                  [] OTHER -> Conditional!Sent = {}
<1>1. Conditional!AnswersSelection <=> Answer(answer.status)
  BY <1>0 DEF Conditional!AnswersSelection
<1>2. s \in Conditional!Specs /\ Resolves(s, Conditional!ResolveByteRange(s))
  BY <1>0, RangeSelects DEF Conditional!Requests
<1>3. Conditional!Sent = Between(answer.start, answer.length)
  BY DEF Conditional!Sent, Between
<1>4. Between(0, 0) = {} /\ Between(0, size) = 0..(size - 1)
  BY DEF Between
<1>5. CASE Conditional!Check(request) # "ok"
  <2>1. answer = Conditional!Body(412, 0, 0) \/ answer = Conditional!Body(304, 0, 0)
    BY <1>5, Refused
  <2>. QED
    BY <1>1, <1>3, <1>4, <2>1 DEF Conditional!Body
<1>6. CASE Conditional!Check(request) = "ok" /\ (s = Conditional!NoRange \/ Conditional!IfRangeMisses(request))
  <2>1. r = Conditional!Full
    BY <1>6 DEF Conditional!ResolveRange
  <2>2. answer = Conditional!Body(200, 0, size)
    BY <1>6, <2>1 DEF Conditional!Respond, Conditional!Full
  <2>3. s.form \in {"none", "malformed"} \/ request.ifRange \notin {"none", etag}
    BY <1>6 DEF Conditional!NoRange, Conditional!IfRangeMisses
  <2>. QED
    BY <1>1, <1>3, <1>4, <2>2, <2>3 DEF Conditional!Body
<1>7. CASE Conditional!Check(request) = "ok" /\ ~(s = Conditional!NoRange \/ Conditional!IfRangeMisses(request))
  <2>1. r = Conditional!ResolveByteRange(s)
    BY <1>7 DEF Conditional!ResolveRange
  <2>2. request.ifRange \in {"none", etag}
    BY <1>7 DEF Conditional!IfRangeMisses
  <2>3. CASE r.outcome = "full"
    <3>1. answer = Conditional!Body(200, 0, size)
      BY <1>7, <2>3 DEF Conditional!Respond
    <3>. QED
      BY <1>1, <1>2, <1>3, <1>4, <2>1, <2>3, <3>1 DEF Conditional!Body, Resolves
  <2>4. CASE r.outcome = "partial"
    <3>1. answer = Conditional!Body(206, r.start, r.length)
      BY <1>7, <2>4 DEF Conditional!Respond
    <3>. QED
      BY <1>1, <1>2, <1>3, <2>1, <2>2, <2>4, <3>1 DEF Conditional!Body, Resolves
  <2>5. CASE r.outcome = "unsatisfiable"
    <3>1. answer = Conditional!Body(416, 0, 0)
      BY <1>7, <2>5 DEF Conditional!Respond
    <3>. QED
      BY <1>1, <1>2, <2>1, <2>2, <2>5, <3>1 DEF Conditional!Body, Resolves
  <2>. QED
    BY <1>2, <2>1, <2>3, <2>4, <2>5 DEF Resolves
<1>. QED
  BY <1>5, <1>6, <1>7

\* Every answer respects the validators of its request.
LEMMA AnswerValidates ==
    ASSUME answer = Conditional!Respond(request)
    PROVE  Conditional!ValidatorsHold
<1>1. CASE Conditional!Check(request) # "ok"
  <2>1. answer = Conditional!Body(412, 0, 0) \/ answer = Conditional!Body(304, 0, 0)
    BY <1>1, Refused
  <2>. QED
    BY <2>1 DEF Conditional!ValidatorsHold, Conditional!Body
<1>2. CASE Conditional!Check(request) = "ok"
  BY <1>2 DEF Conditional!ValidatorsHold, Conditional!Check
<1>. QED
  BY <1>1, <1>2

\* An answer depends on the request and on the object only.
LEMMA RespondKept ==
    ASSUME NEW q, request' = q, UNCHANGED <<size, etag>>
    PROVE  Conditional!Respond(request)' = Conditional!Respond(q)
<1>1. Conditional!Check(request)' = Conditional!Check(q)
  BY DEF Conditional!Check
<1>2. Conditional!Full' = Conditional!Full /\ Conditional!Unsatisfiable' = Conditional!Unsatisfiable
  BY DEF Conditional!Full, Conditional!Unsatisfiable
<1>3. Conditional!ResolveByteRange(request.range)' = Conditional!ResolveByteRange(q.range)
  BY <1>2 DEF Conditional!ResolveByteRange
<1>4. Conditional!ResolveRange(request)' = Conditional!ResolveRange(q)
  BY <1>2, <1>3 DEF Conditional!ResolveRange, Conditional!IfRangeMisses
<1>. QED
  BY <1>1, <1>4 DEF Conditional!Respond

\* For every size of the object and of the chunks: an answer of ServeCacheHit
\* carries what its request selects, its validators hold, and the ranges of a
\* parallel download make up the object (preconditions.go, range.go).
THEOREM AnswersFaithfulAlways == Spec => []AnswersFaithful
<1>1. AskInv /\ [Next]_vars => AskInv'
  <2>1. ASSUME AskInv, UNCHANGED askVars PROVE AskInv'
    BY <2>1, RespondKept DEF AskInv, askVars, Conditional!Pending, Conditional!Body, Conditional!Requests
  <2>2. ASSUME AskInv, Conditional!Next PROVE AskInv'
    <3>1. PICK q \in Conditional!Requests : Conditional!Ask(q)
      BY <2>2 DEF Conditional!Next
    <3>2. Conditional!Respond(request)' = Conditional!Respond(q)
      BY <3>1, RespondKept DEF Conditional!Ask
    <3>. QED
      BY <2>2, <3>1, <3>2 DEF AskInv, Conditional!Ask
  <2>. QED
    BY <2>1, <2>2 DEF Next, vars
<1>2. AskInv => AnswersFaithful
  <2>1. ASSUME AskInv, answer = Conditional!Pending PROVE Conditional!AnswersSelection /\ Conditional!ValidatorsHold
    <3>1. answer.status = 0 /\ answer.start = 0 /\ answer.length = 0
      BY <2>1 DEF Conditional!Pending, Conditional!Body
    <3>2. Conditional!Sent = {}
      BY <3>1, SizesAssumption DEF Conditional!Sent
    <3>. QED
      BY <3>1, <3>2 DEF Conditional!AnswersSelection, Conditional!ValidatorsHold
  <2>2. ASSUME AskInv, answer # Conditional!Pending
        PROVE  Conditional!AnswersSelection /\ Conditional!ValidatorsHold
    BY <2>2, AnswerSelects, AnswerValidates DEF AskInv
  <2>3. ASSUME AskInv PROVE Conditional!ChunksTile
    BY <2>3, ChunksTiled DEF AskInv
  <2>. QED
    BY <2>1, <2>2, <2>3 DEF AnswersFaithful, Conditional!AnswersFaithful
<1>3. Init => AskInv
  BY SizesAssumption DEF Init, Conditional!Init, AskInv, Conditional!NoTag
<1>. QED
  BY <1>1, <1>2, <1>3, PTL DEF Spec

-----------------------------------------------------------------------------
(* ParallelGet.                                                            *)

Download == INSTANCE ParallelGetProofs WITH cancelled <- egCancelled

\* The sizes of the instance are ones the download is proved for.
LEMMA DownloadSizes == Download!Sizes
  BY SizesAssumption DEF Download!Sizes

\* The download of the composition is the one ParallelGetProofs is about: at
\* the start,
LEMMA DownloadInit == Get!Init => Download!Init
  BY DEF Get!Init, Get!BufInit, Get!Ring, Get!Empty, Get!Window, Get!Worker, Get!IdleWorker,
         Download!Init, Download!BufInit, Download!Ring, Download!Empty, Download!Window,
         Download!Worker, Download!IdleWorker

\* when another transfer steps,
LEMMA DownloadStays == UNCHANGED getVars => UNCHANGED Download!vars
  BY DEF getVars, Download!vars, Download!bufVars, Download!getVars

\* when it steps,
LEMMA DownloadNext == Get!Next => Download!Next
  BY DEF Get!Next, Get!Rewrite, Get!Discover, Get!Return, Get!ReadStream, Get!CloseStream,
         Get!Step, Get!Take, Get!GateWait, Get!OpenChunk, Get!Copy, Get!BodyEnds,
         Get!WriteFails, Get!Complete, Get!Break, Get!Set, Get!Fail, Get!Resume,
         Get!Contiguous, Get!Worker, Get!NumChunks, Get!Window, Get!IdleWorker, Get!getVars,
         Get!bufVars, Get!Read, Get!CloseRead, Get!CloseWrite, Get!WriteSome, Get!Extend,
         Get!Joined, Get!Touching, Get!WriteClosed, Get!InWindow, Get!Cell, Get!Ring,
         Get!Max, Get!Min,
         Download!Next, Download!Rewrite, Download!Discover, Download!Return,
         Download!ReadStream, Download!CloseStream, Download!Step, Download!Take,
         Download!GateWait, Download!OpenChunk, Download!Copy, Download!BodyEnds,
         Download!WriteFails, Download!Complete, Download!Break, Download!Set,
         Download!Fail, Download!Resume, Download!Contiguous, Download!Worker,
         Download!NumChunks, Download!Window, Download!IdleWorker, Download!getVars,
         Download!bufVars, Download!Read, Download!CloseRead, Download!CloseWrite,
         Download!WriteSome, Download!Extend, Download!Joined, Download!Touching,
         Download!WriteClosed, Download!InWindow, Download!Cell, Download!Ring,
         Download!Max, Download!Min

\* in what its reader is promised,
LEMMA DownloadIntact == Download!StreamIntact => Get!StreamIntact
  BY DEF Get!StreamIntact, Get!NextUnitIntact, Get!NeverTruncated, Get!Cell, Get!Ring,
         Download!StreamIntact, Download!NextUnitIntact, Download!NeverTruncated,
         Download!Cell, Download!Ring

\* and in that it never gets stuck.
LEMMA DownloadGoes == Download!NeverStuck => Get!NeverStuck
  BY DEF Get!NeverStuck, Get!BlockedWritesDrain, Get!NoneWaitsForAll, Get!Writing, Get!WriteClosed,
         Get!InWindow, Get!Worker, Get!Window, Get!Ring,
         Download!NeverStuck, Download!BlockedWritesDrain, Download!NoneWaitsForAll,
         Download!Writing, Download!WriteClosed, Download!InWindow, Download!Worker,
         Download!Window, Download!Ring

\* The invariant of the download holds in the composition.
LEMMA GetAlways == Spec => []Download!GetInv
<1>1. Init => Download!GetInv
  BY DownloadSizes, DownloadInit, Download!GetInit DEF Init
<1>2. ASSUME Download!GetInv, [Next]_vars PROVE Download!GetInv'
  <2>1. Get!Next \/ UNCHANGED getVars
    BY <1>2, Zenon DEF Next, vars
  <2>2. CASE Get!Next
    BY <1>2, <2>2, DownloadSizes, DownloadNext, Download!GetNext, Zenon
  <2>3. CASE UNCHANGED getVars
    BY <1>2, <2>3, DownloadStays, Download!GetStays, Zenon
  <2>. QED
    BY <2>1, <2>2, <2>3
<1>. QED
  BY <1>1, <1>2, PTL DEF Spec

\* For every size of the object and of a chunk, every number of workers and any
\* number of broken responses and rewrites: what the reader of
\* ParallelGetReader gets next is the unit at its offset, of the revision that
\* the download began with, and it sees EOF only after the whole object.
THEOREM StreamIntactAlways == Spec => []StreamIntact
<1>1. Download!GetInv => StreamIntact
  BY DownloadSizes, DownloadIntact, Download!IntactStream DEF StreamIntact
<1>. QED
  BY <1>1, GetAlways, PTL

\* For the same: a write that blocks on the buffer's window is released by
\* reading alone, the gate's ring never aliases two chunks, and until the
\* download returns its workers and its reader never all wait for each other
\* (dispatchGate.wait, complete, StreamBuffer.writeSome).
THEOREM NeverStuckAlways == Spec => []NeverStuck
<1>1. Download!GetInv => NeverStuck
  BY DownloadSizes, DownloadGoes, Download!NeverStuckHolds DEF NeverStuck
<1>. QED
  BY <1>1, GetAlways, PTL
=============================================================================
