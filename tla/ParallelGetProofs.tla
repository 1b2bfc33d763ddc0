--------------------------- MODULE ParallelGetProofs -------------------------
(***************************************************************************)
(* The parallel download for every size of the object and of a chunk,      *)
(* every number of workers, and any number of broken responses and         *)
(* rewrites: the inductive invariant GetInv of the buffer, the workers and *)
(* the gate, and what it says of the stream.                               *)
(***************************************************************************)
EXTENDS ParallelGet, WellFoundedInduction, TLAPS

\* An object may be empty, a chunk and a set of workers are not.
Sizes == ChunkSize \in Nat \ {0} /\ Concurrency \in Nat \ {0} /\ Total \in Nat

-----------------------------------------------------------------------------
(* The invariant.                                                          *)

Unit == 0..(Total - 1)
Slot == 0..(Window - 1)
Busy == {"gate", "open", "copy"}

\* A unit is in the buffer, or was: behind the frontier or in a pending interval.
Written(u) == u < frontier \/ \E iv \in pending : iv.start <= u /\ u < iv.end

\* A unit that a worker has yet to write.
Owes(i, u) == worker[i].pc \in Busy /\ worker[i].off <= u /\ u < worker[i].end

\* All units of a chunk are written.
Landed(s) == \A u \in Unit : s * ChunkSize <= u /\ u < (s + 1) * ChunkSize => Written(u)
Unheld(s) == \A i \in Worker : worker[i].pc \in Busy => worker[i].seq # s

\* The buffer: what is behind the frontier is read in order, what is beyond it
\* are intervals that do not touch the frontier nor each other.
Interval(iv) ==
    /\ iv = [start |-> iv.start, end |-> iv.end]
    /\ iv.start \in Nat /\ iv.end \in Nat
    /\ frontier < iv.start /\ iv.start < iv.end /\ iv.end <= Total
Apart(iv, jv) == iv = jv \/ iv.end < jv.start \/ jv.end < iv.start
BufferTypes ==
    /\ pages \in [0..(Ring * ChunkSize - 1) -> [off : Int, rev : Nat]]
    /\ readOff \in Nat /\ frontier \in Nat /\ readOff <= frontier /\ frontier <= Total
    /\ \A iv \in pending : Interval(iv)
    /\ \A iv, jv \in pending : Apart(iv, jv)
WorkerType ==
    [pc : Busy \cup {"take", "exit"}, seq : Nat, off : Nat, end : Nat, attempt : Nat]
GetTypes ==
    /\ rev \in Nat /\ pinned \in Nat /\ nextSeq \in Nat \ {0}
    /\ low \in Nat /\ low <= nextSeq
    /\ done \in [Slot -> BOOLEAN]
    /\ worker \in [Worker -> WorkerType]
    /\ mode \in {"start", "ranged", "full", "returned"}

\* Nothing that is still to be read is overwritten.
PagesHeld ==
    \A u \in Unit : Written(u) /\ readOff <= u =>
        pages[Cell(u)] = [off |-> u, rev |-> pinned] /\ InWindow(u)

\* How the stream ends.
Ends ==
    /\ failed => cancelled
    /\ rclosed => cancelled
    /\ closed => mode = "returned"
    /\ stream = "closed" <=> rclosed
    /\ stream \in {"reading", "eof", "error", "closed"}
    /\ stream \in {"eof", "error"} => closed
    /\ stream = "eof" => bufErr = "none" /\ readOff = frontier
    /\ closed /\ bufErr = "none" => frontier = Total

Fresh == nextSeq = 1 /\ low = 0 /\ done = [k \in Slot |-> FALSE]
NotStarted ==
    mode = "start" =>
        /\ Fresh /\ frontier = 0 /\ pending = {} /\ ~failed
        /\ \A i \in Worker : worker[i].pc = "exit"
SlotsNamed ==
    \A k \in Slot : done[k] => \E s \in low..(low + Window - 1) : s % Window = k /\ s < nextSeq
Returned == mode = "returned" => (\A i \in Worker : worker[i].pc = "exit") /\ SlotsNamed

\* One response: the first worker writes the units in order.
FullInv ==
    /\ Fresh /\ pending = {}
    /\ \A i \in Worker : i # 1 => worker[i].pc = "exit"
    /\ worker[1].pc \in {"copy", "exit"}
    /\ worker[1].pc = "copy" => worker[1].off = frontier /\ worker[1].end = Total
    /\ worker[1].pc = "exit" => failed \/ frontier = Total

\* Ranged responses: every worker that is busy has a chunk of its own.
Assigned(i) ==
    /\ worker[i].seq < nextSeq /\ low <= worker[i].seq
    /\ worker[i].seq * ChunkSize <= worker[i].off /\ worker[i].off <= worker[i].end
    /\ worker[i].end = Min({(worker[i].seq + 1) * ChunkSize, Total})
    /\ worker[i].pc # "gate" => worker[i].seq < low + Window
    /\ \A u \in Unit : worker[i].seq * ChunkSize <= u /\ u < worker[i].off => Written(u)
    /\ \A u \in Unit : Owes(i, u) => ~Written(u)
Chunks ==
    /\ \A i \in Worker : worker[i].pc \in Busy => Assigned(i)
    /\ \A i, j \in Worker :
           worker[i].pc \in Busy /\ worker[j].pc \in Busy /\ worker[i].seq = worker[j].seq => i = j
    /\ \A u \in Unit : nextSeq * ChunkSize <= u => ~Written(u)

\* The gate: a chunk below the window has landed, and so has one whose slot is
\* set; the lowest slot is clear, and no other chunk is forgotten.
Gate ==
    /\ \A s \in 0..(low - 1) : Landed(s)
    /\ \A k \in Slot : done[k] => \E s \in low..(low + Window - 1) :
           s % Window = k /\ s < nextSeq /\ Landed(s) /\ Unheld(s)
    /\ ~done[low % Window]
    /\ \A s \in low..(nextSeq - 1) :
           \/ failed \/ ~Unheld(s)
           \/ s < low + Window /\ done[s % Window]
RangedInv ==
    /\ Chunks /\ Gate
    /\ (\E i \in Worker : worker[i].pc = "exit") => failed \/ nextSeq >= NumChunks

GetInv ==
    /\ BufferTypes /\ GetTypes /\ PagesHeld /\ Ends /\ NotStarted /\ Returned
    /\ mode = "full" => FullInv
    /\ mode = "ranged" => RangedInv

-----------------------------------------------------------------------------
(* Numbers.                                                                *)

\* Multiplying by a chunk size preserves the order.
LEMMA ProductMonotone ==
    ASSUME NEW c \in Nat, NEW i \in Nat, NEW j \in Nat, i <= j
    PROVE  i * c <= j * c /\ i * c \in Nat /\ j * c \in Nat
  OBVIOUS

\* The next chunk starts one chunk size further.
LEMMA ProductNext ==
    ASSUME NEW c \in Nat, NEW i \in Nat
    PROVE  (i + 1) * c = i * c + c
  OBVIOUS

\* The chunk of a unit is the one that starts at or below it and ends above
\* it.
LEMMA DivBelow ==
    ASSUME NEW c \in Nat \ {0}, NEW n \in Nat
    PROVE  /\ n \div c \in Nat /\ (n \div c) * c <= n /\ n < (n \div c) * c + c
           /\ n % c \in 0..(c - 1) /\ n = (n \div c) * c + (n % c)
<1>1. n \div c \in Int /\ n % c \in 0..(c - 1)
  OBVIOUS
<1>2. n = c * (n \div c) + (n % c)
  OBVIOUS
<1>3. n \div c >= 0
  OBVIOUS
<1>4. c * (n \div c) = (n \div c) * c
  BY <1>1
<1>. QED
  BY <1>1, <1>2, <1>3, <1>4

Highest(S, x) == \A y \in S : y <= x
Lowest(S, x) == \A y \in S : x <= y

\* A set of bounded numbers has a least and a greatest one.
LEMMA LeastOf ==
    ASSUME NEW b \in Nat, NEW S \in SUBSET (0..b), S # {}
    PROVE  \E x \in S : Lowest(S, x)
<1>. DEFINE R == OpToRel(<, Nat)
<1>1. S \subseteq Nat
  OBVIOUS
<1>2. \A x, y \in Nat : x < y => <<x, y>> \in R
  BY DEF OpToRel
<1>3. IsWellFoundedOn(R, Nat)
  BY NatLessThanWellFounded
<1>. HIDE DEF R
<1>4. PICK x \in S : \A y \in S : ~(<<y, x>> \in R)
  BY <1>1, <1>3, WFMin, Zenon
<1>5. ASSUME NEW y \in S PROVE x <= y
  <2>1. x \in Nat /\ y \in Nat /\ ~(y < x)
    BY <1>1, <1>2, <1>4, Zenon
  <2>. QED
    BY <2>1
<1>. QED
  BY <1>5, Zenon DEF Lowest

\* A nonempty set of bounded naturals has a greatest element.
LEMMA GreatestOf ==
    ASSUME NEW b \in Nat, NEW S \in SUBSET (0..b), S # {}
    PROVE  \E x \in S : Highest(S, x)
<1>. DEFINE T == {b - x : x \in S}
<1>1. T \in SUBSET (0..b) /\ T # {}
  <2>1. \A x \in S : x \in Nat /\ x <= b
    OBVIOUS
  <2>2. \A x \in S : b - x \in 0..b
    BY <2>1
  <2>. QED
    BY <2>2, Zenon
<1>2. PICK z \in T : Lowest(T, z)
  <2>. HIDE DEF T
  <2>. QED
    BY <1>1, LeastOf, Zenon
<1>3. PICK x \in S : z = b - x
  BY <1>2
<1>4. ASSUME NEW y \in S PROVE y <= x
  <2>1. b - x <= b - y
    BY <1>2, <1>3, Zenon DEF Lowest
  <2>. QED
    BY <2>1
<1>. QED
  BY <1>4, Zenon DEF Highest

-----------------------------------------------------------------------------
(* Intervals.                                                              *)

\* Max is the greatest element, when there is one.
LEMMA MaxIs ==
    ASSUME NEW S, S \subseteq Int, NEW x \in S, Highest(S, x)
    PROVE  Max(S) = x
<1>1. \A y \in S : (\A z \in S : y >= z) => y = x
  BY DEF Highest
<1>2. \A z \in S : x >= z
  BY DEF Highest
<1>. QED
  BY <1>1, <1>2 DEF Max

\* Min is the least element, when there is one.
LEMMA MinIs ==
    ASSUME NEW S, S \subseteq Int, NEW x \in S, Lowest(S, x)
    PROVE  Min(S) = x
<1>1. \A y \in S : (\A z \in S : y <= z) => y = x
  BY DEF Lowest
<1>2. \A z \in S : x <= z
  BY DEF Lowest
<1>. QED
  BY <1>1, <1>2 DEF Min

\* Min of a nonempty set of bounded naturals.
LEMMA MinOf ==
    ASSUME NEW b \in Nat, NEW S \in SUBSET (0..b), S # {}
    PROVE  Min(S) \in S /\ Lowest(S, Min(S))
<1>1. S \subseteq Int
  OBVIOUS
<1>. QED
  BY <1>1, LeastOf, MinIs, Zenon

\* Max of a nonempty set of bounded naturals.
LEMMA MaxOf ==
    ASSUME NEW b \in Nat, NEW S \in SUBSET (0..b), S # {}
    PROVE  Max(S) \in S /\ Highest(S, Max(S))
<1>1. S \subseteq Int
  OBVIOUS
<1>. QED
  BY <1>1, GreatestOf, MaxIs, Zenon

\* Min of two numbers, the form in which the code clips a chunk to the object.
LEMMA MinOfTwo ==
    ASSUME NEW m \in Nat, NEW n \in Nat
    PROVE  Min({m, n}) = IF m <= n THEN m ELSE n
<1>1. CASE m <= n
  <2>1. Lowest({m, n}, m)
    BY <1>1 DEF Lowest
  <2>. QED
    BY <1>1, <2>1, MinIs
<1>2. CASE ~(m <= n)
  <2>1. Lowest({m, n}, n)
    BY <1>2 DEF Lowest
  <2>. QED
    BY <1>2, <2>1, MinIs
<1>. QED
  BY <1>1, <1>2

\* The interval that a written unit becomes part of: it begins where one of
\* those it touches begins, ends where one of them ends, and covers them all.
Spans(off, m, e) ==
    LET T == Touching(off, off + 1) \cup {[start |-> off, end |-> off + 1]}
    IN  /\ \E iv \in T : iv.start = m
        /\ \E iv \in T : iv.end = e
        /\ \A iv \in T : m <= iv.start /\ iv.end <= e
        /\ Joined(off, off + 1) = (pending \ T) \cup {[start |-> m, end |-> e]}

\* extend joins the unit just written and the intervals that touch it into one
\* span.
LEMMA JoinedSpans ==
    ASSUME Sizes, BufferTypes, NEW off \in Unit
    PROVE  \E m \in Nat, e \in Nat : Spans(off, m, e)
<1>. DEFINE T == Touching(off, off + 1) \cup {[start |-> off, end |-> off + 1]}
            starts == {iv.start : iv \in T}
            ends == {iv.end : iv \in T}
            m == Min(starts)
            e == Max(ends)
<1>1. \A iv \in T : iv.start \in 0..Total /\ iv.end \in 0..Total
  BY DEF BufferTypes, Interval, Touching, Unit, Sizes
<1>2. Joined(off, off + 1) = (pending \ T) \cup {[start |-> m, end |-> e]}
  BY Zenon DEF Joined
<1>3. T # {}
  OBVIOUS
<1>4. Spans(off, m, e) <=>
        /\ \E iv \in T : iv.start = m
        /\ \E iv \in T : iv.end = e
        /\ \A iv \in T : m <= iv.start /\ iv.end <= e
        /\ Joined(off, off + 1) = (pending \ T) \cup {[start |-> m, end |-> e]}
  BY Zenon DEF Spans
<1>. HIDE DEF T
<1>5. starts \in SUBSET (0..Total) /\ ends \in SUBSET (0..Total) /\ starts # {} /\ ends # {}
  BY <1>1, <1>3
<1>6. Total \in Nat
  BY DEF Sizes
<1>8. m \in starts /\ Lowest(starts, m) /\ e \in ends /\ Highest(ends, e)
  <2>. HIDE DEF starts, ends
  <2>. QED
    BY <1>5, <1>6, MinOf, MaxOf, Zenon
<1>. HIDE DEF m, e
<1>9. /\ \E iv \in T : iv.start = m
      /\ \E iv \in T : iv.end = e
      /\ \A iv \in T : m <= iv.start /\ iv.end <= e
  BY <1>8, Zenon DEF Lowest, Highest
<1>10. m \in Nat /\ e \in Nat
  BY <1>5, <1>8
<1>. QED
  BY <1>2, <1>4, <1>9, <1>10, Zenon

\* A unit that joins the pending intervals, beyond the frontier or at it.
LEMMA SpanCovers ==
    ASSUME Sizes, BufferTypes, NEW off \in Unit, NEW m \in Nat, NEW e \in Nat, Spans(off, m, e)
    PROVE  LET T == Touching(off, off + 1) \cup {[start |-> off, end |-> off + 1]}
           IN  /\ m <= off /\ off + 1 <= e /\ e <= Total
               /\ \A u \in Unit : m <= u /\ u < e <=> \E iv \in T : iv.start <= u /\ u < iv.end
               /\ \A iv \in pending \ T : e < iv.start \/ iv.end < m
               /\ m = off \/ frontier < m
<1>. DEFINE new == [start |-> off, end |-> off + 1]
            T == Touching(off, off + 1) \cup {new}
<1>1. /\ \E iv \in T : iv.start = m
      /\ \E iv \in T : iv.end = e
      /\ \A iv \in T : m <= iv.start /\ iv.end <= e
  BY Zenon DEF Spans
<1>2. PICK first \in T : first.start = m
  BY <1>1
<1>3. PICK last \in T : last.end = e
  BY <1>1
<1>4. off \in Nat /\ off < Total /\ frontier \in Nat /\ Total \in Nat
  BY DEF Unit, BufferTypes, Sizes
<1>5. \A iv \in pending : /\ iv.start \in Nat /\ iv.end \in Nat /\ iv.end <= Total
                          /\ frontier < iv.start /\ iv.start < iv.end
  BY DEF BufferTypes, Interval
<1>6. \A iv \in T : iv = new \/ (iv \in pending /\ iv.start <= off + 1 /\ off <= iv.end)
  BY DEF Touching
<1>7. \A iv \in pending \ T : off + 1 < iv.start \/ iv.end < off
  BY <1>4, <1>5 DEF Touching
<1>8. \A iv, jv \in pending : iv = jv \/ iv.end < jv.start \/ jv.end < iv.start
  BY DEF BufferTypes, Apart
<1>9. new \in T /\ new.start = off /\ new.end = off + 1
  OBVIOUS
<1>. HIDE DEF new, T
<1>10. /\ first = new \/ (first \in pending /\ first.start <= off + 1 /\ off <= first.end)
       /\ last = new \/ (last \in pending /\ last.start <= off + 1 /\ off <= last.end)
  BY <1>6
<1>11. m <= off /\ off + 1 <= e
  BY <1>1, <1>9
<1>12. e <= Total
  BY <1>3, <1>4, <1>5, <1>9, <1>10
<1>13. m = off \/ frontier < m
  BY <1>2, <1>5, <1>9, <1>10
<1>14. ASSUME NEW iv \in pending \ T PROVE e < iv.start \/ iv.end < m
  <2>1. CASE off + 1 < iv.start
    <3>1. CASE last = new
      BY <1>3, <1>9, <2>1, <3>1
    <3>2. CASE last # new
      BY <1>3, <1>4, <1>5, <1>8, <1>10, <2>1, <3>2
    <3>. QED
      BY <3>1, <3>2
  <2>2. CASE iv.end < off
    <3>1. CASE first = new
      BY <1>2, <1>9, <2>2, <3>1
    <3>2. CASE first # new
      BY <1>2, <1>4, <1>5, <1>8, <1>10, <2>2, <3>2
    <3>. QED
      BY <3>1, <3>2
  <2>. QED
    BY <1>7, <2>1, <2>2
<1>15. ASSUME NEW u \in Unit, m <= u, u < e
       PROVE  \E iv \in T : iv.start <= u /\ u < iv.end
  <2>0. u \in Nat
    BY DEF Unit
  <2>1. CASE u < off
    <3>1. first.start <= u /\ u < first.end
      BY <1>2, <1>4, <1>5, <1>9, <1>10, <1>15, <2>0, <2>1
    <3>. QED
      BY <3>1
  <2>2. CASE u = off
    BY <1>4, <1>9, <2>2
  <2>3. CASE off < u
    <3>1. last.start <= u /\ u < last.end
      BY <1>3, <1>4, <1>5, <1>9, <1>10, <1>15, <2>0, <2>3
    <3>. QED
      BY <3>1
  <2>. QED
    BY <1>4, <2>0, <2>1, <2>2, <2>3
<1>16. ASSUME NEW u \in Unit, NEW iv \in T, iv.start <= u, u < iv.end
       PROVE  m <= u /\ u < e
  <2>1. m <= iv.start /\ iv.end <= e /\ u \in Nat
    BY <1>1 DEF Unit
  <2>2. iv.start \in Nat /\ iv.end \in Nat
    BY <1>4, <1>5, <1>6, <1>9
  <2>. QED
    BY <1>16, <2>1, <2>2
<1>. QED
  BY <1>11, <1>12, <1>13, <1>14, <1>15, <1>16, Zenon DEF T, new

\* extendLocked: the frontier and the intervals account for one unit more.
Extended(off) ==
    /\ frontier' \in Nat /\ frontier <= frontier' /\ frontier' <= Total
    /\ \A iv \in pending' : Interval(iv)'
    /\ \A iv, jv \in pending' : Apart(iv, jv)
    /\ \A u \in Unit : Written(u)' <=> Written(u) \/ u = off

\* extend records the unit just written, forgets none, and moves the frontier
\* as far as it may.
LEMMA ExtendWrites ==
    ASSUME Sizes, BufferTypes, NEW off \in Unit, ~Written(off), Extend(off, off + 1)
    PROVE  Extended(off)
<1>0. PICK m \in Nat, e \in Nat : Spans(off, m, e)
  BY JoinedSpans
<1>. DEFINE new == [start |-> off, end |-> off + 1]
            T == Touching(off, off + 1) \cup {new}
            J == [start |-> m, end |-> e]
<1>1. /\ m <= off /\ off + 1 <= e /\ e <= Total
      /\ \A u \in Unit : m <= u /\ u < e <=> \E iv \in T : iv.start <= u /\ u < iv.end
      /\ \A iv \in pending \ T : e < iv.start \/ iv.end < m
      /\ m = off \/ frontier < m
  BY <1>0, SpanCovers
<1>2. Joined(off, off + 1) = (pending \ T) \cup {J}
  BY <1>0, Zenon DEF Spans
<1>3. T \subseteq pending \cup {new}
  BY DEF Touching
<1>4. /\ off \in Nat /\ frontier \in Nat /\ frontier <= off /\ Total \in Nat /\ frontier <= Total
  BY DEF Unit, BufferTypes, Written, Sizes
<1>5. \A iv \in pending : /\ iv.start \in Nat /\ iv.end \in Nat /\ iv.end <= Total
                          /\ frontier < iv.start /\ iv.start < iv.end
                          /\ iv = [start |-> iv.start, end |-> iv.end]
  BY DEF BufferTypes, Interval
<1>6. J.start = m /\ J.end = e /\ J = [start |-> J.start, end |-> J.end]
  OBVIOUS
<1>7. new.start = off /\ new.end = off + 1
  OBVIOUS
<1>8. \A iv, jv \in pending : Apart(iv, jv)
  BY DEF BufferTypes
<1>9. new \in T
  OBVIOUS
<1>. HIDE DEF new, T, J
<1>11. ASSUME NEW u \in Unit
       PROVE  \/ u < frontier
              \/ m <= u /\ u < e
              \/ \E iv \in pending \ T : iv.start <= u /\ u < iv.end
              <=> Written(u) \/ u = off
  <2>1. u \in Nat
    BY DEF Unit
  <2>2. ASSUME m <= u, u < e PROVE Written(u) \/ u = off
    <3>1. PICK iv \in T : iv.start <= u /\ u < iv.end
      BY <1>1, <2>2
    <3>2. CASE iv = new
      BY <1>4, <1>7, <2>1, <3>1, <3>2
    <3>3. CASE iv # new
      BY <1>3, <3>1, <3>3 DEF Written
    <3>. QED
      BY <3>2, <3>3
  <2>3. ASSUME NEW iv \in pending, iv.start <= u, u < iv.end
        PROVE  (m <= u /\ u < e) \/ iv \in pending \ T
    BY <1>1, <2>3
  <2>4. u = off => m <= u /\ u < e
    BY <1>1, <1>4, <2>1
  <2>. QED
    BY <2>2, <2>3, <2>4 DEF Written
<1>12. CASE frontier < m
  <2>1. {iv \in Joined(off, off + 1) : iv.start <= frontier} = {}
    BY <1>2, <1>4, <1>5, <1>6, <1>12
  <2>2. pending' = (pending \ T) \cup {J}
    BY <1>2, <2>1 DEF Extend
  <2>3. frontier' = frontier
    <3>1. frontier' = Max({frontier})
      <4>1. {frontier} \cup {iv.end : iv \in {}} = {frontier}
        OBVIOUS
      <4>. QED
        BY <2>1, <4>1, Zenon DEF Extend
    <3>2. Highest({frontier}, frontier) /\ {frontier} \subseteq Int
      BY <1>4 DEF Highest
    <3>. QED
      BY <3>1, <3>2, MaxIs
  <2>5. \A iv \in pending' : Interval(iv)'
    BY <1>1, <1>4, <1>5, <1>6, <1>12, <2>2, <2>3 DEF Interval
  <2>6. \A iv, jv \in pending' : Apart(iv, jv)
    BY <1>1, <1>6, <1>8, <2>2 DEF Apart
  <2>7. ASSUME NEW u \in Unit PROVE Written(u)' <=> Written(u) \/ u = off
    <3>1. Written(u)' <=> \/ u < frontier
                          \/ m <= u /\ u < e
                          \/ \E iv \in pending \ T : iv.start <= u /\ u < iv.end
      BY <1>6, <2>2, <2>3 DEF Written
    <3>. QED
      BY <1>11, <3>1
  <2>. QED
    BY <1>4, <2>3, <2>5, <2>6, <2>7 DEF Extended
<1>13. CASE ~(frontier < m)
  <2>0. m = off /\ off = frontier
    BY <1>1, <1>4, <1>13
  <2>1. {iv \in Joined(off, off + 1) : iv.start <= frontier} = {J}
    BY <1>2, <1>4, <1>5, <1>6, <2>0
  <2>2. J \notin pending \ T
    BY <1>4, <1>5, <1>6, <2>0
  <2>3. pending' = pending \ T
    BY <1>2, <2>1, <2>2 DEF Extend
  <2>4. frontier' = e
    <3>1. frontier' = Max({frontier, e})
      <4>1. {frontier} \cup {iv.end : iv \in {J}} = {frontier, e}
        BY <1>6
      <4>. QED
        BY <2>1, <4>1, Zenon DEF Extend
    <3>2. Highest({frontier, e}, e) /\ {frontier, e} \subseteq Int /\ e \in {frontier, e}
      BY <1>1, <1>4, <2>0 DEF Highest
    <3>. QED
      BY <3>1, <3>2, MaxIs, Zenon
  <2>5. \A iv \in pending \ T : e < iv.start
    BY <1>1, <1>4, <1>5, <2>0
  <2>6. \A iv \in pending' : Interval(iv)'
    BY <1>5, <2>3, <2>4, <2>5 DEF Interval
  <2>7. \A iv, jv \in pending' : Apart(iv, jv)
    BY <1>8, <2>3
  <2>8. ASSUME NEW u \in Unit PROVE Written(u)' <=> Written(u) \/ u = off
    <3>1. Written(u)' <=> u < e \/ \E iv \in pending \ T : iv.start <= u /\ u < iv.end
      BY <2>3, <2>4 DEF Written
    <3>2. u \in Nat /\ (u < e <=> u < frontier \/ (m <= u /\ u < e))
      BY <1>1, <1>4, <2>0 DEF Unit
    <3>. QED
      BY <1>11, <3>1, <3>2
  <2>. QED
    BY <1>1, <1>4, <2>0, <2>3, <2>4, <2>6, <2>7, <2>8 DEF Extended
<1>. QED
  BY <1>12, <1>13

-----------------------------------------------------------------------------
(* The ring.                                                               *)

\* The buffer has as many pages as the gate has slots.
LEMMA RingSize ==
    ASSUME Sizes
    PROVE  Ring \in Nat \ {0} /\ Window = Ring
BY DEF Ring, Window, Sizes

\* Division by a chunk size is monotone.
LEMMA DivMonotone ==
    ASSUME NEW c \in Nat \ {0}, NEW m \in Nat, NEW n \in Nat, m <= n
    PROVE  m \div c <= n \div c
<1>1. /\ m \div c \in Nat /\ n \div c \in Nat
      /\ (m \div c) * c <= m /\ n < (n \div c) * c + c
  BY DivBelow
<1>. DEFINE p == m \div c
            q == n \div c
<1>. HIDE DEF p, q
<1>2. CASE q + 1 <= p
  <2>1. (q + 1) * c <= p * c /\ (q + 1) * c = q * c + c /\ p * c \in Nat /\ q * c \in Nat
    BY <1>1, <1>2, ProductMonotone, ProductNext DEF p, q
  <2>. QED
    BY <1>1, <2>1 DEF p, q
<1>3. p <= q \/ q + 1 <= p
  BY <1>1 DEF p, q
<1>. QED
  BY <1>2, <1>3 DEF p, q

\* Numbers a turn of the ring apart differ by at least its size.
LEMMA PlaceUnique ==
    ASSUME NEW c \in Nat \ {0}, NEW p \in Nat, NEW q \in Nat, NEW x \in 0..(c - 1), NEW y \in 0..(c - 1),
           p * c + x = q * c + y
    PROVE  p = q /\ x = y
<1>1. p * c \in Nat /\ q * c \in Nat
  OBVIOUS
<1>2. ~(p + 1 <= q)
  <2>1. ASSUME p + 1 <= q PROVE (p + 1) * c <= q * c /\ (p + 1) * c = p * c + c
    BY <2>1, ProductMonotone, ProductNext
  <2>. QED
    BY <1>1, <2>1
<1>3. ~(q + 1 <= p)
  <2>1. ASSUME q + 1 <= p PROVE (q + 1) * c <= p * c /\ (q + 1) * c = q * c + c
    BY <2>1, ProductMonotone, ProductNext
  <2>. QED
    BY <1>1, <2>1
<1>4. p = q
  BY <1>2, <1>3
<1>. QED
  BY <1>1, <1>4

\* Numbers of one window of length c with the same remainder are the same
\* number.
LEMMA ModApart ==
    ASSUME NEW c \in Nat \ {0}, NEW m \in Nat, NEW n \in Nat, NEW w \in Nat,
           w <= m, m < w + c, w <= n, n < w + c, m % c = n % c
    PROVE  m = n
<1>1. /\ m \div c \in Nat /\ m = (m \div c) * c + (m % c) /\ m % c \in 0..(c - 1)
      /\ n \div c \in Nat /\ n = (n \div c) * c + (n % c)
  BY DivBelow
<1>. DEFINE p == m \div c
            q == n \div c
            x == m % c
<1>. HIDE DEF p, q, x
<1>2. /\ p \in Nat /\ q \in Nat /\ x \in Nat /\ m = p * c + x /\ n = q * c + x
  BY <1>1 DEF p, q, x
<1>3. p * c \in Nat /\ q * c \in Nat
  BY <1>2
<1>4. ~(p + 1 <= q)
  <2>1. ASSUME p + 1 <= q PROVE (p + 1) * c <= q * c /\ (p + 1) * c = p * c + c
    BY <1>2, <2>1, ProductMonotone, ProductNext
  <2>. QED
    BY <1>2, <1>3, <2>1
<1>5. ~(q + 1 <= p)
  <2>1. ASSUME q + 1 <= p PROVE (q + 1) * c <= p * c /\ (q + 1) * c = q * c + c
    BY <1>2, <2>1, ProductMonotone, ProductNext
  <2>. QED
    BY <1>2, <1>3, <2>1
<1>. QED
  BY <1>2, <1>4, <1>5

\* A unit has a place of its own among those of a ring of pages.
LEMMA CellApart ==
    ASSUME Sizes, NEW u \in Nat, NEW v \in Nat, NEW w \in Nat,
           w <= u \div ChunkSize, u \div ChunkSize < w + Ring,
           w <= v \div ChunkSize, v \div ChunkSize < w + Ring
    PROVE  /\ Cell(u) \in 0..(Ring * ChunkSize - 1)
           /\ Cell(u) = Cell(v) => u = v
<1>. DEFINE p == u \div ChunkSize
            q == v \div ChunkSize
            x == u % ChunkSize
            y == v % ChunkSize
            R == Ring
<1>1. ChunkSize \in Nat \ {0} /\ R \in Nat \ {0}
  BY RingSize DEF Sizes
<1>2. /\ p \in Nat /\ q \in Nat /\ x \in 0..(ChunkSize - 1) /\ y \in 0..(ChunkSize - 1)
      /\ u = p * ChunkSize + x /\ v = q * ChunkSize + y
  BY <1>1, DivBelow
<1>3. Cell(u) = (p % R) * ChunkSize + x /\ Cell(v) = (q % R) * ChunkSize + y
  BY Zenon DEF Cell
<1>4. w <= p /\ p < w + R /\ w <= q /\ q < w + R
  OBVIOUS
<1>. HIDE DEF p, q, x, y, R
<1>5. p % R \in 0..(R - 1) /\ q % R \in 0..(R - 1)
  BY <1>1, <1>2
<1>. DEFINE a == p % R
            b == q % R
<1>. HIDE DEF a, b
<1>6. a \in Nat /\ b \in Nat /\ a + 1 <= R
  BY <1>1, <1>5 DEF a, b
<1>7. Cell(u) \in 0..(R * ChunkSize - 1)
  <2>1. /\ (a + 1) * ChunkSize <= R * ChunkSize /\ (a + 1) * ChunkSize = a * ChunkSize + ChunkSize
        /\ a * ChunkSize \in Nat /\ R * ChunkSize \in Nat
    BY <1>1, <1>6, ProductMonotone, ProductNext
  <2>2. a * ChunkSize + x \in 0..(R * ChunkSize - 1)
    BY <1>1, <1>2, <2>1
  <2>. QED
    BY <1>3, <2>2 DEF a
<1>8. ASSUME Cell(u) = Cell(v) PROVE u = v
  <2>1. a * ChunkSize + x = b * ChunkSize + y
    BY <1>3, <1>8 DEF a, b
  <2>2. a = b /\ x = y
    BY <1>1, <1>2, <1>6, <2>1, PlaceUnique
  <2>3. p = q
    BY <1>1, <1>2, <1>4, <2>2, ModApart DEF a, b
  <2>. QED
    BY <1>2, <2>2, <2>3
<1>. QED
  BY <1>7, <1>8 DEF R

\* writeSome puts a unit where none is that has yet to be read.
LEMMA CopyPages ==
    ASSUME Sizes, BufferTypes, PagesHeld, pinned \in Nat, pinned' = pinned,
           NEW off \in Unit, ~Written(off), WriteSome(off, pinned)
    PROVE  BufferTypes' /\ PagesHeld' /\ Extended(off)
<1>. DEFINE cell == Cell(off)
            R == Ring
<1>1. /\ InWindow(off) /\ Extend(off, off + 1) /\ readOff' = readOff
      /\ pages' = [pages EXCEPT ![cell] = [off |-> off, rev |-> pinned]]
  BY Zenon DEF WriteSome
<1>2. Extended(off)
  BY <1>1, ExtendWrites, Zenon
<1>3. /\ off \in Nat /\ readOff \in Nat /\ frontier \in Nat /\ readOff <= frontier /\ frontier <= off
  BY DEF Unit, Written, BufferTypes, Sizes
<1>4. ChunkSize \in Nat \ {0} /\ R \in Nat \ {0}
  BY RingSize DEF Sizes
<1>. DEFINE w == readOff \div ChunkSize
<1>5. w \in Nat /\ \A u \in Unit : readOff <= u => w <= u \div ChunkSize
  <2>1. \A u \in Unit : u \in Nat
    BY DEF Unit
  <2>2. w \in Nat
    BY <1>3, <1>4, DivBelow, Zenon
  <2>. QED
    BY <1>3, <1>4, <2>1, <2>2, DivMonotone, Zenon
<1>6. \A u \in Unit : InWindow(u) <=> u \div ChunkSize < w + R
  BY Zenon DEF InWindow
<1>7. w <= off \div ChunkSize /\ off \div ChunkSize < w + R
  BY <1>1, <1>3, <1>5, <1>6
<1>. HIDE DEF w, R
<1>8. \A u \in Unit : u \in Nat
  BY DEF Unit
<1>9. cell \in 0..(R * ChunkSize - 1)
  BY <1>3, <1>5, <1>7, CellApart DEF R
<1>10. pages \in [0..(R * ChunkSize - 1) -> [off : Int, rev : Nat]]
  BY DEF BufferTypes, R
<1>11. pages' \in [0..(R * ChunkSize - 1) -> [off : Int, rev : Nat]]
  <2>1. [off |-> off, rev |-> pinned] \in [off : Int, rev : Nat]
    BY <1>3
  <2>. QED
    BY <1>1, <1>10, <2>1, Zenon
<1>12. BufferTypes'
  BY <1>1, <1>2, <1>3, <1>11 DEF BufferTypes, Extended, R
<1>13. ASSUME NEW u \in Unit, Written(u)', readOff <= u
       PROVE  pages'[Cell(u)] = [off |-> u, rev |-> pinned] /\ InWindow(u)
  <2>1. CASE u = off
    BY <1>1, <1>9, <1>10, <2>1, Zenon
  <2>2. CASE u # off
    <3>1. Written(u)
      BY <1>2, <1>13, <2>2, Zenon DEF Extended
    <3>2. pages[Cell(u)] = [off |-> u, rev |-> pinned] /\ InWindow(u)
      BY <1>13, <3>1, Zenon DEF PagesHeld
    <3>3. w <= u \div ChunkSize /\ u \div ChunkSize < w + R
      BY <1>5, <1>6, <1>13, <3>2, Zenon
    <3>4. Cell(u) \in 0..(R * ChunkSize - 1) /\ Cell(u) # cell
      BY <1>3, <1>5, <1>7, <1>8, <2>2, <3>3, CellApart DEF R
    <3>. QED
      BY <1>1, <1>10, <3>2, <3>4, Zenon
  <2>. QED
    BY <2>1, <2>2, Zenon
<1>14. ASSUME NEW u \in Unit PROVE InWindow(u)' <=> InWindow(u)
  BY <1>1, Zenon DEF InWindow
<1>15. PagesHeld'
  BY <1>1, <1>13, <1>14, Zenon DEF PagesHeld
<1>. QED
  BY <1>2, <1>12, <1>15

\* Read frees the pages behind it, and only those.
LEMMA ReadPages ==
    ASSUME Sizes, BufferTypes, PagesHeld, Read, UNCHANGED pinned
    PROVE  BufferTypes' /\ PagesHeld'
<1>1. /\ UNCHANGED <<pages, pending, frontier>>
      /\ readOff' = readOff \/ (readOff < frontier /\ readOff' = readOff + 1)
  BY Zenon DEF Read
<1>2. readOff' \in Nat /\ readOff <= readOff' /\ readOff' <= frontier /\ readOff \in Nat /\ frontier \in Nat
  BY <1>1 DEF BufferTypes
<1>3. BufferTypes'
  BY <1>1, <1>2 DEF BufferTypes, Interval
<1>4. ASSUME NEW u \in Unit PROVE Written(u)' <=> Written(u)
  BY <1>1, Zenon DEF Written
<1>5. ASSUME NEW u \in Unit, InWindow(u) PROVE InWindow(u)'
  <2>1. readOff \div ChunkSize <= readOff' \div ChunkSize
    BY <1>2, DivMonotone DEF Sizes
  <2>2. /\ u \div ChunkSize \in Nat /\ readOff \div ChunkSize \in Nat /\ readOff' \div ChunkSize \in Nat
    <3>1. u \in Nat
      BY DEF Unit
    <3>. QED
      BY <1>2, <3>1, DivBelow, Zenon DEF Sizes
  <2>. QED
    BY <1>5, <2>1, <2>2, RingSize DEF InWindow
<1>6. ASSUME NEW u \in Unit, readOff' <= u PROVE readOff <= u
  BY <1>2, <1>6 DEF Unit
<1>7. PagesHeld'
  BY <1>1, <1>4, <1>5, <1>6, Zenon DEF PagesHeld
<1>. QED
  BY <1>3, <1>7

-----------------------------------------------------------------------------
(* Steps of the workers that leave the buffer alone.                       *)

BufferSame == UNCHANGED <<pages, pending, frontier, readOff, pinned>>

\* A step that leaves the buffer alone keeps what is known of it.
LEMMA BufferStays ==
    ASSUME BufferTypes, PagesHeld, BufferSame
    PROVE  BufferTypes' /\ PagesHeld' /\ \A u \in Unit : Written(u)' <=> Written(u)
<1>1. BufferTypes'
  BY DEF BufferTypes, Interval, BufferSame
<1>2. ASSUME NEW u \in Unit PROVE (Written(u)' <=> Written(u)) /\ (InWindow(u)' <=> InWindow(u))
  BY Zenon DEF BufferSame, Written, InWindow
<1>3. PagesHeld'
  BY <1>2, Zenon DEF PagesHeld, BufferSame
<1>. QED
  BY <1>1, <1>2, <1>3

\* Worker i is w after the step, and the others are as they were.
Becomes(i, w) == worker'[i] = w /\ \A j \in Worker : j # i => worker'[j] = worker[j]

\* What Set does to the worker it names, and to the others.
LEMMA SetBecomes ==
    ASSUME worker \in [Worker -> WorkerType], NEW i \in Worker, NEW w \in WorkerType, Set(i, w)
    PROVE  Becomes(i, w) /\ worker' \in [Worker -> WorkerType]
BY Zenon DEF Set, Becomes

\* A worker that does not step keeps its chunk when the others only draw new
\* ones.
LEMMA AssignedStays ==
    ASSUME GetTypes, NEW j \in Worker, Assigned(j), worker'[j] = worker[j],
           nextSeq' \in Nat, nextSeq <= nextSeq', UNCHANGED <<low, frontier, pending>>
    PROVE  Assigned(j)'
<1>1. \A u \in Unit : (Written(u)' <=> Written(u)) /\ (Owes(j, u)' <=> Owes(j, u))
  BY Zenon DEF Written, Owes
<1>2. worker[j].seq \in Nat /\ nextSeq \in Nat
  BY DEF GetTypes, WorkerType
<1>3. worker[j].seq < nextSeq'
  BY <1>2 DEF Assigned
<1>. QED
  BY <1>1, <1>3, Zenon DEF Assigned

\* A worker with a chunk goes on with it, or fails; one without a chunk leaves
\* when there are no more.
GoesOn(i, w) ==
    /\ w.pc \in Busy => /\ worker[i].pc \in Busy
                        /\ w.seq = worker[i].seq /\ w.off = worker[i].off /\ w.end = worker[i].end
                        /\ w.pc # "gate" => w.seq < low + Window
    /\ worker[i].pc \in Busy /\ w.pc \notin Busy => failed'
    /\ w.pc = "exit" => failed' \/ nextSeq >= NumChunks
Cancels ==
    /\ failed => failed'
    /\ cancelled => cancelled'
    /\ failed' => cancelled'
    /\ UNCHANGED <<closed, rclosed, bufErr, stream>>

\* A step of one worker that stays on its chunk, or stops without one, keeps
\* the invariant.
LEMMA RangedGoesOn ==
    ASSUME GetInv, mode = "ranged", BufferSame, Cancels, UNCHANGED <<rev, mode, nextSeq, low, done>>,
           NEW i \in Worker, NEW w \in WorkerType, Set(i, w), GoesOn(i, w)
    PROVE  GetInv'
<1>1. /\ BufferTypes /\ PagesHeld /\ GetTypes /\ Ends /\ Chunks /\ Gate
      /\ (\E j \in Worker : worker[j].pc = "exit") => failed \/ nextSeq >= NumChunks
  BY Zenon DEF GetInv, RangedInv
<1>2. BufferTypes' /\ PagesHeld' /\ \A u \in Unit : Written(u)' <=> Written(u)
  BY <1>1, BufferStays, Zenon
<1>3. Becomes(i, w) /\ worker' \in [Worker -> WorkerType]
  BY <1>1, SetBecomes, Zenon DEF GetTypes
<1>4. GetTypes'
  BY <1>1, <1>3, Zenon DEF GetTypes, BufferSame
<1>5. Ends'
  BY <1>1, Zenon DEF Ends, Cancels, BufferSame
<1>6. NotStarted' /\ Returned'
  BY DEF NotStarted, Returned
<1>7. ASSUME NEW j \in Worker, worker'[j].pc \in Busy
      PROVE  /\ worker[j].pc \in Busy /\ worker'[j].seq = worker[j].seq
             /\ worker'[j].off = worker[j].off /\ worker'[j].end = worker[j].end
             /\ worker'[j].pc # "gate" => worker'[j].seq < low + Window
  <2>1. CASE j = i
    BY <1>3, <1>7, <2>1, Zenon DEF Becomes, GoesOn
  <2>2. CASE j # i
    BY <1>1, <1>3, <1>7, <2>2, Zenon DEF Becomes, Chunks, Assigned
  <2>. QED
    BY <2>1, <2>2, Zenon
<1>8. ASSUME NEW j \in Worker, worker'[j].pc \in Busy PROVE Assigned(j)'
  <2>1. Assigned(j)
    BY <1>1, <1>7, <1>8, Zenon DEF Chunks
  <2>2. \A u \in Unit : Owes(j, u)' => Owes(j, u)
    BY <1>7, <1>8, Zenon DEF Owes
  <2>3. \A u \in Unit : Owes(j, u)' => ~Written(u)'
    BY <1>2, <2>1, <2>2, Zenon DEF Assigned
  <2>. QED
    BY <1>2, <1>7, <1>8, <2>1, <2>3, Zenon DEF Assigned
<1>9. Chunks'
  BY <1>1, <1>2, <1>7, <1>8, Zenon DEF Chunks
<1>10. \A s \in Nat : Landed(s)' <=> Landed(s)
  BY <1>2, Zenon DEF Landed
<1>11. \A s \in Nat : Unheld(s) => Unheld(s)'
  BY <1>7, Zenon DEF Unheld
<1>12. ASSUME NEW s \in Nat, ~Unheld(s) PROVE failed' \/ ~Unheld(s)'
  <2>1. PICK j \in Worker : worker[j].pc \in Busy /\ worker[j].seq = s
    BY <1>12, Zenon DEF Unheld
  <2>2. CASE worker'[j].pc \in Busy
    BY <1>7, <2>1, <2>2, Zenon DEF Unheld
  <2>3. CASE worker'[j].pc \notin Busy
    BY <1>3, <2>1, <2>3, Zenon DEF Becomes, GoesOn
  <2>. QED
    BY <2>2, <2>3, Zenon
<1>13. Gate'
  <2>1. /\ \A s \in 0..(low - 1) : s \in Nat
        /\ \A s \in low..(low + Window - 1) : s \in Nat
        /\ \A s \in low..(nextSeq - 1) : s \in Nat
    BY <1>1 DEF GetTypes
  <2>2. \A k \in Slot : done[k] => \E s \in low..(low + Window - 1) :
           s % Window = k /\ s < nextSeq /\ Landed(s)' /\ Unheld(s)'
    BY <1>1, <1>10, <1>11, <2>1, Zenon DEF Gate
  <2>3. \A s \in low..(nextSeq - 1) :
           \/ failed' \/ ~Unheld(s)'
           \/ s < low + Window /\ done[s % Window]
    BY <1>1, <1>12, <2>1, Zenon DEF Gate, Cancels
  <2>. QED
    BY <1>1, <1>10, <2>1, <2>2, <2>3, Zenon DEF Gate
<1>14. (\E j \in Worker : worker'[j].pc = "exit") => failed' \/ nextSeq >= NumChunks
  BY <1>1, <1>3, Zenon DEF Becomes, GoesOn, Cancels
<1>. QED
  BY <1>2, <1>4, <1>5, <1>6, <1>9, <1>13, <1>14, Zenon DEF GetInv, RangedInv

\* A worker that fails ends the download for all.
LEMMA FailKept ==
    ASSUME GetInv, NEW i \in Worker, worker[i].pc \in Busy, Fail(i), BufferSame,
           UNCHANGED <<rev, mode, nextSeq, low, done, closed, rclosed, bufErr, stream>>
    PROVE  GetInv'
<1>. DEFINE w == [worker[i] EXCEPT !.pc = "exit"]
<1>1. GetTypes /\ Ends /\ BufferTypes /\ PagesHeld
  BY Zenon DEF GetInv
<1>2. failed' /\ cancelled' /\ Set(i, w)
  BY Zenon DEF Fail
<1>3. w \in WorkerType /\ w.pc = "exit"
  BY <1>1 DEF GetTypes, WorkerType
<1>4. Cancels
  BY <1>2, Zenon DEF Cancels
<1>5. "exit" \notin Busy
  BY DEF Busy
<1>. HIDE DEF w
<1>6. mode # "start" /\ mode # "returned"
  BY <1>5 DEF GetInv, NotStarted, Returned
<1>7. CASE mode = "ranged"
  <2>1. GoesOn(i, w)
    BY <1>2, <1>3, <1>5, Zenon DEF GoesOn
  <2>. QED
    BY <1>2, <1>3, <1>4, <1>7, <2>1, RangedGoesOn, Zenon
<1>8. CASE mode = "full"
  <2>1. BufferTypes' /\ PagesHeld'
    BY <1>1, BufferStays, Zenon
  <2>2. Becomes(i, w) /\ worker' \in [Worker -> WorkerType]
    BY <1>1, <1>2, <1>3, SetBecomes, Zenon DEF GetTypes
  <2>3. GetTypes'
    BY <1>1, <2>2, Zenon DEF GetTypes, BufferSame
  <2>4. Ends'
    <3>1. UNCHANGED <<mode, readOff, frontier>>
      BY Zenon DEF BufferSame
    <3>. QED
      BY <1>1, <1>4, <3>1 DEF Ends, Cancels
  <2>5. NotStarted' /\ Returned'
    BY <1>8 DEF NotStarted, Returned
  <2>6. FullInv
    BY <1>8, Zenon DEF GetInv
  <2>7. i = 1
    BY <1>5, <2>6, Zenon DEF FullInv
  <2>8. FullInv'
    BY <1>2, <1>3, <2>2, <2>6, <2>7 DEF FullInv, Fresh, Becomes, BufferSame
  <2>. QED
    BY <1>8, <2>1, <2>3, <2>4, <2>5, <2>8 DEF GetInv
<1>. QED
  BY <1>1, <1>6, <1>7, <1>8, Zenon DEF GetTypes

\* A worker with a chunk goes on with it at another place of its loop.
LEMMA AgainKept ==
    ASSUME GetInv, mode = "ranged", NEW i \in Worker, worker[i].pc \in Busy, BufferSame,
           UNCHANGED <<rev, mode, nextSeq, low, done, closed, rclosed, bufErr, stream, failed, cancelled>>,
           worker[i].seq < low + Window,
           NEW pc \in {"open", "copy"}, NEW n \in Nat,
           Set(i, [worker[i] EXCEPT !.pc = pc, !.attempt = n])
    PROVE  GetInv'
<1>. DEFINE w == [worker[i] EXCEPT !.pc = pc, !.attempt = n]
<1>1. worker[i] \in WorkerType /\ (failed => cancelled)
  BY DEF GetInv, GetTypes, Ends
<1>2. w \in WorkerType /\ w.pc = pc
  BY <1>1 DEF WorkerType, Busy
<1>3. w.seq = worker[i].seq /\ w.off = worker[i].off /\ w.end = worker[i].end
  BY <1>1 DEF WorkerType
<1>4. pc \in Busy /\ pc # "exit"
  BY DEF Busy
<1>5. Set(i, w)
  OBVIOUS
<1>. HIDE DEF w
<1>6. GoesOn(i, w)
  BY <1>2, <1>3, <1>4, Zenon DEF GoesOn
<1>7. Cancels
  BY <1>1, Zenon DEF Cancels
<1>. QED
  BY <1>2, <1>5, <1>6, <1>7, RangedGoesOn, Zenon

BusyRanged(i) ==
    /\ worker[i] \in WorkerType
    /\ worker[i].pc \in {"gate", "open"} => mode = "ranged"
    /\ mode = "ranged" /\ worker[i].pc \in {"open", "copy"} => worker[i].seq < low + Window

\* A worker with a chunk in hand is in a ranged or in a full download.
LEMMA WhereBusy ==
    ASSUME GetInv, NEW i \in Worker, worker[i].pc \in Busy
    PROVE  BusyRanged(i) /\ mode \in {"ranged", "full"}
<1>1. worker[i] \in WorkerType /\ mode \in {"start", "ranged", "full", "returned"}
  BY DEF GetInv, GetTypes
<1>2. mode \in {"ranged", "full"}
  BY <1>1 DEF GetInv, NotStarted, Returned, Busy
<1>3. ASSUME mode = "full" PROVE worker[i].pc \notin {"gate", "open"}
  BY <1>3 DEF GetInv, FullInv, Busy
<1>4. ASSUME mode = "ranged", worker[i].pc \in {"open", "copy"} PROVE worker[i].seq < low + Window
  BY <1>4 DEF GetInv, RangedInv, Chunks, Assigned, Busy
<1>. QED
  BY <1>1, <1>2, <1>3, <1>4, Zenon DEF BusyRanged

\* A turn at the dispatch gate, granted or refused, keeps the invariant.
LEMMA GateWaitKept ==
    ASSUME Sizes, GetInv, NEW i \in Worker, GateWait(i)
    PROVE  GetInv'
<1>. DEFINE w == [worker[i] EXCEPT !.pc = "open"]
<1>1. /\ worker[i].pc = "gate" /\ BufferSame
      /\ UNCHANGED <<rev, mode, nextSeq, low, done, closed, rclosed, bufErr, stream>>
  BY Zenon DEF GateWait, bufVars, BufferSame
<1>2. worker[i].pc \in Busy
  BY <1>1 DEF Busy
<1>3. mode = "ranged" /\ worker[i] \in WorkerType /\ low \in Nat
  BY <1>1, <1>2, WhereBusy DEF BusyRanged, GetInv, GetTypes
<1>4. CASE Fail(i)
  BY <1>1, <1>2, <1>4, FailKept, Zenon
<1>5. CASE ~Fail(i)
  <2>1. /\ worker[i].seq - low < Window /\ Set(i, w) /\ UNCHANGED <<cancelled, failed>>
    BY <1>5, Zenon DEF GateWait
  <2>2. worker[i].seq < low + Window
    BY <1>3, <2>1, RingSize DEF WorkerType
  <2>3. worker[i].attempt \in Nat /\ w = [worker[i] EXCEPT !.pc = "open", !.attempt = worker[i].attempt]
    BY <1>3 DEF WorkerType
  <2>4. Set(i, [worker[i] EXCEPT !.pc = "open", !.attempt = worker[i].attempt])
    BY <2>1, <2>3
  <2>. QED
    BY <1>1, <1>2, <1>3, <2>1, <2>2, <2>3, <2>4, AgainKept, Zenon
<1>. QED
  BY <1>4, <1>5

\* The retry loop of a chunk keeps the invariant.
LEMMA ResumeKept ==
    ASSUME GetInv, NEW i \in Worker, worker[i].pc \in {"open", "copy"}, Resume(i), BufferSame,
           UNCHANGED <<rev, mode, nextSeq, low, done, closed, rclosed, bufErr, stream>>
    PROVE  GetInv'
<1>. DEFINE n == worker[i].attempt + 1
<1>1. worker[i].pc \in Busy
  BY DEF Busy
<1>2. worker[i] \in WorkerType /\ mode \in {"ranged", "full"}
  BY <1>1, WhereBusy DEF BusyRanged
<1>3. CASE Fail(i)
  BY <1>1, <1>3, FailKept, Zenon
<1>4. CASE ~Fail(i)
  <2>1. /\ mode # "full" /\ UNCHANGED <<cancelled, failed>>
        /\ Set(i, [worker[i] EXCEPT !.pc = "open", !.attempt = n])
    BY <1>4 DEF Resume
  <2>2. mode = "ranged" /\ worker[i].seq < low + Window /\ n \in Nat
    BY <1>1, <1>2, <2>1, WhereBusy DEF BusyRanged, WorkerType
  <2>. HIDE DEF n
  <2>. QED
    BY <1>1, <2>1, <2>2, AgainKept, Zenon
<1>. QED
  BY <1>3, <1>4

\* The request for a chunk, answered or refused, keeps the invariant.
LEMMA OpenChunkKept ==
    ASSUME GetInv, NEW i \in Worker, OpenChunk(i)
    PROVE  GetInv'
<1>1. /\ worker[i].pc = "open" /\ BufferSame
      /\ UNCHANGED <<rev, mode, nextSeq, low, done, closed, rclosed, bufErr, stream>>
  BY Zenon DEF OpenChunk, bufVars, BufferSame
<1>2. worker[i].pc \in Busy
  BY <1>1 DEF Busy
<1>3. CASE Fail(i)
  BY <1>1, <1>2, <1>3, FailKept, Zenon
<1>4. CASE Resume(i)
  BY <1>1, <1>4, ResumeKept, Zenon
<1>5. CASE ~Fail(i) /\ ~Resume(i)
  <2>1. UNCHANGED <<cancelled, failed>> /\ Set(i, [worker[i] EXCEPT !.pc = "copy"])
    BY <1>5, Zenon DEF OpenChunk
  <2>2. mode = "ranged" /\ worker[i] \in WorkerType /\ worker[i].seq < low + Window
    BY <1>1, <1>2, WhereBusy DEF BusyRanged
  <2>3. /\ worker[i].attempt \in Nat
        /\ [worker[i] EXCEPT !.pc = "copy"] = [worker[i] EXCEPT !.pc = "copy", !.attempt = worker[i].attempt]
    BY <2>2 DEF WorkerType
  <2>4. Set(i, [worker[i] EXCEPT !.pc = "copy", !.attempt = worker[i].attempt])
    BY <2>1, <2>3
  <2>. QED
    BY <1>1, <1>2, <2>1, <2>2, <2>3, <2>4, AgainKept, Zenon
<1>. QED
  BY <1>3, <1>4, <1>5, Zenon

\* A body that ends early and a write that fails keep the invariant.
LEMMA BreakKept ==
    ASSUME GetInv, NEW i \in Worker, BodyEnds(i) \/ WriteFails(i)
    PROVE  GetInv'
<1>1. /\ worker[i].pc = "copy" /\ BufferSame
      /\ UNCHANGED <<rev, mode, nextSeq, low, done, closed, rclosed, bufErr, stream>>
      /\ Resume(i) \/ Fail(i)
  BY Zenon DEF BodyEnds, WriteFails, bufVars, BufferSame
<1>2. worker[i].pc \in Busy
  BY <1>1 DEF Busy
<1>. QED
  BY <1>1, <1>2, ResumeKept, FailKept, Zenon

\* The first unit of a chunk that exists is a unit of the object.
LEMMA ChunkExists ==
    ASSUME Sizes, NEW s \in Nat, s < NumChunks, s # 0
    PROVE  s * ChunkSize \in Unit
<1>1. ChunkSize \in Nat \ {0} /\ Total \in Nat
  BY DEF Sizes
<1>2. s <= (Total - 1) \div ChunkSize
  <2>1. (Total - 1) \div ChunkSize \in Int
    BY <1>1
  <2>. QED
    BY <2>1 DEF NumChunks
<1>3. Total # 0
  <2>1. (0 - 1) \div ChunkSize = -1
    BY <1>1
  <2>. QED
    BY <1>2, <2>1
<1>4. Total - 1 \in Nat
  BY <1>1, <1>3
<1>. DEFINE q == (Total - 1) \div ChunkSize
<1>5. q \in Nat /\ q * ChunkSize <= Total - 1
  BY <1>1, <1>4, DivBelow
<1>6. s <= q
  BY <1>2
<1>. HIDE DEF q
<1>7. s * ChunkSize <= q * ChunkSize /\ s * ChunkSize \in Nat /\ q * ChunkSize \in Nat
  BY <1>1, <1>5, <1>6, ProductMonotone
<1>. QED
  BY <1>1, <1>5, <1>7 DEF Unit

\* Drawing the next chunk keeps the invariant: no other worker holds or has
\* written it.
LEMMA TakeKept ==
    ASSUME Sizes, GetInv, NEW i \in Worker, Take(i)
    PROVE  GetInv'
<1>0. /\ worker[i].pc = "take" /\ BufferSame
      /\ UNCHANGED <<rev, mode, low, done, closed, rclosed, bufErr, stream, failed, cancelled>>
  BY Zenon DEF Take, bufVars, BufferSame
<1>1. /\ BufferTypes /\ PagesHeld /\ GetTypes /\ Ends
  BY Zenon DEF GetInv
<1>2. mode = "ranged"
  BY <1>0, <1>1 DEF GetInv, GetTypes, NotStarted, Returned, FullInv
<1>3. /\ Chunks /\ Gate
      /\ (\E j \in Worker : worker[j].pc = "exit") => failed \/ nextSeq >= NumChunks
  BY <1>2, Zenon DEF GetInv, RangedInv
<1>4. "take" \notin Busy /\ "exit" \notin Busy /\ "gate" \in Busy
  BY DEF Busy
<1>5. CASE nextSeq >= NumChunks
  <2>. DEFINE w == [worker[i] EXCEPT !.pc = "exit"]
  <2>1. Set(i, w) /\ UNCHANGED nextSeq
    BY <1>5, Zenon DEF Take
  <2>2. w \in WorkerType /\ w.pc = "exit"
    BY <1>1 DEF GetTypes, WorkerType
  <2>. HIDE DEF w
  <2>3. GoesOn(i, w)
    BY <1>0, <1>4, <1>5, <2>2, Zenon DEF GoesOn
  <2>4. Cancels
    BY <1>0, <1>1, Zenon DEF Cancels, Ends
  <2>. QED
    BY <1>0, <1>2, <2>1, <2>2, <2>3, <2>4, RangedGoesOn, Zenon
<1>6. CASE ~(nextSeq >= NumChunks)
  <2>. DEFINE e == Min({(nextSeq + 1) * ChunkSize, Total})
              w == [pc |-> "gate", seq |-> nextSeq, off |-> nextSeq * ChunkSize, end |-> e, attempt |-> 0]
  <2>1. Set(i, w) /\ nextSeq' = nextSeq + 1
    BY <1>6, Zenon DEF Take
  <2>2. nextSeq \in Nat /\ nextSeq # 0 /\ low \in Nat /\ low <= nextSeq /\ worker \in [Worker -> WorkerType]
    BY <1>1 DEF GetTypes
  <2>3. nextSeq < NumChunks
    <3>1. NumChunks \in Int
      BY DEF NumChunks, Sizes
    <3>. QED
      BY <1>6, <2>2, <3>1
  <2>4. nextSeq * ChunkSize \in Unit
    BY <2>2, <2>3, ChunkExists
  <2>5. /\ (nextSeq + 1) * ChunkSize = nextSeq * ChunkSize + ChunkSize
        /\ nextSeq * ChunkSize \in Nat /\ nextSeq * ChunkSize < Total
    BY <2>2, <2>4, ProductNext DEF Unit, Sizes
  <2>6. e \in Nat /\ nextSeq * ChunkSize <= e
    <3>1. (nextSeq + 1) * ChunkSize \in Nat /\ Total \in Nat
      BY <2>5 DEF Sizes
    <3>2. e = IF (nextSeq + 1) * ChunkSize <= Total THEN (nextSeq + 1) * ChunkSize ELSE Total
      BY <3>1, MinOfTwo
    <3>. QED
      BY <2>5, <3>1, <3>2 DEF Sizes
  <2>. HIDE DEF e
  <2>7. /\ w \in WorkerType /\ w.pc = "gate" /\ w.seq = nextSeq /\ w.off = nextSeq * ChunkSize
        /\ w.end = e
    BY <2>2, <2>5, <2>6 DEF WorkerType, Busy
  <2>. HIDE DEF w
  <2>8. Becomes(i, w) /\ worker' \in [Worker -> WorkerType]
    BY <2>1, <2>2, <2>7, SetBecomes, Zenon
  <2>9. BufferTypes' /\ PagesHeld' /\ \A u \in Unit : Written(u)' <=> Written(u)
    BY <1>0, <1>1, BufferStays, Zenon
  <2>10. nextSeq' \in Nat \ {0} /\ nextSeq <= nextSeq' /\ low <= nextSeq' /\ nextSeq < nextSeq'
    BY <2>1, <2>2
  <2>11. GetTypes'
    BY <1>0, <1>1, <2>8, <2>10, Zenon DEF GetTypes, BufferSame
  <2>12. Ends'
    <3>1. UNCHANGED <<mode, readOff, frontier, failed, cancelled, closed, rclosed, bufErr, stream>>
      BY <1>0, Zenon DEF BufferSame
    <3>. QED
      BY <1>1, <3>1, Zenon DEF Ends
  <2>13. NotStarted' /\ Returned'
    BY <1>0, <1>2 DEF NotStarted, Returned
  <2>14. ASSUME NEW j \in Worker, worker'[j].pc \in Busy, j # i
         PROVE  worker'[j] = worker[j] /\ Assigned(j) /\ Assigned(j)'
    <3>1. worker'[j] = worker[j] /\ Assigned(j)
      BY <1>3, <2>8, <2>14, Zenon DEF Becomes, Chunks
    <3>2. UNCHANGED <<low, frontier, pending>> /\ nextSeq' \in Nat
      BY <1>0, <2>10, Zenon DEF BufferSame
    <3>. QED
      BY <1>1, <2>10, <3>1, <3>2, AssignedStays
  <2>15. \A u \in Unit : nextSeq * ChunkSize <= u => ~Written(u)'
    BY <1>3, <2>9, Zenon DEF Chunks
  <2>16. worker'[i] = w
    BY <2>8, Zenon DEF Becomes
  <2>17. Assigned(i)'
    <3>1. \A u \in Unit : Owes(i, u)' => ~Written(u)'
      BY <2>7, <2>15, <2>16, Zenon DEF Owes
    <3>2. \A u \in Unit : ~(nextSeq * ChunkSize <= u /\ u < nextSeq * ChunkSize)
      BY <2>5 DEF Unit
    <3>3. /\ worker'[i].seq < nextSeq' /\ low' <= worker'[i].seq
          /\ worker'[i].seq * ChunkSize <= worker'[i].off /\ worker'[i].off <= worker'[i].end
      BY <1>0, <2>2, <2>5, <2>6, <2>7, <2>10, <2>16
    <3>4. worker'[i].end = Min({(worker'[i].seq + 1) * ChunkSize, Total}) /\ worker'[i].pc = "gate"
      BY <2>7, <2>16 DEF e
    <3>5. \A u \in Unit : worker'[i].seq * ChunkSize <= u /\ u < worker'[i].off => Written(u)'
      BY <2>7, <2>16, <3>2, Zenon
    <3>. QED
      BY <3>1, <3>3, <3>4, <3>5, Zenon DEF Assigned
  <2>18. ASSUME NEW j \in Worker, worker'[j].pc \in Busy, j # i PROVE worker'[j].seq # worker'[i].seq
    <3>1. worker'[j].seq < nextSeq /\ worker'[j].seq \in Nat
      BY <2>2, <2>14, <2>18 DEF Assigned, WorkerType
    <3>. QED
      BY <2>2, <2>7, <2>16, <3>1
  <2>19. Chunks'
    <3>1. \A u \in Unit : nextSeq' * ChunkSize <= u => nextSeq * ChunkSize <= u
      <4>1. nextSeq' * ChunkSize = nextSeq * ChunkSize + ChunkSize
        BY <2>1, <2>5
      <4>. QED
        BY <2>5, <4>1 DEF Unit, Sizes
    <3>2. \A j \in Worker : worker'[j].pc \in Busy => Assigned(j)'
      BY <2>14, <2>17, Zenon
    <3>3. ASSUME NEW j \in Worker, NEW k \in Worker, worker'[j].pc \in Busy, worker'[k].pc \in Busy,
                 worker'[j].seq = worker'[k].seq
          PROVE  j = k
      <4>1. CASE j = i \/ k = i
        BY <2>18, <3>3, <4>1, Zenon
      <4>2. CASE j # i /\ k # i
        BY <1>3, <2>14, <3>3, <4>2, Zenon DEF Chunks
      <4>. QED
        BY <4>1, <4>2
    <3>. QED
      BY <2>15, <3>1, <3>2, <3>3, Zenon DEF Chunks
  <2>20. Gate'
    <3>1. \A s : Landed(s)' <=> Landed(s)
      BY <2>9, Zenon DEF Landed
    <3>2. \A s : s # nextSeq /\ Unheld(s) => Unheld(s)'
      BY <1>4, <2>7, <2>14, <2>16, Zenon DEF Unheld
    <3>3. \A s : ~Unheld(s) => ~Unheld(s)'
      BY <1>0, <1>4, <2>8, Zenon DEF Unheld, Becomes
    <3>4. \A s : s = nextSeq => ~Unheld(s)'
      BY <1>4, <2>7, <2>16, Zenon DEF Unheld
    <3>5. ASSUME NEW k \in Slot, done[k]
          PROVE  \E s \in low..(low + Window - 1) :
                    s % Window = k /\ s < nextSeq' /\ Landed(s)' /\ Unheld(s)'
      <4>1. PICK s \in low..(low + Window - 1) :
                s % Window = k /\ s < nextSeq /\ Landed(s) /\ Unheld(s)
        BY <1>3, <3>5, Zenon DEF Gate
      <4>2. s < nextSeq' /\ s # nextSeq
        BY <2>2, <2>10, <4>1, RingSize
      <4>. QED
        BY <3>1, <3>2, <4>1, <4>2, Zenon
    <3>6. ASSUME NEW s \in low..(nextSeq' - 1)
          PROVE  \/ failed' \/ ~Unheld(s)'
                 \/ s < low + Window /\ done[s % Window]
      <4>1. s \in low..(nextSeq - 1) \/ s = nextSeq
        BY <2>1, <2>2
      <4>. QED
        BY <1>0, <1>3, <3>3, <3>4, <4>1, Zenon DEF Gate
    <3>. QED
      BY <1>0, <1>3, <3>1, <3>5, <3>6, Zenon DEF Gate
  <2>21. (\E j \in Worker : worker'[j].pc = "exit") => failed' \/ nextSeq' >= NumChunks
    <3>1. "gate" # "exit"
      OBVIOUS
    <3>. QED
      BY <1>0, <1>3, <1>6, <2>7, <2>8, <2>16, <3>1, Zenon DEF Becomes
  <2>. QED
    BY <1>0, <1>2, <2>9, <2>11, <2>12, <2>13, <2>19, <2>20, <2>21 DEF GetInv, RangedInv
<1>. QED
  BY <1>5, <1>6

-----------------------------------------------------------------------------
(* A worker copies a unit.                                                 *)

\* A unit is in one chunk.
LEMMA ChunkUnique ==
    ASSUME NEW c \in Nat \ {0}, NEW s \in Nat, NEW t \in Nat, NEW u \in Nat,
           s * c <= u, u < (s + 1) * c, t * c <= u, u < (t + 1) * c
    PROVE  s = t
<1>1. /\ s * c \in Nat /\ t * c \in Nat
      /\ (s + 1) * c = s * c + c /\ (t + 1) * c = t * c + c
  BY ProductNext
<1>. DEFINE x == u - s * c
            y == u - t * c
<1>2. x \in 0..(c - 1) /\ y \in 0..(c - 1) /\ s * c + x = t * c + y
  BY <1>1
<1>. HIDE DEF x, y
<1>. QED
  BY <1>2, PlaceUnique

\* The units that a worker has yet to write are in its chunk.
LEMMA OwesItsChunk ==
    ASSUME Sizes, GetTypes, NEW i \in Worker, Assigned(i), NEW u \in Unit, Owes(i, u)
    PROVE  /\ worker[i].seq * ChunkSize <= u /\ u < (worker[i].seq + 1) * ChunkSize
           /\ worker[i].seq \in Nat
<1>. DEFINE s == worker[i].seq
<1>1. s \in Nat /\ worker[i].off \in Nat /\ worker[i].end \in Nat /\ u \in Nat
  BY DEF GetTypes, WorkerType, Unit
<1>2. s * ChunkSize <= worker[i].off /\ worker[i].end = Min({(s + 1) * ChunkSize, Total})
  BY Zenon DEF Assigned
<1>3. worker[i].off <= u /\ u < worker[i].end
  BY Zenon DEF Owes
<1>. HIDE DEF s
<1>4. s * ChunkSize \in Nat /\ (s + 1) * ChunkSize \in Nat /\ Total \in Nat
  BY <1>1 DEF Sizes
<1>5. worker[i].end <= (s + 1) * ChunkSize
  <2>1. worker[i].end = IF (s + 1) * ChunkSize <= Total THEN (s + 1) * ChunkSize ELSE Total
    BY <1>2, <1>4, MinOfTwo
  <2>. QED
    BY <1>4, <2>1
<1>. QED
  BY <1>1, <1>2, <1>3, <1>4, <1>5 DEF s

\* Copying a unit of a chunk keeps the invariant: no other worker owes that
\* unit.
LEMMA CopyRanged ==
    ASSUME Sizes, GetInv, NEW i \in Worker, Copy(i), mode = "ranged"
    PROVE  GetInv'
<1>. DEFINE off == worker[i].off
            w == [worker[i] EXCEPT !.off = off + 1]
<1>1. /\ worker[i].pc = "copy" /\ off < worker[i].end
      /\ WriteSome(off, pinned) /\ Set(i, w)
      /\ UNCHANGED <<rev, mode, pinned, nextSeq, low, done, cancelled, failed>>
  BY Zenon DEF Copy
<1>2. /\ BufferTypes /\ PagesHeld /\ GetTypes /\ Ends
  BY Zenon DEF GetInv
<1>3. /\ Chunks /\ Gate
      /\ (\E j \in Worker : worker[j].pc = "exit") => failed \/ nextSeq >= NumChunks
  BY Zenon DEF GetInv, RangedInv
<1>4. worker \in [Worker -> WorkerType] /\ pinned \in Nat /\ nextSeq \in Nat
  BY <1>2 DEF GetTypes
<1>5. "copy" \in Busy /\ Assigned(i)
  BY <1>1, <1>3 DEF Busy, Chunks
<1>6. w \in WorkerType /\ w.pc = "copy" /\ w.seq = worker[i].seq /\ w.end = worker[i].end /\ w.off = off + 1
  BY <1>1, <1>4 DEF WorkerType
<1>7. off \in Nat /\ worker[i].end \in Nat /\ worker[i].seq \in Nat
  BY <1>4 DEF WorkerType
<1>. HIDE DEF w
<1>8. off \in Unit
  <2>1. (worker[i].seq + 1) * ChunkSize \in Nat /\ Total \in Nat
    BY <1>7 DEF Sizes
  <2>2. worker[i].end = Min({(worker[i].seq + 1) * ChunkSize, Total})
    BY <1>5, Zenon DEF Assigned
  <2>3. worker[i].end <= Total
    BY <2>1, <2>2, MinOfTwo
  <2>. QED
    BY <1>1, <1>7, <2>1, <2>3 DEF Unit
<1>9. Owes(i, off)
  BY <1>1, <1>5, <1>7 DEF Owes
<1>10. ~Written(off)
  BY <1>5, <1>8, <1>9, Zenon DEF Assigned
<1>. HIDE DEF off
<1>11. BufferTypes' /\ PagesHeld' /\ Extended(off)
  BY <1>1, <1>2, <1>4, <1>8, <1>10, CopyPages, Zenon
<1>12. \A u \in Unit : Written(u)' <=> Written(u) \/ u = off
  BY <1>11, Zenon DEF Extended
<1>13. Becomes(i, w) /\ worker' \in [Worker -> WorkerType]
  BY <1>1, <1>4, <1>6, SetBecomes, Zenon
<1>14. GetTypes'
  BY <1>1, <1>2, <1>13, Zenon DEF GetTypes
<1>15. Ends'
  <2>1. ~closed /\ UNCHANGED <<readOff, closed, rclosed, bufErr, stream>>
    BY <1>1, Zenon DEF WriteSome, WriteClosed
  <2>2. stream # "eof"
    BY <1>2, <2>1 DEF Ends
  <2>. QED
    BY <1>1, <1>2, <2>1, <2>2, Zenon DEF Ends
<1>16. NotStarted' /\ Returned'
  BY <1>1 DEF NotStarted, Returned
<1>17. ASSUME NEW j \in Worker
       PROVE  worker'[j].pc = worker[j].pc /\ worker'[j].seq = worker[j].seq
  BY <1>1, <1>6, <1>13, Zenon DEF Becomes
<1>18. \A s : Unheld(s)' <=> Unheld(s)
  BY <1>17, Zenon DEF Unheld
<1>19. worker'[i] = w
  BY <1>13, Zenon DEF Becomes
<1>20. worker[i].seq * ChunkSize <= off /\ off < (worker[i].seq + 1) * ChunkSize
  BY <1>2, <1>5, <1>8, <1>9, OwesItsChunk, Zenon
<1>21. Assigned(i)'
  <2>1. ASSUME NEW u \in Unit, Owes(i, u)' PROVE ~Written(u)'
    <3>1. off + 1 <= u /\ u < worker[i].end /\ u \in Nat
      BY <1>6, <1>19, <2>1 DEF Owes, Unit
    <3>2. off <= u /\ u # off
      BY <1>7, <3>1 DEF off
    <3>3. Owes(i, u)
      BY <1>1, <1>5, <3>1, <3>2, Zenon DEF Owes, off
    <3>. QED
      BY <1>5, <1>12, <3>2, <3>3, Zenon DEF Assigned
  <2>2. ASSUME NEW u \in Unit, worker[i].seq * ChunkSize <= u, u < off + 1 PROVE Written(u)'
    <3>1. u < off \/ u = off
      BY <1>7, <2>2 DEF off, Unit
    <3>. QED
      BY <1>5, <1>12, <2>2, <3>1, Zenon DEF Assigned, off
  <2>3. worker[i].seq * ChunkSize <= off + 1 /\ off + 1 <= worker[i].end
    <3>1. PICK n \in Nat : n = worker[i].seq * ChunkSize
      BY <1>7 DEF Sizes
    <3>2. n <= off /\ off \in Nat /\ worker[i].end \in Nat /\ off < worker[i].end
      BY <1>1, <1>7, <1>20, <3>1, Zenon DEF off
    <3>3. n <= off + 1 /\ off + 1 <= worker[i].end
      <4>. HIDE DEF off
      <4>. QED
        BY <3>2
    <3>. QED
      BY <3>1, <3>3
  <2>4. /\ worker[i].seq < nextSeq /\ low <= worker[i].seq /\ worker[i].seq < low + Window
        /\ worker[i].end = Min({(worker[i].seq + 1) * ChunkSize, Total})
    <3>1. "copy" # "gate"
      OBVIOUS
    <3>. QED
      BY <1>1, <1>5, <3>1, Zenon DEF Assigned
  <2>. QED
    BY <1>1, <1>6, <1>19, <2>1, <2>2, <2>3, <2>4, Zenon DEF Assigned
<1>22. ASSUME NEW j \in Worker, j # i, worker'[j].pc \in Busy PROVE Assigned(j)'
  <2>1. worker'[j] = worker[j] /\ worker[j].pc \in Busy /\ Assigned(j)
    BY <1>3, <1>13, <1>22, Zenon DEF Becomes, Chunks
  <2>2. ~Owes(j, off)
    <3>1. SUFFICES ASSUME Owes(j, off) PROVE FALSE
      OBVIOUS
    <3>2. /\ worker[j].seq * ChunkSize <= off /\ off < (worker[j].seq + 1) * ChunkSize
          /\ worker[j].seq \in Nat
      BY <1>2, <1>8, <2>1, <3>1, OwesItsChunk, Zenon
    <3>3. worker[j].seq = worker[i].seq
      BY <1>7, <1>20, <3>2, ChunkUnique DEF off, Sizes
    <3>. QED
      BY <1>1, <1>3, <1>5, <1>22, <2>1, <3>3, Zenon DEF Chunks
  <2>3. \A u \in Unit : Owes(j, u)' <=> Owes(j, u)
    BY <2>1, Zenon DEF Owes
  <2>4. \A u \in Unit : Owes(j, u)' => ~Written(u)'
    BY <1>12, <2>1, <2>2, <2>3, Zenon DEF Assigned
  <2>5. \A u \in Unit : worker[j].seq * ChunkSize <= u /\ u < worker[j].off => Written(u)'
    BY <1>12, <2>1, Zenon DEF Assigned
  <2>. QED
    BY <1>1, <2>1, <2>4, <2>5, Zenon DEF Assigned
<1>23. \A u \in Unit : nextSeq * ChunkSize <= u => ~Written(u)'
  <2>1. ~(nextSeq * ChunkSize <= off)
    <3>1. worker[i].seq + 1 <= nextSeq
      BY <1>4, <1>5, <1>7 DEF Assigned
    <3>2. (worker[i].seq + 1) * ChunkSize <= nextSeq * ChunkSize /\ nextSeq * ChunkSize \in Nat
          /\ (worker[i].seq + 1) * ChunkSize \in Nat
      BY <1>4, <1>7, <3>1, ProductMonotone DEF Sizes
    <3>. QED
      BY <1>7, <1>20, <3>2 DEF off
  <2>. QED
    BY <1>3, <1>12, <2>1, Zenon DEF Chunks
<1>24. Chunks'
  BY <1>1, <1>3, <1>17, <1>21, <1>22, <1>23, Zenon DEF Chunks
<1>25. \A s : Landed(s) => Landed(s)'
  BY <1>12, Zenon DEF Landed
<1>26. Gate'
  BY <1>1, <1>3, <1>18, <1>25, Zenon DEF Gate
<1>27. (\E j \in Worker : worker'[j].pc = "exit") => failed' \/ nextSeq' >= NumChunks
  BY <1>1, <1>3, <1>17, Zenon
<1>. QED
  BY <1>1, <1>11, <1>14, <1>15, <1>16, <1>24, <1>26, <1>27 DEF GetInv, RangedInv

\* Copying a unit of the whole body keeps the invariant: it is written in
\* order.
LEMMA CopyFull ==
    ASSUME Sizes, GetInv, NEW i \in Worker, Copy(i), mode = "full"
    PROVE  GetInv'
<1>. DEFINE off == worker[i].off
            w == [worker[i] EXCEPT !.off = off + 1]
<1>1. /\ worker[i].pc = "copy" /\ off < worker[i].end
      /\ WriteSome(off, pinned) /\ Set(i, w)
      /\ UNCHANGED <<rev, mode, pinned, nextSeq, low, done, cancelled, failed>>
  BY Zenon DEF Copy
<1>2. /\ BufferTypes /\ PagesHeld /\ GetTypes /\ Ends /\ FullInv
  BY Zenon DEF GetInv
<1>3. worker \in [Worker -> WorkerType] /\ pinned \in Nat /\ frontier \in Nat
  BY <1>2 DEF GetTypes, BufferTypes
<1>4. i = 1
  BY <1>1, <1>2 DEF FullInv
<1>5. w \in WorkerType /\ w.pc = "copy" /\ w.end = worker[i].end /\ w.off = off + 1
  BY <1>1, <1>3 DEF WorkerType
<1>6. off = frontier /\ worker[i].end = Total /\ pending = {}
  BY <1>1, <1>2, <1>4 DEF FullInv
<1>7. off \in Unit /\ ~Written(off)
  BY <1>1, <1>3, <1>6 DEF Unit, Written, Sizes
<1>. HIDE DEF off, w
<1>8. BufferTypes' /\ PagesHeld' /\ Extended(off)
  BY <1>1, <1>2, <1>3, <1>7, CopyPages, Zenon
<1>9. ASSUME NEW u \in Unit, Written(u)' PROVE u <= frontier
  BY <1>3, <1>6, <1>7, <1>8, <1>9 DEF Extended, Written, Unit
<1>10. pending' = {}
  <2>1. SUFFICES ASSUME NEW iv \in pending' PROVE FALSE
    OBVIOUS
  <2>2. /\ iv.start \in Nat /\ iv.end \in Nat /\ frontier' < iv.start /\ iv.start < iv.end
        /\ iv.end <= Total /\ frontier' \in Nat /\ frontier <= frontier'
    BY <1>8 DEF Extended, Interval
  <2>3. iv.start \in Unit /\ iv.start <= iv.start
    BY <2>2 DEF Unit, Sizes
  <2>4. Written(iv.start)'
    <3>1. PICK u \in Unit : u = iv.start
      BY <2>3
    <3>2. Written(u)'
      BY <2>2, <2>3, <3>1, Zenon DEF Written
    <3>. QED
      BY <3>1, <3>2
  <2>. QED
    BY <1>3, <1>9, <2>2, <2>3, <2>4
<1>11. frontier' = off + 1
  <2>1. frontier' \in Nat /\ frontier <= frontier' /\ frontier' <= Total
    BY <1>8, Zenon DEF Extended
  <2>2. off < frontier'
    <3>1. PICK u \in Unit : u = off
      BY <1>7
    <3>2. Written(u)'
      BY <1>8, <3>1, Zenon DEF Extended
    <3>3. u < frontier'
      BY <1>10, <3>2 DEF Written
    <3>. QED
      BY <3>1, <3>3
  <2>3. ~(off + 1 < frontier')
    <3>1. SUFFICES ASSUME off + 1 < frontier' PROVE FALSE
      OBVIOUS
    <3>2. PICK u \in Unit : u = off + 1
      BY <1>3, <1>6, <2>1, <3>1 DEF Unit, Sizes
    <3>3. Written(u)'
      BY <3>1, <3>2 DEF Written
    <3>. QED
      BY <1>3, <1>6, <1>9, <3>2, <3>3
  <2>. QED
    BY <1>3, <1>6, <2>1, <2>2, <2>3
<1>12. Becomes(i, w) /\ worker' \in [Worker -> WorkerType]
  BY <1>1, <1>3, <1>5, SetBecomes, Zenon
<1>13. GetTypes'
  BY <1>1, <1>2, <1>12, Zenon DEF GetTypes
<1>14. Ends'
  <2>1. ~closed /\ UNCHANGED <<readOff, closed, rclosed, bufErr, stream>>
    BY <1>1, Zenon DEF WriteSome, WriteClosed
  <2>2. stream # "eof"
    BY <1>2, <2>1 DEF Ends
  <2>. QED
    BY <1>1, <1>2, <2>1, <2>2, Zenon DEF Ends
<1>15. NotStarted' /\ Returned'
  BY <1>1 DEF NotStarted, Returned
<1>16. FullInv'
  BY <1>1, <1>2, <1>4, <1>5, <1>6, <1>10, <1>11, <1>12 DEF FullInv, Fresh, Becomes
<1>. QED
  BY <1>1, <1>8, <1>13, <1>14, <1>15, <1>16 DEF GetInv

\* Copying a unit keeps the invariant.
LEMMA CopyKept ==
    ASSUME Sizes, GetInv, NEW i \in Worker, Copy(i)
    PROVE  GetInv'
<1>1. worker[i].pc \in Busy
  BY DEF Copy, Busy
<1>. QED
  BY <1>1, WhereBusy, CopyRanged, CopyFull

-----------------------------------------------------------------------------
(* A worker completes its chunk.                                           *)

\* A slot returns to the same place after one turn of the window.
LEMMA ModTurn ==
    ASSUME NEW c \in Nat \ {0}, NEW m \in Nat
    PROVE  (m + c) % c = m % c
<1>1. /\ m \div c \in Nat /\ m = (m \div c) * c + (m % c) /\ m % c \in 0..(c - 1)
  BY DivBelow
<1>2. /\ m + c \in Nat
  OBVIOUS
<1>3. /\ (m + c) \div c \in Nat /\ m + c = ((m + c) \div c) * c + ((m + c) % c) /\ (m + c) % c \in 0..(c - 1)
  BY <1>2, DivBelow
<1>. DEFINE p == m \div c
            x == m % c
            q == (m + c) \div c
            y == (m + c) % c
<1>4. p \in Nat /\ x \in 0..(c - 1) /\ m = p * c + x /\ q \in Nat /\ y \in 0..(c - 1) /\ m + c = q * c + y
  BY <1>1, <1>3
<1>. HIDE DEF p, x, q, y
<1>5. p + 1 \in Nat /\ (p + 1) * c = p * c + c /\ p * c \in Nat
  BY <1>4, ProductNext
<1>6. (p + 1) * c + x = q * c + y
  BY <1>4, <1>5
<1>7. x = y
  BY <1>4, <1>5, <1>6, PlaceUnique
<1>. QED
  BY <1>7 DEF x, y

\* The chunks from the lowest on whose slots are set, up to the first that is not.
Run(d, n) ==
    /\ n \in 0..Window
    /\ \A m \in 0..(n - 1) : d[(low + m) % Window]
    /\ n = Window \/ ~d[(low + n) % Window]

\* The count by which complete advances is the length of the run of finished
\* slots.
LEMMA ContiguousRun ==
    ASSUME Sizes, NEW d, low \in Nat
    PROVE  Run(d, Contiguous(d, low))
<1>. DEFINE N == {n \in 0..Window : \A k \in 0..(n - 1) : d[(low + k) % Window]}
            n == Max(N)
<1>1. Contiguous(d, low) = n
  BY Zenon DEF Contiguous
<1>2. Window \in Nat
  BY RingSize
<1>3. N \in SUBSET (0..Window) /\ 0 \in N
  BY <1>2
<1>6. n \in N /\ Highest(N, n)
  <2>. HIDE DEF N
  <2>. QED
    BY <1>2, <1>3, MaxOf, Zenon
<1>. HIDE DEF n
<1>7. n \in 0..Window /\ \A m \in 0..(n - 1) : d[(low + m) % Window]
  BY <1>6
<1>8. ASSUME n # Window, d[(low + n) % Window] PROVE FALSE
  <2>1. n + 1 \in 0..Window /\ n \in Nat
    BY <1>2, <1>7, <1>8
  <2>2. ASSUME NEW k \in 0..((n + 1) - 1) PROVE d[(low + k) % Window]
    <3>1. k \in 0..(n - 1) \/ k = n
      BY <2>1
    <3>. QED
      BY <1>7, <1>8, <3>1, Zenon
  <2>3. n + 1 \in N
    BY <2>1, <2>2
  <2>. HIDE DEF N
  <2>. QED
    BY <1>6, <2>1, <2>3 DEF Highest
<1>. QED
  BY <1>1, <1>7, <1>8, Zenon DEF Run

\* What a set slot says after the chunk seq was completed.
SlotsSound(d, seq) ==
    \A s \in low..(low + Window - 1) :
        d[s % Window] => s < nextSeq /\ Landed(s) /\ (s = seq \/ Unheld(s))

\* With the slot of a landed chunk marked, every marked slot stands for a
\* landed chunk of the window.
LEMMA CompletedSlots ==
    ASSUME Sizes, GetTypes, Gate, NEW seq \in low..(low + Window - 1), seq < nextSeq, Landed(seq),
           NEW d, d = [done EXCEPT ![seq % Window] = TRUE]
    PROVE  /\ SlotsSound(d, seq) /\ d \in [Slot -> BOOLEAN] /\ d[seq % Window]
           /\ \A k \in Slot : d[k] => \E s \in low..(low + Window - 1) : s % Window = k
           /\ \A k \in Slot : done[k] => d[k]
<1>. DEFINE W == Window
<1>1. W \in Nat \ {0} /\ low \in Nat /\ nextSeq \in Nat /\ done \in [Slot -> BOOLEAN]
  BY RingSize DEF GetTypes
<1>. HIDE DEF W
<1>2. \A s \in low..(low + W - 1) : s \in Nat /\ low <= s /\ s < low + W
  BY <1>1
<1>3. Slot = 0..(W - 1) /\ \A s \in low..(low + W - 1) : s % W \in Slot
  BY <1>1, <1>2 DEF Slot, W
<1>4. seq \in low..(low + W - 1)
  BY DEF W
<1>5. d = [done EXCEPT ![seq % W] = TRUE]
  BY DEF W
<1>6. /\ d \in [Slot -> BOOLEAN] /\ d[seq % W]
      /\ \A k \in Slot : d[k] <=> done[k] \/ k = seq % W
  BY <1>1, <1>3, <1>4, <1>5, Zenon
<1>7. \A s, t \in low..(low + W - 1) : s % W = t % W => s = t
  BY <1>1, <1>2, ModApart, Zenon
<1>8. \A k \in Slot : done[k] => \E s \in low..(low + W - 1) :
           s % W = k /\ s < nextSeq /\ Landed(s) /\ Unheld(s)
  BY Zenon DEF Gate, W
<1>9. ASSUME NEW s \in low..(low + W - 1), d[s % W]
      PROVE  s < nextSeq /\ Landed(s) /\ (s = seq \/ Unheld(s))
  <2>1. CASE s % W = seq % W
    BY <1>4, <1>7, <2>1, Zenon
  <2>2. CASE s % W # seq % W
    <3>1. done[s % W]
      BY <1>3, <1>6, <1>9, <2>2, Zenon
    <3>2. PICK t \in low..(low + W - 1) : t % W = s % W /\ t < nextSeq /\ Landed(t) /\ Unheld(t)
      BY <1>3, <1>8, <3>1, Zenon
    <3>3. t = s
      BY <1>7, <3>2, Zenon
    <3>. QED
      BY <3>2, <3>3, Zenon
  <2>. QED
    BY <2>1, <2>2, Zenon
<1>10. SlotsSound(d, seq)
  BY <1>9, Zenon DEF SlotsSound, W
<1>11. \A k \in Slot : d[k] => \E s \in low..(low + W - 1) : s % W = k
  BY <1>4, <1>6, <1>8, Zenon
<1>. QED
  BY <1>6, <1>10, <1>11, Zenon DEF W

\* complete moves the window over a run of chunks and clears their slots.
Cleared(d, n) ==
    [k \in Slot |-> d[k] /\ ~\E m \in 0..(n - 1) : (low + m) % Window = k]
Moved(d, seq, l, c) ==
    /\ c \in [Slot -> BOOLEAN]
    /\ l \in Nat /\ low <= l /\ l <= nextSeq
    /\ \A s \in low..(l - 1) : s < nextSeq /\ Landed(s) /\ (s = seq \/ Unheld(s))
    /\ ~c[l % Window]
    /\ \A s \in low..(low + Window - 1) :
          l <= s => (c[s % Window] <=> d[s % Window])
    /\ \A s \in low..(low + Window - 1) : c[s % Window] => l <= s

\* Advancing over the run and clearing its slots leaves the marks right for
\* the moved window.
LEMMA RunCleared ==
    ASSUME Sizes, GetTypes, NEW seq, NEW d \in [Slot -> BOOLEAN], SlotsSound(d, seq), NEW n, Run(d, n),
           NEW l, l = low + n, NEW c, c = Cleared(d, n)
    PROVE  Moved(d, seq, l, c)
<1>. DEFINE W == Window
<1>1. W \in Nat \ {0} /\ low \in Nat /\ nextSeq \in Nat /\ low <= nextSeq
  BY RingSize DEF GetTypes
<1>2. /\ n \in 0..W /\ \A m \in 0..(n - 1) : d[(low + m) % W]
      /\ n = W \/ ~d[l % W]
  BY Zenon DEF Run
<1>3. Slot = 0..(W - 1)
  BY DEF Slot
<1>4. c = [k \in Slot |-> d[k] /\ ~\E m \in 0..(n - 1) : (low + m) % W = k]
  BY Zenon DEF Cleared
<1>5. \A s \in low..(low + W - 1) : d[s % W] => s < nextSeq /\ Landed(s) /\ (s = seq \/ Unheld(s))
  BY Zenon DEF SlotsSound
<1>. HIDE DEF W
<1>6. \A s \in Nat : s % W \in Slot
  BY <1>1, <1>3
<1>7. c \in [Slot -> BOOLEAN]
  BY <1>4, Zenon
<1>8. n \in Nat /\ l \in Nat /\ low <= l
  BY <1>1, <1>2
<1>9. \A s \in low..(low + W - 1) : s \in Nat /\ low <= s /\ s < low + W
  BY <1>1
<1>10. ASSUME NEW s \in low..(l - 1)
       PROVE  s \in low..(low + W - 1) /\ d[s % W]
  <2>1. s \in low..(low + W - 1) /\ s - low \in 0..(n - 1) /\ low + (s - low) = s
    BY <1>1, <1>2
  <2>. QED
    BY <1>2, <2>1
<1>11. \A s \in low..(l - 1) : s < nextSeq /\ Landed(s) /\ (s = seq \/ Unheld(s))
  BY <1>5, <1>10, Zenon
<1>12. l <= nextSeq
  <2>1. CASE n = 0
    BY <1>1, <2>1
  <2>2. CASE n # 0
    <3>1. l - 1 \in low..(l - 1)
      BY <1>1, <1>8, <2>2
    <3>. QED
      BY <1>1, <1>8, <1>11, <3>1
  <2>. QED
    BY <2>1, <2>2
<1>13. ~c[(l) % W]
  <2>0. (l) % W \in Slot
    BY <1>6, <1>8
  <2>1. CASE n = W
    <3>1. (l) % W = low % W
      BY <1>1, <2>1, ModTurn
    <3>2. 0 \in 0..(n - 1) /\ low + 0 = low
      BY <1>1, <2>1
    <3>. QED
      BY <1>4, <2>0, <3>1, <3>2
  <2>2. CASE n # W
    BY <1>2, <1>4, <2>0, <2>2, Zenon
  <2>. QED
    BY <2>1, <2>2
<1>14. ASSUME NEW s \in low..(low + W - 1), l <= s PROVE c[s % W] <=> d[s % W]
  <2>0. s \in Nat /\ s % W \in Slot
    BY <1>6, <1>9
  <2>1. ASSUME NEW m \in 0..(n - 1), (low + m) % W = s % W PROVE FALSE
    <3>1. low + m \in Nat /\ low <= low + m /\ low + m < low + W /\ low + m # s
      BY <1>1, <1>2, <1>9, <1>14
    <3>. QED
      BY <1>1, <1>9, <2>0, <2>1, <3>1, ModApart, Zenon
  <2>. QED
    BY <1>4, <2>0, <2>1, Zenon
<1>15. ASSUME NEW s \in low..(low + W - 1), c[s % W] PROVE l <= s
  <2>0. s \in Nat /\ s % W \in Slot
    BY <1>6, <1>9
  <2>1. ASSUME ~(l <= s) PROVE FALSE
    <3>1. s - low \in 0..(n - 1) /\ low + (s - low) = s
      BY <1>1, <1>8, <1>9, <2>1
    <3>. QED
      BY <1>4, <1>15, <2>0, <3>1
  <2>. QED
    BY <2>1
<1>. QED
  BY <1>7, <1>8, <1>11, <1>12, <1>13, <1>14, <1>15, Zenon DEF W, Moved

\* A chunk that its worker has copied has landed.
LEMMA CopiedLands ==
    ASSUME Sizes, GetTypes, NEW i \in Worker, Assigned(i), worker[i].off = worker[i].end
    PROVE  Landed(worker[i].seq)
<1>. DEFINE s == worker[i].seq
            e == worker[i].end
<1>1. s \in Nat /\ e \in Nat
  BY DEF GetTypes, WorkerType
<1>2. e = Min({(s + 1) * ChunkSize, Total}) /\ \A u \in Unit : s * ChunkSize <= u /\ u < e => Written(u)
  BY Zenon DEF Assigned
<1>. HIDE DEF s, e
<1>3. (s + 1) * ChunkSize \in Nat /\ Total \in Nat
  BY <1>1 DEF Sizes
<1>4. e = IF (s + 1) * ChunkSize <= Total THEN (s + 1) * ChunkSize ELSE Total
  BY <1>2, <1>3, MinOfTwo
<1>5. \A u \in Unit : u < (s + 1) * ChunkSize => u < e
  BY <1>3, <1>4 DEF Unit
<1>6. Landed(s)
  BY <1>2, <1>5, Zenon DEF Landed
<1>. QED
  BY <1>6 DEF s

\* Completing a chunk keeps the invariant: the gate passes only landed chunks.
LEMMA CompleteRanged ==
    ASSUME Sizes, GetInv, NEW i \in Worker, Complete(i), mode = "ranged"
    PROVE  GetInv'
<1>1. /\ BufferTypes /\ PagesHeld /\ GetTypes /\ Ends
  BY Zenon DEF GetInv
<1>2. /\ Chunks /\ Gate
      /\ (\E j \in Worker : worker[j].pc = "exit") => failed \/ nextSeq >= NumChunks
  BY Zenon DEF GetInv, RangedInv
<1>3. PICK seq, d, n :
         /\ seq = worker[i].seq /\ d = [done EXCEPT ![seq % Window] = TRUE]
         /\ n = IF seq = low THEN Contiguous(d, low) ELSE 0
  OBVIOUS
<1>4. /\ worker[i].pc = "copy" /\ worker[i].off = worker[i].end
      /\ Set(i, IdleWorker) /\ low' = low + n
      /\ done' = [k \in DOMAIN d |-> d[k] /\ ~\E m \in 0..(n - 1) : (low + m) % Window = k]
      /\ BufferSame
      /\ UNCHANGED <<closed, rclosed, bufErr, stream, rev, mode, nextSeq, cancelled, failed>>
  <2>1. mode # "full"
    OBVIOUS
  <2>. QED
    BY <1>3, <2>1, Zenon DEF Complete, bufVars, BufferSame
<1>5. low \in Nat /\ nextSeq \in Nat /\ worker \in [Worker -> WorkerType] /\ done \in [Slot -> BOOLEAN]
  BY <1>1 DEF GetTypes
<1>6. "copy" \in Busy /\ "take" \notin Busy /\ "copy" # "gate" /\ "take" # "exit"
  BY DEF Busy
<1>7. Assigned(i)
  BY <1>2, <1>4, <1>6, Zenon DEF Chunks
<1>8. seq \in low..(low + Window - 1) /\ seq < nextSeq /\ seq \in Nat
  <2>1. worker[i].seq \in Nat
    BY <1>5 DEF WorkerType
  <2>2. low <= seq /\ seq < low + Window /\ seq < nextSeq
    BY <1>3, <1>4, <1>6, <1>7, Zenon DEF Assigned
  <2>. QED
    BY <1>3, <1>5, <2>1, <2>2, RingSize
<1>9. Landed(seq)
  BY <1>1, <1>3, <1>4, <1>7, CopiedLands
<1>10. /\ SlotsSound(d, seq) /\ d \in [Slot -> BOOLEAN] /\ d[seq % Window]
       /\ \A k \in Slot : d[k] => \E s \in low..(low + Window - 1) : s % Window = k
       /\ \A k \in Slot : done[k] => d[k]
  BY <1>1, <1>2, <1>3, <1>8, <1>9, CompletedSlots, Zenon
<1>11. Run(d, n)
  <2>1. CASE seq = low
    BY <1>3, <1>5, <2>1, ContiguousRun, Zenon
  <2>2. CASE seq # low
    <3>1. n = 0 /\ Window \in Nat \ {0}
      BY <1>3, <2>2, RingSize
    <3>2. low % Window \in Slot /\ low % Window # seq % Window
      <4>1. low % Window \in Slot
        BY <1>5, <3>1 DEF Slot
      <4>2. low <= low /\ low < low + Window /\ low <= seq /\ seq < low + Window
        BY <1>5, <1>8, <3>1
      <4>. QED
        BY <1>5, <1>8, <2>2, <3>1, <4>1, <4>2, ModApart, Zenon
    <3>3. ~d[low % Window]
      BY <1>2, <1>3, <1>5, <3>2, Zenon DEF Gate
    <3>4. (low + n) % Window = low % Window /\ n \in 0..Window /\ 0..(n - 1) = {}
      BY <1>5, <3>1
    <3>. QED
      BY <3>3, <3>4, Zenon DEF Run
  <2>. QED
    BY <2>1, <2>2
<1>12. done' = Cleared(d, n)
  <2>1. DOMAIN d = Slot
    BY <1>10, Zenon
  <2>. QED
    BY <1>4, <2>1, Zenon DEF Cleared
<1>13. PICK l, c : l = low' /\ c = done'
  OBVIOUS
<1>14. Moved(d, seq, l, c)
  <2>1. l = low + n /\ c = Cleared(d, n)
    BY <1>4, <1>12, <1>13, Zenon
  <2>2. SlotsSound(d, seq) /\ d \in [Slot -> BOOLEAN]
    BY <1>10, Zenon
  <2>. QED
    BY <1>1, <1>11, <2>1, <2>2, RunCleared, Zenon
<1>15. /\ c \in [Slot -> BOOLEAN]
       /\ l \in Nat /\ low <= l /\ l <= nextSeq
       /\ \A s \in low..(l - 1) : s < nextSeq /\ Landed(s) /\ (s = seq \/ Unheld(s))
       /\ ~c[l % Window]
       /\ \A s \in low..(low + Window - 1) :
             l <= s => (c[s % Window] <=> d[s % Window])
       /\ \A s \in low..(low + Window - 1) : c[s % Window] => l <= s
  BY <1>14, Zenon DEF Moved
<1>16. l \in Nat /\ low <= l /\ l <= nextSeq /\ low \in Nat /\ nextSeq \in Nat
  BY <1>5, <1>15, Zenon
<1>17. BufferTypes' /\ PagesHeld' /\ \A u \in Unit : Written(u)' <=> Written(u)
  BY <1>1, <1>4, BufferStays, Zenon
<1>18. IdleWorker \in WorkerType /\ IdleWorker.pc = "take"
  BY DEF IdleWorker, WorkerType
<1>19. Becomes(i, IdleWorker) /\ worker' \in [Worker -> WorkerType]
  BY <1>4, <1>5, <1>18, SetBecomes, Zenon
<1>20. GetTypes'
  BY <1>1, <1>4, <1>15, <1>19, <1>13, Zenon DEF GetTypes, BufferSame
<1>21. Ends'
  <2>1. UNCHANGED <<mode, readOff, frontier, failed, cancelled, closed, rclosed, bufErr, stream>>
    BY <1>4, Zenon DEF BufferSame
  <2>. QED
    BY <1>1, <2>1, Zenon DEF Ends
<1>22. NotStarted' /\ Returned'
  BY <1>4 DEF NotStarted, Returned
<1>23. ASSUME NEW j \in Worker, worker'[j].pc \in Busy
       PROVE  j # i /\ worker'[j] = worker[j] /\ Assigned(j) /\ worker[j].seq # seq
  <2>1. j # i /\ worker'[j] = worker[j]
    BY <1>6, <1>18, <1>19, <1>23, Zenon DEF Becomes
  <2>. QED
    BY <1>2, <1>3, <1>4, <1>6, <1>23, <2>1, Zenon DEF Chunks
<1>24. \A s : s = seq \/ Unheld(s) => Unheld(s)'
  BY <1>23, Zenon DEF Unheld
<1>25. \A s : s # seq /\ ~Unheld(s) => ~Unheld(s)'
  BY <1>3, <1>19, Zenon DEF Unheld, Becomes
<1>26. ASSUME NEW j \in Worker, worker'[j].pc \in Busy PROVE Assigned(j)'
  <2>1. worker'[j] = worker[j] /\ Assigned(j) /\ worker[j].seq \in Nat
    BY <1>5, <1>23, <1>26 DEF WorkerType
  <2>2. l <= worker[j].seq
    <3>1. SUFFICES ASSUME ~(l <= worker[j].seq) PROVE FALSE
      OBVIOUS
    <3>2. worker[j].seq \in low..(l - 1)
      <4>1. low <= worker[j].seq
        BY <2>1, Zenon DEF Assigned
      <4>. QED
        BY <1>16, <2>1, <3>1, <4>1
    <3>3. PICK s : s = worker[j].seq
      OBVIOUS
    <3>4. Unheld(s)'
      BY <1>15, <1>24, <3>2, <3>3, Zenon
    <3>. QED
      BY <1>26, <2>1, <3>3, <3>4, Zenon DEF Unheld
  <2>3. worker[j].pc # "gate" => worker[j].seq < l + Window
    BY <1>16, <2>1, RingSize DEF Assigned
  <2>4. \A u \in Unit : Owes(j, u)' => Owes(j, u)
    BY <2>1, Zenon DEF Owes
  <2>5. \A u \in Unit : Owes(j, u)' => ~Written(u)'
    BY <1>17, <2>1, <2>4, Zenon DEF Assigned
  <2>6. \A u \in Unit : worker[j].seq * ChunkSize <= u /\ u < worker[j].off => Written(u)'
    BY <1>17, <2>1, Zenon DEF Assigned
  <2>. QED
    BY <1>4, <1>13, <2>1, <2>2, <2>3, <2>5, <2>6, Zenon DEF Assigned
<1>27. Chunks'
  BY <1>2, <1>4, <1>17, <1>23, <1>26, Zenon DEF Chunks
<1>28. \A s : Landed(s)' <=> Landed(s)
  BY <1>17, Zenon DEF Landed
<1>29. Gate'
  <2>1. ASSUME NEW s \in 0..(l - 1) PROVE Landed(s)'
    <3>1. s \in 0..(low - 1) \/ s \in low..(l - 1)
      BY <1>16
    <3>. QED
      BY <1>2, <1>15, <1>28, <3>1, Zenon DEF Gate
  <2>2. ASSUME NEW k \in Slot, c[k]
        PROVE  \E s \in l..(l + Window - 1) :
                  s % Window = k /\ s < nextSeq' /\ Landed(s)' /\ Unheld(s)'
    <3>1. d[k]
      BY <1>12, <1>13, <2>2, Zenon DEF Cleared
    <3>2. PICK s \in low..(low + Window - 1) : s % Window = k
      BY <1>10, <3>1, Zenon
    <3>3. s < nextSeq /\ Landed(s) /\ (s = seq \/ Unheld(s))
      BY <1>10, <3>1, <3>2, Zenon DEF SlotsSound
    <3>4. l <= s
      BY <1>15, <2>2, <3>2, Zenon
    <3>5. s \in l..(l + Window - 1)
      BY <1>16, <3>2, <3>4, RingSize
    <3>. QED
      BY <1>4, <1>24, <1>28, <3>2, <3>3, <3>5, Zenon
  <2>3. ASSUME NEW s \in l..(nextSeq - 1)
        PROVE  \/ failed' \/ ~Unheld(s)'
               \/ s < l + Window /\ c[s % Window]
    <3>1. s \in low..(nextSeq - 1) /\ s \in Nat /\ l <= s
      BY <1>16
    <3>2. ASSUME s \in low..(low + Window - 1), d[s % Window]
          PROVE  s < l + Window /\ c[s % Window]
      <4>1. s < l + Window
        BY <1>16, <3>1, <3>2, RingSize
      <4>. QED
        BY <1>15, <3>1, <3>2, <4>1, Zenon
    <3>3. CASE s = seq
      BY <1>8, <1>10, <3>2, <3>3, Zenon
    <3>4. CASE s # seq
      <4>1. CASE s < low + Window /\ done[s % Window]
        <5>1. s \in low..(low + Window - 1) /\ s % Window \in Slot
          BY <1>5, <3>1, <4>1, RingSize DEF Slot
        <5>. QED
          BY <1>10, <3>2, <4>1, <5>1, Zenon
      <4>2. CASE failed \/ ~Unheld(s)
        BY <1>4, <1>25, <3>4, <4>2, Zenon
      <4>. QED
        BY <1>2, <3>1, <4>1, <4>2, Zenon DEF Gate
    <3>. QED
      BY <3>3, <3>4
  <2>. QED
    BY <1>4, <1>15, <1>13, <2>1, <2>2, <2>3, Zenon DEF Gate
<1>30. (\E j \in Worker : worker'[j].pc = "exit") => failed' \/ nextSeq' >= NumChunks
  BY <1>2, <1>4, <1>6, <1>18, <1>19, Zenon DEF Becomes
<1>. QED
  BY <1>4, <1>17, <1>20, <1>21, <1>22, <1>27, <1>29, <1>30 DEF GetInv, RangedInv

\* The end of a full download keeps the invariant.
LEMMA CompleteFull ==
    ASSUME GetInv, NEW i \in Worker, Complete(i), mode = "full"
    PROVE  GetInv'
<1>. DEFINE w == [worker[i] EXCEPT !.pc = "exit"]
<1>1. /\ BufferTypes /\ PagesHeld /\ GetTypes /\ Ends /\ FullInv
  BY Zenon DEF GetInv
<1>2. /\ worker[i].pc = "copy" /\ worker[i].off = worker[i].end /\ Set(i, w) /\ BufferSame
      /\ UNCHANGED <<closed, rclosed, bufErr, stream, rev, mode, nextSeq, low, done, cancelled, failed>>
  BY Zenon DEF Complete, bufVars, BufferSame
<1>3. worker \in [Worker -> WorkerType]
  BY <1>1, Zenon DEF GetTypes
<1>4. w \in WorkerType /\ w.pc = "exit"
  BY <1>3 DEF WorkerType
<1>. HIDE DEF w
<1>5. i = 1 /\ frontier = Total
  BY <1>1, <1>2 DEF FullInv
<1>6. BufferTypes' /\ PagesHeld'
  BY <1>1, <1>2, BufferStays, Zenon
<1>7. Becomes(i, w) /\ worker' \in [Worker -> WorkerType]
  BY <1>2, <1>3, <1>4, SetBecomes, Zenon
<1>8. GetTypes'
  BY <1>1, <1>2, <1>7, Zenon DEF GetTypes, BufferSame
<1>9. Ends'
  <2>1. UNCHANGED <<mode, readOff, frontier, failed, cancelled, closed, rclosed, bufErr, stream>>
    BY <1>2, Zenon DEF BufferSame
  <2>. QED
    BY <1>1, <2>1, Zenon DEF Ends
<1>10. NotStarted' /\ Returned'
  BY <1>2 DEF NotStarted, Returned
<1>11. FullInv'
  BY <1>1, <1>2, <1>4, <1>5, <1>7 DEF FullInv, Fresh, Becomes, BufferSame
<1>. QED
  BY <1>2, <1>6, <1>8, <1>9, <1>10, <1>11 DEF GetInv

\* Completing a chunk keeps the invariant.
LEMMA CompleteKept ==
    ASSUME Sizes, GetInv, NEW i \in Worker, Complete(i)
    PROVE  GetInv'
<1>1. worker[i].pc \in Busy
  BY DEF Complete, Busy
<1>. QED
  BY <1>1, WhereBusy, CompleteRanged, CompleteFull

-----------------------------------------------------------------------------
(* The download begins and ends.                                           *)

\* Nothing was written before the first response.
LEMMA DiscoverKept ==
    ASSUME Sizes, GetInv, Discover
    PROVE  GetInv'
<1>1. /\ mode = "start" /\ pinned' = rev /\ UNCHANGED <<pages, pending, frontier, readOff>>
      /\ UNCHANGED <<closed, rclosed, bufErr, stream, rev, nextSeq, low, done>>
  BY Zenon DEF Discover, bufVars
<1>2. /\ BufferTypes /\ GetTypes /\ Ends /\ NotStarted
  BY Zenon DEF GetInv
<1>3. /\ nextSeq = 1 /\ low = 0 /\ done = [k \in Slot |-> FALSE] /\ frontier = 0 /\ pending = {} /\ ~failed
      /\ \A i \in Worker : worker[i].pc = "exit"
  BY <1>1, <1>2, Zenon DEF NotStarted, Fresh
<1>4. \A u \in Unit : u \in Nat /\ ~Written(u) /\ ~Written(u)'
  BY <1>1, <1>3 DEF Written, Unit
<1>5. BufferTypes' /\ PagesHeld'
  <2>1. BufferTypes'
    BY <1>1, <1>2 DEF BufferTypes, Interval
  <2>. QED
    BY <1>4, <2>1, Zenon DEF PagesHeld
<1>6. 1 \in Worker /\ worker \in [Worker -> WorkerType]
  BY <1>2 DEF Worker, GetTypes, Sizes
<1>7. /\ IdleWorker \in WorkerType /\ IdleWorker.pc = "take" /\ IdleWorker.seq = 0
      /\ IdleWorker.off = 0 /\ "take" \notin Busy /\ "copy" \in Busy
  BY DEF IdleWorker, WorkerType, Busy
<1>8. ASSUME mode' # "returned", mode' # "start", mode' \in {"ranged", "full"},
             worker' \in [Worker -> WorkerType], failed' => cancelled', cancelled => cancelled'
      PROVE  GetTypes' /\ Ends' /\ NotStarted' /\ Returned'
  <2>1. GetTypes'
    BY <1>1, <1>2, <1>8 DEF GetTypes
  <2>2. ~closed /\ stream \notin {"eof", "error"}
    BY <1>1, <1>2 DEF Ends
  <2>3. Ends'
    BY <1>1, <1>2, <1>8, <2>2 DEF Ends
  <2>. QED
    BY <1>8, <2>1, <2>3 DEF NotStarted, Returned
<1>9. CASE mode' = "full"
  <2>1. \/ UNCHANGED <<cancelled, failed>> /\ Set(1, [IdleWorker EXCEPT !.pc = "copy", !.end = Total])
        \/ Fail(1)
    BY <1>9 DEF Discover
  <2>2. CASE Fail(1)
    <3>. DEFINE w == [worker[1] EXCEPT !.pc = "exit"]
    <3>1. Set(1, w) /\ failed' /\ cancelled'
      BY <2>2, Zenon DEF Fail
    <3>2. w \in WorkerType /\ w.pc = "exit"
      BY <1>6 DEF WorkerType
    <3>. HIDE DEF w
    <3>3. Becomes(1, w) /\ worker' \in [Worker -> WorkerType]
      BY <1>6, <3>1, <3>2, SetBecomes, Zenon
    <3>4. FullInv'
      BY <1>1, <1>3, <3>1, <3>2, <3>3 DEF FullInv, Fresh, Becomes
    <3>5. GetTypes' /\ Ends' /\ NotStarted' /\ Returned'
      BY <1>8, <1>9, <3>1, <3>3
    <3>. QED
      BY <1>5, <1>9, <3>4, <3>5 DEF GetInv
  <2>3. CASE ~Fail(1)
    <3>. DEFINE w == [IdleWorker EXCEPT !.pc = "copy", !.end = Total]
    <3>1. Set(1, w) /\ UNCHANGED <<cancelled, failed>>
      BY <2>1, <2>3, Zenon
    <3>2. w \in WorkerType /\ w.pc = "copy" /\ w.off = 0 /\ w.end = Total
      BY DEF WorkerType, IdleWorker, Busy, Sizes
    <3>. HIDE DEF w
    <3>3. Becomes(1, w) /\ worker' \in [Worker -> WorkerType]
      BY <1>6, <3>1, <3>2, SetBecomes, Zenon
    <3>4. FullInv'
      BY <1>1, <1>3, <3>1, <3>2, <3>3 DEF FullInv, Fresh, Becomes
    <3>5. GetTypes' /\ Ends' /\ NotStarted' /\ Returned'
      BY <1>3, <1>8, <1>9, <3>1, <3>3
    <3>. QED
      BY <1>5, <1>9, <3>4, <3>5 DEF GetInv
  <2>. QED
    BY <2>2, <2>3
<1>10. CASE mode' = "ranged"
  <2>. DEFINE e == Min({ChunkSize, Total})
              w == [IdleWorker EXCEPT !.pc = "copy", !.end = e]
  <2>1. /\ worker' = [i \in Worker |-> IF i = 1 THEN w ELSE IdleWorker]
        /\ UNCHANGED <<cancelled, failed>>
    BY <1>10 DEF Discover
  <2>2. e \in Nat
    <3>1. ChunkSize \in Nat /\ Total \in Nat
      BY DEF Sizes
    <3>. QED
      BY <3>1, MinOfTwo
  <2>. HIDE DEF e
  <2>3. w \in WorkerType /\ w.pc = "copy" /\ w.seq = 0 /\ w.off = 0 /\ w.end = e
    BY <2>2 DEF WorkerType, IdleWorker, Busy
  <2>. HIDE DEF w
  <2>4. worker' \in [Worker -> WorkerType] /\ worker'[1] = w
    BY <1>6, <1>7, <2>1, <2>3, Zenon
  <2>5. \A j \in Worker : worker'[j].pc # "exit" /\ (worker'[j].pc \in Busy <=> j = 1)
    <3>1. "take" # "exit" /\ "copy" # "exit"
      OBVIOUS
    <3>. QED
      BY <1>6, <1>7, <2>1, <2>3, <3>1, Zenon
  <2>6. GetTypes' /\ Ends' /\ NotStarted' /\ Returned'
    BY <1>3, <1>8, <1>10, <2>1, <2>4
  <2>7. Window \in Nat \ {0} /\ ChunkSize \in Nat
    BY RingSize DEF Sizes
  <2>8. Assigned(1)'
    <3>1. (0 + 1) * ChunkSize = ChunkSize /\ 0 * ChunkSize = 0
      BY <2>7
    <3>2. e = Min({(0 + 1) * ChunkSize, Total})
      BY <3>1, Zenon DEF e
    <3>3. 0 < 1 /\ 0 <= 0 /\ 0 <= e /\ 0 < 0 + Window /\ \A u \in Unit : ~(u < 0)
      BY <1>4, <2>2, <2>7
    <3>. QED
      BY <1>1, <1>3, <1>4, <2>3, <2>4, <3>1, <3>2, <3>3, Zenon DEF Assigned
  <2>9. Chunks'
    BY <1>4, <2>5, <2>8, Zenon DEF Chunks
  <2>10. ~Unheld(0)'
    BY <1>6, <2>3, <2>4, <2>5, Zenon DEF Unheld
  <2>11. Gate'
    <3>1. low' = 0 /\ nextSeq' = 1 /\ done' = [k \in Slot |-> FALSE]
      BY <1>1, <1>3, Zenon
    <3>2. 0..(0 - 1) = {} /\ 0 % Window \in Slot /\ 0..(1 - 1) = {0}
      BY <2>7 DEF Slot
    <3>. QED
      BY <2>10, <3>1, <3>2, Zenon DEF Gate
  <2>12. RangedInv'
    BY <2>5, <2>9, <2>11, Zenon DEF RangedInv
  <2>. QED
    BY <1>5, <1>10, <2>6, <2>12 DEF GetInv
<1>. QED
  BY <1>9, <1>10 DEF Discover

\* A chunk that no worker has, of a download that has not failed, has landed.
LEMMA ChunkLands ==
    ASSUME Sizes, GetTypes, Gate, ~failed, NEW s \in Nat, s < nextSeq, Unheld(s)
    PROVE  Landed(s)
<1>1. low \in Nat /\ nextSeq \in Nat /\ Window \in Nat \ {0}
  BY RingSize DEF GetTypes
<1>2. CASE s < low
  <2>1. s \in 0..(low - 1)
    BY <1>1, <1>2
  <2>. QED
    BY <2>1, Zenon DEF Gate
<1>3. CASE ~(s < low)
  <2>1. s \in low..(nextSeq - 1)
    BY <1>1, <1>3
  <2>2. s < low + Window /\ done[s % Window]
    BY <2>1, Zenon DEF Gate
  <2>3. s % Window \in Slot
    BY <1>1 DEF Slot
  <2>4. PICK t \in low..(low + Window - 1) : t % Window = s % Window /\ Landed(t)
    BY <2>2, <2>3, Zenon DEF Gate
  <2>5. t \in Nat /\ low <= t /\ t < low + Window /\ low <= s
    BY <1>1, <1>3, <2>4
  <2>6. t = s
    BY <1>1, <2>2, <2>4, <2>5, ModApart, Zenon
  <2>. QED
    BY <2>4, <2>6
<1>. QED
  BY <1>2, <1>3

\* The chunk of a unit.
LEMMA DivBounds ==
    ASSUME NEW c \in Nat \ {0}, NEW n \in Nat, NEW k \in Nat
    PROVE  /\ n < k * c => n \div c < k
           /\ k * c <= n => k <= n \div c
<1>. DEFINE q == n \div c
<1>1. q \in Nat /\ q * c <= n /\ n < q * c + c
  BY DivBelow
<1>. HIDE DEF q
<1>2. ASSUME n < k * c, ~(q < k) PROVE FALSE
  <2>1. k * c <= q * c /\ k * c \in Nat /\ q * c \in Nat
    BY <1>1, <1>2, ProductMonotone
  <2>. QED
    BY <1>1, <1>2, <2>1
<1>3. ASSUME k * c <= n, ~(k <= q) PROVE FALSE
  <2>1. (q + 1) * c <= k * c /\ (q + 1) * c = q * c + c /\ k * c \in Nat /\ q * c \in Nat
    BY <1>1, <1>3, ProductMonotone, ProductNext
  <2>. QED
    BY <1>1, <1>3, <2>1
<1>. QED
  BY <1>2, <1>3 DEF q

\* Every unit of the object is in a chunk, and is written once that chunk has
\* landed.
LEMMA UnitChunk ==
    ASSUME Sizes, NEW u \in Unit
    PROVE  /\ u \div ChunkSize \in Nat /\ u \div ChunkSize < NumChunks
           /\ \A s : s = u \div ChunkSize /\ Landed(s) => Written(u)
<1>1. u \in Nat /\ Total - 1 \in Nat /\ u <= Total - 1 /\ ChunkSize \in Nat \ {0}
  BY DEF Unit, Sizes
<1>2. /\ u \div ChunkSize \in Nat /\ (u \div ChunkSize) * ChunkSize <= u
      /\ u < (u \div ChunkSize) * ChunkSize + ChunkSize
  BY <1>1, DivBelow
<1>3. u < ((u \div ChunkSize) + 1) * ChunkSize
  <2>1. ((u \div ChunkSize) + 1) * ChunkSize = (u \div ChunkSize) * ChunkSize + ChunkSize
    BY <1>1, <1>2, ProductNext
  <2>. QED
    BY <1>2, <2>1
<1>4. u \div ChunkSize <= (Total - 1) \div ChunkSize /\ (Total - 1) \div ChunkSize \in Nat
  BY <1>1, DivMonotone, DivBelow
<1>5. u \div ChunkSize < NumChunks
  BY <1>2, <1>4 DEF NumChunks
<1>. QED
  BY <1>2, <1>3, <1>5, Zenon DEF Landed

\* What has returned without an error and without a gap is whole.
LEMMA WholeObject ==
    ASSUME Sizes, GetInv, mode \in {"ranged", "full"}, ~failed, pending = {},
           \A i \in Worker : worker[i].pc = "exit"
    PROVE  frontier = Total
<1>1. "exit" \notin Busy /\ 1 \in Worker
  BY DEF Busy, Worker, Sizes
<1>2. frontier \in Nat /\ frontier <= Total /\ Total \in Nat
  BY DEF GetInv, BufferTypes, Sizes
<1>3. CASE mode = "full"
  BY <1>1, <1>3 DEF GetInv, FullInv
<1>4. CASE mode = "ranged"
  <2>1. GetTypes /\ Gate /\ nextSeq >= NumChunks
    BY <1>1, <1>4, Zenon DEF GetInv, RangedInv
  <2>2. ASSUME NEW u \in Unit PROVE Written(u)
    <3>1. PICK s : s = u \div ChunkSize
      OBVIOUS
    <3>2. s \in Nat /\ s < NumChunks /\ (Landed(s) => Written(u))
      BY <3>1, UnitChunk
    <3>3. nextSeq \in Nat /\ NumChunks \in Int
      BY <2>1 DEF GetTypes, NumChunks, Sizes
    <3>4. s < nextSeq
      BY <2>1, <3>2, <3>3
    <3>5. Unheld(s)
      BY <1>1, Zenon DEF Unheld
    <3>. QED
      BY <2>1, <3>2, <3>4, <3>5, ChunkLands, Zenon
  <2>3. ASSUME frontier # Total PROVE FALSE
    <3>1. frontier \in Unit
      BY <1>2, <2>3 DEF Unit
    <3>. QED
      BY <1>2, <2>2, <3>1 DEF Written
  <2>. QED
    BY <2>3
<1>. QED
  BY <1>3, <1>4

\* A finished slot is named by a chunk of the window.
LEMMA SlotsAreNamed ==
    ASSUME GetInv
    PROVE  SlotsNamed
<1>1. mode \in {"start", "ranged", "full", "returned"}
  BY Zenon DEF GetInv, GetTypes
<1>2. CASE mode = "ranged"
  BY <1>2, Zenon DEF GetInv, RangedInv, Gate, SlotsNamed
<1>3. CASE mode \in {"start", "full"}
  BY <1>3 DEF GetInv, NotStarted, FullInv, Fresh, SlotsNamed
<1>4. CASE mode = "returned"
  BY <1>4, Zenon DEF GetInv, Returned
<1>. QED
  BY <1>1, <1>2, <1>3, <1>4

\* The return of the download keeps the invariant: without an error the object
\* is whole.
LEMMA ReturnKept ==
    ASSUME Sizes, GetInv, Return
    PROVE  GetInv'
<1>1. /\ mode \in {"ranged", "full"} /\ mode' = "returned" /\ cancelled' /\ BufferSame
      /\ (\A i \in Worker : worker[i].pc = "exit") /\ closed' = TRUE
      /\ bufErr' = (IF failed \/ pending # {} THEN "error" ELSE "none")
      /\ UNCHANGED <<rclosed, stream, rev, nextSeq, low, done, worker, failed>>
  BY Zenon DEF Return, CloseWrite, BufferSame
<1>2. /\ BufferTypes /\ PagesHeld /\ GetTypes /\ Ends /\ SlotsNamed
  BY SlotsAreNamed, Zenon DEF GetInv
<1>3. BufferTypes' /\ PagesHeld'
  BY <1>1, <1>2, BufferStays, Zenon
<1>4. GetTypes'
  BY <1>1, <1>2 DEF GetTypes, BufferSame
<1>5. NotStarted' /\ Returned'
  BY <1>1, <1>2 DEF NotStarted, Returned, SlotsNamed
<1>6. bufErr' = "none" => frontier' = Total
  <2>1. bufErr' = "none" => ~failed /\ pending = {}
    BY <1>1
  <2>2. frontier' = frontier
    BY <1>1, Zenon DEF BufferSame
  <2>. QED
    BY <1>1, <2>1, <2>2, WholeObject, Zenon
<1>7. ~closed /\ stream \notin {"eof", "error"}
  BY <1>1, <1>2 DEF Ends
<1>8. Ends'
  BY <1>1, <1>2, <1>6, <1>7 DEF Ends
<1>. QED
  BY <1>1, <1>3, <1>4, <1>5, <1>8 DEF GetInv

\* A read of the stream keeps the invariant.
LEMMA ReadStreamKept ==
    ASSUME Sizes, GetInv, ReadStream
    PROVE  GetInv'
<1>1. /\ Read /\ UNCHANGED <<rev, mode, pinned, nextSeq, low, done, worker, cancelled, failed>>
  BY Zenon DEF ReadStream, getVars
<1>2. /\ BufferTypes /\ PagesHeld /\ GetTypes /\ Ends
  BY Zenon DEF GetInv
<1>3. BufferTypes' /\ PagesHeld'
  BY <1>1, <1>2, ReadPages, Zenon
<1>4. /\ UNCHANGED <<pages, pending, frontier, closed, rclosed, bufErr>> /\ stream = "reading" /\ ~rclosed
      /\ \/ stream' = stream
         \/ /\ readOff = frontier /\ closed /\ readOff' = readOff
            /\ stream' = (IF bufErr = "none" THEN "eof" ELSE "error")
  BY <1>1, Zenon DEF Read
<1>5. GetTypes'
  BY <1>1, <1>2, Zenon DEF GetTypes
<1>6. Ends'
  BY <1>1, <1>2, <1>4 DEF Ends
<1>7. \A u \in Unit : Written(u)' <=> Written(u)
  BY <1>4, Zenon DEF Written
<1>8. NotStarted' /\ Returned' /\ (mode' = "full" => FullInv')
  BY <1>1, <1>4, Zenon DEF GetInv, NotStarted, Returned, FullInv, Fresh, SlotsNamed
<1>9. ASSUME mode = "ranged" PROVE RangedInv'
  <2>1. Chunks /\ Gate
    BY <1>9, Zenon DEF GetInv, RangedInv
  <2>2. Chunks'
    <3>1. ASSUME NEW i \in Worker, Assigned(i) PROVE Assigned(i)'
      <4>1. nextSeq' \in Nat /\ nextSeq <= nextSeq' /\ worker'[i] = worker[i] /\ UNCHANGED <<low, frontier, pending>>
        BY <1>1, <1>2, <1>4 DEF GetTypes
      <4>. QED
        BY <1>2, <3>1, <4>1, AssignedStays, Zenon
    <3>. QED
      BY <1>1, <1>7, <2>1, <3>1, Zenon DEF Chunks
  <2>3. \A s : (Landed(s)' <=> Landed(s)) /\ (Unheld(s)' <=> Unheld(s))
    BY <1>1, <1>7, Zenon DEF Landed, Unheld
  <2>4. Gate'
    BY <1>1, <2>1, <2>3, Zenon DEF Gate
  <2>. QED
    BY <1>1, <1>9, <2>2, <2>4, Zenon DEF GetInv, RangedInv
<1>. QED
  BY <1>1, <1>3, <1>5, <1>6, <1>8, <1>9, Zenon DEF GetInv

\* A step that the workers do not see.
LEMMA UnseenKept ==
    ASSUME GetInv, BufferSame, rev' \in Nat, UNCHANGED <<nextSeq, low, done, worker, failed>>,
           Ends', mode' = mode \/ (mode = "start" /\ mode' = "returned")
    PROVE  GetInv'
<1>2. /\ BufferTypes /\ PagesHeld /\ GetTypes
  BY Zenon DEF GetInv
<1>3. BufferTypes' /\ PagesHeld' /\ \A u \in Unit : Written(u)' <=> Written(u)
  BY <1>2, BufferStays, Zenon
<1>5. GetTypes'
  BY <1>2 DEF GetTypes, BufferSame
<1>6. NotStarted' /\ (mode' = "full" => FullInv')
  BY DEF GetInv, NotStarted, FullInv, Fresh, BufferSame
<1>7. Returned'
  <2>1. SlotsNamed
    BY SlotsAreNamed
  <2>. QED
    BY <2>1, Zenon DEF GetInv, NotStarted, Returned, SlotsNamed
<1>8. ASSUME mode' = "ranged" PROVE RangedInv'
  <2>0. mode = "ranged"
    BY <1>8
  <2>1. Chunks /\ Gate
    BY <2>0, Zenon DEF GetInv, RangedInv
  <2>2. Chunks'
    <3>1. ASSUME NEW i \in Worker, Assigned(i) PROVE Assigned(i)'
      <4>1. nextSeq' \in Nat /\ nextSeq <= nextSeq' /\ worker'[i] = worker[i] /\ UNCHANGED <<low, frontier, pending>>
        BY <1>2 DEF GetTypes, BufferSame
      <4>. QED
        BY <1>2, <3>1, <4>1, AssignedStays, Zenon
    <3>. QED
      BY <1>3, <2>1, <3>1, Zenon DEF Chunks
  <2>3. \A s : (Landed(s)' <=> Landed(s)) /\ (Unheld(s)' <=> Unheld(s))
    BY <1>3, Zenon DEF Landed, Unheld
  <2>4. Gate'
    BY <2>1, <2>3, Zenon DEF Gate
  <2>. QED
    BY <2>0, <2>2, <2>4, Zenon DEF GetInv, RangedInv
<1>. QED
  BY <1>3, <1>5, <1>6, <1>7, <1>8, Zenon DEF GetInv

\* Close of the stream keeps the invariant.
LEMMA CloseStreamKept ==
    ASSUME GetInv, CloseStream
    PROVE  GetInv'
<1>1. /\ UNCHANGED <<closed, bufErr, rev, nextSeq, low, done, worker, failed>> /\ BufferSame
      /\ rclosed' = TRUE /\ stream' = "closed" /\ cancelled' = TRUE
      /\ mode' = (IF mode = "start" THEN "returned" ELSE mode)
  BY Zenon DEF CloseStream, CloseRead, BufferSame
<1>2. Ends /\ GetTypes
  BY Zenon DEF GetInv
<1>3. Ends'
  BY <1>1, <1>2 DEF Ends, BufferSame
<1>4. rev' \in Nat /\ (mode' = mode \/ (mode = "start" /\ mode' = "returned"))
  BY <1>1, <1>2 DEF GetTypes
<1>. QED
  BY <1>1, <1>3, <1>4, UnseenKept, Zenon

\* A new version of the object keeps the invariant: a chunk of it fails the
\* pinned ETag.
LEMMA RewriteKept ==
    ASSUME GetInv, Rewrite
    PROVE  GetInv'
<1>1. /\ UNCHANGED <<closed, rclosed, bufErr, stream, mode, cancelled, nextSeq, low, done, worker, failed>>
      /\ BufferSame /\ rev' = rev + 1
  BY Zenon DEF Rewrite, bufVars, BufferSame
<1>2. Ends /\ rev \in Nat
  BY Zenon DEF GetInv, GetTypes
<1>3. UNCHANGED <<readOff, frontier>>
  BY <1>1, Zenon DEF BufferSame
<1>4. Ends' /\ rev' \in Nat
  BY <1>1, <1>2, <1>3 DEF Ends
<1>. QED
  BY <1>1, <1>4, UnseenKept, Zenon

\* The invariant holds when the download starts.
LEMMA GetInit ==
    ASSUME Sizes, Init
    PROVE  GetInv
<1>1. /\ pages = [i \in 0..(Ring * ChunkSize - 1) |-> Empty]
      /\ pending = {} /\ frontier = 0 /\ readOff = 0
      /\ ~closed /\ ~rclosed /\ bufErr = "none" /\ stream = "reading"
      /\ rev = 1 /\ mode = "start" /\ pinned = 0 /\ nextSeq = 1
      /\ low = 0 /\ done = [i \in Slot |-> FALSE]
      /\ worker = [i \in Worker |-> [IdleWorker EXCEPT !.pc = "exit"]]
      /\ ~cancelled /\ ~failed
  BY DEF Init, BufInit, Slot
<1>2. BufferTypes
  <2>1. Empty \in [off : Int, rev : Nat]
    BY DEF Empty
  <2>2. pages \in [0..(Ring * ChunkSize - 1) -> [off : Int, rev : Nat]]
    BY <1>1, <2>1, Zenon
  <2>. QED
    BY <1>1, <2>2 DEF BufferTypes, Sizes
<1>3. \A u \in Unit : ~Written(u)
  BY <1>1 DEF Unit, Written
<1>4. PagesHeld
  BY <1>3, Zenon DEF PagesHeld
<1>5. worker \in [Worker -> WorkerType] /\ \A i \in Worker : worker[i].pc = "exit"
  <2>. DEFINE w == [IdleWorker EXCEPT !.pc = "exit"]
  <2>1. w \in WorkerType /\ w.pc = "exit"
    BY DEF IdleWorker, WorkerType
  <2>. HIDE DEF w
  <2>. QED
    BY <1>1, <2>1, Zenon DEF w
<1>6. GetTypes
  <2>1. done \in [Slot -> BOOLEAN]
    BY <1>1, Zenon
  <2>. QED
    BY <1>1, <1>5, <2>1 DEF GetTypes
<1>7. Ends
  BY <1>1 DEF Ends
<1>8. NotStarted /\ Returned
  BY <1>1, <1>5 DEF NotStarted, Returned, Fresh
<1>. QED
  BY <1>1, <1>2, <1>4, <1>6, <1>7, <1>8 DEF GetInv

\* Every step of the download keeps the invariant.
LEMMA GetNext ==
    ASSUME Sizes, GetInv, Next
    PROVE  GetInv'
<1>1. ASSUME NEW i \in Worker, Step(i) PROVE GetInv'
  BY <1>1, TakeKept, GateWaitKept, OpenChunkKept, CopyKept, BreakKept, CompleteKept, Zenon DEF Step
<1>. QED
  BY <1>1, RewriteKept, DiscoverKept, ReturnKept, ReadStreamKept, CloseStreamKept, Zenon DEF Next

-----------------------------------------------------------------------------
(* What the download promises.                                             *)

\* The invariant implies that the reader sees the object, whole and in order.
LEMMA IntactStream ==
    ASSUME Sizes, GetInv
    PROVE  StreamIntact
<1>1. readOff \in Nat /\ frontier \in Nat /\ frontier <= Total /\ Total \in Nat
  BY DEF GetInv, BufferTypes, Sizes
<1>2. ASSUME readOff < frontier PROVE pages[Cell(readOff)] = [off |-> readOff, rev |-> pinned]
  <2>1. readOff \in Unit /\ readOff <= readOff /\ Written(readOff)
    BY <1>1, <1>2 DEF Unit, Written
  <2>. QED
    BY <2>1, Zenon DEF GetInv, PagesHeld
<1>3. ASSUME stream = "eof" PROVE readOff = Total
  BY <1>3 DEF GetInv, Ends
<1>. QED
  BY <1>2, <1>3, Zenon DEF StreamIntact, NextUnitIntact, NeverTruncated

\* The lowest chunk that is not complete holds the frontier back.
LEMMA LowReached ==
    ASSUME Sizes, GetInv, mode = "ranged", low * ChunkSize < Total
    PROVE  low * ChunkSize <= frontier
<1>1. frontier \in Nat /\ low \in Nat /\ Total \in Nat /\ ChunkSize \in Nat \ {0}
  BY DEF GetInv, BufferTypes, GetTypes, Sizes
<1>2. PICK l : l = low * ChunkSize
  OBVIOUS
<1>3. l \in Nat
  BY <1>1, <1>2
<1>4. ASSUME frontier < l PROVE FALSE
  <2>1. frontier \in Unit
    BY <1>1, <1>2, <1>3, <1>4 DEF Unit
  <2>2. PICK s : s = frontier \div ChunkSize
    OBVIOUS
  <2>3. s \in Nat /\ (Landed(s) => Written(frontier))
    BY <2>1, <2>2, UnitChunk
  <2>4. s < low
    BY <1>1, <1>2, <1>4, <2>2, DivBounds
  <2>5. s \in 0..(low - 1)
    BY <1>1, <2>3, <2>4
  <2>6. Written(frontier)
    BY <2>3, <2>5, Zenon DEF GetInv, RangedInv, Gate
  <2>7. \A iv \in pending : iv.start \in Nat /\ frontier < iv.start
    BY Zenon DEF GetInv, BufferTypes, Interval
  <2>. QED
    BY <1>1, <2>6, <2>7 DEF Written
<1>. QED
  BY <1>1, <1>2, <1>3, <1>4

\* A worker that has passed the gate writes inside the ring, once the reader
\* has caught up.
LEMMA WritesDrain ==
    ASSUME Sizes, GetInv, mode = "ranged", NEW i \in Worker, Writing(i)
    PROVE  worker[i].off \div ChunkSize < (frontier \div ChunkSize) + Ring
<1>1. frontier \in Nat /\ low \in Nat /\ Total \in Nat /\ ChunkSize \in Nat \ {0}
  BY DEF GetInv, BufferTypes, GetTypes, Sizes
<1>2. worker[i] \in WorkerType /\ worker[i].pc = "copy" /\ worker[i].off < worker[i].end
  BY DEF GetInv, GetTypes, Writing
<1>3. Assigned(i)
  BY <1>2 DEF GetInv, RangedInv, Chunks, Busy
<1>4. PICK seq, off, end : seq = worker[i].seq /\ off = worker[i].off /\ end = worker[i].end
  OBVIOUS
<1>5. /\ seq \in Nat /\ off \in Nat /\ end \in Nat /\ off < end
      /\ low <= seq /\ seq * ChunkSize <= off /\ seq < low + Window
      /\ end = Min({(seq + 1) * ChunkSize, Total})
  BY <1>2, <1>3, <1>4 DEF Assigned, WorkerType
<1>6. PICK n \in Nat : n = (seq + 1) * ChunkSize
  BY <1>1, <1>5
<1>7. off < n /\ off < Total
  BY <1>1, <1>5, <1>6, MinOfTwo
<1>8. low * ChunkSize <= seq * ChunkSize /\ low * ChunkSize \in Nat /\ seq * ChunkSize \in Nat
  BY <1>1, <1>5, ProductMonotone
<1>9. low * ChunkSize < Total
  BY <1>1, <1>5, <1>7, <1>8
<1>10. low <= frontier \div ChunkSize
  BY <1>1, <1>9, LowReached, DivBounds
<1>11. off \div ChunkSize < seq + 1
  <2>1. seq + 1 \in Nat /\ off < (seq + 1) * ChunkSize
    BY <1>5, <1>6, <1>7
  <2>. QED
    BY <1>1, <1>5, <2>1, DivBounds, Zenon
<1>12. off \div ChunkSize \in Nat /\ frontier \div ChunkSize \in Nat
  BY <1>1, <1>5, DivBelow
<1>13. Ring \in Nat /\ Window = Ring
  BY RingSize
<1>14. off \div ChunkSize < (frontier \div ChunkSize) + Ring
  BY <1>1, <1>5, <1>10, <1>11, <1>12, <1>13
<1>. QED
  BY <1>4, <1>14

\* A write that blocks is released by the reader, or has been.
LEMMA WriteReleased ==
    ASSUME Sizes, GetInv, mode \in {"ranged", "full"}, NEW i \in Worker, Writing(i),
           ~(stream = "reading" /\ readOff < frontier)
    PROVE  WriteClosed \/ InWindow(worker[i].off)
<1>1. frontier \in Nat /\ readOff \in Nat /\ readOff <= frontier
  BY DEF GetInv, BufferTypes
<1>2. CASE rclosed
  BY <1>2 DEF WriteClosed
<1>3. CASE ~rclosed
  <2>1. stream = "reading"
    BY <1>3 DEF GetInv, Ends
  <2>2. readOff = frontier
    BY <1>1, <2>1
  <2>3. CASE mode = "ranged"
    BY <2>2, <2>3, WritesDrain DEF InWindow
  <2>4. CASE mode = "full"
    <3>1. worker[i].off = frontier
      BY <2>4 DEF GetInv, FullInv, Writing
    <3>2. frontier \div ChunkSize \in Nat /\ Ring \in Nat \ {0}
      BY <1>1, DivBelow, RingSize DEF Sizes
    <3>. QED
      BY <2>2, <3>1, <3>2 DEF InWindow
  <2>. QED
    BY <2>3, <2>4
<1>. QED
  BY <1>2, <1>3

\* The invariant implies that somebody can step until the download has
\* returned.
LEMMA NeverStuckHolds ==
    ASSUME Sizes, GetInv
    PROVE  NeverStuck
<1>1. BlockedWritesDrain
  BY WritesDrain, SlotsAreNamed, Zenon DEF BlockedWritesDrain, SlotsNamed, Slot
<1>2. ASSUME mode \in {"ranged", "full"}, ~(stream = "reading" /\ readOff < frontier),
             NEW h \in Worker, worker[h].pc # "exit"
      PROVE  \E i \in Worker :
                 \/ worker[i].pc \in {"take", "open"}
                 \/ worker[i].pc = "gate" /\ (cancelled \/ worker[i].seq - low < Window)
                 \/ worker[i].pc = "copy"
                    /\ (~Writing(i) \/ WriteClosed \/ InWindow(worker[i].off))
  <2>1. ASSUME NEW i \in Worker, worker[i].pc = "copy"
        PROVE  ~Writing(i) \/ WriteClosed \/ InWindow(worker[i].off)
    BY <1>2, <2>1, WriteReleased, Zenon
  <2>2. worker[h].pc \in Busy \cup {"take", "exit"}
    BY DEF GetInv, GetTypes, WorkerType
  <2>3. CASE worker[h].pc \in {"take", "open"}
    BY <2>3, Zenon
  <2>4. CASE worker[h].pc = "copy"
    BY <2>1, <2>4, Zenon
  <2>5. CASE worker[h].pc = "gate" /\ cancelled
    BY <2>5, Zenon
  <2>6. CASE worker[h].pc = "gate" /\ ~cancelled
    <3>1. mode = "ranged"
      BY <1>2, <2>6 DEF GetInv, FullInv
    <3>2. ~failed
      BY <2>6 DEF GetInv, Ends
    <3>3. Assigned(h)
      BY <2>6, <3>1 DEF GetInv, RangedInv, Chunks, Busy
    <3>4. low \in Nat /\ nextSeq \in Nat /\ worker[h].seq \in Nat /\ Window \in Nat \ {0}
      BY RingSize DEF GetInv, GetTypes, WorkerType
    <3>5. low \in low..(nextSeq - 1)
      BY <3>3, <3>4 DEF Assigned
    <3>6. ~Unheld(low)
      BY <3>1, <3>2, <3>5, Zenon DEF GetInv, RangedInv, Gate
    <3>7. PICK j \in Worker : worker[j].pc \in Busy /\ worker[j].seq = low
      BY <3>6, Zenon DEF Unheld
    <3>8. worker[j].seq - low < Window
      BY <3>4, <3>7
    <3>9. worker[j].pc \in {"take", "open"} \/ worker[j].pc = "gate" \/ worker[j].pc = "copy"
      BY <3>7 DEF Busy
    <3>. QED
      BY <2>1, <3>8, <3>9, Zenon
  <2>. QED
    BY <1>2, <2>2, <2>3, <2>4, <2>5, <2>6 DEF Busy
<1>3. NoneWaitsForAll
  BY <1>2, Zenon DEF NoneWaitsForAll
<1>. QED
  BY <1>1, <1>3, Zenon DEF NeverStuck

-----------------------------------------------------------------------------
(* The theorem, as the composition uses it: GetInv holds at the start, each *)
(* step of the download and each step elsewhere keeps it, and it implies   *)
(* what the download promises.                                             *)

\* A step of another transfer keeps the invariant.
LEMMA GetStays ==
    ASSUME GetInv, UNCHANGED vars
    PROVE  GetInv'
<1>1. /\ BufferSame /\ UNCHANGED <<nextSeq, low, done, worker, failed, rev, mode>>
      /\ UNCHANGED <<closed, rclosed, bufErr, stream, cancelled>>
  BY Zenon DEF vars, bufVars, getVars, BufferSame
<1>2. Ends' /\ rev' \in Nat
  BY <1>1 DEF GetInv, GetTypes, Ends, BufferSame
<1>. QED
  BY <1>1, <1>2, UnseenKept, Zenon
=============================================================================
