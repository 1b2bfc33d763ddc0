--------------------------- MODULE ConditionalGet ---------------------------
(***************************************************************************)
(* How a stored object answers a conditional or ranged request:            *)
(* client/preconditions.go, the short circuits of internal/cache           *)
(* (conditional.go, range.go) and ServeCacheHit of                         *)
(* internal/httputil/conditional.go, against what the headers mean.        *)
(*                                                                         *)
(* A validator is a set of ETags ("*" is AnyTag) and an object may have no *)
(* ETag (NoTag); a range specifier is a record: none, malformed, the last  *)
(* a bytes, from byte a on, or a span.  A span with b < a also stands for  *)
(* one whose end does not parse: the code treats them alike.               *)
(***************************************************************************)
EXTENDS Integers, FiniteSets

CONSTANTS Tag, MaxSize

VARIABLES
    size, etag,     \* the stored object
    request, answer

vars == <<size, etag, request, answer>>

AnyTag == "*"
NoTag == ""
NoRange == [form |-> "none", a |-> 0, b |-> 0]
Malformed == [form |-> "malformed", a |-> 0, b |-> 0]
Range(a, b) == [form |-> "span", a |-> a, b |-> b - 1]  \* client.Range, half open

Specs ==
    {NoRange, Malformed}
    \cup [form : {"suffix", "from"}, a : 0..(MaxSize + 1), b : {0}]
    \cup [form : {"span"}, a : 0..(MaxSize + 1), b : 0..(MaxSize + 1)]
Validators == {{}, {AnyTag}} \cup {{t} : t \in Tag} \cup {Tag}
Requests == [ifMatch : Validators, ifNoneMatch : Validators, range : Specs,
             ifRange : Tag \cup {"none"}]

-----------------------------------------------------------------------------
\* etagListMatches and Check.
Matches(v, t) == t # NoTag /\ (AnyTag \in v \/ t \in v)
Check(q) ==
    CASE q.ifMatch # {} /\ ~Matches(q.ifMatch, etag) -> "precondition failed"
      [] (q.ifMatch = {} \/ Matches(q.ifMatch, etag)) /\ Matches(q.ifNoneMatch, etag) -> "not modified"
      [] OTHER -> "ok"

\* resolveByteRange.
Full == [outcome |-> "full", start |-> 0, length |-> size]
Partial(start, length) == [outcome |-> "partial", start |-> start, length |-> length]
Unsatisfiable == [outcome |-> "unsatisfiable", start |-> 0, length |-> size]
Least(m, n) == IF m < n THEN m ELSE n
ResolveByteRangeOver(s) ==
    CASE s.form \in {"none", "malformed"} -> Full
      [] s.form = "suffix" ->
             IF s.a = 0 \/ size = 0 THEN Unsatisfiable
             ELSE Partial(size - Least(s.a, size), Least(s.a, size))
      [] s.form = "from" -> IF s.a >= size THEN Unsatisfiable ELSE Partial(s.a, size - s.a)
      [] s.form = "span" ->
             IF s.a >= size THEN Unsatisfiable
             ELSE IF s.b < s.a THEN Full ELSE Partial(s.a, Least(s.b, size) - s.a + 1)
ResolveByteRange(s) ==
    CASE s.form \in {"none", "malformed"} -> Full
      [] s.form = "suffix" ->
             IF s.a = 0 \/ size = 0 THEN Unsatisfiable
             ELSE Partial(size - Least(s.a, size), Least(s.a, size))
      [] s.form = "from" -> IF s.a >= size THEN Unsatisfiable ELSE Partial(s.a, size - s.a)
      [] s.form = "span" ->
             IF s.a >= size THEN Unsatisfiable
             ELSE IF s.b < s.a THEN Full ELSE Partial(s.a, Least(s.b, size - 1) - s.a + 1)

IfRangeMisses(q) == q.range # NoRange /\ q.ifRange # "none" /\ q.ifRange # etag
ResolveRange(q) == IF q.range = NoRange \/ IfRangeMisses(q) THEN Full ELSE ResolveByteRange(q.range)

\* conditionalShortCircuit, rangeShortCircuit and ServeCacheHit.
Body(status, start, length) == [status |-> status, start |-> start, length |-> length]
Pending == Body(0, 0, 0)
Respond(q) ==
    LET r == ResolveRange(q) IN
    CASE Check(q) = "precondition failed" -> Body(412, 0, 0)
      [] Check(q) = "not modified" -> Body(304, 0, 0)
      [] Check(q) = "ok" /\ r.outcome = "partial" -> Body(206, r.start, r.length)
      [] Check(q) = "ok" /\ r.outcome = "unsatisfiable" -> Body(416, 0, 0)
      [] OTHER -> Body(200, 0, size)

-----------------------------------------------------------------------------
Init ==
    /\ size \in 0..MaxSize /\ etag \in Tag \cup {NoTag}
    /\ request = [ifMatch |-> {}, ifNoneMatch |-> {}, range |-> NoRange, ifRange |-> "none"]
    /\ answer = Pending
Ask(q) == answer = Pending /\ request' = q /\ answer' = Respond(q) /\ UNCHANGED <<size, etag>>
Next == \E q \in Requests : Ask(q)

Spec == Init /\ [][Next]_vars

-----------------------------------------------------------------------------
Sent == {p \in 0..(MaxSize + 1) : answer.start <= p /\ p < answer.start + answer.length}

\* The bytes that a specifier selects.
Selected(s) ==
    {p \in 0..(size - 1) :
        CASE s.form = "suffix" -> p >= size - s.a
          [] s.form = "from" -> p >= s.a
          [] s.form = "span" -> s.a <= p /\ p <= s.b
          [] OTHER -> TRUE}
Ordered(s) == s.form = "span" => s.a <= s.b

\* A 206 carries exactly the bytes its range selects, of the version its
\* validators name; a 416 means it selects none; anything that is not a range,
\* and a range for another version, gets the whole object.
AnswersSelection ==
    Ordered(request.range) =>
        CASE answer.status = 206 ->
                 /\ request.ifRange \in {"none", etag} /\ Sent = Selected(request.range) /\ Sent # {}
          [] answer.status = 416 ->
                 /\ request.ifRange \in {"none", etag} /\ Selected(request.range) = {}
          [] answer.status = 200 ->
                 /\ Sent = 0..(size - 1)
                 /\ request.range.form \in {"none", "malformed"} \/ request.ifRange \notin {"none", etag}
          [] OTHER -> Sent = {}

\* A pinned request never yields bytes of another version, and a client that
\* has the version is never sent it again.
ValidatorsHold ==
    /\ answer.status \in {200, 206} => request.ifMatch = {} \/ Matches(request.ifMatch, etag)
    /\ answer.status \in {200, 206, 416} => ~Matches(request.ifNoneMatch, etag)

\* The chunks a parallel download asks for are disjoint and make up the object.
ChunksTile ==
    \A c \in 1..MaxSize : size > 0 =>
        LET chunk(i) == ResolveByteRange(Range(i * c, (i + 1) * c))
            n == 1 + (size - 1) \div c
        IN  \A i \in 0..(n - 1) :
                /\ chunk(i).outcome = "partial" /\ chunk(i).start = i * c
                /\ chunk(i).length = Least((i + 1) * c, size) - i * c

\* Every answer carries what its request selects, also when a download is made
\* of many of them.
AnswersFaithful == AnswersSelection /\ ValidatorsHold /\ ChunksTile
=============================================================================
