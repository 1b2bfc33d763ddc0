------------------------------- MODULE S3Cache ------------------------------
(***************************************************************************)
(* The S3 cache (internal/cache/s3.go, s3_parallel_get.go) for one key: a  *)
(* data object that carries its headers and a random tag, and a companion  *)
(* object with the expiry and the same tag, written by two separate puts.  *)
(* Processes share nothing but the bucket.                                 *)
(*                                                                         *)
(* A put, a get and a removal of one object is atomic (S3).  The tag of a  *)
(* write, and its headers, are the writer.                                 *)
(***************************************************************************)
EXTENDS Integers, FiniteSets

CONSTANTS
    Writer,
    Large,          \* those whose object is larger than one download part
    Reader,
    MaxTTL, Grace,
    MaxClock,       \* bound: the clock stops here
    MaxFaults,      \* bound: failed puts and removals, and dead writers
    None

VARIABLES
    data,           \* the data object: by, when it landed, its Expires; or None
    meta,           \* the companion: its tag and expiry; or None
    writer,         \* [Writer -> its state]
    reader,         \* [Reader -> its state]
    refreshes,      \* companions that background refreshes have yet to put
    now, faults,
    reply,          \* what the last finished read returned, or None
    leaked          \* history: writers that died or failed before their cleanup

vars == <<data, meta, writer, reader, refreshes, now, faults, reply, leaked>>

IdleReader == [pc |-> "idle", data |-> None, meta |-> None]

Init ==
    /\ data = None /\ meta = None
    /\ writer = [w \in Writer |-> [pc |-> "idle", cancelled |-> FALSE, expiresAt |-> 0]]
    /\ reader = [r \in Reader |-> IdleReader]
    /\ refreshes = {} /\ now = 0 /\ faults = 0
    /\ reply = None /\ leaked = {}

Step(w, pc) == writer' = [writer EXCEPT ![w].pc = pc]
Fault == faults < MaxFaults /\ faults' = faults + 1

-----------------------------------------------------------------------------
(* Writers.  PutObject of the data completes only after the pipe's EOF.    *)

Create(w) ==
    /\ writer[w].pc = "idle"
    /\ writer' = [writer EXCEPT ![w].pc = "open", ![w].expiresAt = now + MaxTTL]
    /\ UNCHANGED <<data, meta, reader, refreshes, now, faults, reply, leaked>>

CancelContext(w) ==
    /\ writer[w].pc \in {"open", "closing", "landed"} /\ ~writer[w].cancelled
    /\ writer' = [writer EXCEPT ![w].cancelled = TRUE]
    /\ UNCHANGED <<data, meta, reader, refreshes, now, faults, reply, leaked>>

\* Close ends the pipe; Abort cancels the context first.
Close(w) ==
    /\ writer[w].pc = "open"
    /\ Step(w, "closing")
    /\ UNCHANGED <<data, meta, reader, refreshes, now, faults, reply, leaked>>

\* A put whose context ends may land all the same.
Upload(w) ==
    /\ writer[w].pc = "closing"
    /\ \/ /\ data' = [by |-> w, at |-> now, expires |-> writer[w].expiresAt]
          /\ Step(w, "landed") /\ UNCHANGED faults
       \/ /\ IF writer[w].cancelled THEN UNCHANGED faults ELSE Fault
          /\ Step(w, "discarded") /\ UNCHANGED data
    /\ UNCHANGED <<meta, reader, refreshes, now, reply, leaked>>

\* The companion commits the write; a write that cannot be committed must
\* remove its data object.
WriteMetaAborted(w) ==
    /\ writer[w].pc = "landed"
    /\ meta' = [tag |-> w, expires |-> writer[w].expiresAt]
    /\ Step(w, "done")
    /\ UNCHANGED <<data, reader, refreshes, now, faults, reply, leaked>>
WriteMeta(w) ==
    /\ writer[w].pc = "landed"
    /\ \/ /\ ~writer[w].cancelled
          /\ meta' = [tag |-> w, expires |-> writer[w].expiresAt]
          /\ Step(w, "done") /\ UNCHANGED faults
       \/ /\ IF writer[w].cancelled THEN UNCHANGED faults ELSE Fault
          /\ Step(w, "failed") /\ UNCHANGED meta
    /\ UNCHANGED <<data, reader, refreshes, now, reply, leaked>>

\* removeUncommitted: a stat, and then a removal of whatever is there.
StatUncommittedNever(w) ==
    /\ writer[w].pc = "failed"
    /\ Step(w, "discarded")
    /\ UNCHANGED <<data, meta, reader, refreshes, now, faults, reply, leaked>>
StatUncommitted(w) ==
    /\ writer[w].pc = "failed"
    /\ IF data # None /\ data.by = w
       THEN Step(w, "removing") ELSE Step(w, "discarded")
    /\ UNCHANGED <<data, meta, reader, refreshes, now, faults, reply, leaked>>
RemoveUncommitted(w) ==
    /\ writer[w].pc = "removing"
    /\ \/ data' = None /\ UNCHANGED <<faults, leaked>>
       \/ Fault /\ leaked' = leaked \cup {w} /\ UNCHANGED data
    /\ Step(w, "discarded")
    /\ UNCHANGED <<meta, reader, refreshes, now, reply>>

\* The writer's process dies.
Die(w) ==
    /\ writer[w].pc \in {"open", "closing", "landed", "failed", "removing"}
    /\ Fault
    /\ Step(w, "discarded")
    /\ leaked' = leaked \cup {w}
    /\ UNCHANGED <<data, meta, reader, refreshes, now, reply>>

-----------------------------------------------------------------------------
(* Readers.                                                                *)

Matches(d, m) == m # None /\ m.tag = d.by
Young(d) == now - d.at < Grace

StatObject(r) ==
    /\ reader[r].pc = "idle" /\ data # None
    /\ reader' = [reader EXCEPT ![r] = [IdleReader EXCEPT !.pc = "stat", !.data = data]]
    /\ UNCHANGED <<data, meta, writer, refreshes, now, faults, reply, leaked>>

\* statAndHeaders: a companion of another write makes a young object a miss;
\* past the grace an object is served by itself, with its own expiry.
Described(d, m) == IF Matches(d, m) THEN m ELSE [tag |-> d.by, expires |-> d.expires]
ReadMeta(r) ==
    LET d == reader[r].data
        m == Described(d, meta)
        Go(pc) == reader' = [reader EXCEPT ![r].pc = pc, ![r].meta = m]
        Refresh == {x \in {[tag |-> m.tag, expires |-> now + MaxTTL]} :
                        2 * (m.expires - now) < MaxTTL}
    IN
    /\ reader[r].pc = "stat"
    /\ CASE ~Matches(d, meta) /\ Young(d) ->
              reader' = [reader EXCEPT ![r] = IdleReader] /\ UNCHANGED refreshes
         [] (Matches(d, meta) \/ ~Young(d)) /\ now > m.expires ->
              Go("expired") /\ UNCHANGED refreshes
         [] OTHER -> Go("get") /\ refreshes' = refreshes \cup Refresh
    /\ UNCHANGED <<data, meta, writer, now, faults, reply, leaked>>

\* The body: parts of a large object are pinned to the revision that was
\* stat'ed; a small one is one unconditional get.
GetObject(r) ==
    LET d == reader[r].data IN
    /\ reader[r].pc = "get"
    /\ reply' = IF data = None \/ (d.by \in Large /\ data # d) THEN None
                ELSE [headers |-> d.by, body |-> data.by]
    /\ reader' = [reader EXCEPT ![r] = IdleReader]
    /\ UNCHANGED <<data, meta, writer, refreshes, now, faults, leaked>>

\* Delete removes the data object and then, best effort, the companion.
DeleteData(r) ==
    /\ reader[r].pc \in {"idle", "expired"}
    /\ data # None \/ reader[r].pc = "expired"
    /\ data' = None
    /\ reader' = [reader EXCEPT ![r] = [IdleReader EXCEPT !.pc = "deleting"]]
    /\ UNCHANGED <<meta, writer, refreshes, now, faults, reply, leaked>>
DeleteMeta(r) ==
    /\ reader[r].pc = "deleting"
    /\ \/ meta' = None /\ UNCHANGED faults
       \/ Fault /\ UNCHANGED meta
    /\ reader' = [reader EXCEPT ![r] = IdleReader]
    /\ UNCHANGED <<data, writer, refreshes, now, reply, leaked>>

\* Open's background refresh puts its companion over what is there by then.
PutRefresh(m) ==
    /\ m \in refreshes
    /\ meta' = m
    /\ refreshes' = refreshes \ {m}
    /\ UNCHANGED <<data, writer, reader, now, faults, reply, leaked>>

\* A commit's second put follows within the grace (s3CompanionGrace).
Prompt == \A w \in Writer :
    writer[w].pc \in {"landed", "failed", "removing"} /\ data # None /\ data.by = w
        => now + 1 - data.at < Grace
Tick ==
    /\ now < MaxClock /\ Prompt
    /\ now' = now + 1
    /\ UNCHANGED <<data, meta, writer, reader, refreshes, faults, reply, leaked>>

Next ==
    \/ \E w \in Writer :
           \/ Create(w) \/ CancelContext(w) \/ Close(w) \/ Upload(w) \/ WriteMeta(w)
           \/ StatUncommitted(w) \/ RemoveUncommitted(w) \/ Die(w)
    \/ \E r \in Reader :
           \/ StatObject(r) \/ ReadMeta(r) \/ GetObject(r)
           \/ DeleteData(r) \/ DeleteMeta(r)
    \/ \E m \in refreshes : PutRefresh(m)
    \/ Tick

Spec == Init /\ [][Next]_vars

-----------------------------------------------------------------------------
\* A write is readable past the grace although its Close failed only if its
\* own cleanup failed or its process died, which Close reports to its caller
\* in the first case.
FailedUnreadable ==
    data # None /\ ~Young(data) /\ writer[data.by].pc = "discarded" => data.by \in leaked

\* How a reader and a writer of the contract see this cache, leaked objects
\* and reads of small objects under a changing key left out.
Phase == [w \in Writer |->
    CASE writer[w].pc = "done" -> "closed"
      [] writer[w].cancelled \/ writer[w].pc \in {"failed", "removing", "discarded"} -> "discarded"
      [] writer[w].pc \in {"idle", "open"} -> "open"
      [] OTHER -> "closed"]
Visible ==
    IF /\ data # None /\ data.by \notin leaked
       /\ Matches(data, meta) \/ ~Young(data)
       /\ now <= Described(data, meta).expires
    THEN data.by ELSE None
Reply == IF reply = None \/ reply.headers \notin Large \/ reply.headers \in leaked
         THEN None ELSE IF reply.headers = reply.body THEN reply.body ELSE "torn"
=============================================================================
