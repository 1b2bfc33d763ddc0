----------------------------- MODULE MemoryCache ----------------------------
(***************************************************************************)
(* The in-memory cache (internal/cache/memory.go): a map guarded by one    *)
(* mutex, a running total of the bytes it holds, and writers that buffer   *)
(* an object and insert it when they are closed, after evicting the        *)
(* entries that expire first if the limit would be exceeded.               *)
(*                                                                         *)
(* A key stands for a namespace and a key.  A cache handle made by         *)
(* Namespace has its own pointer to the map, so Close of the root handle   *)
(* empties the map only for the keys of the root handle.                   *)
(***************************************************************************)
EXTENDS Integers, FiniteSets, FiniteSetsExt

CONSTANTS
    Key, Root,      \* Root: the keys of the handle without a namespace
    Writer,         \* each is one Create and its Close or Abort
    Size,           \* [Writer -> bytes it has buffered by then]
    Limit, MaxTTL,
    TTLs,           \* what callers pass; 0 asks for MaxTTL
    MaxClock,       \* bound: the clock stops here
    None

VARIABLES
    entries,        \* [Key -> the entry, None if absent]
    currentSize,
    writer,         \* [Writer -> its state]
    closed,         \* Close was called on the root handle
    now,
    reply           \* the writer whose object the last Open returned, or None

vars == <<entries, currentSize, writer, closed, now, reply>>

Idle == [pc |-> "idle", key |-> None, expiresAt |-> 0, cancelled |-> FALSE]

Init ==
    /\ entries = [k \in Key |-> None]
    /\ currentSize = 0
    /\ writer = [w \in Writer |-> Idle]
    /\ closed = FALSE
    /\ now = 0
    /\ reply = None

-----------------------------------------------------------------------------
\* The entries a handle sees: a closed root handle has no map.
Gone(k) == closed /\ k \in Root
Present == {k \in Key : entries[k] # None}
SizeOf(S) == MapThenSumSet(LAMBDA k : Size[entries[k].by], S)
TotalSize == SizeOf(Present)

\* What Stat and Open find: an entry that has not expired.
Readable(k) ==
    /\ k \in Present /\ ~Gone(k)
    /\ now <= entries[k].expiresAt

Open(k) ==
    /\ reply' = IF Readable(k) THEN entries[k].by ELSE None
    /\ UNCHANGED <<entries, currentSize, writer, closed, now>>

\* Create does not cap the caller's TTL.
Create(w, k, ttl) ==
    /\ writer[w].pc = "idle"
    /\ writer' = [writer EXCEPT ![w] =
           [pc |-> "open", key |-> k, cancelled |-> FALSE,
            expiresAt |-> now + (IF ttl = 0 THEN MaxTTL ELSE ttl)]]
    /\ UNCHANGED <<entries, currentSize, closed, now, reply>>

\* The caller's context ends while the writer is open.
CancelContext(w) ==
    /\ writer[w].pc = "open" /\ ~writer[w].cancelled
    /\ writer' = [writer EXCEPT ![w].cancelled = TRUE]
    /\ UNCHANGED <<entries, currentSize, closed, now, reply>>

\* evictOldest: the entries that expire first, as few as free the space, all
\* of them if that is not enough; entries that expire together come in the
\* order of the map.
FirstToExpire(S) ==
    \A k \in S, l \in Present \ S : entries[k].expiresAt <= entries[l].expiresAt
LastOf(S) == {k \in S : \A l \in S : entries[l].expiresAt <= entries[k].expiresAt}
Evictable(needed) ==
    {S \in SUBSET Present :
        /\ FirstToExpire(S)
        /\ SizeOf(S) >= needed \/ S = Present
        /\ \E k \in LastOf(S) : SizeOf(S \ {k}) < needed}

\* Close of a writer whose context is live, under the mutex.  The size of a
\* replaced entry is taken off the total even if eviction took it off too.
\* The first assignment of a namespace into a closed root handle's nil map
\* panics.
Insert(w) ==
    LET k == writer[w].key
        old == IF k \in Present THEN Size[entries[k].by] ELSE 0
        needed == currentSize - old + Size[w] - Limit
    IN  \E S \in IF Limit > 0 /\ needed > 0 /\ Present # {} THEN Evictable(needed) ELSE {{}} :
            /\ entries' = [l \in Key |->
                   IF l = k THEN [by |-> w, expiresAt |-> writer[w].expiresAt]
                   ELSE IF l \in S THEN None ELSE entries[l]]
            /\ currentSize' = currentSize - SizeOf(S) - old + Size[w]
Commit(w) ==
    /\ writer[w].pc = "open" /\ ~writer[w].cancelled
    /\ ~Gone(writer[w].key)
    /\ Insert(w)
    /\ writer' = [writer EXCEPT ![w] = [Idle EXCEPT !.pc = "done"]]
    /\ UNCHANGED <<closed, now, reply>>

\* Abort, or Close under a cancelled context; or the panic.
Discard(w) ==
    /\ writer[w].pc = "open"
    /\ writer' = [writer EXCEPT ![w] = [Idle EXCEPT !.pc =
           IF ~writer[w].cancelled /\ Gone(writer[w].key) THEN "panicked" ELSE "discarded"]]
    /\ UNCHANGED <<entries, currentSize, closed, now, reply>>

\* Delete, and Invalidate, which treats a missing entry as success.
DeleteUncounted(k) ==
    /\ k \in Present /\ ~Gone(k)
    /\ entries' = [entries EXCEPT ![k] = None]
    /\ UNCHANGED <<currentSize, writer, closed, now, reply>>
Delete(k) ==
    /\ k \in Present /\ ~Gone(k)
    /\ entries' = [entries EXCEPT ![k] = None]
    /\ currentSize' = currentSize - Size[entries[k].by]
    /\ UNCHANGED <<writer, closed, now, reply>>

Close ==
    /\ ~closed
    /\ closed' = TRUE
    /\ UNCHANGED <<entries, currentSize, writer, now, reply>>

Tick ==
    /\ now < MaxClock
    /\ now' = now + 1
    /\ UNCHANGED <<entries, currentSize, writer, closed, reply>>

Next ==
    \/ \E k \in Key : Open(k) \/ Delete(k)
    \/ \E w \in Writer, k \in Key, ttl \in TTLs : Create(w, k, ttl)
    \/ \E w \in Writer : CancelContext(w) \/ Commit(w) \/ Discard(w)
    \/ Close
    \/ Tick

Spec == Init /\ [][Next]_vars

-----------------------------------------------------------------------------
\* The limit holds for the total the cache keeps: after evictOldest the total
\* is within it, unless the object that was just inserted is all that is left.
LimitKept == currentSize <= Limit \/ Cardinality(Present) = 1

\* The total never claims more than the map holds, so the cache never evicts
\* for bytes it does not have: Delete, eviction and replacement take off at
\* least what they remove.
NeverOvercounts == currentSize <= TotalSize

\* The total that decides about evictions is sound in both directions (Close of
\* a writer, evictOldest, Delete).
MemoryAccounted == LimitKept /\ NeverOvercounts

\* How a reader and a writer of the contract see this cache.
Phase == [w \in Writer |->
    CASE writer[w].pc = "done" -> "closed"
      [] writer[w].pc \in {"discarded", "panicked"} \/ writer[w].cancelled -> "discarded"
      [] OTHER -> "open"]
Visible == [k \in Key |-> IF Readable(k) THEN entries[k].by ELSE None]
=============================================================================
