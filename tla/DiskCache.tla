------------------------------ MODULE DiskCache -----------------------------
(***************************************************************************)
(* The disk cache (internal/cache/disk.go, disk_metadb.go): one file for   *)
(* each key, its expiry and headers in a bbolt database, a running total   *)
(* of the bytes on disk, and an eviction loop.  Commits, deletions and     *)
(* reads of a key exclude each other by a striped lock; the eviction loop  *)
(* takes no lock.                                                          *)
(*                                                                         *)
(* A file is the writer that wrote it.  A bbolt transaction is one step.   *)
(***************************************************************************)
EXTENDS Integers, FiniteSets, FiniteSetsExt

CONSTANTS
    Key, Writer,
    Size,           \* [Writer -> bytes it writes]
    Limit, MaxTTL,
    TTLs,           \* what callers pass; 0 asks for MaxTTL
    MaxClock,       \* bound: the clock stops here
    MaxCrashes,     \* bound: process crashes, each followed by NewDisk
    None

VARIABLES
    file,           \* [Key -> the writer whose file is at the key's path, or None]
    ttl, hdr,       \* the two buckets: [Key -> expiry or None], [Key -> writer or None]
    temps,          \* writers whose temporary file exists
    size,           \* d.size
    writer,         \* [Writer -> its state]
    lock,           \* [Key -> None, or who holds the key's lock]
    reader,         \* one Open or Stat
    evictor,        \* the eviction loop
    now, crashes,
    reply,          \* what the last Open returned
    cut,            \* history: keys whose commit a crash cut between its two stores
    overlapped      \* history: eviction overlapped a commit or deletion of a key it saw

diskVars == <<file, ttl, hdr, temps, size>>
vars == <<diskVars, writer, lock, reader, evictor, now, crashes, reply, cut, overlapped>>

Torn == "torn"
Reader == "reader"
IdleWriter == [pc |-> "idle", key |-> None, mtime |-> 0, expiresAt |-> 0, cancelled |-> FALSE]
IdleReader == [pc |-> "idle", key |-> None, body |-> None, expiresAt |-> 0]
IdleEvictor == [pc |-> "idle", todo |-> {}, at |-> None, size |-> 0,
                expiry |-> [k \in Key |-> None], left |-> {}, dead |-> {}, seen |-> {}]

SumOf(ws) == MapThenSumSet(LAMBDA w : Size[w], ws)
FileSize(k) == IF file[k] = None THEN 0 ELSE Size[file[k]]
OnDisk == MapThenSumSet(FileSize, Key)

Init ==
    /\ file = [k \in Key |-> None]
    /\ ttl = [k \in Key |-> None] /\ hdr = [k \in Key |-> None]
    /\ temps = {} /\ size = 0
    /\ writer = [w \in Writer |-> IdleWriter]
    /\ lock = [k \in Key |-> None]
    /\ reader = IdleReader /\ evictor = IdleEvictor
    /\ now = 0 /\ crashes = 0 /\ reply = None
    /\ cut = {} /\ overlapped = FALSE

-----------------------------------------------------------------------------
(* Writers.                                                                *)

Committing(w) == writer[w].pc \in {"counted", "renamed", "stored"}
Replacing(w, k) == writer[w].key = k /\ writer[w].pc \in {"counted", "renamed"}
Ended(w, pc) == [IdleWriter EXCEPT !.pc = pc, !.mtime = writer[w].mtime]
Touch(k) == overlapped' = (overlapped \/ k \in evictor.seen)

Create(w, k, t) ==
    /\ writer[w].pc = "idle"
    /\ temps' = temps \cup {w}
    /\ writer' = [writer EXCEPT ![w] =
           [pc |-> "open", key |-> k, mtime |-> now, cancelled |-> FALSE,
            expiresAt |-> now + (IF t > MaxTTL \/ t = 0 THEN MaxTTL ELSE t)]]
    /\ UNCHANGED <<file, ttl, hdr, size, lock, reader, evictor, now, crashes, reply, cut, overlapped>>

CancelContext(w) ==
    /\ writer[w].pc = "open" /\ ~writer[w].cancelled
    /\ writer' = [writer EXCEPT ![w].cancelled = TRUE]
    /\ UNCHANGED <<diskVars, lock, reader, evictor, now, crashes, reply, cut, overlapped>>

\* Close looks at the context once, and Abort cancels it first.
CheckContext(w) ==
    /\ writer[w].pc = "open"
    /\ writer' = [writer EXCEPT ![w] = IF writer[w].cancelled THEN Ended(w, "discarded")
                                       ELSE [writer[w] EXCEPT !.pc = "closing"]]
    /\ temps' = IF writer[w].cancelled THEN temps \ {w} ELSE temps
    /\ UNCHANGED <<file, ttl, hdr, size, lock, reader, evictor, now, crashes, reply, cut, overlapped>>

\* commitLocked: under the key's lock, the replaced file is taken off the
\* total, the temporary file takes its place, and the metadata follows.
CountReplaced(w) ==
    LET k == writer[w].key IN
    /\ writer[w].pc = "closing" /\ lock[k] = None
    /\ lock' = [lock EXCEPT ![k] = w]
    /\ size' = size - FileSize(k)
    /\ writer' = [writer EXCEPT ![w].pc = "counted"]
    /\ Touch(k)
    /\ UNCHANGED <<file, ttl, hdr, temps, reader, evictor, now, crashes, reply, cut>>

Rename(w) ==
    LET k == writer[w].key IN
    /\ writer[w].pc = "counted"
    /\ file' = [file EXCEPT ![k] = w]
    /\ temps' = temps \ {w}
    /\ writer' = [writer EXCEPT ![w].pc = "renamed"]
    /\ Touch(k)
    /\ UNCHANGED <<ttl, hdr, size, lock, reader, evictor, now, crashes, reply, cut>>

\* db.set writes both buckets in one transaction; if it fails the file goes.
StoreMetaUnchecked(w) ==
    LET k == writer[w].key IN
    /\ writer[w].pc = "renamed"
    /\ \/ ttl' = [ttl EXCEPT ![k] = writer[w].expiresAt] /\ hdr' = [hdr EXCEPT ![k] = w]
       \/ UNCHANGED <<ttl, hdr>>
    /\ writer' = [writer EXCEPT ![w].pc = "stored"]
    /\ lock' = [lock EXCEPT ![k] = None]
    /\ cut' = cut \ {k}
    /\ Touch(k)
    /\ UNCHANGED <<file, temps, size, reader, evictor, now, crashes, reply>>
StoreMeta(w) ==
    LET k == writer[w].key IN
    /\ writer[w].pc = "renamed"
    /\ \/ /\ ttl' = [ttl EXCEPT ![k] = writer[w].expiresAt]
          /\ hdr' = [hdr EXCEPT ![k] = w]
          /\ writer' = [writer EXCEPT ![w].pc = "stored"]
          /\ UNCHANGED file
       \/ /\ file' = [file EXCEPT ![k] = None]
          /\ writer' = [writer EXCEPT ![w] = Ended(w, "discarded")]
          /\ UNCHANGED <<ttl, hdr>>
    /\ lock' = [lock EXCEPT ![k] = None]
    /\ cut' = cut \ {k}
    /\ Touch(k)
    /\ UNCHANGED <<temps, size, reader, evictor, now, crashes, reply>>

\* The bytes are added after the lock is released.
AddSize(w) ==
    /\ writer[w].pc = "stored"
    /\ size' = size + Size[w]
    /\ writer' = [writer EXCEPT ![w] = Ended(w, "done")]
    /\ UNCHANGED <<file, ttl, hdr, temps, lock, reader, evictor, now, crashes, reply, cut, overlapped>>

-----------------------------------------------------------------------------
(* Deletion and reads.                                                     *)

\* Under the lock: the file, then its metadata, then the total.  A missing
\* file is an error that leaves the metadata alone.
Delete(k) ==
    /\ lock[k] = None /\ file[k] # None
    /\ file' = [file EXCEPT ![k] = None]
    /\ ttl' = [ttl EXCEPT ![k] = None] /\ hdr' = [hdr EXCEPT ![k] = None]
    /\ size' = size - FileSize(k)
    /\ cut' = cut \ {k}
    /\ Touch(k)
    /\ UNCHANGED <<temps, writer, lock, evictor, now, crashes, reply>>
DeleteCall(k) == Delete(k) /\ UNCHANGED reader

\* openLocked: the file is opened under the read lock,
OpenFile(k) ==
    /\ reader.pc = "idle" /\ lock[k] = None
    /\ reply' = None
    /\ IF file[k] = None
       THEN UNCHANGED <<reader, lock>>
       ELSE /\ reader' = [IdleReader EXCEPT !.pc = "opened", !.key = k, !.body = file[k]]
            /\ lock' = [lock EXCEPT ![k] = Reader]
    /\ UNCHANGED <<diskVars, writer, evictor, now, crashes, cut, overlapped>>

\* its expiry and headers are read, and the answer is settled,
ReadMeta ==
    LET k == reader.key IN
    /\ reader.pc = "opened"
    /\ CASE ttl[k] = None \/ (now <= ttl[k] /\ hdr[k] = None) ->
              reader' = IdleReader /\ lock' = [lock EXCEPT ![k] = None] /\ UNCHANGED reply
         [] ttl[k] # None /\ now > ttl[k] ->
              /\ reader' = [reader EXCEPT !.pc = "expired"]
              /\ lock' = [lock EXCEPT ![k] = None] /\ UNCHANGED reply
         [] OTHER ->
              /\ reader' = [reader EXCEPT !.pc = "read", !.expiresAt = ttl[k],
                                          !.body = IF @ = hdr[k] THEN @ ELSE Torn]
              /\ UNCHANGED <<lock, reply>>
    /\ UNCHANGED <<diskVars, writer, evictor, now, crashes, cut, overlapped>>

\* and the expiry is written back, even for an entry evicted meanwhile.
RefreshTTL ==
    LET k == reader.key IN
    /\ reader.pc = "read"
    /\ ttl' = [ttl EXCEPT ![k] = now + Min({reader.expiresAt - now, MaxTTL})]
    /\ lock' = [lock EXCEPT ![k] = None]
    /\ reply' = IF k \in cut THEN None ELSE reader.body
    /\ reader' = IdleReader
    /\ UNCHANGED <<file, hdr, temps, size, writer, evictor, now, crashes, cut, overlapped>>

\* Stat and Open of an expired entry delete what is there by then.
DeleteExpired ==
    /\ reader.pc = "expired"
    /\ reader' = IdleReader
    /\ \/ Delete(reader.key)
       \/ /\ lock[reader.key] = None /\ file[reader.key] = None
          /\ UNCHANGED <<diskVars, writer, lock, evictor, now, crashes, reply, cut, overlapped>>

Stat(k) ==
    /\ reader.pc = "idle"
    /\ file[k] # None /\ ttl[k] # None /\ now > ttl[k]
    /\ reader' = [IdleReader EXCEPT !.pc = "expired", !.key = k]
    /\ UNCHANGED <<diskVars, writer, lock, evictor, now, crashes, reply, cut, overlapped>>

-----------------------------------------------------------------------------
(* The eviction loop: started by its ticker, or by a writer's Close.       *)

EvictWalk ==
    /\ evictor.pc = "idle"
    /\ evictor' = [IdleEvictor EXCEPT !.pc = "walk", !.expiry = ttl,
                                      !.todo = {k \in Key : ttl[k] # None}]
    /\ UNCHANGED <<diskVars, writer, lock, reader, now, crashes, reply, cut, overlapped>>

Visited(k) == [evictor EXCEPT !.todo = @ \ {k}, !.seen = @ \cup {k}]
EvictStat(k) ==
    /\ evictor.pc = "walk" /\ k \in evictor.todo
    /\ evictor' =
           CASE file[k] = None -> [Visited(k) EXCEPT !.dead = @ \cup {k}]
             [] file[k] # None /\ now > evictor.expiry[k] ->
                    [Visited(k) EXCEPT !.pc = "expire", !.at = k, !.size = FileSize(k)]
             [] OTHER -> [Visited(k) EXCEPT !.left = @ \cup {[key |-> k, by |-> file[k]]}]
    /\ overlapped' = (overlapped \/ \E w \in Writer : Replacing(w, k))
    /\ UNCHANGED <<diskVars, writer, lock, reader, now, crashes, reply, cut>>

RemoveExpired ==
    LET k == evictor.at IN
    /\ evictor.pc = "expire"
    /\ file' = [file EXCEPT ![k] = None]
    /\ size' = size - evictor.size
    /\ evictor' = [evictor EXCEPT !.pc = "walk", !.dead = @ \cup {k}]
    /\ UNCHANGED <<ttl, hdr, temps, writer, lock, reader, now, crashes, reply, cut, overlapped>>

\* deleteExpiredEntries, in one transaction, whatever the keys hold by now.
Forget(ks) ==
    /\ ttl' = [k \in Key |-> IF k \in ks THEN None ELSE ttl[k]]
    /\ hdr' = [k \in Key |-> IF k \in ks THEN None ELSE hdr[k]]
EvictExpiredMeta ==
    /\ evictor.pc = "walk" /\ evictor.todo = {}
    /\ Forget(evictor.dead)
    /\ evictor' = [evictor EXCEPT !.pc = "size", !.dead = {}]
    /\ UNCHANGED <<file, temps, size, writer, lock, reader, now, crashes, reply, cut, overlapped>>

\* evictBySize: while the total is over the limit, the file with the oldest
\* modification time; a file's time is that of the write that made it.
Older(f) == \A g \in evictor.left : writer[f.by].mtime <= writer[g.by].mtime
EvictOldest(f) ==
    /\ evictor.pc = "size" /\ size > Limit
    /\ f \in evictor.left /\ Older(f)
    /\ file' = [file EXCEPT ![f.key] = None]
    /\ size' = size - Size[f.by]
    /\ evictor' = [evictor EXCEPT !.left = @ \ {f}, !.dead = @ \cup {f.key}]
    /\ UNCHANGED <<ttl, hdr, temps, writer, lock, reader, now, crashes, reply, cut, overlapped>>

EvictDone ==
    /\ evictor.pc = "size" /\ (size <= Limit \/ evictor.left = {})
    /\ Forget(evictor.dead)
    /\ evictor' = IdleEvictor
    /\ UNCHANGED <<file, temps, size, writer, lock, reader, now, crashes, reply, cut, overlapped>>

-----------------------------------------------------------------------------
\* The process dies; NewDisk opens the database and adds up every file under
\* the root, the temporary files of dead writers included.
Crash ==
    /\ crashes < MaxCrashes
    /\ crashes' = crashes + 1
    /\ cut' = cut \cup {writer[w].key : w \in {v \in Writer : writer[v].pc = "renamed"}}
    /\ writer' = [w \in Writer |->
           IF writer[w].pc \in {"idle", "done", "discarded"} THEN writer[w]
           ELSE Ended(w, IF writer[w].pc \in {"renamed", "stored"} THEN "done" ELSE "discarded")]
    /\ size' = OnDisk + SumOf(temps)
    /\ lock' = [k \in Key |-> None]
    /\ reader' = IdleReader /\ evictor' = IdleEvictor
    /\ reply' = None
    /\ UNCHANGED <<file, ttl, hdr, temps, now, overlapped>>

Tick ==
    /\ now < MaxClock
    /\ now' = now + 1
    /\ UNCHANGED <<diskVars, writer, lock, reader, evictor, crashes, reply, cut, overlapped>>

Next ==
    \/ \E w \in Writer, k \in Key, t \in TTLs : Create(w, k, t)
    \/ \E w \in Writer : \/ CancelContext(w) \/ CheckContext(w) \/ CountReplaced(w)
                         \/ Rename(w) \/ StoreMeta(w) \/ AddSize(w)
    \/ \E k \in Key : OpenFile(k) \/ Stat(k) \/ DeleteCall(k) \/ EvictStat(k)
    \/ ReadMeta \/ RefreshTTL \/ DeleteExpired
    \/ EvictWalk \/ RemoveExpired \/ EvictExpiredMeta \/ EvictDone
    \/ \E f \in evictor.left : EvictOldest(f)
    \/ Crash \/ Tick

Spec == Init /\ [][Next]_vars

-----------------------------------------------------------------------------
\* No commit and no eviction pass is under way.
Quiet == evictor.pc = "idle" /\ \A w \in Writer : ~Committing(w)

\* The total is what is on disk, counting the temporary files that a crashed
\* process left behind, as long as no eviction pass overlapped a commit or a
\* deletion of a key it had looked at: the loop takes no lock.
SizeAccounted ==
    Quiet /\ ~overlapped =>
        size = OnDisk + SumOf({w \in temps : writer[w].pc = "discarded"})

\* Every file has its metadata, without which it can be neither read nor
\* evicted, unless a crash cut its commit or an eviction pass overlapped it.
FilesTracked ==
    Quiet /\ ~overlapped =>
        \A k \in Key : file[k] # None /\ ttl[k] = None => k \in cut

\* Commits, evictions, deletions and restarts leave nothing on disk that the
\* cache does not count or cannot find.
DiskAccounted == SizeAccounted /\ FilesTracked

\* How a reader and a writer of the contract see this cache: an entry is
\* readable when nobody holds its lock for writing.
Phase == [w \in Writer |->
    CASE writer[w].pc = "discarded" \/ (writer[w].pc = "open" /\ writer[w].cancelled) -> "discarded"
      [] writer[w].pc \in {"idle", "open"} -> "open"
      [] OTHER -> "closed"]
Visible == [k \in Key |->
    IF /\ lock[k] \in {None, Reader} /\ k \notin cut
       /\ file[k] # None /\ hdr[k] # None /\ ttl[k] # None /\ now <= ttl[k]
    THEN IF file[k] = hdr[k] THEN file[k] ELSE Torn
    ELSE None]
=============================================================================
