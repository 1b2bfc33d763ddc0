------------------------------ MODULE MCCaches ------------------------------
(***************************************************************************)
(* The memory, disk and S3 caches, each of them checked by itself and      *)
(* against the contract they share.  focus is the one that runs; the       *)
(* others stay in their initial states.                                    *)
(***************************************************************************)
EXTENDS TLC

CONSTANTS
    k1, k2, w1, w2, w3, None,
    MemLimit, MemClock,
    DiskLimit, DiskClock, DiskCrashes,
    S3Clock, S3Faults

VARIABLES
    focus,
    entries, currentSize, memWriter, closed, memNow, memReply,
    file, ttl, hdr, temps, size, diskWriter, lock, diskReader, evictor, diskNow, crashes,
    diskReply, cut, overlapped,
    data, meta, s3Writer, s3Reader, refreshes, s3Now, faults, s3Reply, leaked

memVars == <<entries, currentSize, memWriter, closed, memNow, memReply>>
diskVars == <<file, ttl, hdr, temps, size, diskWriter, lock, diskReader, evictor, diskNow,
              crashes, diskReply, cut, overlapped>>
s3Vars == <<data, meta, s3Writer, s3Reader, refreshes, s3Now, faults, s3Reply, leaked>>
vars == <<focus, memVars, diskVars, s3Vars>>

Writer == {w1, w2}

\* Three writers, so that an insertion finds two entries to evict or replace.
Mem == INSTANCE MemoryCache WITH
           Key <- {"rootKey", "otherKey"}, Root <- {"rootKey"}, Writer <- {w1, w2, w3},
           Size <- (w1 :> 1 @@ w2 :> 1 @@ w3 :> 2), Limit <- MemLimit, MaxTTL <- 0, TTLs <- {0, 1}, MaxClock <- MemClock,
           writer <- memWriter, now <- memNow, reply <- memReply
Disk == INSTANCE DiskCache WITH
           Key <- {k1, k2}, Size <- (w1 :> 1 @@ w2 :> 2), Limit <- DiskLimit,
           MaxTTL <- 0, TTLs <- {0}, MaxClock <- DiskClock, MaxCrashes <- DiskCrashes,
           writer <- diskWriter, reader <- diskReader, now <- diskNow, reply <- diskReply
S3 == INSTANCE S3Cache WITH
           Large <- Writer, Reader <- {"reader"}, MaxTTL <- 1, Grace <- 1,
           MaxClock <- S3Clock, MaxFaults <- S3Faults,
           writer <- s3Writer, reader <- s3Reader, now <- s3Now, reply <- s3Reply

Init ==
    /\ focus \in {"mem", "disk", "s3"}
    /\ Mem!Init /\ Disk!Init /\ S3!Init

Next ==
    \/ focus = "mem" /\ Mem!Next /\ UNCHANGED <<focus, diskVars, s3Vars>>
    \/ focus = "disk" /\ Disk!Next /\ UNCHANGED <<focus, memVars, s3Vars>>
    \/ focus = "s3" /\ S3!Next /\ UNCHANGED <<focus, memVars, diskVars>>

Spec == Init /\ [][Next]_vars

KeySymmetry == Permutations({k1, k2})

-----------------------------------------------------------------------------
(* The properties of the components, and of all of them together.          *)

\* MemoryCache: the total stays within the limit and never overcounts.
MemoryAccounted == Mem!MemoryAccounted

\* DiskCache: the total is what is on disk, and every file can be found.
DiskAccounted == Disk!DiskAccounted

\* S3Cache: a failed write is not readable.
FailedUnreadable == S3!FailedUnreadable

MemoryContract == INSTANCE CacheContract WITH
    Key <- {"rootKey", "otherKey"}, Write <- {w1, w2, w3},
    phase <- Mem!Phase, visible <- Mem!Visible, reply <- memReply
DiskContract == INSTANCE CacheContract WITH
    Key <- {k1, k2}, Write <- Writer,
    phase <- Disk!Phase, visible <- Disk!Visible, reply <- diskReply
S3Contract == INSTANCE CacheContract WITH
    Key <- {"key"}, Write <- Writer,
    phase <- S3!Phase, visible <- [k \in {"key"} |-> S3!Visible], reply <- S3!Reply

\* The memory, the disk and the S3 cache implement the contract of Cache:
\* nothing is readable before its writer is closed, a write that was aborted or
\* cancelled before its Close never is, and an answer is one write's.
ImplementContract == MemoryContract!Spec /\ DiskContract!Spec /\ S3Contract!Spec
=============================================================================
