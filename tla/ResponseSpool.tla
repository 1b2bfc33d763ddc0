---------------------------- MODULE ResponseSpool ---------------------------
(***************************************************************************)
(* One response, spooled to a file while it is produced, and the requests  *)
(* that follow it (strategy/git/spool.go).  owner says who keeps it: the   *)
(* spools of a repository that is being cloned (git.go serveWithSpool), or *)
(* the snapshot that is generated on a miss (snapshot.go                   *)
(* serveSnapshotWithSpool).  Both use one path for all generations.        *)
(***************************************************************************)
EXTENDS Integers

CONSTANTS
    Req,            \* requests with the same spool key
    Gens,           \* bound: generations of the spool
    Chunks,         \* writes of a body
    MaxFaults       \* bound: failed writes, disconnects and breaks upstream

VARIABLES
    owner,          \* "repo" or "snapshot"
    table,          \* the generation that new requests find, 0 if none
    last,           \* generations so far
    sp,             \* generation -> its spool
    path,           \* the inode that the path names, 0 if none
    content,        \* inode -> position -> the generation that wrote it, 0 if a hole
    req,            \* request -> [pc, g, off, fd, got, late]
    cleanup,        \* generation -> "none", "close", "collect", "wait", "delete", "remove", "done"
    crossed,        \* generations whose file another generation replaced or removed
    faults

vars == <<owner, table, last, sp, path, content, req, cleanup, crossed, faults>>

Gen == 1..Gens
NoSpool == [exists |-> FALSE, ready |-> FALSE, closed |-> FALSE, status |-> FALSE, written |-> 0,
            complete |-> FALSE, err |-> FALSE, readers |-> 0, inode |-> 0, aborted |-> FALSE]
Blank == [i \in 1..Chunks |-> 0]
Idle == [pc |-> "idle", g |-> 0, off |-> 0, fd |-> 0, got |-> Blank, late |-> FALSE]

Init ==
    /\ owner \in {"repo", "snapshot"}
    /\ table = 0 /\ last = 0 /\ path = 0 /\ crossed = {} /\ faults = 0
    /\ sp = [g \in Gen |-> NoSpool]
    /\ content = [i \in Gen |-> Blank]
    /\ req = [r \in Req |-> Idle]
    /\ cleanup = [g \in Gen |-> "none"]

Fault == faults < MaxFaults /\ faults' = faults + 1
Move(r, pc) == req' = [req EXCEPT ![r].pc = pc]
End(r, out) == req' = [req EXCEPT ![r] = [Idle EXCEPT !.pc = out]]
At(r, pc) == req[r].pc = pc
\* The error is what Failed and the followers see; both marks close the file.
MarkComplete(g) == sp' = [sp EXCEPT ![g].complete = TRUE]
MarkErrorCleanly(g) == sp' = [sp EXCEPT ![g].err = @ \/ ~sp[g].status, ![g].complete = TRUE]
MarkError(g) == sp' = [sp EXCEPT ![g].err = @ \/ ~sp[g].complete, ![g].complete = TRUE]
WriterOf(g) == \E r \in Req : req[r].g = g /\ req[r].pc \in {"create", "clone", "header", "body", "tidy"}
\* The generations that still use the file under the path.
InUse(g) == sp[g].exists /\ (cleanup[g] # "done" \/ WriterOf(g))

-----------------------------------------------------------------------------
(* Who writes and who follows.                                             *)

\* getOrCreateRepoSpools and serveSnapshotWithSpool: the set of spools, or the
\* entry, of the table or a new one.
Arrive(r) ==
    /\ At(r, "idle")
    /\ \/ /\ table # 0
          /\ req' = [req EXCEPT ![r].pc = IF owner = "repo" THEN "lookup" ELSE "follow", ![r].g = table]
          /\ UNCHANGED <<table, last>>
       \/ /\ table = 0 /\ last < Gens
          /\ table' = last + 1 /\ last' = last + 1
          /\ req' = [req EXCEPT ![r].pc = IF owner = "repo" THEN "lookup" ELSE "create",
                                ![r].g = last + 1]
    /\ UNCHANGED <<owner, sp, path, content, cleanup, crossed, faults>>

\* RepoSpools.GetOrCreate: closed is read before the mutex is taken.
Lookup(r) ==
    /\ At(r, "lookup")
    /\ IF sp[req[r].g].closed THEN End(r, "upstream") ELSE Move(r, "locked")
    /\ UNCHANGED <<owner, table, last, sp, path, content, cleanup, crossed, faults>>
Found(r) ==
    /\ At(r, "locked") /\ sp[req[r].g].exists /\ Move(r, "follow")
    /\ UNCHANGED <<owner, table, last, sp, path, content, cleanup, crossed, faults>>

Creating(r) == At(r, "create") \/ (At(r, "locked") /\ ~sp[req[r].g].exists)
\* NewResponseSpool: os.Create truncates a file that is there.
CreateFails(r) ==
    /\ Creating(r) /\ Fault
    /\ IF owner = "repo" THEN End(r, "upstream") /\ UNCHANGED <<sp, table>>
       ELSE /\ End(r, "failed") /\ table' = 0
            /\ sp' = [sp EXCEPT ![req[r].g].ready = TRUE]
    /\ UNCHANGED <<owner, last, path, content, cleanup, crossed>>
NewResponseSpool(r) ==
    LET g == req[r].g
        inode == IF path = 0 THEN g ELSE path IN
    /\ Creating(r)
    /\ sp' = [sp EXCEPT ![g].exists = TRUE, ![g].ready = TRUE, ![g].inode = inode]
    /\ path' = inode /\ content' = [content EXCEPT ![inode] = Blank]
    /\ crossed' = crossed \cup {o \in Gen \ {g} : path # 0 /\ InUse(o) /\ sp[o].inode = path}
                          \cup {o \in {g} : \E k \in Gen \ {g} : InUse(k)}
    /\ Move(r, IF owner = "repo" THEN "header" ELSE "clone")
    /\ UNCHANGED <<owner, table, last, cleanup, faults>>

-----------------------------------------------------------------------------
(* The writer: SpoolTeeWriter around the response.                         *)

\* prepareSnapshotSpool: the clone behind the snapshot fails.
CloneStep(r) ==
    /\ At(r, "clone")
    /\ \/ Move(r, "header") /\ UNCHANGED <<sp, table, faults>>
       \/ Fault /\ MarkError(req[r].g) /\ table' = 0 /\ End(r, "failed")
    /\ UNCHANGED <<owner, last, path, content, cleanup, crossed>>

\* WriteHeader: a status that is not 2xx fails the spool, not the client.
WriteHeader(r) ==
    LET g == req[r].g IN
    /\ At(r, "header") /\ Move(r, "body")
    /\ \/ sp' = [sp EXCEPT ![g].status = TRUE] /\ UNCHANGED faults
       \/ owner = "repo" /\ Fault /\ MarkError(g)
    /\ UNCHANGED <<owner, table, last, path, content, cleanup, crossed>>

\* Write: an error of the spool is sticky and does not stop the client.  An error
\* of the client ends the writer, and fails the spool unless that failed before: a
\* proxy then panics past the mark, an archive marks the error.
Write(r) ==
    LET g == req[r].g
        n == sp[g].written + 1 IN
    /\ At(r, "body") /\ req[r].off < Chunks
    /\ \/ /\ ~sp[g].err /\ sp' = [sp EXCEPT ![g].written = n]
          /\ content' = [content EXCEPT ![sp[g].inode][n] = g]
          /\ req' = [req EXCEPT ![r].off = @ + 1] /\ UNCHANGED faults
       \/ /\ ~sp[g].err /\ Fault /\ sp' = [sp EXCEPT ![g].err = TRUE]
          /\ req' = [req EXCEPT ![r].off = @ + 1] /\ UNCHANGED content
       \/ /\ sp[g].err /\ req' = [req EXCEPT ![r].off = @ + 1] /\ UNCHANGED <<sp, content, faults>>
       \/ /\ Fault /\ ~sp[g].err
          /\ sp' = [sp EXCEPT ![g].written = n, ![g].err = TRUE, ![g].complete = TRUE]
          /\ content' = [content EXCEPT ![sp[g].inode][n] = g]
          /\ IF owner = "repo" THEN End(r, "gone") ELSE Move(r, "tidy")
       \/ /\ Fault /\ sp[g].err /\ UNCHANGED content
          /\ IF owner = "repo"
             THEN sp' = [sp EXCEPT ![g].aborted = ~sp[g].complete] /\ End(r, "gone")
             ELSE MarkError(g) /\ Move(r, "tidy")
    /\ UNCHANGED <<owner, table, last, path, cleanup, crossed>>

\* serveWithSpool marks the spool complete when the proxy returns, and
\* writeSnapshotSpool when the archive is through; closing the file may fail.  A proxy whose upstream
\* breaks off panics past the mark; an archive that fails marks the error.
Finish(r) ==
    LET g == req[r].g IN
    /\ At(r, "body")
    /\ \/ /\ req[r].off = Chunks
          /\ (MarkComplete(g) /\ UNCHANGED faults) \/ (MarkError(g) /\ Fault)
          /\ IF owner = "repo" THEN End(r, "done") ELSE Move(r, "tidy")
       \/ /\ owner = "snapshot" /\ Fault /\ MarkError(g) /\ Move(r, "tidy")
       \/ /\ owner = "repo" /\ Fault /\ sp' = [sp EXCEPT ![g].aborted = ~sp[g].complete] /\ End(r, "gone")
    /\ UNCHANGED <<owner, table, last, path, content, cleanup, crossed>>
Tidy(r) ==
    /\ At(r, "tidy") /\ End(r, "done")
    /\ cleanup' = [cleanup EXCEPT ![req[r].g] = "wait"]
    /\ UNCHANGED <<owner, table, last, sp, path, content, crossed, faults>>

-----------------------------------------------------------------------------
(* The followers: ServeTo.                                                 *)

\* Waiting for the entry, and the last look at Failed before following.
Follow(r) ==
    LET g == req[r].g IN
    /\ At(r, "follow") /\ sp[g].ready
    /\ IF ~sp[g].exists \/ sp[g].err
       THEN End(r, IF owner = "repo" THEN "upstream" ELSE "direct") ELSE Move(r, "serve")
    /\ UNCHANGED <<owner, table, last, sp, path, content, cleanup, crossed, faults>>
CountReader(r) ==
    /\ At(r, "serve")
    /\ sp' = [sp EXCEPT ![req[r].g].readers = @ + 1]
    /\ req' = [req EXCEPT ![r].pc = "headers",
                          ![r].late = cleanup[req[r].g] \in {"delete", "remove", "done"}]
    /\ UNCHANGED <<owner, table, last, path, content, cleanup, crossed, faults>>
Uncount(r) == sp' = [sp EXCEPT ![req[r].g].readers = @ - 1]
AwaitHeader(r) ==
    LET g == req[r].g IN
    /\ At(r, "headers") /\ (sp[g].status \/ sp[g].err)
    /\ IF sp[g].status THEN Move(r, "open") /\ UNCHANGED sp
       ELSE Uncount(r) /\ End(r, IF owner = "repo" THEN "upstream" ELSE "direct")
    /\ UNCHANGED <<owner, table, last, path, content, cleanup, crossed, faults>>
\* os.Open, after the header went out and the mutex was released.
OpenFile(r) ==
    /\ At(r, "open")
    /\ IF path = 0 THEN Uncount(r) /\ End(r, "broken")
       ELSE req' = [req EXCEPT ![r].pc = "copy", ![r].fd = path] /\ UNCHANGED sp
    /\ UNCHANGED <<owner, table, last, path, content, cleanup, crossed, faults>>
\* A position past the end of a truncated file is read again and again.
Copy(r) ==
    LET g == req[r].g
        n == req[r].off + 1 IN
    /\ At(r, "copy")
    /\ \/ /\ req[r].off < sp[g].written
          /\ \E k \in n..Chunks : content[req[r].fd][k] # 0
          /\ req' = [req EXCEPT ![r].off = n, ![r].got[n] = content[req[r].fd][n]]
          /\ UNCHANGED <<sp, faults>>
       \/ /\ req[r].off = sp[g].written /\ sp[g].complete
          /\ Uncount(r) /\ UNCHANGED faults
          /\ IF sp[g].err THEN End(r, "broken") ELSE Move(r, "served")
       \/ Fault /\ Uncount(r) /\ End(r, "gone")
    /\ UNCHANGED <<owner, table, last, path, content, cleanup, crossed>>

-----------------------------------------------------------------------------
(* The removal of the file.                                                *)

\* cleanupSpools at the end of a clone, successful or not: RepoSpools.Close
\* marks the set closed and then collects its spools.
CleanupStart ==
    /\ owner = "repo" /\ table # 0
    /\ cleanup' = [cleanup EXCEPT ![table] = "close"] /\ table' = 0
    /\ UNCHANGED <<owner, last, sp, path, content, req, crossed, faults>>
CloseSpools(g) ==
    /\ cleanup[g] = "close" /\ cleanup' = [cleanup EXCEPT ![g] = "collect"]
    /\ sp' = [sp EXCEPT ![g].closed = TRUE]
    /\ UNCHANGED <<owner, table, last, path, content, req, crossed, faults>>
Collect(g) ==
    /\ cleanup[g] = "collect"
    /\ cleanup' = [cleanup EXCEPT ![g] = IF sp[g].exists THEN "wait" ELSE "remove"]
    /\ UNCHANGED <<owner, table, last, sp, path, content, req, crossed, faults>>
WaitForReaders(g) ==
    /\ cleanup[g] = "wait" /\ sp[g].readers = 0
    /\ cleanup' = [cleanup EXCEPT ![g] = IF owner = "repo" THEN "remove" ELSE "delete"]
    /\ UNCHANGED <<owner, table, last, sp, path, content, req, crossed, faults>>
DeleteEntry(g) ==
    /\ cleanup[g] = "delete" /\ cleanup' = [cleanup EXCEPT ![g] = "remove"]
    /\ table' = 0
    /\ UNCHANGED <<owner, last, sp, path, content, req, crossed, faults>>
RemoveAll(g) ==
    /\ cleanup[g] = "remove" /\ cleanup' = [cleanup EXCEPT ![g] = "done"]
    /\ path' = 0
    /\ crossed' = crossed \cup {o \in Gen \ {g} : InUse(o)}
    /\ UNCHANGED <<owner, table, last, sp, content, req, faults>>

Next ==
    \/ \E r \in Req : \/ Arrive(r) \/ Lookup(r) \/ Found(r) \/ CreateFails(r) \/ NewResponseSpool(r)
                      \/ CloneStep(r) \/ WriteHeader(r) \/ Write(r) \/ Finish(r) \/ Tidy(r)
                      \/ Follow(r) \/ CountReader(r) \/ AwaitHeader(r) \/ OpenFile(r) \/ Copy(r)
    \/ CleanupStart
    \/ \E g \in Gen : \/ CloseSpools(g) \/ Collect(g) \/ WaitForReaders(g) \/ DeleteEntry(g) \/ RemoveAll(g)

Spec == Init /\ [][Next]_vars

-----------------------------------------------------------------------------
\* A request that ends well after following a spool that kept its file got every
\* byte of that response: a writer that fails part way never looks complete to
\* those who follow it (spool.go ServeTo, MarkError).
FollowedWhole ==
    \A r \in Req : At(r, "served") /\ ~req[r].late /\ req[r].g \notin crossed
                   => req[r].got = [i \in 1..Chunks |-> req[r].g]

\* Once its writer is gone a spool never keeps a follower waiting, whatever went
\* wrong; only a proxy that broke off, past the mark, leaves them behind
\* (git.go:622-623, spool.go:124, 148).
FollowersReleased ==
    \A r \in Req : /\ req[r].pc \in {"headers", "copy"} /\ ~WriterOf(req[r].g)
                   /\ ~sp[req[r].g].aborted
                   => sp[req[r].g].complete /\ (sp[req[r].g].status \/ sp[req[r].g].err)

\* A follower that was counted before the readers were waited for finds the file,
\* unless another generation removed it (spool.go WaitForReaders, Close).
CountedKeepFile ==
    \A r \in Req : /\ At(r, "open") /\ ~req[r].late /\ req[r].g \notin crossed
                   => path # 0

\* Those who follow a response get all of it or an error, and get it in the end.
SpoolFaithful == FollowedWhole /\ FollowersReleased /\ CountedKeepFile
=============================================================================
