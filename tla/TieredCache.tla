----------------------------- MODULE TieredCache ----------------------------
(***************************************************************************)
(* The tiered cache (internal/cache/tiered.go) of several replicas, for    *)
(* one key: a local tier 0 in each, one shared authoritative tier, and the *)
(* map of current ETags that the replicas share through the metadata       *)
(* store.                                                                  *)
(*                                                                         *)
(* A version is the writer that made it, and stands for its ETag too.  A   *)
(* tier's operation is atomic (CacheContract).  The metadata store shows a *)
(* replica its own operations at once and those of others later, all in    *)
(* one order (MetadataJournal).  A backfill (Backfill) that is not         *)
(* abandoned commits the version that its reader opened.                   *)
(***************************************************************************)
EXTENDS Integers, Sequences, FiniteSetsExt, Functions

CONSTANTS
    Replica,
    Writer, At,     \* At: [Writer -> the replica it writes through]
    Kind,           \* kinds of request, see Probe
    Reading,        \* the replicas that serve requests
    MaxFaults,      \* bound: failing tier operations, Deletes, Invalidates and losses
                    \* of the shared object
    MaxEvents,      \* bound: these and requests together
    None

VARIABLES
    local, shared,  \* [Replica -> version or None], version or None
    log, seen,      \* the ETag operations in order; how many each replica has applied
    writer,         \* [Writer -> its state]
    open,           \* [Replica -> its Open or Stat]
    fills,          \* [Replica -> versions whose backfill has yet to commit]
    heal,           \* [Replica -> its ranged heal]
    deleter,        \* [Replica -> the steps its Delete has yet to take]
    opens, faults,
    unordered,      \* history: two writes overlapped, or the key was deleted
    disturbed,      \* history: so they did, or a tier failed under a write, or
                    \* the shared object was lost
    order,          \* history: the versions in the order the shared tier took them
    held, floor     \* history, per replica: the shared tier has held the version its
                    \* request wants since it began; the ETag it knew when it began

tierVars == <<local, shared, log, seen>>
boundVars == <<opens, faults>>
historyVars == <<order, held, floor>>
vars == <<tierVars, writer, open, fills, heal, deleter, boundVars, unordered, disturbed, historyVars>>

Tiers == {"local", "shared"}
IdleOpen == [pc |-> "idle", kind |-> "get", want |-> None, got |-> None, rejected |-> FALSE,
             fallback |-> None, stale |-> FALSE, reply |-> None]
IdleHeal == [pc |-> "idle", want |-> None]

Init ==
    /\ local = [r \in Replica |-> None] /\ shared = None
    /\ log = <<>> /\ seen = [r \in Replica |-> 0]
    /\ writer = [w \in Writer |-> [pc |-> "idle", replace |-> FALSE, todo |-> {}, failed |-> FALSE]]
    /\ open = [r \in Replica |-> IdleOpen]
    /\ fills = [r \in Replica |-> {}]
    /\ heal = [r \in Replica |-> IdleHeal]
    /\ deleter = [r \in Replica |-> {}]
    /\ opens = 0 /\ faults = 0
    /\ unordered = FALSE /\ disturbed = FALSE
    /\ order = <<>> /\ held = [r \in Replica |-> FALSE] /\ floor = [r \in Replica |-> None]

-----------------------------------------------------------------------------
\* etags.Get: the last operation that the replica has applied.
Applied(r) == {i \in 1..Len(log) : i <= seen[r] \/ log[i].by = r}
ETag(r) == IF Applied(r) = {} THEN None ELSE log[Max(Applied(r))].etag
Stale(r, v) == ETag(r) # None /\ ETag(r) # v

\* The metadata store delivers the next operation to a replica.
Learn(r) ==
    /\ seen[r] < Len(log)
    /\ seen' = [seen EXCEPT ![r] = @ + 1]
    /\ UNCHANGED <<local, shared, log, writer, open, fills, heal, deleter, boundVars, unordered, disturbed>>

Fault == faults < MaxFaults /\ opens + faults < MaxEvents /\ faults' = faults + 1

-----------------------------------------------------------------------------
(* Create, and the tieredWriter.                                           *)

Busy(w) == writer[w].pc \in {"open", "closing", "publish"}

\* replacementETag asks the last tier whether this write replaces a version.
\* When a tier fails to create its writer, both the error and the group of
\* writers may be ready: Create returns either, the group with a nil writer
\* ("broken").
Create(w) ==
    /\ writer[w].pc = "idle"
    /\ \/ /\ writer' = [writer EXCEPT ![w] = [pc |-> "open", replace |-> shared \notin {None, w},
                                              todo |-> Tiers, failed |-> FALSE]]
          /\ unordered' = (unordered \/ \E v \in Writer : Busy(v))
          /\ disturbed' = (disturbed \/ unordered')
          /\ UNCHANGED faults
       \/ /\ Fault
          /\ \E pc \in {"done", "broken"} : writer' = [writer EXCEPT ![w].pc = pc]
          /\ UNCHANGED <<unordered, disturbed>>
    /\ UNCHANGED <<tierVars, open, fills, heal, deleter, opens>>

\* Abort, or a cancelled context: every tier discards.
Abort(w) ==
    /\ writer[w].pc = "open"
    /\ writer' = [writer EXCEPT ![w].pc = "done"]
    /\ UNCHANGED <<tierVars, open, fills, heal, deleter, boundVars, unordered, disturbed>>

\* Close closes the tiers in parallel, and each commits or fails by itself.
CloseTier(w, t) ==
    LET failed == writer[w].failed \/ faults' > faults IN
    /\ writer[w].pc \in {"open", "closing"} /\ t \in writer[w].todo
    /\ \/ /\ IF t = "shared"
             THEN shared' = w /\ UNCHANGED local
             ELSE local' = [local EXCEPT ![At[w]] = w] /\ UNCHANGED shared
          /\ UNCHANGED <<faults, disturbed>>
       \/ Fault /\ disturbed' = TRUE /\ UNCHANGED <<local, shared>>
    /\ writer' = [writer EXCEPT ![w].todo = @ \ {t}, ![w].failed = failed,
                                ![w].pc = IF writer[w].todo = {t} THEN "publish" ELSE "closing"]
    /\ UNCHANGED <<log, seen, open, fills, heal, deleter, opens, unordered>>

\* The ETag is published after all tiers have committed a replacement.
PublishNever(w) ==
    /\ writer[w].pc = "publish"
    /\ writer' = [writer EXCEPT ![w].pc = "done"]
    /\ UNCHANGED <<tierVars, open, fills, heal, deleter, boundVars, unordered, disturbed>>
Publish(w) ==
    /\ writer[w].pc = "publish"
    /\ log' = IF writer[w].replace /\ ~writer[w].failed
              THEN Append(log, [by |-> At[w], etag |-> w]) ELSE log
    /\ writer' = [writer EXCEPT ![w].pc = "done"]
    /\ UNCHANGED <<local, shared, seen, open, fills, heal, deleter, boundVars, unordered, disturbed>>

-----------------------------------------------------------------------------
(* Delete, Invalidate, and the shared tier's own expiry.                   *)

\* All tiers at once; the ETag entry goes only if no tier reported an error,
\* and a local tier without the object reports one.
DeleteBegin(r) ==
    /\ deleter[r] = {} /\ Fault
    /\ unordered' = TRUE /\ disturbed' = TRUE
    /\ deleter' = [deleter EXCEPT ![r] = Tiers \cup {"etag"}]
    /\ UNCHANGED <<tierVars, writer, open, fills, heal, opens>>
DeleteTier(r, t) ==
    /\ t \in deleter[r]
    /\ \/ t = "shared" /\ shared' = None /\ UNCHANGED <<local, log>>
          /\ deleter' = [deleter EXCEPT ![r] = @ \ {t}]
       \/ t = "local" /\ local' = [local EXCEPT ![r] = None] /\ UNCHANGED <<shared, log>>
          /\ deleter' = [deleter EXCEPT ![r] = @ \ (IF local[r] = None THEN {t, "etag"} ELSE {t})]
       \/ t = "etag" /\ deleter[r] = {"etag"}
          /\ log' = Append(log, [by |-> r, etag |-> None]) /\ UNCHANGED <<local, shared>>
          /\ deleter' = [deleter EXCEPT ![r] = {}]
    /\ UNCHANGED <<seen, writer, open, fills, heal, boundVars, unordered, disturbed>>

Invalidate(r) ==
    /\ local[r] # None /\ Fault
    /\ local' = [local EXCEPT ![r] = None]
    /\ UNCHANGED <<shared, log, seen, writer, open, fills, heal, deleter, opens, unordered, disturbed>>

LoseShared ==
    /\ shared # None /\ Fault
    /\ shared' = None /\ disturbed' = TRUE
    /\ UNCHANGED <<local, log, seen, writer, open, fills, heal, deleter, opens, unordered>>

-----------------------------------------------------------------------------
(* Open and Stat.                                                          *)

\* What a tier that holds v answers: get, a ranged get pinned by If-Match
\* ("range"), If-Match, If-None-Match, a range under If-Range; "head" is a Stat
\* under If-None-Match.
Probe(v, o) ==
    CASE v = None -> "missing"
      [] v # None /\ o.kind \in {"match", "range"} /\ v # o.want -> "precondition"
      [] v # None /\ o.kind \in {"nonematch", "head"} /\ v = o.want -> "notmodified"
      [] v # None /\ o.kind = "ifrange" /\ v # o.want -> "othermatch"
      [] OTHER -> "hit"
Pinned(o) == o.kind \in {"match", "range", "ifrange"}

Begin(r, kind, want) ==
    /\ r \in Reading /\ open[r].pc = "idle" /\ opens + faults < MaxEvents
    /\ kind = "get" <=> want = None
    /\ opens' = opens + 1
    /\ open' = [open EXCEPT ![r] = [IdleOpen EXCEPT !.pc = "local", !.kind = kind, !.want = want]]
    /\ UNCHANGED <<tierVars, writer, fills, heal, deleter, faults, unordered, disturbed>>

Reply(r, answer) == [open[r] EXCEPT !.pc = "idle", !.reply = answer]

\* Tier 0: a hard error is final, a miss or a failed If-Match is not.
ProbeLocal(r) ==
    LET o == open[r]
        p == Probe(local[r], o)
    IN
    /\ o.pc = "local"
    /\ \/ /\ open' = [open EXCEPT ![r] =
                 CASE p = "missing" -> [o EXCEPT !.pc = "shared"]
                   [] p = "precondition" -> [o EXCEPT !.pc = "shared", !.rejected = TRUE]
                   [] OTHER -> [o EXCEPT !.pc = "stale", !.got = local[r]]]
          /\ UNCHANGED faults
       \/ Fault /\ open' = [open EXCEPT ![r] = Reply(r, "error")]
    /\ UNCHANGED <<tierVars, writer, fills, heal, deleter, opens, unordered, disturbed>>

\* invalidateStale: a version that is not the current one is dropped from the
\* tier, whatever the tier holds by now; otherwise it is the answer, or the
\* fallback of an If-Range it misses.
CheckStaleNever(r) ==
    LET o == open[r] IN
    /\ o.pc = "stale"
    /\ open' = [open EXCEPT ![r] =
           CASE Probe(o.got, o) = "othermatch" -> [o EXCEPT !.pc = "shared", !.fallback = o.got]
             [] Probe(o.got, o) = "notmodified" -> Reply(r, "notmodified")
             [] OTHER -> Reply(r, o.got)]
    /\ UNCHANGED <<tierVars, writer, fills, heal, deleter, boundVars, unordered, disturbed>>
CheckStale(r) ==
    LET o == open[r] IN
    /\ o.pc = "stale"
    /\ local' = IF Stale(r, o.got) THEN [local EXCEPT ![r] = None] ELSE local
    /\ open' = [open EXCEPT ![r] =
           CASE Stale(r, o.got) -> [o EXCEPT !.pc = "shared", !.stale = TRUE]
             [] ~Stale(r, o.got) /\ Probe(o.got, o) = "othermatch" ->
                    [o EXCEPT !.pc = "shared", !.fallback = o.got]
             [] ~Stale(r, o.got) /\ Probe(o.got, o) = "notmodified" -> Reply(r, "notmodified")
             [] OTHER -> Reply(r, o.got)]
    /\ UNCHANGED <<shared, log, seen, writer, fills, heal, deleter, boundVars, unordered, disturbed>>

\* The last tier settles the request.  When it errs, a fallback or a failed
\* If-Match of tier 0 is not the answer, the error is.  A Stat that finds
\* nothing joins the tiers' errors, with it the ErrNotModified of a stale copy.
Settle(o, p) ==
    CASE p = "hit" -> shared
      [] p = "notmodified" -> p
      [] p = "error" -> p
      [] p = "othermatch" -> IF o.fallback # None THEN o.fallback ELSE shared
      [] p \in {"missing", "precondition"} /\ o.fallback # None -> o.fallback
      [] o.kind = "head" /\ o.stale /\ o.got = o.want -> "notmodified"
      [] OTHER -> IF o.rejected \/ p = "precondition" THEN "precondition" ELSE "missing"

\* convergeTier0: a full body backfills tier 0 while it is read; a ranged one
\* starts a heal if it is the current version and none runs.
Converge(r, o, v) ==
    /\ fills' = IF o.kind \in {"get", "match", "nonematch"}
                THEN [fills EXCEPT ![r] = @ \cup {v}] ELSE fills
    /\ heal' = IF o.kind \in {"range", "ifrange"} /\ ETag(r) = v /\ heal[r].pc = "idle"
               THEN [heal EXCEPT ![r] = [pc |-> "open", want |-> v]] ELSE heal
ProbeShared(r) ==
    LET o == open[r] IN
    /\ o.pc = "shared"
    /\ \E p \in {Probe(shared, o), "error"} :
           /\ IF p = "error" THEN Fault ELSE UNCHANGED faults
           /\ open' = [open EXCEPT ![r] = Reply(r, Settle(o, p))]
           /\ IF p = "hit" THEN Converge(r, o, shared) ELSE UNCHANGED <<fills, heal>>
    /\ UNCHANGED <<tierVars, writer, deleter, opens, unordered, disturbed>>

\* The backfill commits without looking at the ETag again, or is abandoned.
EndFill(r, v) ==
    /\ v \in fills[r]
    /\ fills' = [fills EXCEPT ![r] = @ \ {v}]
    /\ \/ local' = [local EXCEPT ![r] = v]
       \/ UNCHANGED local
    /\ UNCHANGED <<shared, log, seen, writer, open, heal, deleter, boundVars, unordered, disturbed>>

-----------------------------------------------------------------------------
(* The ranged heal (backfillTier0FromSource).                              *)

HealOpen(r) ==
    /\ heal[r].pc = "open"
    /\ heal' = [heal EXCEPT ![r] = IF shared = heal[r].want
                                   THEN [heal[r] EXCEPT !.pc = "copied"] ELSE IdleHeal]
    /\ UNCHANGED <<tierVars, writer, open, fills, deleter, boundVars, unordered, disturbed>>
HealRecheck(r) ==
    /\ heal[r].pc = "copied"
    /\ heal' = [heal EXCEPT ![r] = IF ETag(r) = heal[r].want
                                   THEN [heal[r] EXCEPT !.pc = "commit"] ELSE IdleHeal]
    /\ UNCHANGED <<tierVars, writer, open, fills, deleter, boundVars, unordered, disturbed>>
HealCommit(r) ==
    /\ heal[r].pc = "commit"
    /\ heal' = [heal EXCEPT ![r] = IdleHeal]
    /\ local' = [local EXCEPT ![r] = heal[r].want]
    /\ UNCHANGED <<shared, log, seen, writer, open, fills, deleter, boundVars, unordered, disturbed>>

-----------------------------------------------------------------------------
Track ==
    /\ order' = IF shared' \in {shared, None} THEN order ELSE Append(order, shared')
    /\ held' = [r \in Replica |->
                   CASE open[r].pc = "idle" /\ open'[r].pc = "local" -> shared = open'[r].want
                     [] open[r].pc # "idle" -> held[r] /\ shared' = open[r].want
                     [] OTHER -> held[r]]
    /\ floor' = [r \in Replica |-> IF open[r].pc = "idle" /\ open'[r].pc = "local"
                                   THEN ETag(r) ELSE floor[r]]

Step ==
    \/ \E w \in Writer : Create(w) \/ Abort(w) \/ Publish(w)
                         \/ \E t \in Tiers : CloseTier(w, t)
    \/ \E r \in Replica :
           \/ Learn(r) \/ DeleteBegin(r) \/ Invalidate(r)
           \/ \E t \in deleter[r] : DeleteTier(r, t)
           \/ \E kind \in Kind, want \in Writer \cup {None} : Begin(r, kind, want)
           \/ ProbeLocal(r) \/ CheckStale(r) \/ ProbeShared(r)
           \/ \E v \in fills[r] : EndFill(r, v)
           \/ HealOpen(r) \/ HealRecheck(r) \/ HealCommit(r)
    \/ LoseShared

Next == Step /\ Track

Spec == Init /\ [][Next]_vars

-----------------------------------------------------------------------------
Answered(r) == open[r].pc = "idle" /\ open[r].reply # None
Position(v) == IF v \in Range(order) THEN Max({i \in DOMAIN order : order[i] = v}) ELSE 0

\* A request pinned to a version that the shared tier holds all along gets that
\* version, or the error of a tier that failed: never 412, a miss, or the body
\* of another version, however the local tier has diverged.
PinnedFound ==
    \A r \in Replica :
        Answered(r) /\ Pinned(open[r]) /\ held[r] => open[r].reply \in {open[r].want, "error"}

\* While writes of the key do not overlap and it is not deleted, no replica serves a version older
\* than the one whose ETag it knew when the request began: late backfills,
\* heals and local copies never take it back.
NeverStepsBack ==
    \A r \in Replica :
        Answered(r) /\ ~unordered /\ open[r].reply \in Writer /\ floor[r] # None
            => Position(open[r].reply) >= Position(floor[r])

\* A request is answered with the version it may expect: the pinned one, or one
\* that is no older than the replica knew of (Open, Stat and the stale tiers).
VersionRight == PinnedFound /\ NeverStepsBack

\* Once all is quiet and every replica has applied every ETag, a local copy
\* is the shared version, or is known to be stale and goes at the next request.
Converges ==
    /\ ~disturbed
    /\ \A w \in Writer : ~Busy(w)
    /\ \A r \in Replica : seen[r] = Len(log) /\ fills[r] = {} /\ heal[r].pc = "idle"
    => \A r \in Replica : local[r] \in {None, shared} \/ Stale(r, local[r])

=============================================================================
