--------------------------- MODULE MetadataJournal ---------------------------
(***************************************************************************)
(* The S3 metadata backend (internal/metadatadb/s3): one namespace of one  *)
(* bucket, shared by a fleet of replicas that take no lock.                *)
(*                                                                         *)
(* A write is one immutable segment object.  A replica serves queries from *)
(* memory and rebuilds that memory on every tick from the rollup object    *)
(* and the live segments, in the canonical order (LastModified, key).      *)
(* Aged segments are folded into the rollup by whichever replica wins a    *)
(* conditional PUT, and are deleted afterwards.                            *)
(*                                                                         *)
(* Data abstraction.  A key is a number: UUIDv7 names are compared and     *)
(* nothing else.  A state is the sequence of the segments whose operations *)
(* were applied to reach it, so a lost segment, one applied twice and a    *)
(* wrong order are all visible.  A rollup's ETag is its index in `rolls',  *)
(* the history of the bodies the rollup object has had.                    *)
(***************************************************************************)
EXTENDS CanonicalOrder, Sequences

CONSTANTS
    Replica,    \* the processes that share the bucket
    Writers,    \* those whose callers Apply
    Flushers,   \* those whose callers Flush
    Tickers,    \* those whose sync interval elapses
    Key,        \* segment names; naturals above zero, ordered like UUIDv7s
    Names,      \* [Replica -> the keys its UUIDv7 generator will draw]
    Legacy,     \* the pre-journal state object, as a sequence of its ops
    Age,        \* ageThreshold, in units of S3's clock
    Skew,       \* how far an S3 node's LastModified may lag behind
    Deadline,   \* putTimeout: how long the SDK may retry one segment PUT
    Attempts,   \* how often one PUT may take effect in the bucket
    Prompt,     \* whether LIST..GET and PUT..insert take no measurable time
    Seeded,     \* whether the rollup object exists at the start
    Backlog,    \* segments that processes now gone have left in the bucket
    Start,      \* S3's time at the start
    Threshold,  \* segmentThreshold
    Sustain,    \* sustainTicks
    MaxClock,   \* bound: S3's clock stops here
    MaxFaults   \* bound: failed requests, lost answers and crashes together

ASSUME KeyAssumption == Key \subseteq Nat \ {0} /\ IsFiniteSet(Key)
ASSUME NamesAssumption ==
    /\ Names \in [Replica -> SUBSET Key]
    /\ \A r, q \in Replica : r # q => Names[r] \cap Names[q] = {}
ASSUME LegacyAssumption == Legacy \in Seq(Nat)
ASSUME LegacyApart ==
    \A i, j \in DOMAIN Legacy : Legacy[i] \notin Key /\ (Legacy[i] = Legacy[j] => i = j)
ASSUME ClockAssumption ==
    /\ Age \in Nat /\ Skew \in Nat /\ Deadline \in Nat
    /\ Deadline + Skew < Age
ASSUME BoundAssumption ==
    /\ Attempts \in Nat /\ MaxClock \in Nat /\ MaxFaults \in Nat
    /\ Prompt \in BOOLEAN /\ Seeded \in BOOLEAN
    /\ Backlog \subseteq Key /\ Start \in Nat \ {0}
    /\ Threshold \in Nat \ {0} /\ Sustain \in Nat \ {0}

VARIABLES
    clock,      \* S3's time
    sent,       \* [Key -> time its PUT was first sent, 0 if never]
    stamp,      \* [Key -> its LastModified, 0 if it never reached the bucket]
    landings,   \* [Key -> how often its PUT took effect]
    live,       \* the segment objects in the bucket
    probes,     \* the keys of clock probes: segments without operations
    rolls,      \* the bodies of the rollup object, oldest first
    writer,     \* [Replica -> the writeLoop: pc and segment in flight]
    cache,      \* [Replica -> n.cache: a map from key to stamp]
    served,     \* [Replica -> n.state]
    held,       \* [Replica -> n.rollup: an index of rolls, 0 for nil]
    tick,       \* [Replica -> the runLoop: pc and the locals of one tick]
    ladder,     \* [Replica -> n.lastNewest, n.stall, n.sustain]
    faults      \* faults injected so far

vars == <<clock, sent, stamp, landings, live, probes, rolls, writer, cache,
          served, held, tick, ladder, faults>>
bucketVars == <<clock, sent, stamp, landings, live, probes, rolls>>

-----------------------------------------------------------------------------
(* Maps from keys to stamps, and the replay of segments.                   *)

\* A map from keys to stamps is total: 0 stands for no stamp, so a listing
\* holds the keys with another value, and Absent for a key not in the cache.
NoStamp == 0
Absent == -1
None == [k \in Key |-> NoStamp]
Empty == [k \in Key |-> Absent]

In(l) == {k \in Key : l[k] # NoStamp}
Cached(c) == {k \in Key : c[k] # Absent}
Unlisted(c) == {k \in Key : c[k] = NoStamp}
Listed(c) == Cached(c) \ Unlisted(c)
StampsOf(f, S) == [k \in Key |-> IF k \in S THEN f[k] ELSE NoStamp]

\* What applying segments contributes: a probe carries no operation.
Ops(S) == S \ probes

\* replay: the rollup's state, then the listed segments the mark does not
\* cover in canonical order, then the unlisted ones in key order.
Replay(roll, c) ==
    LET tail == {k \in Listed(c) : ~Covers(roll.mark, c[k], k)}
    IN  roll.state \o Canonical(c, Ops(tail)) \o Canonical(c, Ops(Unlisted(c)))

-----------------------------------------------------------------------------
(* Initial state, and the idle values the locals are reset to.             *)

IdleTick == [pc |-> "idle", flush |-> FALSE, barrier |-> {},
             old |-> {}, lst |-> None, staged |-> {}, input |-> {},
             built |-> <<>>, cand |-> {}]
IdleWriter == [pc |-> "idle", key |-> 0]
NewLadder == [newest |-> 0, stall |-> 0, sustain |-> 0]

\* The rollup a seed creates.
Seeding == [mark |-> ZeroMark, state |-> Legacy]

Init ==
    /\ clock = Start
    /\ \E past \in [Backlog -> 1..Start] :
          stamp = [k \in Key |-> IF k \in Backlog THEN past[k] ELSE NoStamp]
    /\ sent = stamp
    /\ landings = [k \in Key |-> IF k \in Backlog THEN 1 ELSE 0]
    /\ live = Backlog
    /\ probes = {}
    /\ rolls = IF Seeded THEN <<Seeding>> ELSE <<>>
    /\ writer = [r \in Replica |-> IdleWriter]
    /\ cache = [r \in Replica |-> Empty]
    /\ served = [r \in Replica |-> <<>>]
    /\ held = [r \in Replica |-> 0]
    /\ tick = [r \in Replica |-> IdleTick]
    /\ ladder = [r \in Replica |-> NewLadder]
    /\ faults = 0

Fault == faults < MaxFaults /\ faults' = faults + 1
NoFault == faults' = faults

Writes == Key \ probes
Landed == {k \in Writes : stamp[k] # 0}

-----------------------------------------------------------------------------
(* S3 and its clock.                                                       *)

InListWindow(r) == tick[r].pc \in {"start", "listed", "seed"}
InPutWindow(r) == writer[r].pc \in {"put", "insert"}

ClockTick ==
    /\ clock < MaxClock
    /\ Prompt => \A r \in Replica : ~InListWindow(r) /\ ~InPutWindow(r)
    /\ clock' = clock + 1
    /\ UNCHANGED <<sent, stamp, landings, live, probes, rolls, writer, cache,
                   served, held, tick, ladder, faults>>

\* The PUT of k has neither returned nor timed out.  The write path bounds
\* it by putTimeout; the probe's PUT has no deadline.
InFlight(k) ==
    \E r \in Replica :
        \/ writer[r] = [pc |-> "put", key |-> k] /\ clock <= sent[k] + Deadline
        \/ tick[r].pc = "probing" /\ tick[r].cand = {k}

\* A segment PUT takes effect and is stamped by the S3 node that processes
\* it, however late; and again when the SDK retries after a lost answer.
Land(k) ==
    /\ sent[k] # 0
    /\ landings[k] < Attempts
    /\ landings[k] > 0 => InFlight(k)
    /\ \E t \in 1..clock :
          /\ t + Skew >= clock
          /\ stamp' = [stamp EXCEPT ![k] = t]
    /\ landings' = [landings EXCEPT ![k] = @ + 1]
    /\ live' = live \cup {k}
    /\ UNCHANGED <<clock, sent, probes, rolls, writer, cache, served, held,
                   tick, ladder, faults>>

-----------------------------------------------------------------------------
(* The write path: writer.go.                                              *)

\* newSegmentKey: unique, and above every key this process has drawn.
NewSegmentKey(r) ==
    {k \in Names[r] : sent[k] = 0 /\ \A j \in Names[r] : sent[j] = 0 => k <= j}

\* commit, up to the PUT.
Send(r) ==
    /\ r \in Writers
    /\ writer[r].pc = "idle"
    /\ \E k \in NewSegmentKey(r) :
          /\ sent' = [sent EXCEPT ![k] = clock]
          /\ writer' = [writer EXCEPT ![r] = [pc |-> "put", key |-> k]]
    /\ UNCHANGED <<clock, stamp, landings, live, probes, rolls, cache, served,
                   held, tick, ladder, faults>>

\* The PUT's success reaches commit.
Ack(r) ==
    /\ writer[r].pc = "put"
    /\ stamp[writer[r].key] # 0
    /\ writer' = [writer EXCEPT ![r].pc = "insert"]
    /\ UNCHANGED <<bucketVars, cache, served, held, tick, ladder, faults>>

\* The PUT fails or times out: commit returns before touching local state.
\* Whether the segment landed, or still will, is unknown.
PutFails(r) ==
    /\ writer[r].pc = "put"
    /\ Fault
    /\ writer' = [writer EXCEPT ![r] = IdleWriter]
    /\ UNCHANGED <<bucketVars, cache, served, held, tick, ladder>>

\* Mutant: no dedup against what a tick has fetched meanwhile.
InsertAgain(r) ==
    /\ writer[r].pc = "insert"
    /\ served' = [served EXCEPT ![r] = Append(@, writer[r].key)]
    /\ cache' = [cache EXCEPT ![r][writer[r].key] = NoStamp]
    /\ writer' = [writer EXCEPT ![r] = IdleWriter]
    /\ UNCHANGED <<bucketVars, held, tick, ladder, faults>>

\* commit's critical section; the callers of Apply are answered after it.
Insert(r) ==
    LET k == writer[r].key IN
    /\ writer[r].pc = "insert"
    /\ IF k \in Cached(cache[r])
       THEN UNCHANGED <<cache, served>>
       ELSE /\ served' = [served EXCEPT ![r] = Append(@, k)]
            /\ cache' = [cache EXCEPT ![r][k] = NoStamp]
    /\ writer' = [writer EXCEPT ![r] = IdleWriter]
    /\ UNCHANGED <<bucketVars, held, tick, ladder, faults>>

-----------------------------------------------------------------------------
(* A sync tick: tick.go.                                                   *)

\* runLoop picks a flush or the ticker; list notes the time before LIST.
TickStart(r, flush) ==
    /\ r \in IF flush THEN Flushers ELSE Tickers
    /\ tick[r].pc = "idle"
    /\ tick' = [tick EXCEPT ![r] =
                  [IdleTick EXCEPT !.pc = "start", !.flush = flush,
                                   !.barrier = Landed,
                                   !.old = Unlisted(cache[r])]]
    /\ UNCHANGED <<bucketVars, writer, cache, served, held, ladder, faults>>

\* list: the segments of the prefix and their stamps.
TickList(r) ==
    /\ tick[r].pc = "start"
    /\ tick' = [tick EXCEPT ![r].pc = "listed", ![r].lst = StampsOf(stamp, live)]
    /\ UNCHANGED <<bucketVars, writer, cache, served, held, ladder, faults>>

\* Mutant: the rollup is fetched once and then kept.
RollupOnce(r) ==
    /\ tick[r].pc = "listed"
    /\ rolls # <<>>
    /\ tick' = [tick EXCEPT ![r].pc = "rolled"]
    /\ held' = [held EXCEPT ![r] = IF @ = 0 THEN Len(rolls) ELSE @]
    /\ UNCHANGED <<bucketVars, writer, cache, served, ladder, faults>>

\* refreshRollup: keep it on 304, adopt it on 200, seed it on 404.
TickRollup(r) ==
    /\ tick[r].pc = "listed"
    /\ IF rolls = <<>>
       THEN /\ tick' = [tick EXCEPT ![r].pc = "seed"]
            /\ UNCHANGED held
       ELSE /\ tick' = [tick EXCEPT ![r].pc = "rolled"]
            /\ held' = [held EXCEPT ![r] = Len(rolls)]
    /\ UNCHANGED <<bucketVars, writer, cache, served, ladder, faults>>

\* Mutant: seed without If-None-Match.
SeedBlindly(r) ==
    /\ tick[r].pc = "seed"
    /\ rolls' = Append(rolls, Seeding)
    /\ held' = [held EXCEPT ![r] = Len(rolls) + 1]
    /\ tick' = [tick EXCEPT ![r].pc = "rolled"]
    /\ UNCHANGED <<clock, sent, stamp, landings, live, probes, writer, cache,
                   served, ladder, faults>>

\* Mutant: the loser of the seed race goes on without a rollup.
SeedLoserGoesOn(r) ==
    /\ tick[r].pc = "seed"
    /\ rolls' = IF rolls = <<>> THEN <<Seeding>> ELSE rolls
    /\ held' = [held EXCEPT ![r] = IF rolls = <<>> THEN 1 ELSE 0]
    /\ tick' = [tick EXCEPT ![r].pc = "rolled"]
    /\ UNCHANGED <<clock, sent, stamp, landings, live, probes, writer, cache,
                   served, ladder, faults>>

\* seed: PUT If-None-Match *; the loser refreshes again.
Seed(r) ==
    /\ tick[r].pc = "seed"
    /\ IF rolls = <<>>
       THEN /\ rolls' = <<Seeding>>
            /\ held' = [held EXCEPT ![r] = 1]
            /\ tick' = [tick EXCEPT ![r].pc = "rolled"]
       ELSE /\ held' = [held EXCEPT ![r] = 0]
            /\ tick' = [tick EXCEPT ![r].pc = "listed"]
            /\ UNCHANGED rolls
    /\ UNCHANGED <<clock, sent, stamp, landings, live, probes, writer, cache,
                   served, ladder, faults>>

\* The seed is created but its answer is lost: the tick aborts.
SeedLost(r) ==
    /\ tick[r].pc = "seed"
    /\ rolls = <<>>
    /\ Fault
    /\ rolls' = <<Seeding>>
    /\ tick' = [tick EXCEPT ![r] = IdleTick]
    /\ UNCHANGED <<clock, sent, stamp, landings, live, probes, writer, cache,
                   served, held, ladder>>

\* LIST, GET rollup, GET legacy or the seed PUT fails: the tick aborts.
TickFails(r) ==
    /\ InListWindow(r)
    /\ Fault
    /\ tick' = [tick EXCEPT ![r] = IdleTick]
    /\ UNCHANGED <<bucketVars, writer, cache, served, held, ladder>>

\* Mutant: only what sorts after every cached key counts as unseen.
UnseenAbove(r) ==
    {k \in In(tick[r].lst) :
        /\ \A j \in Cached(cache[r]) : j < k
        /\ ~Covers(rolls[held[r]].mark, tick[r].lst[k], k)}

\* Mutant: own writes do not adopt their stamp.
AdoptNothing(r) == cache[r]

\* fetchUnseen: own writes adopt their stamp; what is neither cached nor
\* covered is fetched, and one failed GET aborts the tick.
Unseen(r) ==
    {k \in In(tick[r].lst) :
        /\ k \notin Cached(cache[r])
        /\ ~Covers(rolls[held[r]].mark, tick[r].lst[k], k)}

AdoptStamps(r) ==
    [k \in Key |->
        IF k \in Unlisted(cache[r]) \cap In(tick[r].lst)
        THEN tick[r].lst[k] ELSE cache[r][k]]

FetchUnseen(r) ==
    /\ tick[r].pc = "rolled"
    /\ cache' = [cache EXCEPT ![r] = AdoptStamps(r)]
    /\ IF Unseen(r) \subseteq live
       THEN tick' = [tick EXCEPT ![r].pc = "fetched",
                                 ![r].staged = Unseen(r)]
       ELSE tick' = [tick EXCEPT ![r] = IdleTick]
    /\ UNCHANGED <<bucketVars, writer, served, held, ladder, faults>>

FetchFails(r) ==
    /\ tick[r].pc = "rolled"
    /\ Unseen(r) # {}
    /\ Fault
    /\ cache' = [cache EXCEPT ![r] = AdoptStamps(r)]
    /\ tick' = [tick EXCEPT ![r] = IdleTick]
    /\ UNCHANGED <<bucketVars, writer, served, held, ladder>>

\* rebuild, first critical section: evict the listed entries the mark covers
\* and the unlisted ones that were cached before a LIST that lacks them, then
\* take the rest and the staged segments as the input, replayed without lock.
Evicted(r) ==
    {k \in tick[r].old : k \in Unlisted(cache[r]) /\ k \notin In(tick[r].lst)}
    \cup {k \in Listed(cache[r]) : Covers(rolls[held[r]].mark, cache[r][k], k)}

\* The staged copies carry their stamp and win the union.
WithStaged(r, c) == [k \in Key |-> IF k \in tick[r].staged THEN tick[r].lst[k] ELSE c[k]]

RebuildInput(r) ==
    LET kept  == [k \in Key |-> IF k \in Evicted(r) THEN Absent ELSE cache[r][k]]
        input == WithStaged(r, kept)
    IN
    /\ tick[r].pc = "fetched"
    /\ cache' = [cache EXCEPT ![r] = kept]
    /\ tick' = [tick EXCEPT ![r].pc = "built",
                            ![r].input = Cached(input),
                            ![r].built = Replay(rolls[held[r]], input)]
    /\ UNCHANGED <<bucketVars, writer, served, held, ladder, faults>>

\* Mutant: writes inserted during the replay are not re-applied.
ForgetLate(r) == {}

\* rebuild, second critical section: re-apply what was inserted meanwhile,
\* commit the staged segments to the cache and swap the state.  A flush is
\* over here; a background tick goes on to the ladder.
Late(r) == Cached(cache[r]) \ tick[r].input
Rebuilt(r) == tick[r].built \o Canonical(cache[r], Ops(Late(r)))

RebuildSwap(r) ==
    /\ tick[r].pc = "built"
    /\ served' = [served EXCEPT ![r] = Rebuilt(r)]
    /\ cache' = [cache EXCEPT ![r] = WithStaged(r, @)]
    /\ tick' = [tick EXCEPT ![r] =
                  IF @.flush THEN IdleTick
                  ELSE [IdleTick EXCEPT !.pc = "ladder", !.lst = tick[r].lst]]
    /\ UNCHANGED <<bucketVars, writer, held, ladder, faults>>

-----------------------------------------------------------------------------
(* The ladder after a background tick: compact.go.                         *)

\* Mutant: off by one.
AgedEarly(l, k) == \E j \in In(l) : l[j] - l[k] >= Age - 1

\* Mutant: aged segments are deleted whether or not they were folded.
LeftoversUnfolded(r) == {k \in In(tick[r].lst) : \E j \in In(tick[r].lst) :
                              tick[r].lst[j] - tick[r].lst[k] >= Age}

\* The age of a segment is measured against the newest stamp of the listing.
Aged(l, k) == \E j \in In(l) : l[j] - l[k] >= Age
Newer(l, t) == \E k \in In(l) : l[k] > t

Leftovers(r) ==
    {k \in In(tick[r].lst) : /\ Aged(tick[r].lst, k)
                                /\ Covers(rolls[held[r]].mark, tick[r].lst[k], k)}
Candidates(r) == {k \in In(tick[r].lst) : Aged(tick[r].lst, k)} \ Leftovers(r)

\* remove: best-effort deletes, any of which may fail.
Remove(S) == \E gone \in SUBSET S :
                /\ live' = live \ gone
                /\ IF gone = S THEN NoFault ELSE Fault

\* ladder: delete leftovers, then decide between compaction, probe and rest.
\* stall restarts from zero when the listing's newest stamp has advanced.
LadderStep(r) ==
    LET l        == ladder[r]
        advanced == Newer(tick[r].lst, l.newest)
        stall    == IF advanced THEN 0 ELSE l.stall
        compact  == Cardinality(Candidates(r)) >= Threshold
        crowded  == ~compact /\ Cardinality(In(tick[r].lst)) >= Threshold
        fold     == compact /\ l.sustain + 1 >= Sustain
        probe    == crowded /\ stall + 1 >= Sustain
    IN
    /\ tick[r].pc = "ladder"
    /\ Remove(Leftovers(r))
    /\ \E t \in 0..clock :
          /\ IF advanced THEN t \in {tick[r].lst[k] : k \in Key} /\ ~Newer(tick[r].lst, t)
                         ELSE t = l.newest
          /\ ladder' = [ladder EXCEPT ![r] =
                [newest  |-> t,
                 sustain |-> IF compact /\ ~fold THEN l.sustain + 1 ELSE 0,
                 stall   |-> IF crowded /\ ~probe THEN stall + 1 ELSE 0]]
    /\ tick' = [tick EXCEPT ![r] =
                  IF fold THEN [@ EXCEPT !.pc = "recheck", !.cand = Candidates(r)]
                  ELSE IF probe THEN [@ EXCEPT !.pc = "probe"]
                  ELSE IdleTick]
    /\ UNCHANGED <<clock, sent, stamp, landings, probes, rolls, writer, cache,
                   served, held>>

\* compact, after the jitter: refresh the rollup; stop if it has changed.
CompactRecheck(r) ==
    /\ tick[r].pc = "recheck"
    /\ held' = [held EXCEPT ![r] = Len(rolls)]
    /\ tick' = [tick EXCEPT ![r] = IF held[r] = Len(rolls)
                                   THEN [@ EXCEPT !.pc = "commit"] ELSE IdleTick]
    /\ UNCHANGED <<bucketVars, writer, cache, served, ladder, faults>>

\* The rollup compact builds: the candidates folded in canonical order, the
\* last of them the new mark.
Folded(r, last) ==
    [mark  |-> [lm |-> tick[r].lst[last], key |-> last],
     state |-> rolls[held[r]].state \o Canonical(tick[r].lst, Ops(tick[r].cand))]

\* Mutant: the candidates are sorted by key alone.
IsLastKey(r, last) == last \in tick[r].cand /\ \A k \in tick[r].cand : k <= last

IsLast(r, last) ==
    /\ last \in tick[r].cand
    /\ \A k \in tick[r].cand : k = last \/ Before(tick[r].lst, k, last)

\* Mutant: the rollup is overwritten unconditionally.
ElectAnyone(r) == TRUE

\* The PUT's If-Match holds.
Elected(r) == held[r] = Len(rolls)

\* compact: bail out on a candidate that is not cached, lose the election on
\* 412 or 409, or install the rollup.
CompactCommit(r) ==
    /\ tick[r].pc = "commit"
    /\ IF tick[r].cand \subseteq Cached(cache[r]) /\ Elected(r)
       THEN /\ \E last \in Key : IsLast(r, last) /\ rolls' = Append(rolls, Folded(r, last))
            /\ held' = [held EXCEPT ![r] = Len(rolls) + 1]
            /\ tick' = [tick EXCEPT ![r].pc = "clean"]
       ELSE /\ tick' = [tick EXCEPT ![r] = IdleTick]
            /\ UNCHANGED <<rolls, held>>
    /\ UNCHANGED <<clock, sent, stamp, landings, live, probes, writer, cache,
                   served, ladder, faults>>

\* The rollup is installed but the answer is lost, and no cleanup follows.
CommitLost(r) ==
    /\ tick[r].pc = "commit"
    /\ tick[r].cand \subseteq Cached(cache[r]) /\ Elected(r)
    /\ Fault
    /\ \E last \in Key : IsLast(r, last) /\ rolls' = Append(rolls, Folded(r, last))
    /\ tick' = [tick EXCEPT ![r] = IdleTick]
    /\ UNCHANGED <<clock, sent, stamp, landings, live, probes, writer, cache,
                   served, held, ladder>>

\* A request of the ladder fails without effect (a probe may still land).
CompactFails(r) ==
    /\ tick[r].pc \in {"recheck", "commit", "probe", "probing"}
    /\ Fault
    /\ tick' = [tick EXCEPT ![r] = IdleTick]
    /\ UNCHANGED <<bucketVars, writer, cache, served, held, ladder>>

\* The winner deletes what it folded.
CleanUp(r) ==
    /\ tick[r].pc = "clean"
    /\ Remove(tick[r].cand)
    /\ tick' = [tick EXCEPT ![r] = IdleTick]
    /\ UNCHANGED <<clock, sent, stamp, landings, probes, rolls, writer, cache,
                   served, held, ladder>>

\* probe, after the jitter: unless a newer stamp has appeared, PUT a segment
\* without operations; it is not inserted locally.  (Bound: the model draws
\* no probe once its keys are used up.)
Probe(r) ==
    /\ tick[r].pc = "probe"
    /\ IF \/ \E j \in live : \A k \in In(tick[r].lst) : stamp[j] > tick[r].lst[k]
          \/ NewSegmentKey(r) = {}
       THEN UNCHANGED <<sent, probes>> /\ tick' = [tick EXCEPT ![r] = IdleTick]
       ELSE \E k \in NewSegmentKey(r) :
              /\ sent' = [sent EXCEPT ![k] = clock]
              /\ probes' = probes \cup {k}
              /\ tick' = [tick EXCEPT ![r].pc = "probing", ![r].cand = {k}]
    /\ UNCHANGED <<clock, stamp, landings, live, rolls, writer, cache, served,
                   held, ladder, faults>>

ProbeAck(r) ==
    /\ tick[r].pc = "probing"
    /\ \A k \in tick[r].cand : stamp[k] # NoStamp
    /\ tick' = [tick EXCEPT ![r] = IdleTick]
    /\ UNCHANGED <<bucketVars, writer, cache, served, held, ladder, faults>>

-----------------------------------------------------------------------------
\* A process dies and a new one takes its place; the bucket remains.
Crash(r) ==
    /\ Fault
    /\ writer' = [writer EXCEPT ![r] = IdleWriter]
    /\ cache' = [cache EXCEPT ![r] = Empty]
    /\ served' = [served EXCEPT ![r] = <<>>]
    /\ held' = [held EXCEPT ![r] = 0]
    /\ tick' = [tick EXCEPT ![r] = IdleTick]
    /\ ladder' = [ladder EXCEPT ![r] = NewLadder]
    /\ UNCHANGED bucketVars

Write(r) == Send(r) \/ Ack(r) \/ PutFails(r) \/ Insert(r)

Sync(r) ==
    \/ \E flush \in BOOLEAN : TickStart(r, flush)
    \/ TickList(r) \/ TickRollup(r) \/ Seed(r) \/ SeedLost(r) \/ TickFails(r)
    \/ FetchUnseen(r) \/ FetchFails(r) \/ RebuildInput(r) \/ RebuildSwap(r)

Compaction(r) ==
    \/ LadderStep(r) \/ CompactRecheck(r) \/ CompactCommit(r) \/ CommitLost(r)
    \/ CompactFails(r) \/ CleanUp(r) \/ Probe(r) \/ ProbeAck(r)

Next ==
    \/ ClockTick
    \/ \E k \in Key : Land(k)
    \/ \E r \in Replica : Write(r) \/ Sync(r) \/ Compaction(r) \/ Crash(r)

Spec == Init /\ [][Next]_vars

-----------------------------------------------------------------------------
(* Correctness.                                                            *)

TickType ==
    [pc : {"idle", "start", "listed", "seed", "rolled", "fetched", "built",
           "ladder", "recheck", "commit", "clean", "probe", "probing"},
     flush : BOOLEAN, barrier : SUBSET Key, old : SUBSET Key,
     lst : [Key -> Nat], staged : SUBSET Key,
     input : SUBSET Key, built : Seq(Nat), cand : SUBSET Key]

RollupType == [mark : [lm : Nat, key : Nat], state : Seq(Nat)]
WriterType == [pc : {"idle", "put", "insert"}, key : Key \cup {0}]
LadderType == [newest : Nat, stall : Nat, sustain : Nat]

\* The steps at which a tick uses the rollup it has fetched.
HasRollup == {"rolled", "fetched", "built", "ladder", "recheck", "commit", "clean"}

BucketOK ==
    /\ clock \in Nat
    /\ sent \in [Key -> Nat] /\ stamp \in [Key -> Nat]
    /\ landings \in [Key -> Nat]
    /\ live \subseteq Key /\ probes \subseteq Key
    /\ rolls \in Seq(RollupType)
WriterOK ==
    /\ writer \in [Replica -> WriterType]
    /\ \A r \in Replica : writer[r].pc # "idle" => writer[r].key # 0
StateOK ==
    /\ cache \in [Replica -> [Key -> Nat \cup {Absent}]]
    /\ served \in [Replica -> Seq(Nat)]
TickOK ==
    /\ held \in [Replica -> 0..Len(rolls)]
    /\ tick \in [Replica -> TickType]
    /\ \A r \in Replica : tick[r].pc \in HasRollup => held[r] # 0
    /\ ladder \in [Replica -> LadderType]

\* The type invariant; a tick dereferences n.rollup only when it is not nil,
\* and a PUT in flight has a key.
TypeOK == BucketOK /\ WriterOK /\ StateOK /\ TickOK /\ faults \in Nat

CurrentMark == IF rolls = <<>> THEN ZeroMark ELSE rolls[Len(rolls)].mark
Beneath(m) == {k \in Landed : Covers(m, stamp[k], k)}

\* The rollup is the legacy state followed by every write at or below its
\* mark, each exactly once and in canonical order, whoever compacted, lost a
\* race, crashed or retried (seed, compact).
RollupExact ==
    rolls # <<>> =>
        rolls[Len(rolls)].state = Legacy \o Canonical(stamp, Beneath(CurrentMark))

\* A write that reached the bucket is never lost: its segment is there until
\* a rollup covers it (remove, as called by ladder and by compact).
Durable == \A k \in Landed : k \in live \/ Covers(CurrentMark, stamp[k], k)

\* compact finds every candidate in the cache.
CandidatesCached ==
    \A r \in Replica : tick[r].pc = "commit" => tick[r].cand \subseteq Cached(cache[r])

\* A folded segment whose delete was lost is old enough, against what is left
\* in the bucket, for the next ladder to delete it: cleanup needs no new write.
LeftoversAged ==
    \A k \in live : Covers(CurrentMark, stamp[k], k)
                      => \E j \in live : stamp[j] - stamp[k] >= Age

\* What compaction relies on: its candidates are cached, and what it could not
\* delete will be deleted.
CompactionSound == CandidatesCached /\ LeftoversAged

Applied(s) == {s[i] : i \in DOMAIN s}

\* No replica serves a state in which a segment was applied twice (commit's
\* insert, stamp adoption, the evictions and the late re-apply of rebuild).
AppliedOnce ==
    \A r \in Replica : \A i, j \in DOMAIN served[r] :
        served[r][i] = served[r][j] => i = j

\* Read your writes: when commit answers Apply the replica serves the write,
\* and short of a restart no replica ever stops serving a write it served.
ReadYourWrites ==
    [][\A r \in Replica :
          /\ Insert(r) => writer[r].key \in Applied(served'[r])
          /\ Crash(r) \/ Applied(served[r]) \subseteq Applied(served'[r])]_vars

\* A tick, a Flush in particular, ends with every write served that was in
\* the bucket when it began.
FlushBarrier ==
    \A r \in Replica : tick[r].pc = "built" => tick[r].barrier \subseteq Applied(Rebuilt(r))

\* Replicas agree: a tick whose listing and rollup together hold every write
\* of the bucket installs the canonical replay of the whole journal.
TickConverges ==
    \A r \in Replica :
        /\ tick[r].pc = "built"
        /\ \A k \in Landed : \/ k \in In(tick[r].lst)
                             \/ Covers(rolls[held[r]].mark, stamp[k], k)
        => Rebuilt(r) = Legacy \o Canonical(stamp, Landed)

-----------------------------------------------------------------------------
(* Why the bucket stays exact: the inductive strengthening of RollupExact   *)
(* and Durable.  A listing is complete for what is old enough to be folded  *)
(* from it, because a PUT that lands later is stamped too late to be folded *)
(* and a segment that had gone was covered by the rollup fetched after it.  *)

\* The rollup's mark as far as a tick that holds a listing knows it.
KnownMark(r) == IF tick[r].pc \in HasRollup THEN rolls[held[r]].mark ELSE CurrentMark

\* Old enough, against the listing l, to be folded at stamp t.
Foldable(l, t) == \E j \in In(l) : l[j] - t >= Age

StampsSound ==
    \A k \in Key :
        /\ sent[k] <= clock /\ stamp[k] <= clock
        /\ stamp[k] # NoStamp => sent[k] # 0 /\ sent[k] <= stamp[k] + Skew
        /\ landings[k] = 0 <=> stamp[k] = NoStamp
        /\ k \in live => stamp[k] # NoStamp

MarksSound ==
    /\ \A i \in 1..Len(rolls) :
          rolls[i].mark = ZeroMark \/ rolls[i].mark.lm + Age <= clock
    /\ \A i, j \in 1..Len(rolls) :
          i <= j => Covers(rolls[j].mark, rolls[i].mark.lm, rolls[i].mark.key)

ListingSound(r) ==
    LET l == tick[r].lst IN
    /\ \A k \in In(l) : /\ l[k] <= clock /\ stamp[k] # NoStamp
                        /\ sent[k] <= l[k] + Skew
    /\ \A k \in Landed \cap In(l) :
          Foldable(l, l[k]) \/ Foldable(l, stamp[k]) => l[k] = stamp[k]
    /\ \A k \in Landed :
          Foldable(l, stamp[k]) => k \in In(l) \/ Covers(KnownMark(r), stamp[k], k)

TickSound(r) ==
    /\ tick[r].pc \in {"recheck", "commit"} => tick[r].cand = Candidates(r)
    /\ tick[r].pc = "clean" => Ops(tick[r].cand) \subseteq Beneath(CurrentMark)
    /\ tick[r].pc = "probing" => tick[r].cand \subseteq probes

\* The inductive invariant: stamps and marks are ordered by S3's clock, and
\* every listing in use is complete and up to date for what is foldable.
JournalInv ==
    /\ StampsSound /\ MarksSound
    /\ \A r \in Replica : ListingSound(r) /\ TickSound(r)
    /\ Durable /\ RollupExact

-----------------------------------------------------------------------------
(* Progress.  S3 answers in the end and goroutines are scheduled; a ticker  *)
(* that fires is not starved by Flush callers, because runLoop serves at    *)
(* most maxConsecutiveFlushes of them in a row.                             *)

Answered(r) ==
    \/ TickList(r) \/ TickRollup(r) \/ Seed(r) \/ FetchUnseen(r)
    \/ RebuildInput(r) \/ RebuildSwap(r) \/ LadderStep(r) \/ CompactRecheck(r)
    \/ CompactCommit(r) \/ CleanUp(r) \/ Probe(r) \/ ProbeAck(r)

FairSpec ==
    /\ Spec
    /\ \A k \in Key : WF_vars(Land(k))
    /\ \A r \in Replica : /\ WF_vars(Ack(r) \/ Insert(r))
                          /\ WF_vars(Answered(r))
                          /\ SF_vars(TickStart(r, FALSE))

\* Every write that reaches the bucket is served in the end by every replica
\* that ticks, also one that had to start over (tick, "the next tick
\* self-heals").
EventuallyServed ==
    \A r \in Tickers, k \in Key :
        k \in Landed ~> k \in Applied(served[r])

\* A folded segment is deleted in the end, also when the replica that folded
\* it lost its deletes or died (remove's comment: "leftover cleanup on any
\* replica's future tick finishes the job").
LeftoversRemoved ==
    \A k \in Key :
        (k \in live /\ Covers(CurrentMark, stamp[k], k)) ~> k \notin live

\* Ticks make progress for readers and for the bucket: every write is served and
\* every folded segment is deleted in the end.
JournalProgress == EventuallyServed /\ LeftoversRemoved
==============================================================================
