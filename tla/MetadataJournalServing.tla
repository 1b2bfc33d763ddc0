---------------------- MODULE MetadataJournalServing ----------------------
(***************************************************************************)
(* Every step of the S3 metadata journal keeps what its replicas serve in  *)
(* agreement with the bucket: ServingInv is inductive while no PUT takes   *)
(* effect twice.                                                           *)
(***************************************************************************)
EXTENDS MetadataJournalInvariant

-----------------------------------------------------------------------------
(* The steps of a replica.                                                 *)

Others(r) == \A q \in Replica \ {r} :
                /\ writer'[q] = writer[q] /\ tick'[q] = tick[q] /\ held'[q] = held[q]
                /\ cache'[q] = cache[q] /\ served'[q] = served[q]

LEMMA ReplicaStep ==
    ASSUME SoundStep, ServingInv, NEW r \in Replica, clock' = clock, Others(r),
           BucketServing', ReplicaServing(r)'
    PROVE  ServingInv'
<1>1. ASSUME NEW q \in Replica \ {r} PROVE ReplicaServing(q)'
  BY ReplicaStays, Zenon DEF Others, ServingInv
<1>. QED
  BY <1>1, Zenon DEF ServingInv

\* Outside a tick, and in the ladder once there is nothing to fold.
LEMMA RestServing ==
    ASSUME NEW r \in Replica, tick'[r] = IdleTick
    PROVE  (ListServing(r) /\ FetchServing(r) /\ BuildServing(r) /\ FoldServing(r))'
<1>1. /\ In(tick[r].lst)' = {} /\ tick'[r].pc = "idle"
      /\ tick'[r].barrier = {} /\ tick'[r].old = {}
  <2>1. In(tick[r].lst)' = {}
    BY EmptyListing, Zenon DEF In
  <2>. QED
    BY <2>1 DEF IdleTick
<1>2. ListServing(r)'
  BY <1>1 DEF ListServing
<1>. QED
  BY <1>1, <1>2 DEF FetchServing, BuildServing, FoldServing

LEMMA EndServing ==
    ASSUME SoundStep, NEW r \in Replica, ReplicaServing(r), HeldGrows(r),
           tick'[r] = IdleTick, CacheSound(r)', WriterServing(r)',
           Cached(cache[r])' = Cached(cache[r]), served'[r] = served[r]
    PROVE  ReplicaServing(r)'
<1>1. ServedSound(r)'
  BY ServedFrame, Zenon DEF ReplicaServing
<1>2. tick'[r].pc = "idle"
  BY DEF IdleTick
<1>3. PromptServing(r)'
  BY <1>2 DEF PromptServing, InListWindow, Distinct, ReplicaServing
<1>. QED
  BY <1>1, <1>3, RestServing, Zenon DEF ReplicaServing

\* A tick that ends, and leaves the rest of its replica alone.
LEMMA AbortServing ==
    ASSUME SoundStep, ServingInv, NEW r \in Replica, HeldGrows(r),
           tick' = [tick EXCEPT ![r] = IdleTick],
           \A q \in Replica \ {r} : held'[q] = held[q],
           UNCHANGED <<clock, writer, cache, served>>, BucketServing'
    PROVE  ServingInv'
<1>1. tick'[r] = IdleTick /\ Others(r)
  BY Zenon DEF Others, SoundStep, TypeOK, TickOK
<1>2. ReplicaServing(r)
  BY Zenon DEF ServingInv
<1>3. CacheSound(r)' /\ WriterServing(r)'
  BY <1>2, CacheFrame, WriterFrame, Zenon DEF ReplicaServing
<1>4. Cached(cache[r])' = Cached(cache[r])
  BY Zenon DEF Cached
<1>5. ReplicaServing(r)'
  BY <1>1, <1>2, <1>3, <1>4, EndServing, Zenon
<1>. QED
  BY <1>1, <1>5, ReplicaStep, Zenon

\* A step of the writer alone.
LEMMA WriterStep ==
    ASSUME SoundStep, ServingInv, NEW r \in Replica,
           NEW w, writer' = [writer EXCEPT ![r] = w],
           UNCHANGED <<clock, tick, held, cache, served>>,
           BucketServing', WriterServing(r)'
    PROVE  ServingInv'
<1>1. Others(r)
  BY Zenon DEF Others, SoundStep, TypeOK, WriterOK
<1>2. ReplicaServing(r) /\ HeldGrows(r) /\ Cached(cache[r])' = Cached(cache[r])
  BY HeldSame, Zenon DEF ServingInv, Cached
<1>3. CacheSound(r)' /\ ServedSound(r)' /\ ListServing(r)'
  BY <1>2, CacheFrame, ServedFrame, ListFrame, Zenon DEF ReplicaServing
<1>4. FetchServing(r)' /\ BuildServing(r)'
  BY <1>2, FetchFrame, BuildFrame, Zenon DEF ReplicaServing
<1>5. FoldServing(r)' /\ PromptServing(r)'
  BY <1>2, FoldFrame, PromptFrame, Zenon DEF ReplicaServing
<1>6. ReplicaServing(r)'
  BY <1>3, <1>4, <1>5, Zenon DEF ReplicaServing
<1>. QED
  BY <1>1, <1>6, ReplicaStep, Zenon

LEMMA ServingClockTick ==
    ASSUME SoundStep, ServingInv, ClockTick
    PROVE  ServingInv'
<1>1. /\ UNCHANGED <<sent, stamp, live, probes, rolls, writer, cache, served, held, tick>>
      /\ clock' = clock + 1 /\ clock \in Nat
      /\ Prompt => \A r \in Replica : ~InListWindow(r) /\ ~InPutWindow(r)
  BY Zenon DEF ClockTick, SoundStep, TypeOK, BucketOK
<1>2. clock' # 0
  BY <1>1
<1>3. BucketServing'
  BY <1>1, <1>2, BucketKeeps, Zenon DEF ServingInv, BucketServing
<1>4. ASSUME NEW q \in Replica PROVE ReplicaServing(q)'
  <2>1. Prompt => writer[q].pc = "idle" /\ ~InListWindow(q)
    <3>1. writer[q].pc \in {"idle", "put", "insert"}
      BY Zenon DEF SoundStep, TypeOK, WriterOK, WriterType
    <3>. QED
      BY <1>1, <3>1, Zenon DEF InPutWindow
  <2>. QED
    BY <1>1, <2>1, ReplicaStays, Zenon DEF ServingInv
<1>. QED
  BY <1>3, <1>4, Zenon DEF ServingInv

LEMMA ServingLand ==
    ASSUME SoundStep, ServingInv, NEW k \in Key, Land(k)
    PROVE  ServingInv'
<1>1. /\ UNCHANGED <<clock, sent, probes, rolls, writer, cache, served, held, tick>>
      /\ live' = live \cup {k} /\ stamp \in [Key -> Nat] /\ clock \in Nat
  BY Zenon DEF Land, SoundStep, TypeOK, BucketOK
<1>2. PICK t \in 1..clock : t + Skew >= clock /\ stamp' = [stamp EXCEPT ![k] = t]
  BY Zenon DEF Land
<1>3. stamp'[k] = t /\ \A j \in Key : j # k => stamp'[j] = stamp[j]
  BY <1>1, <1>2, Zenon
<1>4. ASSUME NEW i \in 1..Len(rolls) PROVE ~Covers(rolls[i].mark, t, k)
  <2>1. rolls[i].mark \in MarkType /\ t \in Nat /\ k \in Nat /\ t # 0
    <3>1. t \in Nat /\ t # 0
      BY <1>1
    <3>. QED
      BY <3>1, MarkOfRoll, StampType, Zenon DEF SoundStep
  <2>2. rolls[i].mark = ZeroMark \/ rolls[i].mark.lm + Age <= clock
    BY Zenon DEF SoundStep, JournalInv, MarksSound
  <2>3. clock < t + Age
    BY <1>1, <1>2, <2>1, ClockAssumption
  <2>. QED
    BY <1>1, <2>1, <2>2, <2>3, NotYetCovered, ZeroMarkCoversNothing, Zenon
<1>5. BucketServing'
  <2>1. clock' # 0 /\ \A j \in probes' : sent'[j] # 0
    BY <1>1, Zenon DEF ServingInv, BucketServing
  <2>2. \A j \in Key : stamp[j] = NoStamp /\ stamp'[j] # NoStamp
            => j \in live' /\ \A i \in 1..Len(rolls) : ~Covers(rolls[i].mark, stamp'[j], j)
    BY <1>1, <1>3, <1>4, Zenon
  <2>3. \A j \in live : j \in live'
    BY <1>1, Zenon
  <2>. QED
    BY <1>1, <2>1, <2>2, <2>3, BucketKeeps, Zenon DEF ServingInv
<1>6. ASSUME NEW q \in Replica PROVE ReplicaServing(q)'
  BY <1>1, ReplicaStays, Zenon DEF ServingInv
<1>. QED
  BY <1>5, <1>6, Zenon DEF ServingInv

LEMMA ServingSend ==
    ASSUME SoundStep, ServingInv, NEW r \in Replica, Send(r)
    PROVE  ServingInv'
<1>1. UNCHANGED <<clock, stamp, live, probes, rolls, cache, served, held, tick>>
  BY Zenon DEF Send
<1>2. PICK k \in NewSegmentKey(r) : /\ sent' = [sent EXCEPT ![k] = clock]
                                    /\ writer' = [writer EXCEPT ![r] = [pc |-> "put", key |-> k]]
  BY Zenon DEF Send
<1>3. k \in Key /\ sent[k] = 0
  BY FreshKey, Zenon DEF NewSegmentKey, SoundStep
<1>4. sent'[k] = clock /\ clock # 0 /\ k \notin probes'
  BY <1>1, <1>2, <1>3, Zenon DEF ServingInv, BucketServing, SoundStep, TypeOK, BucketOK
<1>5. writer'[r] = [pc |-> "put", key |-> k]
  BY <1>2, Zenon DEF SoundStep, TypeOK, WriterOK
<1>6. WriterServing(r)'
  <2>1. writer'[r].pc = "put" /\ writer'[r].key = k
    BY <1>5
  <2>. QED
    BY <1>1, <1>4, <2>1 DEF WriterServing
<1>7. BucketServing'
  BY <1>1, BucketSame, Zenon DEF ServingInv
<1>. QED
  BY <1>1, <1>2, <1>6, <1>7, WriterStep, Zenon

LEMMA ServingAck ==
    ASSUME SoundStep, ServingInv, NEW r \in Replica, Ack(r) \/ PutFails(r)
    PROVE  ServingInv'
<1>1. /\ UNCHANGED <<clock, sent, stamp, live, probes, rolls, cache, served, held, tick>>
      /\ writer \in [Replica -> WriterType] /\ writer[r].pc = "put"
  BY Zenon DEF Ack, PutFails, bucketVars, SoundStep, TypeOK, WriterOK
<1>2. BucketServing'
  BY <1>1, BucketSame, Zenon DEF ServingInv
<1>3. CASE Ack(r)
  <2>1. /\ writer' = [writer EXCEPT ![r] = [writer[r] EXCEPT !.pc = "insert"]]
        /\ writer'[r].pc = "insert" /\ writer'[r].key = writer[r].key
    BY <1>1, <1>3 DEF Ack, WriterType
  <2>2. stamp[writer[r].key] # NoStamp
    BY <1>3, Zenon DEF Ack, NoStamp
  <2>3. WriterServing(r)
    BY Zenon DEF ServingInv, ReplicaServing
  <2>4. WriterServing(r)'
    BY <1>1, <2>1, <2>2, <2>3 DEF WriterServing
  <2>. QED
    BY <1>1, <1>2, <2>1, <2>4, WriterStep, Zenon
<1>4. CASE PutFails(r)
  <2>1. writer' = [writer EXCEPT ![r] = IdleWriter] /\ writer'[r] = IdleWriter
    BY <1>1, <1>4, Zenon DEF PutFails
  <2>2. WriterServing(r)'
    BY <2>1 DEF WriterServing, IdleWriter
  <2>. QED
    BY <1>1, <1>2, <2>1, <2>2, WriterStep, Zenon
<1>. QED
  BY <1>3, <1>4, Zenon

\* The unlisted entries are cached.
LEMMA UnlistedCached == ASSUME NEW c PROVE Unlisted(c) \subseteq Cached(c) /\ Cached(c) \subseteq Key
BY DEF Unlisted, Cached, NoStamp, Absent

LEMMA ServingInsert ==
    ASSUME SoundStep, ServingInv, NEW r \in Replica, Insert(r)
    PROVE  ServingInv'
<1>. DEFINE k == writer[r].key
<1>1. /\ UNCHANGED <<clock, sent, stamp, live, probes, rolls, held, tick>>
      /\ writer[r].pc = "insert" /\ writer' = [writer EXCEPT ![r] = IdleWriter]
  BY Zenon DEF Insert, bucketVars
<1>2. BucketServing' /\ ReplicaServing(r)
  BY <1>1, BucketSame, Zenon DEF ServingInv
<1>3. writer'[r] = IdleWriter /\ WriterServing(r)'
  <2>1. writer'[r] = IdleWriter
    BY <1>1, Zenon DEF SoundStep, TypeOK, WriterOK
  <2>. QED
    BY <2>1 DEF WriterServing, IdleWriter
<1>4. /\ k \in Key /\ sent[k] # 0 /\ k \notin probes /\ stamp[k] # NoStamp
      /\ Prompt => sent[k] = clock
  <2>1. writer[r].pc # "idle"
    BY <1>1
  <2>. QED
    BY <1>1, <1>2, <2>1, WriterKey, Zenon DEF ReplicaServing, WriterServing, SoundStep
<1>5. CASE k \in Cached(cache[r])
  <2>1. UNCHANGED <<cache, served>>
    BY <1>5, Zenon DEF Insert
  <2>. QED
    BY <1>1, <1>2, <1>3, <2>1, WriterStep, Zenon
<1>6. CASE k \notin Cached(cache[r])
  <2>1. /\ served' = [served EXCEPT ![r] = Append(@, k)]
        /\ cache' = [cache EXCEPT ![r][k] = NoStamp]
    BY <1>6, Zenon DEF Insert
  <2>2. /\ cache \in [Replica -> [Key -> Nat \cup {Absent}]] /\ served[r] \in Seq(Nat)
        /\ served \in [Replica -> Seq(Nat)] /\ k \in Nat
    BY <1>4, KeyAssumption, StampType, Zenon DEF SoundStep, TypeOK, StateOK
  <2>3. /\ served'[r] = Append(served[r], k)
        /\ cache'[r] = [cache[r] EXCEPT ![k] = NoStamp]
    BY <2>1, <2>2, Zenon
  <2>4. Others(r)
    BY <1>1, <2>1, <2>2, Zenon DEF Others, SoundStep, TypeOK, WriterOK
  <2>5. cache'[r][k] = NoStamp /\ \A j \in Key \ {k} : cache'[r][j] = cache[r][j]
    BY <1>4, <2>2, <2>3, Zenon
  <2>6. /\ Cached(cache[r])' = Cached(cache[r]) \cup {k}
        /\ Unlisted(cache[r])' = Unlisted(cache[r]) \cup {k}
    <3>1. NoStamp # Absent
      BY DEF NoStamp, Absent
    <3>. QED
      BY <1>4, <2>5, <3>1, Zenon DEF Cached, Unlisted
  <2>7. Applied(served[r])' = Applied(served[r]) \cup {k}
    <3>1. Applied(Append(served[r], k)) = Applied(served[r]) \cup {k}
      BY <2>2, AppliedAppend, Zenon
    <3>2. Applied(served[r])' = Applied(Append(served[r], k))
      BY <2>3, Zenon DEF Applied
    <3>. QED
      BY <3>1, <3>2, Zenon
  <2>8. CacheSound(r)'
    BY <1>1, <1>2, <1>4, <2>5, <2>6, UnlistedCached, Zenon DEF CacheSound, ReplicaServing
  <2>9. ServedSound(r)'
    <3>1. k \in Landed
      BY <1>4, Zenon DEF Landed, Writes, NoStamp
    <3>2. Landed' = Landed /\ \A x : Folds(r, x)' <=> Folds(r, x)
      BY <1>1, Zenon DEF Landed, Writes, Folds
    <3>3. ServedSound(r)
      BY <1>2, Zenon DEF ReplicaServing
    <3>4. \A x \in Applied(served[r])' :
             \/ held'[r] # 0 /\ x \in Applied(Legacy)
             \/ x \in Landed' /\ (x \in Cached(cache[r])' \/ Folds(r, x)')
      BY <1>1, <2>6, <2>7, <3>1, <3>2, <3>3, Zenon DEF ServedSound
    <3>5. Ops(Cached(cache[r]))' \subseteq Applied(served[r])'
      BY <1>1, <2>6, <2>7, <3>3, Zenon DEF ServedSound, Ops
    <3>. QED
      BY <3>4, <3>5, Zenon DEF ServedSound
  <2>10. tick'[r] = tick[r] /\ held'[r] = held[r] /\ Cached(cache[r]) \subseteq Cached(cache[r])'
    BY <1>1, <2>6, Zenon
  <2>11. ListServing(r)' /\ BuildServing(r)' /\ FoldServing(r)'
    BY <1>2, <2>10, ListFrame, BuildFrame, FoldFrame, Zenon DEF ReplicaServing
  <2>12. FetchServing(r)'
    <3>. SUFFICES ASSUME tick[r].pc = "fetched" PROVE FetchServing(r)'
      BY <1>1, Zenon DEF FetchServing
    <3>1. \A x : Folds(r, x)' <=> Folds(r, x)
      BY <1>1, Zenon DEF Folds
    <3>2. In(tick[r].lst)' = In(tick[r].lst)
      BY <1>1, Zenon DEF In
    <3>3. k \notin tick[r].old
      BY <1>2, <1>6 DEF ReplicaServing, ListServing
    <3>. QED
      BY <1>1, <1>2, <1>6, <2>6, <3>1, <3>2, <3>3, Zenon DEF ReplicaServing, FetchServing
  <2>13. PromptServing(r)'
    <3>. SUFFICES ASSUME Prompt PROVE PromptServing(r)'
      BY Zenon DEF PromptServing
    <3>1. ~Folds(r, k)
      BY <1>4, FreshUnfolded, Zenon DEF SoundStep
    <3>2. \A x : Folds(r, x)' <=> Folds(r, x)
      BY <1>1, Zenon DEF Folds
    <3>3. k \notin Applied(served[r])
      <4>1. k \notin Applied(Legacy)
        BY <1>4, LegacyApart, Zenon DEF Applied
      <4>. QED
        BY <1>2, <1>6, <3>1, <4>1, Zenon DEF ReplicaServing, ServedSound
    <3>4. Distinct(served[r])'
      <4>1. Distinct(served[r])
        BY <1>2, Zenon DEF ReplicaServing, PromptServing
      <4>2. Distinct(Append(served[r], k))
        BY <2>2, <3>3, <4>1, AppliedAppend, Zenon
      <4>. QED
        BY <2>3, <4>2, Zenon DEF Distinct
    <3>5. Late(r)' \subseteq Late(r) \cup {k}
      BY <1>1, <2>6, Zenon DEF Late
    <3>6. PromptServing(r)
      BY <1>2, Zenon DEF ReplicaServing
    <3>. QED
      BY <1>1, <1>4, <2>6, <3>1, <3>2, <3>4, <3>5, <3>6, Zenon DEF PromptServing, InListWindow
  <2>14. ReplicaServing(r)'
    BY <1>3, <2>8, <2>9, <2>11, <2>12, <2>13, Zenon DEF ReplicaServing
  <2>. QED
    BY <1>1, <1>2, <2>4, <2>14, ReplicaStep, Zenon
<1>. QED
  BY <1>5, <1>6, Zenon
-----------------------------------------------------------------------------
(* A sync tick.                                                            *)

\* A step of the tick that changes neither cache nor state nor bucket.
LEMMA TickMoves ==
    ASSUME SoundStep, ServingInv, NEW r \in Replica, HeldGrows(r),
           UNCHANGED <<clock, writer, cache, served>>,
           NEW t, tick' = [tick EXCEPT ![r] = t],
           \A q \in Replica \ {r} : held'[q] = held[q],
           BucketServing', ListServing(r)', FetchServing(r)', BuildServing(r)', FoldServing(r)',
           PromptServing(r)'
    PROVE  ServingInv'
<1>1. Others(r)
  BY Zenon DEF Others, SoundStep, TypeOK, TickOK
<1>2. ReplicaServing(r) /\ Cached(cache[r])' = Cached(cache[r])
  BY Zenon DEF ServingInv, Cached
<1>3. CacheSound(r)' /\ WriterServing(r)' /\ ServedSound(r)'
  BY <1>2, CacheFrame, WriterFrame, ServedFrame, Zenon DEF ReplicaServing
<1>4. ReplicaServing(r)'
  BY <1>3, Zenon DEF ReplicaServing
<1>. QED
  BY <1>1, <1>4, ReplicaStep, Zenon

LEMMA ServingTickStart ==
    ASSUME SoundStep, ServingInv, NEW r \in Replica, NEW flush \in BOOLEAN, TickStart(r, flush)
    PROVE  ServingInv'
<1>. DEFINE t == [IdleTick EXCEPT !.pc = "start", !.flush = flush, !.barrier = Landed,
                                  !.old = Unlisted(cache[r])]
<1>1. /\ UNCHANGED <<clock, sent, stamp, live, probes, rolls, writer, cache, served, held>>
      /\ tick' = [tick EXCEPT ![r] = t]
  BY Zenon DEF TickStart, bucketVars
<1>2. BucketServing' /\ ReplicaServing(r) /\ HeldGrows(r) /\ Unlisted(cache[r])' = Unlisted(cache[r])
  BY <1>1, BucketSame, HeldSame, Zenon DEF ServingInv, Unlisted
<1>3. /\ tick'[r].pc = "start" /\ tick'[r].barrier = Landed /\ tick'[r].old = Unlisted(cache[r])
      /\ tick'[r].lst = None
  <2>1. tick'[r] = t
    BY <1>1, Zenon DEF SoundStep, TypeOK, TickOK
  <2>. QED
    BY <2>1 DEF IdleTick
<1>4. In(tick[r].lst)' = {}
  BY <1>3, EmptyListing, Zenon DEF In
<1>5. ListServing(r)'
  <2>1. Landed' = Landed /\ \A k \in Unlisted(cache[r]) : stamp'[k] # NoStamp
    BY <1>1, <1>2, UnlistedCached, Zenon DEF Landed, Writes, ReplicaServing, CacheSound
  <2>2. Unlisted(cache[r]) \subseteq Cached(cache[r])'
    BY <1>1, UnlistedCached, Zenon DEF Cached
  <2>. QED
    BY <1>3, <1>4, <2>1, <2>2 DEF ListServing
<1>6. FetchServing(r)' /\ BuildServing(r)' /\ FoldServing(r)'
  BY <1>3 DEF FetchServing, BuildServing, FoldServing
<1>7. PromptServing(r)'
  <2>1. Prompt => Distinct(served[r])'
    BY <1>1, <1>2, Zenon DEF ReplicaServing, PromptServing, Distinct
  <2>2. Unlisted(cache[r])' \ tick'[r].old = {}
    BY <1>2, <1>3, Zenon
  <2>. QED
    BY <1>3, <2>1, <2>2 DEF PromptServing
<1>. QED
  BY <1>1, <1>2, <1>5, <1>6, <1>7, TickMoves, Zenon

LEMMA ServingTickList ==
    ASSUME SoundStep, ServingInv, NEW r \in Replica, TickList(r)
    PROVE  ServingInv'
<1>1. /\ UNCHANGED <<clock, sent, stamp, live, probes, rolls, writer, cache, served, held>>
      /\ tick[r].pc = "start" /\ tick \in [Replica -> TickType]
      /\ tick' = [tick EXCEPT ![r].pc = "listed", ![r].lst = StampsOf(stamp, live)]
  BY Zenon DEF TickList, bucketVars, SoundStep, TypeOK, TickOK
<1>2. BucketServing' /\ ReplicaServing(r) /\ HeldGrows(r)
  BY <1>1, BucketSame, HeldSame, Zenon DEF ServingInv
<1>3. /\ tick'[r].pc = "listed" /\ tick'[r].barrier = tick[r].barrier
      /\ tick'[r].old = tick[r].old /\ tick'[r].lst = StampsOf(stamp, live)
      /\ tick' = [tick EXCEPT ![r] = [tick[r] EXCEPT !.pc = "listed", !.lst = StampsOf(stamp, live)]]
  BY <1>1 DEF TickType
<1>4. In(tick[r].lst)' = live /\ \A k \in live : tick'[r].lst[k] = stamp[k]
  <2>1. live \subseteq Key /\ \A k \in live : stamp[k] # NoStamp
    BY Zenon DEF SoundStep, TypeOK, BucketOK, JournalInv, StampsSound
  <2>2. \A k \in Key : tick'[r].lst[k] = IF k \in live THEN stamp[k] ELSE NoStamp
    BY <1>3, Zenon DEF StampsOf
  <2>. QED
    BY <2>1, <2>2, Zenon DEF In
<1>5. ListServing(r)
  BY <1>2, Zenon DEF ReplicaServing
<1>6. KnownMark(r)' = CurrentMark
  BY <1>1, <1>3 DEF KnownMark, HasRollup, CurrentMark
<1>7. ListServing(r)'
  <2>1. Landed' = Landed /\ \A k \in tick[r].old : stamp'[k] # NoStamp
    BY <1>1, <1>5, Zenon DEF Landed, Writes, ListServing
  <2>2. tick[r].old \subseteq Cached(cache[r])'
    BY <1>1, <1>5 DEF Cached, ListServing
  <2>3. ASSUME NEW k \in tick[r].barrier \cup tick[r].old
        PROVE  k \in live \/ Covers(CurrentMark, stamp[k], k)
    <3>1. k \in Key /\ stamp[k] # NoStamp
      BY <1>5, InputType, Zenon DEF ListServing, Landed, Writes, NoStamp, SoundStep
    <3>. QED
      BY <3>1, Zenon DEF ServingInv, BucketServing
  <2>4. tick[r].barrier \subseteq Landed
    BY <1>5, Zenon DEF ListServing
  <2>. QED
    BY <1>1, <1>3, <1>4, <1>6, <2>1, <2>2, <2>3, <2>4 DEF ListServing
<1>8. FetchServing(r)' /\ BuildServing(r)' /\ FoldServing(r)'
  BY <1>3 DEF FetchServing, BuildServing, FoldServing
<1>9. PromptServing(r)'
  <2>1. Unlisted(cache[r])' = Unlisted(cache[r]) /\ (Distinct(served[r])' <=> Distinct(served[r]))
    BY <1>1, Zenon DEF Unlisted, Distinct
  <2>2. PromptServing(r) /\ InListWindow(r)
    BY <1>1, <1>2 DEF ReplicaServing, InListWindow
  <2>. QED
    BY <1>1, <1>3, <2>1, <2>2 DEF PromptServing
<1>. QED
  BY <1>1, <1>2, <1>3, <1>7, <1>8, <1>9, TickMoves, Zenon

\* The rollup of the bucket is adopted, whether it was fetched or seeded.
LEMMA RollupAdopted ==
    ASSUME SoundStep, ServingInv, NEW r \in Replica, tick[r].pc \in {"listed", "seed"},
           tick' = [tick EXCEPT ![r].pc = "rolled"], held' = [held EXCEPT ![r] = Len(rolls')],
           UNCHANGED <<clock, sent, stamp, probes, writer, cache, served>>, BucketServing'
    PROVE  ServingInv'
<1>1. tick \in [Replica -> TickType] /\ held \in [Replica -> 0..Len(rolls)]
  BY Zenon DEF SoundStep, TypeOK, TickOK
<1>2. /\ tick'[r].pc = "rolled" /\ tick'[r].barrier = tick[r].barrier
      /\ tick'[r].old = tick[r].old /\ tick'[r].lst = tick[r].lst
      /\ tick' = [tick EXCEPT ![r] = [tick[r] EXCEPT !.pc = "rolled"]]
  BY <1>1 DEF TickType
<1>3. held'[r] = Len(rolls') /\ \A q \in Replica \ {r} : held'[q] = held[q]
  BY <1>1, Zenon
<1>4. held'[r] # 0 /\ held'[r] \in 1..Len(rolls')
  <2>1. tick'[r].pc \in HasRollup
    BY <1>2 DEF HasRollup
  <2>2. held'[r] # 0 /\ held'[r] \in 0..Len(rolls') /\ rolls' \in Seq(RollupType)
    BY <2>1, Zenon DEF SoundStep, TypeOK, TickOK, BucketOK
  <2>. QED
    BY <2>2
<1>5. HeldGrows(r)
  <2>1. held[r] \in 0..Len(rolls) /\ Len(rolls) <= Len(rolls') /\ Len(rolls) \in Nat /\ Len(rolls') \in Nat
    <3>1. rolls \in Seq(RollupType) /\ rolls' \in Seq(RollupType) /\ Len(rolls) <= Len(rolls')
      BY Zenon DEF SoundStep, TypeOK, BucketOK, BucketGrows
    <3>. QED
      BY <1>1, <3>1
  <2>. QED
    BY <1>3, <2>1 DEF HeldGrows
<1>6. KnownMark(r)' = CurrentMark' /\ KnownMark(r) = CurrentMark
  <2>1. rolls' # <<>>
    BY <1>4
  <2>. QED
    BY <1>2, <1>3, <2>1 DEF KnownMark, HasRollup, CurrentMark
<1>7. ReplicaServing(r)
  BY Zenon DEF ServingInv
<1>8. ListServing(r)
  BY <1>7, Zenon DEF ReplicaServing
<1>9. ListServing(r)'
  <2>1. Landed' = Landed /\ \A k \in tick[r].old : stamp'[k] # NoStamp
    BY <1>8, Zenon DEF Landed, Writes, ListServing
  <2>2. tick[r].old \subseteq Cached(cache[r])'
    BY <1>8 DEF Cached, ListServing
  <2>3. ASSUME NEW k \in tick[r].barrier \cup tick[r].old
        PROVE  k \in In(tick[r].lst) \/ Covers(CurrentMark', stamp'[k], k)
    <3>1. k \in Key /\ stamp[k] # NoStamp
      BY <1>8, InputType, Zenon DEF ListServing, Landed, Writes, NoStamp, SoundStep
    <3>2. k \in In(tick[r].lst) \/ Covers(CurrentMark, stamp[k], k)
      BY <1>6, <1>8 DEF ListServing
    <3>. QED
      BY <3>1, <3>2, CurrentStays, Zenon
  <2>4. tick[r].barrier \subseteq Landed /\ In(tick[r].lst)' = In(tick[r].lst)
    BY <1>2, <1>8, Zenon DEF ListServing, In
  <2>5. \A k \in In(tick[r].lst) : tick[r].lst[k] = stamp'[k]
    BY <1>8, Zenon DEF ListServing
  <2>. QED
    BY <1>2, <1>6, <2>1, <2>2, <2>3, <2>4, <2>5 DEF ListServing
<1>10. FetchServing(r)' /\ BuildServing(r)' /\ FoldServing(r)'
  BY <1>2 DEF FetchServing, BuildServing, FoldServing
<1>11. PromptServing(r)'
  <2>. SUFFICES ASSUME Prompt PROVE PromptServing(r)'
    BY Zenon DEF PromptServing
  <2>1. Unlisted(cache[r])' = Unlisted(cache[r]) /\ (Distinct(served[r])' <=> Distinct(served[r]))
    BY Zenon DEF Unlisted, Distinct
  <2>2. PromptServing(r) /\ InListWindow(r)
    BY <1>7 DEF ReplicaServing, InListWindow
  <2>3. ASSUME NEW k \in Unlisted(cache[r]) \ tick[r].old PROVE ~Folds(r, k)'
    <3>1. k \in Key /\ stamp[k] # NoStamp /\ sent[k] = clock
      BY <1>7, <2>2, UnlistedCached, Zenon DEF PromptServing, ReplicaServing, CacheSound
    <3>. QED
      BY <3>1, FreshUnfoldedNext, Zenon DEF SoundStep
  <2>. QED
    BY <1>2, <2>1, <2>2, <2>3 DEF PromptServing
<1>. QED
  BY <1>2, <1>3, <1>5, <1>9, <1>10, <1>11, TickMoves, Zenon

LEMMA ServingTickRollup ==
    ASSUME SoundStep, ServingInv, NEW r \in Replica, TickRollup(r)
    PROVE  ServingInv'
<1>1. /\ UNCHANGED <<clock, sent, stamp, live, probes, rolls, writer, cache, served>>
      /\ tick[r].pc = "listed" /\ tick \in [Replica -> TickType]
  BY Zenon DEF TickRollup, bucketVars, SoundStep, TypeOK, TickOK
<1>2. BucketServing' /\ ReplicaServing(r)
  BY <1>1, BucketSame, Zenon DEF ServingInv
<1>3. CASE rolls # <<>>
  <2>1. tick' = [tick EXCEPT ![r].pc = "rolled"] /\ held' = [held EXCEPT ![r] = Len(rolls')]
    BY <1>1, <1>3, Zenon DEF TickRollup
  <2>. QED
    BY <1>1, <1>2, <2>1, RollupAdopted, Zenon
<1>4. CASE rolls = <<>>
  <2>1. tick' = [tick EXCEPT ![r].pc = "seed"] /\ UNCHANGED held
    BY <1>4, Zenon DEF TickRollup
  <2>2. /\ tick'[r].pc = "seed" /\ tick'[r].barrier = tick[r].barrier
        /\ tick'[r].old = tick[r].old /\ tick'[r].lst = tick[r].lst
        /\ tick' = [tick EXCEPT ![r] = [tick[r] EXCEPT !.pc = "seed"]]
    BY <1>1, <2>1 DEF TickType
  <2>3. held'[r] = 0
    <3>1. held[r] \in 0..Len(rolls)
      BY Zenon DEF SoundStep, TypeOK, TickOK
    <3>. QED
      BY <1>4, <2>1, <3>1
  <2>4. HeldGrows(r)
    BY <2>1, HeldSame, Zenon
  <2>5. KnownMark(r)' = KnownMark(r) /\ In(tick[r].lst)' = In(tick[r].lst)
    BY <1>1, <2>2 DEF KnownMark, HasRollup, CurrentMark, In
  <2>6. ListServing(r)'
    <3>1. Landed' = Landed /\ Cached(cache[r])' = Cached(cache[r])
      BY <1>1, Zenon DEF Landed, Writes, Cached
    <3>2. ListServing(r)
      BY <1>2, Zenon DEF ReplicaServing
    <3>. QED
      BY <1>1, <2>2, <2>3, <2>5, <3>1, <3>2 DEF ListServing
  <2>7. FetchServing(r)' /\ BuildServing(r)' /\ FoldServing(r)'
    BY <2>2 DEF FetchServing, BuildServing, FoldServing
  <2>8. PromptServing(r)'
    <3>1. Unlisted(cache[r])' = Unlisted(cache[r]) /\ (Distinct(served[r])' <=> Distinct(served[r]))
      BY <1>1, Zenon DEF Unlisted, Distinct
    <3>2. PromptServing(r) /\ InListWindow(r)
      BY <1>1, <1>2 DEF ReplicaServing, InListWindow
    <3>. QED
      BY <1>1, <2>2, <3>1, <3>2 DEF PromptServing
  <2>. QED
    BY <1>1, <1>2, <2>1, <2>2, <2>4, <2>6, <2>7, <2>8, TickMoves, Zenon
<1>. QED
  BY <1>3, <1>4, Zenon

\* A seed leaves the mark at zero.
LEMMA SeedBucket ==
    ASSUME SoundStep, BucketServing, UNCHANGED <<clock, sent, stamp, live, probes>>,
           rolls = <<>>, rolls' = <<Seeding>>
    PROVE  BucketServing' /\ Len(rolls') = 1
<1>1. Len(rolls') = 1 /\ Len(rolls) = 0 /\ rolls' # <<>> /\ rolls'[1] = Seeding
  OBVIOUS
<1>2. CurrentMark' = ZeroMark
  BY <1>1 DEF CurrentMark, Seeding
<1>3. Len(rolls') = Len(rolls) + 1
  BY <1>1
<1>. QED
  BY <1>1, <1>2, <1>3, BucketRolls, Zenon

LEMMA ServingSeed ==
    ASSUME SoundStep, ServingInv, NEW r \in Replica, Seed(r)
    PROVE  ServingInv'
<1>1. /\ UNCHANGED <<clock, sent, stamp, live, probes, writer, cache, served>>
      /\ tick[r].pc = "seed" /\ tick \in [Replica -> TickType] /\ held \in [Replica -> 0..Len(rolls)]
  BY Zenon DEF Seed, SoundStep, TypeOK, TickOK
<1>2. BucketServing /\ ReplicaServing(r)
  BY Zenon DEF ServingInv
<1>3. CASE rolls = <<>>
  <2>1. /\ rolls' = <<Seeding>> /\ held' = [held EXCEPT ![r] = 1]
        /\ tick' = [tick EXCEPT ![r].pc = "rolled"]
    BY <1>3, Zenon DEF Seed
  <2>2. BucketServing' /\ Len(rolls') = 1
    BY <1>1, <1>2, <1>3, <2>1, SeedBucket, Zenon
  <2>. QED
    BY <1>1, <2>1, <2>2, RollupAdopted, Zenon
<1>4. CASE rolls # <<>>
  <2>1. /\ UNCHANGED rolls /\ held' = [held EXCEPT ![r] = 0]
        /\ tick' = [tick EXCEPT ![r].pc = "listed"]
    BY <1>4, Zenon DEF Seed
  <2>2. /\ tick'[r].pc = "listed" /\ tick'[r].barrier = tick[r].barrier
        /\ tick'[r].old = tick[r].old /\ tick'[r].lst = tick[r].lst
        /\ tick' = [tick EXCEPT ![r] = [tick[r] EXCEPT !.pc = "listed"]]
    BY <1>1, <2>1 DEF TickType
  <2>3. held[r] = 0
    BY <1>1, <1>2, Zenon DEF ReplicaServing, ListServing
  <2>4. held'[r] = held[r] /\ \A q \in Replica \ {r} : held'[q] = held[q]
    BY <1>1, <2>1, <2>3, Zenon
  <2>5. HeldGrows(r)
    BY <2>4, HeldSame, Zenon
  <2>6. KnownMark(r)' = KnownMark(r) /\ In(tick[r].lst)' = In(tick[r].lst)
    BY <1>1, <2>1, <2>2 DEF KnownMark, HasRollup, CurrentMark, In
  <2>7. ListServing(r)'
    <3>1. Landed' = Landed /\ Cached(cache[r])' = Cached(cache[r])
      BY <1>1, Zenon DEF Landed, Writes, Cached
    <3>2. ListServing(r)
      BY <1>2, Zenon DEF ReplicaServing
    <3>. QED
      BY <1>1, <2>2, <2>6, <3>1, <3>2 DEF ListServing
  <2>8. FetchServing(r)' /\ BuildServing(r)' /\ FoldServing(r)'
    BY <2>2 DEF FetchServing, BuildServing, FoldServing
  <2>9. PromptServing(r)'
    <3>1. Unlisted(cache[r])' = Unlisted(cache[r]) /\ (Distinct(served[r])' <=> Distinct(served[r]))
      BY <1>1, Zenon DEF Unlisted, Distinct
    <3>2. PromptServing(r) /\ InListWindow(r)
      BY <1>1, <1>2 DEF ReplicaServing, InListWindow
    <3>. QED
      BY <1>1, <2>2, <3>1, <3>2 DEF PromptServing
  <2>10. BucketServing'
    BY <1>1, <1>2, <2>1, BucketSame, Zenon
  <2>. QED
    BY <1>1, <2>2, <2>4, <2>5, <2>7, <2>8, <2>9, <2>10, TickMoves, Zenon
<1>. QED
  BY <1>3, <1>4, Zenon

\* A tick that ends early: a failed request, a lost answer, a rollup that has
\* changed, nothing to do.
LEMMA ServingEnds ==
    ASSUME SoundStep, ServingInv, NEW r \in Replica,
           SeedLost(r) \/ TickFails(r) \/ CompactFails(r) \/ ProbeAck(r)
    PROVE  ServingInv'
<1>1. /\ UNCHANGED <<clock, sent, stamp, live, probes, writer, cache, served, held>>
      /\ tick' = [tick EXCEPT ![r] = IdleTick]
  BY Zenon DEF SeedLost, TickFails, CompactFails, ProbeAck, bucketVars
<1>2. rolls' = rolls \/ (rolls = <<>> /\ rolls' = <<Seeding>>)
  BY Zenon DEF SeedLost, TickFails, CompactFails, ProbeAck, bucketVars
<1>3. BucketServing'
  BY <1>1, <1>2, BucketSame, SeedBucket, Zenon DEF ServingInv
<1>4. HeldGrows(r)
  BY <1>1, HeldSame, Zenon
<1>. QED
  BY <1>1, <1>3, <1>4, AbortServing, Zenon

\* What the steps at which a tick uses its rollup know of it.
LEMMA FoldsAsListed ==
    ASSUME SoundStep, NEW r \in Replica, ListServing(r), tick[r].pc \in HasRollup
    PROVE  /\ held[r] # 0 /\ KnownMark(r) = rolls[held[r]].mark
           /\ \A k \in In(tick[r].lst) :
                 Covers(rolls[held[r]].mark, tick[r].lst[k], k) <=> Folds(r, k)
BY Zenon DEF SoundStep, TypeOK, TickOK, ListServing, Folds, KnownMark

LEMMA Adopted ==
    ASSUME SoundStep, NEW r \in Replica, CacheSound(r), ListServing(r), cache'[r] = AdoptStamps(r),
           UNCHANGED stamp
    PROVE  /\ CacheSound(r)' /\ Cached(cache[r])' = Cached(cache[r])
           /\ Unlisted(cache[r])' = Unlisted(cache[r]) \ In(tick[r].lst)
<1>1. \A k \in Key : cache'[r][k] = IF k \in Unlisted(cache[r]) \cap In(tick[r].lst)
                                     THEN tick[r].lst[k] ELSE cache[r][k]
  BY Zenon DEF AdoptStamps
<1>2. tick[r].lst \in [Key -> Nat] /\ \A k \in In(tick[r].lst) : tick[r].lst[k] = stamp[k]
  BY InputType, Zenon DEF SoundStep, ListServing
<1>3. \A k \in Key : tick[r].lst[k] # Absent
  BY <1>2 DEF Absent
<1>4. Unlisted(cache[r]) \subseteq Cached(cache[r])
  BY UnlistedCached, Zenon
<1>5. Cached(cache[r])' = Cached(cache[r])
  BY <1>1, <1>3, <1>4, Zenon DEF Cached
<1>6. Unlisted(cache[r])' = Unlisted(cache[r]) \ In(tick[r].lst)
  BY <1>1, Zenon DEF Unlisted, In
<1>7. CacheSound(r)'
  <2>1. ASSUME NEW k \in Cached(cache[r])
        PROVE  k \in Key /\ stamp[k] # NoStamp /\ cache[r][k] \in {NoStamp, stamp[k]}
    BY UnlistedCached, Zenon DEF CacheSound
  <2>. QED
    BY <1>1, <1>2, <1>5, <2>1, Zenon DEF CacheSound
<1>. QED
  BY <1>5, <1>6, <1>7, Zenon

LEMMA ServingFetch ==
    ASSUME SoundStep, ServingInv, NEW r \in Replica, FetchUnseen(r) \/ FetchFails(r)
    PROVE  ServingInv'
<1>1. /\ UNCHANGED <<clock, sent, stamp, live, probes, rolls, writer, served, held>>
      /\ tick[r].pc = "rolled" /\ tick \in [Replica -> TickType]
      /\ cache' = [cache EXCEPT ![r] = AdoptStamps(r)]
      /\ cache \in [Replica -> [Key -> Nat \cup {Absent}]]
  BY Zenon DEF FetchUnseen, FetchFails, bucketVars, SoundStep, TypeOK, TickOK, StateOK
<1>2. \/ tick' = [tick EXCEPT ![r] = IdleTick]
      \/ tick' = [tick EXCEPT ![r].pc = "fetched", ![r].staged = Unseen(r)]
  BY Zenon DEF FetchUnseen, FetchFails
<1>3. BucketServing' /\ ReplicaServing(r) /\ HeldGrows(r)
  BY <1>1, BucketSame, HeldSame, Zenon DEF ServingInv
<1>4. cache'[r] = AdoptStamps(r) /\ Others(r)
  <2>1. \A q \in Replica \ {r} : tick'[q] = tick[q]
    BY <1>1, <1>2, Zenon
  <2>. QED
    BY <1>1, <2>1, Zenon DEF Others
<1>5. /\ CacheSound(r)' /\ Cached(cache[r])' = Cached(cache[r])
      /\ Unlisted(cache[r])' = Unlisted(cache[r]) \ In(tick[r].lst)
  BY <1>1, <1>3, <1>4, Adopted, Zenon DEF ReplicaServing
<1>6. WriterServing(r)' /\ ServedSound(r)'
  BY <1>1, <1>3, <1>5, WriterFrame, ServedFrame, Zenon DEF ReplicaServing
<1>7. CASE tick' = [tick EXCEPT ![r] = IdleTick]
  <2>1. tick'[r] = IdleTick
    BY <1>1, <1>7, Zenon
  <2>2. ReplicaServing(r)'
    BY <1>1, <1>3, <1>5, <1>6, <2>1, EndServing, Zenon
  <2>. QED
    BY <1>1, <1>3, <1>4, <2>2, ReplicaStep, Zenon
<1>8. CASE tick' = [tick EXCEPT ![r].pc = "fetched", ![r].staged = Unseen(r)]
  <2>1. /\ tick'[r].pc = "fetched" /\ tick'[r].staged = Unseen(r)
        /\ tick'[r].barrier = tick[r].barrier /\ tick'[r].old = tick[r].old
        /\ tick'[r].lst = tick[r].lst
    BY <1>1, <1>8 DEF TickType
  <2>2. ListServing(r)'
    <3>1. tick[r].pc \in {"rolled", "fetched"} /\ tick'[r].pc \in {"fetched", "built"}
      BY <1>1, <2>1
    <3>. QED
      BY <1>1, <1>3, <1>5, <2>1, <3>1, ListFrame, Zenon DEF ReplicaServing
  <2>3. /\ held[r] # 0
        /\ \A k \in In(tick[r].lst) :
              Covers(rolls[held[r]].mark, tick[r].lst[k], k) <=> Folds(r, k)
    BY <1>1, <1>3, FoldsAsListed DEF ReplicaServing, HasRollup
  <2>4. (\A x : Folds(r, x)' <=> Folds(r, x)) /\ In(tick[r].lst)' = In(tick[r].lst)
    BY <1>1, <2>1, Zenon DEF Folds, In
  <2>5. FetchServing(r)'
    BY <1>5, <2>1, <2>3, <2>4, Zenon DEF FetchServing, Unseen
  <2>6. BuildServing(r)' /\ FoldServing(r)'
    BY <2>1 DEF BuildServing, FoldServing
  <2>7. PromptServing(r)'
    <3>1. Distinct(served[r])' <=> Distinct(served[r])
      BY <1>1, Zenon DEF Distinct
    <3>2. PromptServing(r)
      BY <1>3, Zenon DEF ReplicaServing
    <3>. QED
      BY <1>1, <1>5, <2>1, <2>4, <3>1, <3>2 DEF PromptServing, InListWindow
  <2>8. ReplicaServing(r)'
    BY <1>5, <1>6, <2>2, <2>5, <2>6, <2>7, Zenon DEF ReplicaServing
  <2>. QED
    BY <1>1, <1>3, <1>4, <2>8, ReplicaStep, Zenon
<1>. QED
  BY <1>2, <1>7, <1>8, Zenon
-----------------------------------------------------------------------------
(* rebuild.                                                                *)

Kept(r) == [k \in Key |-> IF k \in Evicted(r) THEN Absent ELSE cache[r][k]]
Input(r) == WithStaged(r, Kept(r))

\* What the first critical section of rebuild starts from.
Rebuilding(r) == /\ SoundStep /\ CacheSound(r) /\ ListServing(r) /\ FetchServing(r)
                 /\ tick[r].pc = "fetched"

\* rebuild evicts only what the rollup holds.
LEMMA EvictedFolded ==
    ASSUME NEW r \in Replica, Rebuilding(r), NEW k \in Evicted(r)
    PROVE  k \in Key /\ k \in Cached(cache[r]) /\ Folds(r, k)
<1>1. /\ held[r] # 0 /\ KnownMark(r) = rolls[held[r]].mark
      /\ \A j \in In(tick[r].lst) : Covers(rolls[held[r]].mark, tick[r].lst[j], j) <=> Folds(r, j)
  BY FoldsAsListed DEF Rebuilding, HasRollup
<1>2. CASE k \in tick[r].old /\ k \in Unlisted(cache[r]) /\ k \notin In(tick[r].lst)
  <2>1. Covers(KnownMark(r), stamp[k], k)
    BY <1>2 DEF Rebuilding, ListServing
  <2>. QED
    BY <1>1, <1>2, <2>1, UnlistedCached, Zenon DEF Folds
<1>3. CASE k \in Listed(cache[r]) /\ Covers(rolls[held[r]].mark, cache[r][k], k)
  <2>1. k \in Cached(cache[r]) /\ k \in Key /\ cache[r][k] # NoStamp
    BY <1>3, UnlistedCached, Zenon DEF Listed, Unlisted
  <2>2. cache[r][k] = stamp[k]
    BY <2>1, Zenon DEF Rebuilding, CacheSound
  <2>. QED
    BY <1>1, <1>3, <2>1, <2>2, Zenon DEF Folds
<1>. QED
  BY <1>2, <1>3, Zenon DEF Evicted

LEMMA KeptCache ==
    ASSUME NEW r \in Replica
    PROVE  /\ \A k \in Key : Kept(r)[k] = IF k \in Evicted(r) THEN Absent ELSE cache[r][k]
           /\ Cached(Kept(r)) = Cached(cache[r]) \ Evicted(r)
           /\ Unlisted(Kept(r)) = Unlisted(cache[r]) \ Evicted(r)
<1>1. \A k \in Key : Kept(r)[k] = IF k \in Evicted(r) THEN Absent ELSE cache[r][k]
  BY Zenon DEF Kept
<1>2. NoStamp # Absent
  BY DEF NoStamp, Absent
<1>. QED
  BY <1>1, <1>2, Zenon DEF Cached, Unlisted

LEMMA InputCache ==
    ASSUME NEW r \in Replica, Rebuilding(r)
    PROVE  /\ Cached(Input(r)) = (Cached(cache[r]) \ Evicted(r)) \cup tick[r].staged
           /\ Unlisted(Input(r)) = (Unlisted(cache[r]) \ Evicted(r)) \ tick[r].staged
           /\ \A k \in Listed(Input(r)) : Input(r)[k] = stamp[k] /\ ~Folds(r, k)
           /\ \A k \in Unlisted(Input(r)) : Input(r)[k] = NoStamp
<1>1. \A k \in Key : Input(r)[k] = IF k \in tick[r].staged THEN tick[r].lst[k] ELSE Kept(r)[k]
  BY Zenon DEF Input, WithStaged
<1>2. \A k \in tick[r].staged : /\ k \in Key /\ tick[r].lst[k] = stamp[k] /\ tick[r].lst[k] # NoStamp
                                /\ ~Folds(r, k) /\ tick[r].lst[k] # Absent
  <2>1. \A k \in tick[r].staged : k \in In(tick[r].lst) /\ ~Folds(r, k)
    BY Zenon DEF Rebuilding, FetchServing
  <2>2. \A k \in In(tick[r].lst) : /\ k \in Key /\ tick[r].lst[k] = stamp[k] /\ tick[r].lst[k] # NoStamp
                                   /\ tick[r].lst[k] \in Nat
    BY InputType, Zenon DEF Rebuilding, ListServing, In, SoundStep
  <2>3. \A n \in Nat : n # Absent
    BY DEF Absent
  <2>. QED
    BY <2>1, <2>2, <2>3, Zenon
<1>3. Cached(Input(r)) = Cached(Kept(r)) \cup tick[r].staged
  BY <1>1, <1>2, Zenon DEF Cached
<1>4. Unlisted(Input(r)) = Unlisted(Kept(r)) \ tick[r].staged
  BY <1>1, <1>2, Zenon DEF Unlisted
<1>5. \A k \in Unlisted(Input(r)) : Input(r)[k] = NoStamp
  BY Zenon DEF Unlisted
<1>6. ASSUME NEW k \in Listed(Input(r)) PROVE Input(r)[k] = stamp[k] /\ ~Folds(r, k)
  <2>1. CASE k \in tick[r].staged
    BY <1>1, <1>2, <2>1, Zenon
  <2>2. CASE k \notin tick[r].staged
    <3>1. k \in Cached(Kept(r)) /\ k \notin Unlisted(Kept(r)) /\ k \in Key
      BY <1>3, <1>4, <2>2, UnlistedCached, Zenon DEF Listed
    <3>2. k \in Cached(cache[r]) /\ k \notin Evicted(r) /\ k \notin Unlisted(cache[r])
      BY <3>1, KeptCache, Zenon
    <3>3. Input(r)[k] = cache[r][k] /\ cache[r][k] # NoStamp
      BY <1>1, <2>2, <3>1, <3>2, KeptCache, Zenon DEF Unlisted
    <3>4. cache[r][k] = stamp[k]
      BY <3>2, <3>3, Zenon DEF Rebuilding, CacheSound
    <3>5. ~Covers(rolls[held[r]].mark, cache[r][k], k)
      BY <3>2, Zenon DEF Evicted, Listed
    <3>. QED
      BY <3>3, <3>4, <3>5, Zenon DEF Folds
  <2>. QED
    BY <2>1, <2>2, Zenon
<1>. QED
  BY <1>3, <1>4, <1>5, <1>6, KeptCache, Zenon

\* replay is the rollup, then what was listed in canonical order, then the rest.
LEMMA ReplayBuilt ==
    ASSUME NEW r \in Replica, Rebuilding(r)
    PROVE  Replay(rolls[held[r]], Input(r))
             = rolls[held[r]].state
                 \o Canonical(stamp, Ops(Cached(Input(r)) \ Unlisted(Input(r))))
                 \o Canonical(None, Ops(Unlisted(Input(r))))
<1>. DEFINE c == Input(r)
            m == rolls[held[r]].mark
            tail == {k \in Listed(c) : ~Covers(m, c[k], k)}
<1>1. held[r] # 0
  BY FoldsAsListed DEF Rebuilding, HasRollup
<1>2. \A k \in Listed(c) : c[k] = stamp[k] /\ ~Covers(m, stamp[k], k)
  BY <1>1, InputCache, Zenon DEF Folds
<1>3. tail = Cached(c) \ Unlisted(c)
  BY <1>2, Zenon DEF Listed
<1>4. Canonical(c, Ops(tail)) = Canonical(stamp, Ops(tail))
  <2>1. \A k \in Ops(tail) : c[k] = stamp[k]
    BY <1>2, Zenon DEF Ops
  <2>. QED
    BY <2>1, CanonicalAgree, Zenon
<1>5. Canonical(c, Ops(Unlisted(c))) = Canonical(None, Ops(Unlisted(c)))
  <2>1. \A k \in Ops(Unlisted(c)) : c[k] = NoStamp /\ k \in Key
    BY InputCache, UnlistedCached, Zenon DEF Ops
  <2>2. \A k \in Ops(Unlisted(c)) : c[k] = None[k]
    BY <2>1, Zenon DEF None
  <2>. QED
    BY <2>2, CanonicalAgree, Zenon
<1>6. Replay(rolls[held[r]], c)
        = rolls[held[r]].state \o Canonical(c, Ops(tail)) \o Canonical(c, Ops(Unlisted(c)))
  BY Zenon DEF Replay
<1>. QED
  BY <1>3, <1>4, <1>5, <1>6, Zenon

LEMMA ServingRebuildInput ==
    ASSUME SoundStep, ServingInv, NEW r \in Replica, RebuildInput(r)
    PROVE  ServingInv'
<1>1. /\ UNCHANGED <<clock, sent, stamp, live, probes, rolls, writer, served, held>>
      /\ tick[r].pc = "fetched" /\ tick \in [Replica -> TickType]
      /\ cache \in [Replica -> [Key -> Nat \cup {Absent}]]
  BY Zenon DEF RebuildInput, bucketVars, SoundStep, TypeOK, TickOK, StateOK
<1>2. /\ cache' = [cache EXCEPT ![r] = Kept(r)]
      /\ tick' = [tick EXCEPT ![r].pc = "built", ![r].input = Cached(Input(r)),
                              ![r].built = Replay(rolls[held[r]], Input(r))]
  BY Zenon DEF RebuildInput, Kept, Input
<1>3. BucketServing' /\ ReplicaServing(r) /\ HeldGrows(r) /\ Rebuilding(r)
  BY <1>1, BucketSame, HeldSame, Zenon DEF ServingInv, ReplicaServing, Rebuilding
<1>4. PICK I, U : I = Cached(Input(r)) /\ U = Unlisted(Input(r))
  OBVIOUS
<1>5. /\ I = (Cached(cache[r]) \ Evicted(r)) \cup tick[r].staged
      /\ U = (Unlisted(cache[r]) \ Evicted(r)) \ tick[r].staged
      /\ \A k \in I \ U : ~Folds(r, k)
      /\ U \subseteq I /\ I \subseteq Key
  BY <1>3, <1>4, InputCache, UnlistedCached, Zenon DEF Listed
<1>6. cache'[r] = Kept(r) /\ Cached(cache[r])' = Cached(cache[r]) \ Evicted(r)
  <2>1. cache'[r] = Kept(r)
    BY <1>1, <1>2, Zenon
  <2>2. Cached(cache[r])' = Cached(Kept(r))
    BY <2>1, Zenon DEF Cached
  <2>. QED
    BY <2>1, <2>2, KeptCache, Zenon
<1>7. /\ tick'[r].pc = "built" /\ tick'[r].input = I
      /\ tick'[r].built = rolls[held[r]].state \o Canonical(stamp, Ops(I \ U)) \o Canonical(None, Ops(U))
      /\ tick'[r].barrier = tick[r].barrier /\ tick'[r].old = tick[r].old
      /\ tick'[r].lst = tick[r].lst /\ tick'[r].staged = tick[r].staged
  <2>1. Replay(rolls[held[r]], Input(r))
            = rolls[held[r]].state \o Canonical(stamp, Ops(I \ U)) \o Canonical(None, Ops(U))
    BY <1>3, <1>4, ReplayBuilt, Zenon
  <2>2. /\ tick'[r].pc = "built" /\ tick'[r].input = Cached(Input(r))
        /\ tick'[r].built = Replay(rolls[held[r]], Input(r))
        /\ tick'[r].barrier = tick[r].barrier /\ tick'[r].old = tick[r].old
        /\ tick'[r].lst = tick[r].lst /\ tick'[r].staged = tick[r].staged
    BY <1>1, <1>2 DEF TickType
  <2>. QED
    BY <1>4, <2>1, <2>2, Zenon
<1>8. Others(r)
  <2>1. \A q \in Replica \ {r} : tick'[q] = tick[q] /\ cache'[q] = cache[q]
    BY <1>1, <1>2, Zenon
  <2>. QED
    BY <1>1, <2>1, Zenon DEF Others
<1>9. (\A x : Folds(r, x)' <=> Folds(r, x)) /\ In(tick[r].lst)' = In(tick[r].lst)
      /\ Landed' = Landed /\ Applied(served[r])' = Applied(served[r])
  BY <1>1, <1>7, Zenon DEF Folds, In, Landed, Writes, Applied
<1>10. \A k \in Evicted(r) : Folds(r, k)
  BY <1>3, EvictedFolded, Zenon
<1>11. CacheSound(r)'
  <2>1. ASSUME NEW k \in Cached(cache[r])'
        PROVE  stamp'[k] # NoStamp /\ cache'[r][k] \in {NoStamp, stamp'[k]}
    <3>1. k \in Cached(cache[r]) /\ k \notin Evicted(r) /\ k \in Key
      BY <1>6, UnlistedCached, Zenon
    <3>2. cache'[r][k] = cache[r][k]
      BY <1>6, <3>1, KeptCache, Zenon
    <3>. QED
      BY <1>1, <1>3, <3>1, <3>2, Zenon DEF ReplicaServing, CacheSound
  <2>. QED
    BY <2>1, Zenon DEF CacheSound
<1>12. ServedSound(r)'
  <2>1. ServedSound(r) /\ held'[r] = held[r]
    BY <1>1, <1>3, Zenon DEF ReplicaServing
  <2>2. Ops(Cached(cache[r]))' \subseteq Ops(Cached(cache[r]))
    BY <1>1, <1>6, Zenon DEF Ops
  <2>. QED
    BY <1>6, <1>9, <1>10, <2>1, <2>2, Zenon DEF ServedSound
<1>13. WriterServing(r)' /\ ListServing(r)'
  <2>1. /\ tick[r].pc \in {"rolled", "fetched"} /\ tick'[r].pc \in {"fetched", "built"}
        /\ held'[r] = held[r] /\ writer'[r] = writer[r]
    BY <1>1, <1>7
  <2>. QED
    BY <1>1, <1>3, <1>7, <2>1, WriterFrame, ListFrame, Zenon DEF ReplicaServing
<1>14. FetchServing(r)' /\ FoldServing(r)'
  BY <1>7 DEF FetchServing, FoldServing
<1>15. \A k \in U : k \in In(tick[r].lst) => Folds(r, k)
  BY <1>1, <1>3, <1>5, UnlistedCached, Zenon DEF ReplicaServing, FetchServing
<1>16. Prompt => \A k \in U : ~Folds(r, k)
  <2>. SUFFICES ASSUME Prompt, NEW k \in U PROVE ~Folds(r, k)
    OBVIOUS
  <2>1. k \in Unlisted(cache[r]) /\ k \notin Evicted(r) /\ k \notin tick[r].staged
    BY <1>5, Zenon
  <2>2. CASE k \in tick[r].old
    <3>1. k \in In(tick[r].lst)
      BY <2>1, <2>2, Zenon DEF Evicted
    <3>. QED
      BY <1>1, <1>3, <2>1, <2>2, <3>1, Zenon DEF ReplicaServing, FetchServing
  <2>3. CASE k \notin tick[r].old
    BY <1>1, <1>3, <2>1, <2>3 DEF ReplicaServing, PromptServing
  <2>. QED
    BY <2>2, <2>3, Zenon
<1>17. BuiltFrom(r, U)'
  <2>1. Ops(I \ U)' = Ops(I \ U) /\ Ops(U)' = Ops(U)
    BY <1>1, Zenon DEF Ops
  <2>2. tick'[r].built = rolls'[held'[r]].state \o Canonical(stamp', Ops(I \ U)')
                                                \o Canonical(None, Ops(U)')
    BY <1>1, <1>7, <2>1, Zenon
  <2>. QED
    BY <1>5, <1>7, <1>9, <1>15, <1>16, <2>2, Zenon DEF BuiltFrom
<1>18. BuildServing(r)'
  <2>1. ASSUME NEW k \in I PROVE stamp'[k] # NoStamp
    <3>1. CASE k \in Cached(cache[r])
      BY <1>1, <1>3, <3>1, Zenon DEF ReplicaServing, CacheSound
    <3>2. CASE k \in tick[r].staged
      <4>1. k \in In(tick[r].lst)
        BY <1>1, <1>3, <3>2, Zenon DEF ReplicaServing, FetchServing
      <4>. QED
        BY <1>1, <4>1, ListedLanded, Zenon DEF SoundStep
    <3>. QED
      BY <1>5, <3>1, <3>2, Zenon
  <2>2. tick[r].staged \subseteq In(tick[r].lst)
    BY <1>1, <1>3, Zenon DEF ReplicaServing, FetchServing
  <2>3. \A k \in In(tick[r].lst) : Folds(r, k) \/ k \in I
    BY <1>1, <1>3, <1>5, <1>10, Zenon DEF ReplicaServing, FetchServing
  <2>4. U \in SUBSET Key
    BY <1>5, Zenon
  <2>. QED
    BY <1>5, <1>6, <1>7, <1>9, <1>17, <2>1, <2>2, <2>3, <2>4, Zenon DEF BuildServing
<1>19. PromptServing(r)'
  <2>1. Distinct(served[r])' <=> Distinct(served[r])
    BY <1>1, Zenon DEF Distinct
  <2>2. Late(r)' = {}
    BY <1>5, <1>6, <1>7, Zenon DEF Late
  <2>3. PromptServing(r)
    BY <1>3, Zenon DEF ReplicaServing
  <2>. QED
    BY <1>7, <2>1, <2>2, <2>3 DEF PromptServing, InListWindow
<1>20. ReplicaServing(r)'
  BY <1>11, <1>12, <1>13, <1>14, <1>18, <1>19, Zenon DEF ReplicaServing
<1>. QED
  BY <1>1, <1>3, <1>8, <1>20, ReplicaStep, Zenon

\* The key sets a rebuilt state is made of.
Parts(r) == Beneath(rolls[held[r]].mark) \cup Ops(tick[r].input) \cup Ops(Late(r))

\* A rebuild serves the legacy state, what the rollup covers, its input and
\* what was inserted during the replay; each once, where a tick is prompt.
LEMMA RebuiltHolds ==
    ASSUME ReplayHolds, TypeOK, BucketServing, NEW r \in Replica, tick[r].pc = "built",
           CacheSound(r), BuildServing(r), PromptServing(r)
    PROVE  /\ Applied(Rebuilt(r)) = Applied(Legacy) \cup Parts(r)
           /\ Prompt => Distinct(Rebuilt(r))
<1>. DEFINE m == rolls[held[r]].mark
            I == tick[r].input
            L == Late(r)
<1>1. PICK U \in SUBSET Key : BuiltFrom(r, U)
  BY Zenon DEF BuildServing
<1>2. /\ I \in SUBSET Key /\ stamp \in [Key -> Nat] /\ cache[r] \in [Key -> Nat \cup {Absent}]
      /\ rolls \in Seq(RollupType) /\ held[r] \in 1..Len(rolls) /\ held[r] # 0
  BY InputType, HoldsRollup DEF TypeOK, BucketOK, StateOK, TickOK, HasRollup
<1>3. stamp \in [Key -> Int] /\ cache[r] \in [Key -> Int] /\ None \in [Key -> Int]
  <2>1. Nat \subseteq Int /\ Nat \cup {Absent} \subseteq Int
    BY DEF Absent
  <2>2. NoStamp \in Int
    BY DEF NoStamp
  <2>. QED
    BY <1>2, <2>1, <2>2, Zenon DEF None
<1>4. PICK B, J, V, W : /\ B = Beneath(m) /\ J = Ops(I \ U) /\ V = Ops(U) /\ W = Ops(L)
  OBVIOUS
<1>5. B \in SUBSET Key /\ J \in SUBSET Key /\ V \in SUBSET Key /\ W \in SUBSET Key
  BY <1>1, <1>2, <1>4, UnlistedCached, Zenon DEF Beneath, Landed, Writes, Ops, Late
<1>6. PICK b, j, v, w : /\ b = Canonical(stamp, B) /\ j = Canonical(stamp, J)
                        /\ v = Canonical(None, V) /\ w = Canonical(cache[r], W)
  OBVIOUS
<1>7. /\ b \in Seq(Nat) /\ Applied(b) = B /\ Distinct(b)
      /\ j \in Seq(Nat) /\ Applied(j) = J /\ Distinct(j)
      /\ v \in Seq(Nat) /\ Applied(v) = V /\ Distinct(v)
      /\ w \in Seq(Nat) /\ Applied(w) = W /\ Distinct(w)
  BY <1>3, <1>5, <1>6, Zenon DEF ReplayHolds
<1>8. Rebuilt(r) = Legacy \o b \o j \o v \o w
  <2>1. rolls[held[r]].state = Legacy \o b
    BY <1>2, <1>4, <1>6, Zenon DEF BucketServing
  <2>2. tick[r].built = rolls[held[r]].state \o j \o v
    BY <1>1, <1>4, <1>6, Zenon DEF BuiltFrom
  <2>. QED
    BY <1>4, <1>6, <2>1, <2>2, Zenon DEF Rebuilt
<1>9. PICK x, y, z : x = Legacy \o b /\ y = x \o j /\ z = y \o v
  OBVIOUS
<1>10. /\ x \in Seq(Nat) /\ Applied(x) = Applied(Legacy) \cup B
       /\ Distinct(Legacy) /\ Applied(Legacy) \cap B = {} => Distinct(x)
  BY <1>7, <1>9, AppliedConcat, LegacyAssumption, Zenon
<1>11. /\ y \in Seq(Nat) /\ Applied(y) = Applied(x) \cup J
       /\ Distinct(x) /\ Applied(x) \cap J = {} => Distinct(y)
  BY <1>7, <1>9, <1>10, AppliedConcat, Zenon
<1>12. /\ z \in Seq(Nat) /\ Applied(z) = Applied(y) \cup V
       /\ Distinct(y) /\ Applied(y) \cap V = {} => Distinct(z)
  BY <1>7, <1>9, <1>11, AppliedConcat, Zenon
<1>13. /\ Applied(Rebuilt(r)) = Applied(z) \cup W
       /\ Distinct(z) /\ Applied(z) \cap W = {} => Distinct(Rebuilt(r))
  <2>1. Rebuilt(r) = z \o w
    BY <1>8, <1>9, Zenon
  <2>2. /\ Applied(z \o w) = Applied(z) \cup Applied(w)
        /\ Distinct(z) /\ Distinct(w) /\ Applied(z) \cap Applied(w) = {} => Distinct(z \o w)
    BY <1>7, <1>12, AppliedConcat, Zenon
  <2>. QED
    BY <1>7, <2>1, <2>2, Zenon
<1>14. U \subseteq I
  BY <1>1, Zenon DEF BuiltFrom
<1>15. J \cup V = Ops(I)
  BY <1>4, <1>14, Zenon DEF Ops
<1>16. Applied(Rebuilt(r)) = Applied(Legacy) \cup Parts(r)
  BY <1>4, <1>10, <1>11, <1>12, <1>13, <1>15, Zenon DEF Parts
<1>17. ASSUME Prompt PROVE Distinct(Rebuilt(r))
  <2>1. Distinct(Legacy)
    BY LegacyApart, Zenon DEF Distinct
  <2>2. \A k \in Applied(Legacy) : k \notin Key
    BY LegacyApart, Zenon DEF Applied
  <2>3. \A k \in B : Folds(r, k)
    BY <1>2, <1>4, Zenon DEF Beneath, Folds
  <2>4. \A k \in J : ~Folds(r, k) /\ k \in I /\ k \notin V
    BY <1>1, <1>4, Zenon DEF BuiltFrom, Ops
  <2>5. \A k \in V : ~Folds(r, k) /\ k \in I
    BY <1>1, <1>4, <1>14, <1>17, Zenon DEF BuiltFrom, Ops
  <2>6. \A k \in W : ~Folds(r, k) /\ k \notin I
    BY <1>4, <1>17, Zenon DEF PromptServing, Ops, Late
  <2>7. Distinct(x)
    BY <1>5, <1>10, <2>1, <2>2, Zenon
  <2>8. Distinct(y)
    BY <1>5, <1>10, <1>11, <2>2, <2>3, <2>4, <2>7, Zenon
  <2>9. Distinct(z)
    BY <1>5, <1>10, <1>11, <1>12, <2>2, <2>3, <2>4, <2>5, <2>8, Zenon
  <2>. QED
    BY <1>5, <1>10, <1>11, <1>12, <1>13, <2>2, <2>3, <2>4, <2>5, <2>6, <2>9, Zenon
<1>. QED
  BY <1>16, <1>17, Zenon

\* What is left of a tick once the state has been swapped.
AfterSwap(r) == IF tick[r].flush THEN IdleTick
                ELSE [IdleTick EXCEPT !.pc = "ladder", !.lst = tick[r].lst]

LEMMA ServingRebuildSwap ==
    ASSUME ReplayHolds, SoundStep, ServingInv, NEW r \in Replica, RebuildSwap(r)
    PROVE  ServingInv'
<1>1. /\ UNCHANGED <<clock, sent, stamp, live, probes, rolls, writer, held>>
      /\ tick[r].pc = "built" /\ tick \in [Replica -> TickType]
      /\ cache \in [Replica -> [Key -> Nat \cup {Absent}]] /\ served \in [Replica -> Seq(Nat)]
  BY Zenon DEF RebuildSwap, bucketVars, SoundStep, TypeOK, TickOK, StateOK
<1>2. /\ served' = [served EXCEPT ![r] = Rebuilt(r)]
      /\ cache' = [cache EXCEPT ![r] = WithStaged(r, @)]
      /\ tick' = [tick EXCEPT ![r] = AfterSwap(r)]
  BY <1>1, Zenon DEF RebuildSwap, AfterSwap
<1>3. /\ served'[r] = Rebuilt(r) /\ cache'[r] = WithStaged(r, cache[r])
      /\ tick'[r] = AfterSwap(r) /\ Others(r)
  BY <1>1, <1>2, Zenon DEF Others
<1>4. BucketServing /\ BucketServing' /\ ReplicaServing(r)
  BY <1>1, BucketSame, Zenon DEF ServingInv
<1>5. /\ Applied(served[r])' = Applied(Legacy) \cup Parts(r)
      /\ Prompt => Distinct(served[r])'
  <2>1. /\ Applied(Rebuilt(r)) = Applied(Legacy) \cup Parts(r)
        /\ Prompt => Distinct(Rebuilt(r))
    BY <1>1, <1>4, RebuiltHolds, Zenon DEF ReplicaServing, SoundStep
  <2>. QED
    BY <1>3, <2>1, Zenon DEF Applied, Distinct
<1>6. /\ \A k \in tick[r].input : stamp[k] # NoStamp
      /\ tick[r].staged \subseteq tick[r].input /\ tick[r].staged \subseteq In(tick[r].lst)
      /\ tick[r].input \subseteq Cached(cache[r]) \cup tick[r].staged
      /\ \A k \in In(tick[r].lst) : Folds(r, k) \/ k \in tick[r].input
  BY <1>1, <1>4, Zenon DEF ReplicaServing, BuildServing
<1>7. \A k \in In(tick[r].lst) : tick[r].lst[k] = stamp[k]
  BY <1>4, Zenon DEF ReplicaServing, ListServing
<1>8. /\ Cached(cache[r])' = Cached(cache[r]) \cup tick[r].staged /\ CacheSound(r)'
  <2>1. \A k \in Key : cache'[r][k] = IF k \in tick[r].staged THEN tick[r].lst[k] ELSE cache[r][k]
    BY <1>3, Zenon DEF WithStaged
  <2>2. \A k \in tick[r].staged : /\ k \in Key /\ tick[r].lst[k] # Absent
                                  /\ tick[r].lst[k] = stamp[k] /\ stamp[k] # NoStamp
    <3>1. tick[r].lst \in [Key -> Nat] /\ tick[r].staged \in SUBSET Key
      BY InputType, Zenon DEF SoundStep
    <3>2. \A k \in Key : tick[r].lst[k] # Absent
      BY <3>1 DEF Absent
    <3>. QED
      BY <1>6, <1>7, <3>1, <3>2, Zenon
  <2>3. Cached(cache[r])' = Cached(cache[r]) \cup tick[r].staged
    BY <2>1, <2>2, Zenon DEF Cached
  <2>4. \A k \in Cached(cache[r]) : k \in Key /\ stamp[k] # NoStamp /\ cache[r][k] \in {NoStamp, stamp[k]}
    BY <1>4, UnlistedCached, Zenon DEF ReplicaServing, CacheSound
  <2>. QED
    BY <1>1, <2>1, <2>2, <2>3, <2>4, Zenon DEF CacheSound
<1>9. held[r] # 0 /\ (\A x : Folds(r, x)' <=> Folds(r, x)) /\ Landed' = Landed
  <2>1. held[r] # 0
    BY <1>1 DEF SoundStep, TypeOK, TickOK, HasRollup
  <2>. QED
    BY <1>1, <2>1, Zenon DEF Folds, Landed, Writes
<1>10. Late(r) \subseteq Cached(cache[r]) /\ Cached(cache[r]) \subseteq tick[r].input \cup Late(r)
  BY Zenon DEF Late
<1>11. ServedSound(r)'
  <2>1. ASSUME NEW x \in Parts(r)
        PROVE  x \in Landed /\ (x \in Cached(cache[r])' \/ Folds(r, x))
    <3>1. CASE x \in Beneath(rolls[held[r]].mark)
      BY <1>9, <3>1, Zenon DEF Beneath, Folds
    <3>2. CASE x \in Ops(tick[r].input \cup Late(r))
      <4>1. x \in Key /\ stamp[x] # NoStamp /\ x \notin probes
        <5>1. tick[r].input \in SUBSET Key
          BY InputType, Zenon DEF SoundStep
        <5>. QED
          BY <1>4, <1>6, <1>10, <3>2, <5>1, UnlistedCached, Zenon DEF ReplicaServing, CacheSound, Ops
      <4>2. x \in Cached(cache[r])'
        BY <1>6, <1>8, <1>10, <3>2, Zenon DEF Ops
      <4>. QED
        BY <4>1, <4>2, Zenon DEF Landed, Writes, NoStamp
    <3>. QED
      BY <3>1, <3>2, Zenon DEF Parts, Ops
  <2>2. Ops(Cached(cache[r]))' \subseteq Parts(r)
    BY <1>1, <1>6, <1>8, <1>10, Zenon DEF Ops, Parts
  <2>. QED
    BY <1>1, <1>5, <1>9, <2>1, <2>2, Zenon DEF ServedSound
<1>12. WriterServing(r)'
  BY <1>1, <1>4, WriterFrame, Zenon DEF ReplicaServing
<1>13. CASE tick[r].flush
  <2>1. tick'[r] = IdleTick /\ tick'[r].pc = "idle"
    BY <1>3, <1>13 DEF AfterSwap, IdleTick
  <2>2. PromptServing(r)'
    BY <1>5, <2>1 DEF PromptServing, InListWindow
  <2>3. ReplicaServing(r)'
    BY <1>8, <1>11, <1>12, <2>1, <2>2, RestServing, Zenon DEF ReplicaServing
  <2>. QED
    BY <1>1, <1>3, <1>4, <2>3, ReplicaStep, Zenon
<1>14. CASE ~tick[r].flush
  <2>1. /\ tick'[r].pc = "ladder" /\ tick'[r].lst = tick[r].lst
        /\ tick'[r].old = {} /\ tick'[r].barrier = {}
    BY <1>3, <1>14 DEF AfterSwap, IdleTick
  <2>2. In(tick[r].lst)' = In(tick[r].lst)
    BY <2>1, Zenon DEF In
  <2>3. ListServing(r)'
    BY <1>1, <1>7, <2>1, <2>2 DEF ListServing
  <2>4. FoldServing(r)'
    BY <1>6, <1>8, <1>9, <2>1, <2>2 DEF FoldServing
  <2>5. FetchServing(r)' /\ BuildServing(r)'
    BY <2>1 DEF FetchServing, BuildServing
  <2>6. PromptServing(r)'
    BY <1>5, <2>1 DEF PromptServing, InListWindow
  <2>7. ReplicaServing(r)'
    BY <1>8, <1>11, <1>12, <2>3, <2>4, <2>5, <2>6, Zenon DEF ReplicaServing
  <2>. QED
    BY <1>1, <1>3, <1>4, <2>7, ReplicaStep, Zenon
<1>. QED
  BY <1>13, <1>14, Zenon
-----------------------------------------------------------------------------
(* The ladder.                                                             *)

\* A step of the ladder that keeps the rollup and the listing.
LEMMA LadderMoves ==
    ASSUME SoundStep, ServingInv, NEW r \in Replica,
           UNCHANGED <<clock, writer, cache, served, held>>,
           NEW t, tick' = [tick EXCEPT ![r] = t], t.lst = tick[r].lst, t.old = tick[r].old,
           t.barrier = tick[r].barrier, t.pc \in {"recheck", "commit", "probe", "probing"},
           tick[r].pc \in {"ladder", "recheck", "commit", "probe"},
           t.pc \in {"recheck", "commit"} => tick[r].pc \in {"ladder", "recheck", "commit"},
           BucketServing'
    PROVE  ServingInv'
<1>1. tick'[r] = t
  BY Zenon DEF SoundStep, TypeOK, TickOK
<1>2. ReplicaServing(r) /\ Cached(cache[r])' = Cached(cache[r]) /\ HeldGrows(r)
  BY HeldSame, Zenon DEF ServingInv, Cached
<1>3. /\ tick'[r].pc \in {"ladder", "recheck", "commit", "clean", "probe", "probing"}
      /\ tick'[r].pc = "clean" => tick'[r] = tick[r]
      /\ tick'[r].pc \in {"ladder", "recheck", "commit"} => tick[r].pc \in {"ladder", "recheck", "commit"}
      /\ held'[r] = held[r] /\ tick'[r].lst = tick[r].lst
  BY <1>1
<1>4. ListServing(r)' /\ FoldServing(r)'
  BY <1>1, <1>2, <1>3, ListFrame, FoldFrame, Zenon DEF ReplicaServing
<1>5. FetchServing(r)' /\ BuildServing(r)'
  BY <1>3 DEF FetchServing, BuildServing
<1>6. PromptServing(r)'
  <2>1. Prompt => Distinct(served[r])'
    BY <1>2, Zenon DEF ReplicaServing, PromptServing, Distinct
  <2>. QED
    BY <1>3, <2>1 DEF PromptServing, InListWindow
<1>. QED
  BY <1>2, <1>4, <1>5, <1>6, TickMoves, Zenon

LEMMA ServingLadder ==
    ASSUME SoundStep, ServingInv, NEW r \in Replica, LadderStep(r)
    PROVE  ServingInv'
<1>1. /\ UNCHANGED <<clock, sent, stamp, probes, rolls, writer, cache, served, held>>
      /\ tick[r].pc = "ladder" /\ Remove(Leftovers(r)) /\ tick[r] \in TickType
  BY Zenon DEF LadderStep, SoundStep, TypeOK, TickOK
<1>2. BucketServing'
  <2>1. ASSUME NEW k \in Leftovers(r) PROVE Covers(CurrentMark, stamp[k], k)
    <3>1. k \in In(tick[r].lst) /\ Covers(rolls[held[r]].mark, tick[r].lst[k], k)
      BY Zenon DEF Leftovers
    <3>2. tick[r].lst[k] = stamp[k]
      BY <3>1, Zenon DEF ServingInv, ReplicaServing, ListServing
    <3>3. k \in Key /\ stamp[k] \in Nat /\ k \in Nat
      BY <3>1, StampType, Zenon DEF In, SoundStep
    <3>4. tick[r].pc \in HasRollup
      BY <1>1 DEF HasRollup
    <3>. QED
      BY <3>1, <3>2, <3>3, <3>4, MarksGrow, Zenon DEF SoundStep, JournalInv
  <2>. QED
    BY <1>1, <2>1, BucketCleaned, Zenon DEF ServingInv
<1>3. \/ tick' = [tick EXCEPT ![r] = [tick[r] EXCEPT !.pc = "recheck", !.cand = Candidates(r)]]
      \/ tick' = [tick EXCEPT ![r] = [tick[r] EXCEPT !.pc = "probe"]]
      \/ tick' = [tick EXCEPT ![r] = IdleTick]
  BY Zenon DEF LadderStep
<1>4. CASE tick' = [tick EXCEPT ![r] = IdleTick]
  BY <1>1, <1>2, <1>4, HeldSame, AbortServing, Zenon
<1>5. ASSUME NEW t, tick' = [tick EXCEPT ![r] = t],
             \/ t = [tick[r] EXCEPT !.pc = "recheck", !.cand = Candidates(r)]
             \/ t = [tick[r] EXCEPT !.pc = "probe"]
      PROVE  ServingInv'
  <2>1. /\ t.lst = tick[r].lst /\ t.old = tick[r].old /\ t.barrier = tick[r].barrier
        /\ t.pc \in {"recheck", "commit", "probe", "probing"}
        /\ tick[r].pc \in {"ladder", "recheck", "commit", "probe"}
        /\ t.pc \in {"recheck", "commit"} => tick[r].pc \in {"ladder", "recheck", "commit"}
    BY <1>1, <1>5 DEF TickType
  <2>. QED
    BY <1>1, <1>2, <1>5, <2>1, LadderMoves, Zenon
<1>. QED
  BY <1>3, <1>4, <1>5, Zenon

LEMMA ServingRecheck ==
    ASSUME SoundStep, ServingInv, NEW r \in Replica, CompactRecheck(r)
    PROVE  ServingInv'
<1>1. /\ UNCHANGED <<clock, sent, stamp, live, probes, rolls, writer, cache, served>>
      /\ tick[r].pc = "recheck" /\ held' = [held EXCEPT ![r] = Len(rolls)]
      /\ held \in [Replica -> 0..Len(rolls)] /\ tick[r] \in TickType
  BY Zenon DEF CompactRecheck, bucketVars, SoundStep, TypeOK, TickOK
<1>2. BucketServing'
  BY <1>1, BucketSame, Zenon DEF ServingInv
<1>3. held'[r] = Len(rolls) /\ \A q \in Replica \ {r} : held'[q] = held[q]
  BY <1>1, Zenon
<1>4. CASE held[r] = Len(rolls)
  <2>1. UNCHANGED held
    <3>1. \A q \in Replica : held'[q] = held[q]
      BY <1>3, <1>4, Zenon
    <3>2. held' \in [Replica -> 0..Len(rolls)]
      BY <1>1, Zenon DEF SoundStep, TypeOK, TickOK
    <3>. QED
      BY <1>1, <3>1, <3>2
  <2>2. tick' = [tick EXCEPT ![r] = [tick[r] EXCEPT !.pc = "commit"]]
    BY <1>4, Zenon DEF CompactRecheck
  <2>3. PICK t : t = [tick[r] EXCEPT !.pc = "commit"]
    OBVIOUS
  <2>4. /\ t.lst = tick[r].lst /\ t.old = tick[r].old /\ t.barrier = tick[r].barrier
        /\ t.pc \in {"recheck", "commit", "probe", "probing"}
        /\ tick[r].pc \in {"ladder", "recheck", "commit", "probe"}
        /\ t.pc \in {"recheck", "commit"} => tick[r].pc \in {"ladder", "recheck", "commit"}
    BY <1>1, <2>3 DEF TickType
  <2>. QED
    BY <1>1, <1>2, <2>1, <2>2, <2>3, <2>4, LadderMoves, Zenon
<1>5. CASE held[r] # Len(rolls)
  <2>1. tick' = [tick EXCEPT ![r] = IdleTick]
    BY <1>5, Zenon DEF CompactRecheck
  <2>2. HeldGrows(r)
    <3>1. held[r] \in 0..Len(rolls) /\ rolls \in Seq(RollupType)
      BY <1>1, Zenon DEF SoundStep, TypeOK, BucketOK
    <3>2. Len(rolls) \in Nat
      BY <3>1
    <3>. QED
      BY <1>1, <1>3, <3>1, <3>2 DEF HeldGrows
  <2>. QED
    BY <1>1, <1>2, <1>3, <2>1, <2>2, AbortServing, Zenon
<1>. QED
  BY <1>4, <1>5, Zenon

\* compact: the candidates are landed segments the new mark covers, and what
\* they were aged against is still in the bucket.
LEMMA CommitCovers ==
    ASSUME SoundStep, ServingInv, NEW r \in Replica, tick[r].pc = "commit", Elected(r),
           NEW last \in Key, IsLast(r, last)
    PROVE  LET nm == Folded(r, last).mark IN
           /\ \A k \in tick[r].cand : k \in Key /\ stamp[k] # NoStamp /\ Covers(nm, stamp[k], k)
           /\ ReplayLaws => \E j \in live : stamp[j] >= nm.lm + Age
<1>. DEFINE l == tick[r].lst
            nm == Folded(r, last).mark
<1>1. nm = [lm |-> l[last], key |-> last]
  BY DEF Folded
<1>2. /\ tick[r].cand = Candidates(r) /\ l \in [Key -> Nat]
      /\ \A k \in In(l) : l[k] = stamp[k]
  BY InputType, Zenon DEF SoundStep, JournalInv, TickSound, ServingInv, ReplicaServing, ListServing
<1>3. ASSUME NEW k \in tick[r].cand
      PROVE  k \in Key /\ k \in In(l) /\ stamp[k] # NoStamp /\ l[k] = stamp[k] /\ Aged(l, k)
  <2>1. k \in In(l) /\ Aged(l, k)
    BY <1>2, Zenon DEF Candidates
  <2>. QED
    BY <1>2, <2>1, ListedLanded, Zenon DEF SoundStep
<1>4. last \in tick[r].cand /\ \A k \in tick[r].cand : k = last \/ Before(l, k, last)
  BY Zenon DEF IsLast
<1>5. \A k \in tick[r].cand : Covers(nm, stamp[k], k)
  <2>1. ASSUME NEW k \in tick[r].cand PROVE Covers([lm |-> l[last], key |-> last], l[k], k)
    <3>1. k \in Nat /\ last \in Nat /\ l[k] \in Nat /\ l[last] \in Nat
      BY <1>2, <1>3, StampType, Zenon DEF SoundStep
    <3>. QED
      BY <1>4, <3>1, LastCovers, Zenon
  <2>. QED
    BY <1>1, <1>3, <2>1, Zenon
<1>6. ASSUME ReplayLaws PROVE \E j \in live : stamp[j] >= nm.lm + Age
  <2>1. PICK j \in In(l) : l[j] - l[last] >= Age
    BY <1>3, <1>4, Zenon DEF Aged
  <2>2. j \in Key /\ stamp[j] # NoStamp /\ l[j] = stamp[j] /\ stamp[j] \in Nat /\ j \in Nat
    BY <1>2, ListedLanded, StampType, Zenon DEF SoundStep
  <2>3. l[last] \in Nat /\ last \in Nat
    BY <1>2, StampType, Zenon DEF SoundStep
  <2>4. stamp[j] >= nm.lm + Age
    BY <1>1, <2>1, <2>2, <2>3, ClockAssumption
  <2>5. ~Covers(nm, stamp[j], j)
    BY <1>1, <2>2, <2>3, <2>4, ClockAssumption DEF Covers
  <2>6. \A lm \in Nat, k \in Nat : Covers(CurrentMark, lm, k) => Covers(nm, lm, k)
    BY <1>6, Election, Zenon DEF SoundStep
  <2>7. j \in live
    BY <2>2, <2>5, <2>6, Zenon DEF ServingInv, BucketServing
  <2>. QED
    BY <2>4, <2>7, Zenon
<1>. QED
  BY <1>3, <1>5, <1>6, Zenon

\* A rollup is installed.
LEMMA InstallBucket ==
    ASSUME SoundStep, ServingInv, ReplayLaws, NEW r \in Replica, tick[r].pc = "commit", Elected(r),
           NEW last \in Key, IsLast(r, last), rolls' = Append(rolls, Folded(r, last)),
           UNCHANGED <<clock, sent, stamp, live, probes>>
    PROVE  /\ BucketServing' /\ CurrentMark' = Folded(r, last).mark
           /\ Len(rolls') = Len(rolls) + 1 /\ Len(rolls) \in Nat
<1>1. rolls \in Seq(RollupType)
  BY Zenon DEF SoundStep, TypeOK, BucketOK
<1>2. /\ Len(rolls') = Len(rolls) + 1 /\ Len(rolls) \in Nat /\ rolls' # <<>>
      /\ rolls'[Len(rolls')] = Folded(r, last)
  BY <1>1
<1>3. CurrentMark' = Folded(r, last).mark
  BY <1>2, Zenon DEF CurrentMark
<1>4. \E j \in live : stamp[j] >= Folded(r, last).mark.lm + Age
  BY CommitCovers, Zenon
<1>. QED
  BY <1>2, <1>3, <1>4, BucketRolls, Zenon DEF ServingInv

LEMMA ServingCommit ==
    ASSUME SoundStep, ServingInv, ReplayLaws, NEW r \in Replica, CompactCommit(r)
    PROVE  ServingInv'
<1>1. /\ UNCHANGED <<clock, sent, stamp, live, probes, writer, cache, served>>
      /\ tick[r].pc = "commit" /\ tick \in [Replica -> TickType]
      /\ held \in [Replica -> 0..Len(rolls)]
  BY Zenon DEF CompactCommit, SoundStep, TypeOK, TickOK
<1>2. CASE ~(tick[r].cand \subseteq Cached(cache[r]) /\ Elected(r))
  <2>1. tick' = [tick EXCEPT ![r] = IdleTick] /\ UNCHANGED <<rolls, held>>
    BY <1>2, Zenon DEF CompactCommit
  <2>2. BucketServing' /\ HeldGrows(r)
    BY <1>1, <2>1, BucketSame, HeldSame, Zenon DEF ServingInv
  <2>. QED
    BY <1>1, <2>1, <2>2, AbortServing, Zenon
<1>3. CASE tick[r].cand \subseteq Cached(cache[r]) /\ Elected(r)
  <2>1. PICK last \in Key : IsLast(r, last) /\ rolls' = Append(rolls, Folded(r, last))
    BY <1>3, Zenon DEF CompactCommit
  <2>2. held' = [held EXCEPT ![r] = Len(rolls) + 1] /\ tick' = [tick EXCEPT ![r].pc = "clean"]
    BY <1>3, Zenon DEF CompactCommit
  <2>3. /\ BucketServing' /\ CurrentMark' = Folded(r, last).mark
        /\ Len(rolls') = Len(rolls) + 1 /\ Len(rolls) \in Nat
    BY <1>1, <1>3, <2>1, InstallBucket, Zenon
  <2>4. \A k \in tick[r].cand : stamp[k] # NoStamp /\ Covers(Folded(r, last).mark, stamp[k], k)
    BY <1>1, <1>3, <2>1, CommitCovers, Zenon
  <2>5. /\ tick'[r].pc = "clean" /\ tick'[r].lst = tick[r].lst /\ tick'[r].cand = tick[r].cand
        /\ tick'[r].barrier = tick[r].barrier /\ tick'[r].old = tick[r].old
        /\ tick' = [tick EXCEPT ![r] = [tick[r] EXCEPT !.pc = "clean"]]
    BY <1>1, <2>2 DEF TickType
  <2>6. HeldGrows(r) /\ \A q \in Replica \ {r} : held'[q] = held[q]
    <3>1. held'[r] = Len(rolls) + 1 /\ held[r] \in 0..Len(rolls)
      BY <1>1, <2>2, Zenon
    <3>2. HeldGrows(r)
      BY <2>3, <3>1 DEF HeldGrows
    <3>. QED
      BY <1>1, <2>2, <3>2, Zenon
  <2>7. ReplicaServing(r)
    BY Zenon DEF ServingInv
  <2>8. ListServing(r)'
    <3>1. ListServing(r)
      BY <2>7, Zenon DEF ReplicaServing
    <3>2. Landed' = Landed /\ In(tick[r].lst)' = In(tick[r].lst)
      BY <1>1, <2>5, Zenon DEF Landed, Writes, In
    <3>. QED
      BY <1>1, <2>5, <3>1, <3>2 DEF ListServing
  <2>9. FetchServing(r)' /\ BuildServing(r)'
    BY <2>5 DEF FetchServing, BuildServing
  <2>10. FoldServing(r)'
    BY <1>1, <2>3, <2>4, <2>5 DEF FoldServing
  <2>11. PromptServing(r)'
    <3>1. Prompt => Distinct(served[r])'
      BY <1>1, <2>7, Zenon DEF ReplicaServing, PromptServing, Distinct
    <3>. QED
      BY <2>5, <3>1 DEF PromptServing, InListWindow
  <2>. QED
    BY <1>1, <2>3, <2>5, <2>6, <2>8, <2>9, <2>10, <2>11, TickMoves, Zenon
<1>. QED
  BY <1>2, <1>3, Zenon

LEMMA ServingCommitLost ==
    ASSUME SoundStep, ServingInv, ReplayLaws, NEW r \in Replica, CommitLost(r)
    PROVE  ServingInv'
<1>1. /\ UNCHANGED <<clock, sent, stamp, live, probes, writer, cache, served, held>>
      /\ tick[r].pc = "commit" /\ Elected(r) /\ tick' = [tick EXCEPT ![r] = IdleTick]
  BY Zenon DEF CommitLost
<1>2. PICK last \in Key : IsLast(r, last) /\ rolls' = Append(rolls, Folded(r, last))
  BY Zenon DEF CommitLost
<1>3. BucketServing' /\ HeldGrows(r)
  BY <1>1, <1>2, InstallBucket, HeldSame, Zenon
<1>. QED
  BY <1>1, <1>3, AbortServing, Zenon

LEMMA ServingCleanUp ==
    ASSUME SoundStep, ServingInv, NEW r \in Replica, CleanUp(r)
    PROVE  ServingInv'
<1>1. /\ UNCHANGED <<clock, sent, stamp, probes, rolls, writer, cache, served, held>>
      /\ tick[r].pc = "clean" /\ Remove(tick[r].cand) /\ tick' = [tick EXCEPT ![r] = IdleTick]
  BY Zenon DEF CleanUp
<1>2. \A k \in tick[r].cand : Covers(CurrentMark, stamp[k], k)
  BY <1>1, Zenon DEF ServingInv, ReplicaServing, FoldServing
<1>3. BucketServing' /\ HeldGrows(r)
  BY <1>1, <1>2, BucketCleaned, HeldSame, Zenon DEF ServingInv
<1>. QED
  BY <1>1, <1>3, AbortServing, Zenon

LEMMA ServingProbe ==
    ASSUME SoundStep, ServingInv, NEW r \in Replica, Probe(r)
    PROVE  ServingInv'
<1>1. /\ UNCHANGED <<clock, stamp, live, rolls, writer, cache, served, held>>
      /\ tick[r].pc = "probe" /\ tick \in [Replica -> TickType]
  BY Zenon DEF Probe, SoundStep, TypeOK, TickOK
<1>2. CASE UNCHANGED <<sent, probes>> /\ tick' = [tick EXCEPT ![r] = IdleTick]
  <2>1. BucketServing' /\ HeldGrows(r)
    BY <1>1, <1>2, BucketSame, HeldSame, Zenon DEF ServingInv
  <2>. QED
    BY <1>1, <1>2, <2>1, AbortServing, Zenon
<1>3. ASSUME NEW k \in NewSegmentKey(r), sent' = [sent EXCEPT ![k] = clock],
             probes' = probes \cup {k},
             tick' = [tick EXCEPT ![r].pc = "probing", ![r].cand = {k}]
      PROVE  ServingInv'
  <2>1. k \in Key /\ sent \in [Key -> Nat] /\ probes \subseteq Key
    BY FreshKey, Zenon DEF SoundStep, TypeOK, BucketOK
  <2>2. clock' # 0 /\ \A j \in probes' : sent'[j] # 0
    <3>1. clock # 0 /\ \A j \in probes : sent[j] # 0
      BY Zenon DEF ServingInv, BucketServing
    <3>2. \A j \in probes' : sent'[j] = IF j = k THEN clock ELSE sent[j]
      BY <1>3, <2>1, Zenon
    <3>. QED
      BY <1>1, <1>3, <3>1, <3>2, Zenon
  <2>3. BucketServing'
    BY <1>1, <2>2, BucketKeeps, Zenon DEF ServingInv
  <2>4. PICK t : t = [tick[r] EXCEPT !.pc = "probing", !.cand = {k}]
    OBVIOUS
  <2>5. /\ tick' = [tick EXCEPT ![r] = t]
        /\ t.lst = tick[r].lst /\ t.old = tick[r].old /\ t.barrier = tick[r].barrier
        /\ t.pc \in {"recheck", "commit", "probe", "probing"}
        /\ tick[r].pc \in {"ladder", "recheck", "commit", "probe"}
        /\ t.pc \in {"recheck", "commit"} => tick[r].pc \in {"ladder", "recheck", "commit"}
    BY <1>1, <1>3, <2>4 DEF TickType
  <2>. QED
    BY <1>1, <2>3, <2>5, LadderMoves, Zenon
<1>. QED
  BY <1>2, <1>3, Zenon DEF Probe

LEMMA ServingCrash ==
    ASSUME SoundStep, ServingInv, NEW r \in Replica, Crash(r)
    PROVE  ServingInv'
<1>1. /\ UNCHANGED <<clock, sent, stamp, live, probes, rolls>>
      /\ writer'[r] = IdleWriter /\ cache'[r] = Empty /\ served'[r] = <<>>
      /\ tick'[r] = IdleTick /\ Others(r)
  BY Zenon DEF Crash, bucketVars, Others, SoundStep, TypeOK, WriterOK, StateOK, TickOK
<1>2. BucketServing'
  BY <1>1, BucketSame, Zenon DEF ServingInv
<1>3. Cached(cache[r])' = {}
  BY <1>1, Zenon DEF Cached, Empty
<1>4. Applied(served[r])' = {} /\ Distinct(served[r])'
  BY <1>1 DEF Applied, Distinct
<1>5. CacheSound(r)' /\ WriterServing(r)'
  BY <1>1, <1>3 DEF CacheSound, WriterServing, IdleWriter
<1>6. ServedSound(r)'
  BY <1>3, <1>4, Zenon DEF ServedSound, Ops
<1>7. PromptServing(r)'
  <2>1. tick'[r].pc = "idle"
    BY <1>1 DEF IdleTick
  <2>2. tick'[r].pc \notin {"start", "listed", "seed", "rolled", "fetched", "built"}
    BY <2>1
  <2>. QED
    BY <1>4, <2>2, Zenon DEF PromptServing, InListWindow
<1>8. ReplicaServing(r)'
  BY <1>1, <1>5, <1>6, <1>7, RestServing, Zenon DEF ReplicaServing
<1>. QED
  BY <1>1, <1>2, <1>8, ReplicaStep, Zenon
-----------------------------------------------------------------------------
(* The invariant is inductive.                                             *)

LEMMA ServingSync ==
    ASSUME ReplayHolds, SoundStep, ServingInv, NEW r \in Replica, Sync(r)
    PROVE  ServingInv'
BY ServingTickStart, ServingTickList, ServingTickRollup, ServingSeed, ServingEnds, ServingFetch,
   ServingRebuildInput, ServingRebuildSwap, Zenon DEF Sync

LEMMA ServingCompaction ==
    ASSUME ReplayLaws, SoundStep, ServingInv, NEW r \in Replica, Compaction(r)
    PROVE  ServingInv'
BY ServingLadder, ServingRecheck, ServingCommit, ServingCommitLost, ServingEnds,
   ServingCleanUp, ServingProbe, Zenon DEF Compaction

LEMMA ServingNext ==
    ASSUME ReplayLaws, ReplayHolds, SoundStep, ServingInv, [Next]_vars
    PROVE  ServingInv'
<1>1. CASE UNCHANGED vars
  <2>1. UNCHANGED <<clock, sent, stamp, live, probes, rolls, writer, cache, served, held, tick>>
    BY <1>1, Zenon DEF vars
  <2>2. BucketServing'
    BY <2>1, BucketSame, Zenon DEF ServingInv
  <2>3. ASSUME NEW q \in Replica PROVE ReplicaServing(q)'
    BY <2>1, ReplicaStays, Zenon DEF ServingInv
  <2>. QED
    BY <2>2, <2>3, Zenon DEF ServingInv
<1>2. ASSUME NEW r \in Replica, Write(r) PROVE ServingInv'
  BY <1>2, ServingSend, ServingAck, ServingInsert, Zenon DEF Write
<1>3. CASE Next
  BY <1>2, <1>3, ServingClockTick, ServingLand, ServingSync, ServingCompaction, ServingCrash, Zenon
     DEF Next
<1>. QED
  BY <1>1, <1>3, Zenon

LEMMA ServingInit == ReplayLaws /\ Init => ServingInv
<1>. SUFFICES ASSUME ReplayLaws, Init PROVE ServingInv
  OBVIOUS
<1>1. TypeOK /\ JournalInv
  BY TypeInit, InvInit, Zenon
<1>2. clock # 0 /\ probes = {} /\ live = Backlog
  BY BoundAssumption DEF Init
<1>3. CurrentMark = ZeroMark
  BY DEF Init, CurrentMark, Seeding
<1>4. \A k \in Key : stamp[k] # NoStamp => k \in live
  BY Zenon DEF Init
<1>5. \A i \in 1..Len(rolls) : rolls[i].state = Legacy \o Canonical(stamp, Beneath(rolls[i].mark))
  <2>1. \A i \in 1..Len(rolls) : rolls[i] = Seeding
    BY BoundAssumption DEF Init
  <2>2. Seeding.mark = ZeroMark /\ Seeding.state = Legacy
    BY DEF Seeding
  <2>3. Legacy = Legacy \o Canonical(stamp, Beneath(ZeroMark))
    BY <1>1, BeneathZero, Zenon
  <2>. QED
    BY <2>1, <2>2, <2>3, Zenon
<1>6. BucketServing
  BY <1>2, <1>3, <1>4, <1>5, Zenon DEF BucketServing
<1>7. ASSUME NEW r \in Replica PROVE ReplicaServing(r)
  <2>1. /\ writer[r] = IdleWriter /\ cache[r] = Empty /\ served[r] = <<>> /\ tick[r] = IdleTick
    BY Zenon DEF Init
  <2>2. Cached(cache[r]) = {}
    BY <2>1, Zenon DEF Cached, Empty
  <2>3. Applied(served[r]) = {} /\ Distinct(served[r])
    BY <2>1 DEF Applied, Distinct
  <2>4. CacheSound(r) /\ WriterServing(r)
    BY <2>1, <2>2 DEF CacheSound, WriterServing, IdleWriter
  <2>5. ServedSound(r)
    BY <2>2, <2>3, Zenon DEF ServedSound, Ops
  <2>6. In(tick[r].lst) = {} /\ tick[r].pc = "idle" /\ tick[r].barrier = {} /\ tick[r].old = {}
    <3>1. /\ tick[r].lst = None /\ tick[r].pc = "idle" /\ tick[r].barrier = {} /\ tick[r].old = {}
      BY <2>1 DEF IdleTick
    <3>. QED
      BY <3>1, EmptyListing, Zenon
  <2>7. ListServing(r) /\ FetchServing(r)
    BY <2>6 DEF ListServing, FetchServing
  <2>8. BuildServing(r) /\ FoldServing(r) /\ PromptServing(r)
    BY <2>3, <2>6 DEF BuildServing, FoldServing, PromptServing, InListWindow
  <2>. QED
    BY <2>4, <2>5, <2>7, <2>8, Zenon DEF ReplicaServing
<1>. QED
  BY <1>6, <1>7, Zenon DEF ServingInv
=============================================================================
