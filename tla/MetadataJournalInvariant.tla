---------------------- MODULE MetadataJournalInvariant ----------------------
(***************************************************************************)
(* The bucket of the S3 metadata journal stays exact: TypeOK and           *)
(* JournalInv are inductive, given what ReplayLaws says of the replay      *)
(* order, and with them no write is lost and the rollup is the canonical   *)
(* replay of what it covers, for every value of the constants.             *)
(* Then the invariant of what the replicas serve, and what of it a step    *)
(* leaves alone.                                                           *)
(***************************************************************************)
EXTENDS MetadataJournal, TLAPS

USE KeyAssumption, NamesAssumption, LegacyAssumption, ClockAssumption,
    BoundAssumption

-----------------------------------------------------------------------------
(* What the steps need to know of the replay order.  MetadataJournalProofs *)
(* proves it of Canonical.                                                 *)

ReplayExtends(f, A, B) == Canonical(f, A) \o Canonical(f, B) = Canonical(f, A \cup B)

ReplayLaws ==
    /\ \A f \in [Key -> Int], S \in SUBSET Key : Canonical(f, S) \in Seq(Nat)
    /\ \A f \in [Key -> Nat] : Canonical(f, {}) = <<>>
    /\ \A f \in [Key -> Nat], A \in SUBSET Key, B \in SUBSET Key :
          (\A a \in A, b \in B : Before(f, a, b)) => ReplayExtends(f, A, B)

-----------------------------------------------------------------------------
(* Type correctness.                                                       *)

\* Replaying any set of segments yields a sequence of keys.
LEMMA ReplayType ==
    ASSUME ReplayLaws, NEW f \in [Key -> Int], NEW S \in SUBSET Key
    PROVE  Canonical(f, S) \in Seq(Nat)
BY Zenon DEF ReplayLaws

LEMMA TypeInit == Init => TypeOK
<1>. SUFFICES ASSUME Init PROVE TypeOK
  OBVIOUS
<1>1. /\ clock \in Nat /\ stamp \in [Key -> Nat] /\ sent \in [Key -> Nat]
      /\ landings \in [Key -> Nat] /\ live \subseteq Key /\ probes \subseteq Key
  BY DEF Init, NoStamp
<1>2. Seeding \in RollupType
  BY Zenon DEF Seeding, ZeroMark, RollupType
<1>3. rolls \in Seq(RollupType) /\ Len(rolls) \in Nat
  BY <1>2 DEF Init
<1>4. tick \in [Replica -> TickType]
  BY DEF Init, IdleTick, TickType, None, NoStamp
<1>5. writer \in [Replica -> WriterType] /\ ladder \in [Replica -> LadderType]
  BY Zenon DEF Init, IdleWriter, NewLadder, WriterType, LadderType
<1>6. /\ cache \in [Replica -> [Key -> Nat \cup {Absent}]]
      /\ served \in [Replica -> Seq(Nat)]
      /\ held \in [Replica -> 0..Len(rolls)]
      /\ faults \in Nat
  BY <1>3 DEF Init, Empty
<1>7. \A r \in Replica : writer[r].pc = "idle" /\ tick[r].pc \notin HasRollup
  BY Zenon DEF Init, IdleWriter, IdleTick, HasRollup
<1>. QED
  BY <1>1, <1>3, <1>4, <1>5, <1>6, <1>7, Zenon
  DEF TypeOK, BucketOK, WriterOK, StateOK, TickOK

\* A step that leaves the variables of a group alone leaves its type alone.
LEMMA TypeFrame ==
    /\ BucketOK /\ UNCHANGED bucketVars => BucketOK'
    /\ WriterOK /\ UNCHANGED writer => WriterOK'
    /\ StateOK /\ UNCHANGED <<cache, served>> => StateOK'
    /\ TickOK /\ UNCHANGED <<rolls, held, tick, ladder>> => TickOK'
BY Zenon DEF BucketOK, WriterOK, StateOK, TickOK, bucketVars

\* Steps of S3 and of the writer.
LEMMA TypeWrite ==
    ASSUME TypeOK,
           \/ ClockTick
           \/ \E k \in Key : Land(k)
           \/ \E r \in Replica : Write(r)
    PROVE  TypeOK'
<1>. USE DEF TypeOK
<1>1. CASE ClockTick
  <2>1. BucketOK'
    BY <1>1 DEF ClockTick, BucketOK
  <2>. QED
    BY <1>1, <2>1, TypeFrame, Zenon DEF ClockTick
<1>2. ASSUME NEW k \in Key, Land(k) PROVE TypeOK'
  <2>1. BucketOK'
    BY <1>2 DEF Land, BucketOK
  <2>. QED
    BY <1>2, <2>1, TypeFrame, Zenon DEF Land
<1>3. ASSUME NEW r \in Replica, Send(r) PROVE TypeOK'
  <2>1. PICK k \in Key : /\ sent' = [sent EXCEPT ![k] = clock]
                         /\ writer' = [writer EXCEPT ![r] = [pc |-> "put", key |-> k]]
    BY <1>3, Zenon DEF Send, NewSegmentKey
  <2>2. BucketOK'
    BY <1>3, <2>1, Zenon DEF Send, BucketOK
  <2>3. WriterOK'
    BY <2>1, Zenon DEF WriterOK, WriterType
  <2>. QED
    BY <1>3, <2>2, <2>3, TypeFrame, Zenon DEF Send
<1>4. ASSUME NEW r \in Replica, Ack(r) PROVE TypeOK'
  <2>1. WriterOK'
    BY <1>4, Zenon DEF Ack, WriterOK, WriterType
  <2>. QED
    BY <1>4, <2>1, TypeFrame, Zenon DEF Ack, bucketVars
<1>5. ASSUME NEW r \in Replica, writer' = [writer EXCEPT ![r] = IdleWriter]
      PROVE  WriterOK'
  BY <1>5, Zenon DEF WriterOK, WriterType, IdleWriter
<1>6. ASSUME NEW r \in Replica, PutFails(r) PROVE TypeOK'
  <2>1. WriterOK'
    BY <1>5, <1>6, Zenon DEF PutFails
  <2>2. faults' \in Nat
    BY <1>6 DEF PutFails, Fault
  <2>. QED
    BY <1>6, <2>1, <2>2, TypeFrame, Zenon DEF PutFails, bucketVars
<1>7. ASSUME NEW r \in Replica, Insert(r) PROVE TypeOK'
  <2>1. writer[r].key \in Key
    BY <1>7, Zenon DEF Insert, WriterOK, WriterType
  <2>2. CASE writer[r].key \in Cached(cache[r])
    BY <1>5, <1>7, <2>2, TypeFrame, Zenon DEF Insert, bucketVars
  <2>3. CASE writer[r].key \notin Cached(cache[r])
    <3>0. served[r] \in Seq(Nat) /\ writer[r].key \in Nat
      BY <2>1, Zenon DEF StateOK
    <3>1. Append(served[r], writer[r].key) \in Seq(Nat)
      BY <3>0
    <3>2. served' \in [Replica -> Seq(Nat)]
      BY <1>7, <2>3, <3>1, Zenon DEF Insert, StateOK
    <3>3. [cache[r] EXCEPT ![writer[r].key] = NoStamp] \in [Key -> Nat \cup {Absent}]
      BY <2>1, Zenon DEF StateOK, NoStamp
    <3>4. cache' = [cache EXCEPT ![r] = [cache[r] EXCEPT ![writer[r].key] = NoStamp]]
      BY <1>7, <2>3, Zenon DEF Insert, StateOK
    <3>5. cache' \in [Replica -> [Key -> Nat \cup {Absent}]]
      BY <3>3, <3>4, Zenon DEF StateOK
    <3>. QED
      BY <1>5, <1>7, <3>2, <3>5, TypeFrame, Zenon DEF Insert, StateOK, bucketVars
  <2>. QED
    BY <2>2, <2>3, Zenon
<1>. QED
  BY <1>1, <1>2, <1>3, <1>4, <1>6, <1>7, Zenon DEF Write

\* Where a tick goes next: to the values of an idle one.
LEMMA IdleTickType == IdleTick \in TickType /\ IdleTick.pc = "idle"
BY DEF IdleTick, TickType, None, NoStamp

\* A step that moves the tick of r and may let it hold another rollup.
LEMMA TickStep ==
    ASSUME TypeOK, NEW r \in Replica,
           NEW t \in TickType, tick' = [tick EXCEPT ![r] = t],
           NEW h \in 0..Len(rolls'), held' = [held EXCEPT ![r] = h],
           t.pc \in HasRollup => h # 0,
           Len(rolls) \in Nat, Len(rolls') \in Nat, Len(rolls) <= Len(rolls'),
           ladder' \in [Replica -> LadderType]
    PROVE  TickOK'
<1>1. \A q \in Replica : held[q] \in 0..Len(rolls')
  BY DEF TypeOK, TickOK
<1>2. held' \in [Replica -> 0..Len(rolls')]
  BY <1>1, Zenon DEF TypeOK, TickOK
<1>. QED
  BY <1>2, Zenon DEF TypeOK, TickOK

\* A step that only moves the tick of r, and takes up no rollup it lacks.
LEMMA TickFrame ==
    ASSUME TypeOK, NEW r \in Replica, NEW t \in TickType,
           tick' = [tick EXCEPT ![r] = t],
           t.pc \in HasRollup => tick[r].pc \in HasRollup,
           UNCHANGED <<rolls, held, ladder>>
    PROVE  TickOK'
BY Zenon DEF TypeOK, TickOK

\* A step that ends the tick of r.
LEMMA EndTick ==
    ASSUME TypeOK, NEW r \in Replica, tick' = [tick EXCEPT ![r] = IdleTick],
           UNCHANGED <<rolls, held, ladder>>
    PROVE  TickOK'
BY TickFrame, IdleTickType, Zenon DEF HasRollup

LEMMA TypeSync ==
    ASSUME ReplayLaws, TypeOK, NEW r \in Replica, Sync(r)
    PROVE  TypeOK'
<1>. USE DEF TypeOK
<1>0. tick[r] \in TickType /\ held[r] \in 0..Len(rolls) /\ Len(rolls) \in Nat
  BY DEF TickOK, BucketOK
<1>1. ASSUME NEW flush \in BOOLEAN, TickStart(r, flush) PROVE TypeOK'
  <2>. DEFINE t == [IdleTick EXCEPT !.pc = "start", !.flush = flush,
                                    !.barrier = Landed, !.old = Unlisted(cache[r])]
  <2>1. t \in TickType /\ t.pc = "start"
    BY IdleTickType, Zenon DEF TickType, Landed, Writes, Unlisted, IdleTick
  <2>2. TickOK'
    BY <1>1, <2>1, TickFrame, Zenon DEF TickStart, HasRollup, bucketVars
  <2>. QED
    BY <1>1, <2>2, TypeFrame, Zenon DEF TickStart
<1>2. CASE TickList(r)
  <2>. DEFINE t == [tick[r] EXCEPT !.pc = "listed", !.lst = StampsOf(stamp, live)]
  <2>1. t \in TickType /\ t.pc = "listed"
    BY <1>0, Zenon DEF TickType, StampsOf, NoStamp, BucketOK
  <2>2. tick' = [tick EXCEPT ![r] = t]
    BY <1>2, Zenon DEF TickList, TickOK
  <2>3. TickOK'
    BY <1>2, <2>1, <2>2, TickFrame, Zenon DEF TickList, HasRollup, bucketVars
  <2>. QED
    BY <1>2, <2>3, TypeFrame, Zenon DEF TickList
<1>3. CASE TickRollup(r)
  <2>1. CASE rolls = <<>>
    <3>. DEFINE t == [tick[r] EXCEPT !.pc = "seed"]
    <3>1. t \in TickType /\ t.pc = "seed" /\ tick' = [tick EXCEPT ![r] = t]
      BY <1>0, <1>3, <2>1, Zenon DEF TickRollup, TickOK, TickType
    <3>2. TickOK'
      BY <1>3, <2>1, <3>1, TickFrame, Zenon DEF TickRollup, HasRollup, bucketVars
    <3>. QED
      BY <1>3, <2>1, <3>2, TypeFrame, Zenon DEF TickRollup
  <2>2. CASE rolls # <<>>
    <3>1. Len(rolls) # 0
      BY <2>2 DEF BucketOK
    <3>. DEFINE t == [tick[r] EXCEPT !.pc = "rolled"]
    <3>2. t \in TickType /\ tick' = [tick EXCEPT ![r] = t]
      BY <1>0, <1>3, <2>2, Zenon DEF TickRollup, TickOK, TickType
    <3>3. TickOK'
      <4>. HIDE DEF t
      <4>1. /\ Len(rolls) \in 0..Len(rolls') /\ Len(rolls) <= Len(rolls')
            /\ Len(rolls') \in Nat
        BY <1>0, <1>3 DEF TickRollup, bucketVars
      <4>2. ladder' \in [Replica -> LadderType]
        BY <1>3, Zenon DEF TickRollup, TickOK
      <4>3. held' = [held EXCEPT ![r] = Len(rolls)]
        BY <1>3, <2>2, Zenon DEF TickRollup
      <4>. QED
        BY <1>0, <3>1, <3>2, <4>1, <4>2, <4>3, TickStep, Zenon
    <3>. QED
      BY <1>3, <2>2, <3>3, TypeFrame, Zenon DEF TickRollup
  <2>. QED
    BY <2>1, <2>2, Zenon
<1>4. rolls = <<>> => <<Seeding>> \in Seq(RollupType) /\ Len(rolls) = 0 /\ Len(<<Seeding>>) = 1
  BY DEF Seeding, ZeroMark, RollupType
<1>5. CASE Seed(r)
  <2>1. CASE rolls = <<>>
    <3>1. [tick[r] EXCEPT !.pc = "rolled"] \in TickType
      BY <1>0, Zenon DEF TickType
    <3>2. BucketOK'
      BY <1>4, <1>5, <2>1, Zenon DEF Seed, BucketOK
    <3>3. TickOK'
      <4>. DEFINE t == [tick[r] EXCEPT !.pc = "rolled"]
      <4>0. Len(rolls) = 0 /\ Len(rolls') = 1
        BY <1>5, <2>1 DEF Seed
      <4>1. tick' = [tick EXCEPT ![r] = t] /\ held' = [held EXCEPT ![r] = Len(rolls')]
        BY <1>5, <2>1, <4>0, Zenon DEF Seed, TickOK
      <4>2. /\ Len(rolls) \in Nat /\ Len(rolls') \in Nat /\ Len(rolls') # 0
            /\ Len(rolls) <= Len(rolls') /\ Len(rolls') \in 0..Len(rolls')
        BY <4>0
      <4>3. ladder' \in [Replica -> LadderType]
        BY <1>5, Zenon DEF Seed, TickOK
      <4>4. t \in TickType
        BY <3>1, Zenon
      <4>. HIDE DEF t
      <4>. QED
        BY <4>1, <4>2, <4>3, <4>4, TickStep, Zenon
    <3>. QED
      BY <1>5, <2>1, <3>2, <3>3, TypeFrame, Zenon DEF Seed
  <2>2. CASE rolls # <<>>
    <3>. DEFINE t == [tick[r] EXCEPT !.pc = "listed"]
    <3>1. t \in TickType /\ t.pc = "listed"
      BY <1>0, Zenon DEF TickType
    <3>2. tick' = [tick EXCEPT ![r] = t] /\ held' = [held EXCEPT ![r] = 0]
      BY <1>5, <2>2, Zenon DEF Seed, TickOK
    <3>3. /\ Len(rolls) \in Nat /\ Len(rolls') \in Nat
          /\ Len(rolls) <= Len(rolls') /\ 0 \in 0..Len(rolls')
          /\ ladder' \in [Replica -> LadderType]
      BY <1>0, <1>5, <2>2 DEF Seed, TickOK
    <3>. HIDE DEF t
    <3>4. TickOK'
      BY <3>1, <3>2, <3>3, TickStep, Zenon DEF HasRollup
    <3>. QED
      BY <1>5, <2>2, <3>4, TypeFrame, Zenon DEF Seed, bucketVars
  <2>. QED
    BY <2>1, <2>2, Zenon
<1>6. CASE SeedLost(r)
  <2>1. BucketOK'
    BY <1>4, <1>6, Zenon DEF SeedLost, BucketOK
  <2>2. TickOK'
    <3>1. held' \in [Replica -> 0..1]
      BY <1>4, <1>6 DEF SeedLost, TickOK
    <3>. QED
      BY <1>4, <1>6, <3>1, IdleTickType, Zenon DEF SeedLost, TickOK, HasRollup
  <2>3. faults' \in Nat
    BY <1>6 DEF SeedLost, Fault
  <2>. QED
    BY <1>6, <2>1, <2>2, <2>3, TypeFrame, Zenon DEF SeedLost
<1>7. CASE TickFails(r)
  <2>1. TickOK'
    BY <1>7, EndTick, Zenon DEF TickFails, bucketVars
  <2>2. faults' \in Nat
    BY <1>7 DEF TickFails, Fault
  <2>. QED
    BY <1>7, <2>1, <2>2, TypeFrame, Zenon DEF TickFails
<1>8. AdoptStamps(r) \in [Key -> Nat \cup {Absent}]
  BY <1>0 DEF AdoptStamps, StateOK, TickType
<1>9. ASSUME NEW c \in [Key -> Nat \cup {Absent}],
             cache' = [cache EXCEPT ![r] = c], UNCHANGED served
      PROVE  StateOK'
  BY <1>9, Zenon DEF StateOK
<1>10. CASE FetchUnseen(r)
  <2>1. StateOK'
    BY <1>8, <1>9, <1>10, Zenon DEF FetchUnseen
  <2>2. CASE Unseen(r) \subseteq live
    <3>. DEFINE t == [tick[r] EXCEPT !.pc = "fetched", !.staged = Unseen(r)]
    <3>1. t \in TickType
      BY <1>0, Zenon DEF TickType, Unseen, In
    <3>2. tick' = [tick EXCEPT ![r] = t]
      BY <1>10, <2>2, Zenon DEF FetchUnseen, TickOK
    <3>3. TickOK'
      BY <1>10, <3>1, <3>2, TickFrame, Zenon DEF FetchUnseen, HasRollup, bucketVars
    <3>. QED
      BY <1>10, <2>1, <3>3, TypeFrame, Zenon DEF FetchUnseen
  <2>3. CASE ~(Unseen(r) \subseteq live)
    <3>1. TickOK'
      BY <1>10, <2>3, EndTick, Zenon DEF FetchUnseen, bucketVars
    <3>. QED
      BY <1>10, <2>1, <3>1, TypeFrame, Zenon DEF FetchUnseen
  <2>. QED
    BY <2>2, <2>3, Zenon
<1>11. CASE FetchFails(r)
  <2>1. StateOK'
    BY <1>8, <1>9, <1>11, Zenon DEF FetchFails
  <2>2. TickOK'
    BY <1>11, EndTick, Zenon DEF FetchFails, bucketVars
  <2>3. faults' \in Nat
    BY <1>11 DEF FetchFails, Fault
  <2>. QED
    BY <1>11, <2>1, <2>2, <2>3, TypeFrame, Zenon DEF FetchFails
<1>12. ASSUME NEW c \in [Key -> Nat \cup {Absent}]
       PROVE  WithStaged(r, c) \in [Key -> Nat \cup {Absent}]
  BY <1>0, Zenon DEF WithStaged, TickType
<1>13. ASSUME NEW c \in [Key -> Nat \cup {Absent}], NEW roll \in RollupType
       PROVE  Replay(roll, c) \in Seq(Nat)
  <2>1. c \in [Key -> Int] /\ roll.state \in Seq(Nat)
    BY <1>13 DEF Absent, RollupType
  <2>2. ASSUME NEW S \in SUBSET Key PROVE Canonical(c, Ops(S)) \in Seq(Nat)
    BY <2>1, ReplayType, Zenon DEF Ops
  <2>. DEFINE tail == {k \in Listed(c) : ~Covers(roll.mark, c[k], k)}
  <2>3. tail \in SUBSET Key /\ Unlisted(c) \in SUBSET Key
    BY Zenon DEF Listed, Cached, Unlisted
  <2>4. Canonical(c, Ops(tail)) \in Seq(Nat) /\ Canonical(c, Ops(Unlisted(c))) \in Seq(Nat)
    BY <2>2, <2>3, Zenon
  <2>. QED
    BY <2>1, <2>4 DEF Replay
<1>14. CASE RebuildInput(r)
  <2>. DEFINE kept  == [k \in Key |-> IF k \in Evicted(r) THEN Absent ELSE cache[r][k]]
              input == WithStaged(r, kept)
              t == [tick[r] EXCEPT !.pc = "built", !.input = Cached(input),
                                   !.built = Replay(rolls[held[r]], input)]
  <2>1. kept \in [Key -> Nat \cup {Absent}]
    BY DEF StateOK
  <2>2. input \in [Key -> Nat \cup {Absent}]
    BY <1>12, <2>1, Zenon
  <2>3. held[r] \in 1..Len(rolls)
    <3>1. held[r] # 0
      BY <1>14, Zenon DEF RebuildInput, TickOK, HasRollup
    <3>. QED
      BY <1>0, <3>1
  <2>4. rolls[held[r]] \in RollupType
    BY <2>3 DEF BucketOK
  <2>5. cache' = [cache EXCEPT ![r] = kept] /\ tick' = [tick EXCEPT ![r] = t]
    BY <1>14, Zenon DEF RebuildInput, TickOK
  <2>. HIDE DEF kept, input
  <2>6. Replay(rolls[held[r]], input) \in Seq(Nat) /\ Cached(input) \in SUBSET Key
    BY <1>13, <2>2, <2>4, Zenon DEF Cached
  <2>7. t \in TickType
    BY <1>0, <2>6, Zenon DEF TickType
  <2>. HIDE DEF t
  <2>8. TickOK'
    BY <1>14, <2>5, <2>7, TickFrame, Zenon DEF RebuildInput, HasRollup, bucketVars
  <2>9. StateOK'
    BY <1>9, <1>14, <2>1, <2>5, Zenon DEF RebuildInput
  <2>. QED
    BY <1>14, <2>8, <2>9, TypeFrame, Zenon DEF RebuildInput
<1>15. CASE RebuildSwap(r)
  <2>1. cache[r] \in [Key -> Nat \cup {Absent}]
    BY Zenon DEF StateOK
  <2>2. cache[r] \in [Key -> Int] /\ Ops(Late(r)) \in SUBSET Key
    BY <2>1 DEF Absent, Ops, Late, Cached
  <2>3. Canonical(cache[r], Ops(Late(r))) \in Seq(Nat)
    BY <2>2, ReplayType, Zenon
  <2>4. Rebuilt(r) \in Seq(Nat)
    BY <1>0, <2>3 DEF Rebuilt, TickType
  <2>5. StateOK'
    BY <1>12, <1>15, <2>1, <2>4, Zenon DEF RebuildSwap, StateOK
  <2>. DEFINE u == [IdleTick EXCEPT !.pc = "ladder", !.lst = tick[r].lst]
  <2>6. u \in TickType
    BY <1>0, IdleTickType, Zenon DEF TickType
  <2>7. CASE tick[r].flush
    <3>1. tick' = [tick EXCEPT ![r] = IdleTick]
      BY <1>15, <2>7, Zenon DEF RebuildSwap, TickOK
    <3>2. TickOK'
      BY <1>15, <3>1, EndTick, Zenon DEF RebuildSwap, bucketVars
    <3>. QED
      BY <1>15, <2>5, <3>2, TypeFrame, Zenon DEF RebuildSwap
  <2>8. CASE ~tick[r].flush
    <3>1. tick' = [tick EXCEPT ![r] = u]
      BY <1>15, <2>8, Zenon DEF RebuildSwap, TickOK
    <3>. HIDE DEF u
    <3>2. TickOK'
      BY <1>15, <2>6, <3>1, TickFrame, Zenon DEF RebuildSwap, HasRollup, bucketVars
    <3>. QED
      BY <1>15, <2>5, <3>2, TypeFrame, Zenon DEF RebuildSwap
  <2>. QED
    BY <2>7, <2>8, Zenon
<1>. QED
  BY <1>1, <1>2, <1>3, <1>5, <1>6, <1>7, <1>10, <1>11, <1>14, <1>15, Zenon DEF Sync

\* What deletes do to the bucket.
LEMMA RemoveType ==
    ASSUME TypeOK, NEW S, Remove(S)
    PROVE  live' \subseteq live /\ live \ live' \subseteq S /\ faults' \in Nat
BY DEF Remove, Fault, NoFault, TypeOK, BucketOK

Grown(s, e, t) ==
    /\ Len(t) = Len(s) + 1 /\ t # <<>> /\ Len(s) \in Nat
    /\ t[Len(s) + 1] = e /\ \A i \in 1..Len(s) : t[i] = s[i]

\* The history of rollups grows at its end.
LEMMA AppendGrows ==
    ASSUME NEW S, NEW s \in Seq(S), NEW e \in S, NEW t, t = Append(s, e)
    PROVE  t \in Seq(S) /\ Grown(s, e, t)
BY DEF Grown

\* The rollup of a compaction.
LEMMA FoldedType ==
    ASSUME ReplayLaws, TypeOK, NEW r \in Replica, tick[r].pc = "commit", NEW last \in Key
    PROVE  Folded(r, last) \in RollupType
<1>1. /\ tick[r] \in TickType /\ held[r] \in 0..Len(rolls) /\ held[r] # 0
      /\ rolls \in Seq(RollupType)
  BY Zenon DEF TypeOK, TickOK, BucketOK, HasRollup
<1>2. rolls[held[r]] \in RollupType
  BY <1>1
<1>3. tick[r].lst \in [Key -> Int] /\ Ops(tick[r].cand) \in SUBSET Key
  BY <1>1 DEF TickType, Ops
<1>4. Canonical(tick[r].lst, Ops(tick[r].cand)) \in Seq(Nat)
  BY <1>3, ReplayType, Zenon
<1>5. rolls[held[r]].state \o Canonical(tick[r].lst, Ops(tick[r].cand)) \in Seq(Nat)
  BY <1>2, <1>4 DEF RollupType
<1>6. [lm |-> tick[r].lst[last], key |-> last] \in [lm : Nat, key : Nat]
  BY <1>1, Zenon DEF TickType
<1>. QED
  BY <1>5, <1>6, Zenon DEF Folded, RollupType

LEMMA TypeCompaction ==
    ASSUME ReplayLaws, TypeOK, NEW r \in Replica, Compaction(r)
    PROVE  TypeOK'
<1>. USE DEF TypeOK
<1>0. /\ tick[r] \in TickType /\ held[r] \in 0..Len(rolls) /\ Len(rolls) \in Nat
      /\ ladder[r] \in LadderType /\ rolls \in Seq(RollupType)
  BY DEF TickOK, BucketOK
<1>1. CASE LadderStep(r)
  <2>0. ladder' \in [Replica -> LadderType]
    <3>. DEFINE l        == ladder[r]
                advanced == Newer(tick[r].lst, l.newest)
                stall    == IF advanced THEN 0 ELSE l.stall
                compact  == Cardinality(Candidates(r)) >= Threshold
                crowded  == ~compact /\ Cardinality(In(tick[r].lst)) >= Threshold
                fold     == compact /\ l.sustain + 1 >= Sustain
                probe    == crowded /\ stall + 1 >= Sustain
                m == IF compact /\ ~fold THEN l.sustain + 1 ELSE 0
                n == IF crowded /\ ~probe THEN stall + 1 ELSE 0
    <3>1. PICK at \in 0..clock :
             ladder' = [ladder EXCEPT ![r] = [newest |-> at, sustain |-> m, stall |-> n]]
      BY <1>1, Zenon DEF LadderStep
    <3>2. (m = 0 \/ m = l.sustain + 1) /\ (n = 0 \/ n = 0 + 1 \/ n = l.stall + 1)
      OBVIOUS
    <3>3. l.sustain \in Nat /\ l.stall \in Nat
      BY <1>0, Zenon DEF LadderType
    <3>. HIDE DEF m, n
    <3>4. [newest |-> at, sustain |-> m, stall |-> n] \in LadderType
      BY <3>2, <3>3 DEF LadderType, BucketOK
    <3>. QED
      BY <3>1, <3>4, Zenon DEF TickOK
  <2>. DEFINE u == [tick[r] EXCEPT !.pc = "recheck", !.cand = Candidates(r)]
              v == [tick[r] EXCEPT !.pc = "probe"]
  <2>1. u \in TickType /\ v \in TickType
    BY <1>0, Zenon DEF TickType, Candidates, In
  <2>2. PICK t \in {u, v, IdleTick} : tick' = [tick EXCEPT ![r] = t]
    <3>. HIDE DEF Candidates
    <3>. QED
      BY <1>1, Zenon DEF LadderStep, TickOK
  <2>4. t \in TickType
    BY <2>1, IdleTickType, Zenon
  <2>5. tick[r].pc \in HasRollup /\ UNCHANGED <<rolls, held>>
    BY <1>1, Zenon DEF LadderStep, HasRollup
  <2>. HIDE DEF u, v
  <2>6. TickOK'
    BY <2>0, <2>2, <2>4, <2>5, Zenon DEF TickOK
  <2>7. live' \subseteq live /\ faults' \in Nat
    BY <1>1, RemoveType, Zenon DEF LadderStep
  <2>8. BucketOK'
    BY <1>1, <2>7, Zenon DEF LadderStep, BucketOK
  <2>. QED
    BY <1>1, <2>6, <2>7, <2>8, TypeFrame, Zenon DEF LadderStep
<1>2. CASE CompactRecheck(r)
  <2>. DEFINE u == [tick[r] EXCEPT !.pc = "commit"]
  <2>1. u \in TickType
    BY <1>0, Zenon DEF TickType
  <2>2. PICK t \in {u, IdleTick} : tick' = [tick EXCEPT ![r] = t]
    BY <1>2, Zenon DEF CompactRecheck, TickOK
  <2>3. t \in TickType
    BY <2>1, IdleTickType, Zenon
  <2>4. Len(rolls) # 0
    <3>1. held[r] # 0
      BY <1>2, Zenon DEF CompactRecheck, TickOK, HasRollup
    <3>. QED
      BY <1>0, <3>1
  <2>5. /\ Len(rolls) \in 0..Len(rolls') /\ Len(rolls') \in Nat /\ Len(rolls) <= Len(rolls')
        /\ held' = [held EXCEPT ![r] = Len(rolls)] /\ ladder' \in [Replica -> LadderType]
    BY <1>0, <1>2 DEF CompactRecheck, bucketVars, TickOK
  <2>. HIDE DEF u
  <2>6. TickOK'
    BY <1>0, <2>2, <2>3, <2>4, <2>5, TickStep, Zenon
  <2>. QED
    BY <1>2, <2>6, TypeFrame, Zenon DEF CompactRecheck
<1>3. ASSUME tick[r].pc = "commit", NEW last \in Key, rolls' = Append(rolls, Folded(r, last))
      PROVE  rolls' \in Seq(RollupType) /\ Len(rolls') = Len(rolls) + 1
  <2>1. Folded(r, last) \in RollupType
    BY <1>3, FoldedType, Zenon
  <2>2. rolls' \in Seq(RollupType) /\ Grown(rolls, Folded(r, last), rolls')
    BY <1>0, <1>3, <2>1, AppendGrows, Zenon
  <2>. QED
    BY <2>2, Zenon DEF Grown
<1>4. CASE CompactCommit(r)
  <2>1. CASE tick[r].cand \subseteq Cached(cache[r]) /\ Elected(r)
    <3>. DEFINE u == [tick[r] EXCEPT !.pc = "clean"]
    <3>1. u \in TickType
      BY <1>0, Zenon DEF TickType
    <3>2. rolls' \in Seq(RollupType) /\ Len(rolls') = Len(rolls) + 1
      BY <1>3, <1>4, <2>1, Zenon DEF CompactCommit
    <3>3. /\ tick' = [tick EXCEPT ![r] = u]
          /\ held' = [held EXCEPT ![r] = Len(rolls')]
          /\ ladder' \in [Replica -> LadderType]
      BY <1>4, <2>1, <3>2, Zenon DEF CompactCommit, TickOK
    <3>4. /\ Len(rolls') \in 0..Len(rolls') /\ Len(rolls') \in Nat
          /\ Len(rolls) <= Len(rolls') /\ Len(rolls') # 0
      BY <1>0, <3>2
    <3>. HIDE DEF u
    <3>5. TickOK'
      BY <1>0, <3>1, <3>3, <3>4, TickStep, Zenon
    <3>6. BucketOK'
      BY <1>4, <3>2, Zenon DEF CompactCommit, BucketOK
    <3>. QED
      BY <1>4, <3>5, <3>6, TypeFrame, Zenon DEF CompactCommit
  <2>2. CASE ~(tick[r].cand \subseteq Cached(cache[r]) /\ Elected(r))
    <3>1. TickOK'
      BY <1>4, <2>2, EndTick, Zenon DEF CompactCommit
    <3>. QED
      BY <1>4, <2>2, <3>1, TypeFrame, Zenon DEF CompactCommit, bucketVars
  <2>. QED
    BY <2>1, <2>2, Zenon
<1>5. CASE CommitLost(r)
  <2>1. rolls' \in Seq(RollupType) /\ Len(rolls') = Len(rolls) + 1
    BY <1>3, <1>5, Zenon DEF CommitLost
  <2>2. /\ held' = [held EXCEPT ![r] = held[r]] /\ held[r] \in 0..Len(rolls')
        /\ Len(rolls') \in Nat /\ Len(rolls) <= Len(rolls')
        /\ ladder' \in [Replica -> LadderType]
    BY <1>0, <1>5, <2>1 DEF CommitLost, TickOK
  <2>3. TickOK'
    BY <1>0, <1>5, <2>2, TickStep, IdleTickType, Zenon DEF CommitLost, HasRollup
  <2>4. BucketOK'
    BY <1>5, <2>1, Zenon DEF CommitLost, BucketOK
  <2>5. faults' \in Nat
    BY <1>5 DEF CommitLost, Fault
  <2>. QED
    BY <1>5, <2>3, <2>4, <2>5, TypeFrame, Zenon DEF CommitLost
<1>6. CASE CompactFails(r)
  <2>1. TickOK'
    BY <1>6, EndTick, Zenon DEF CompactFails, bucketVars
  <2>2. faults' \in Nat
    BY <1>6 DEF CompactFails, Fault
  <2>. QED
    BY <1>6, <2>1, <2>2, TypeFrame, Zenon DEF CompactFails
<1>7. CASE CleanUp(r)
  <2>1. TickOK'
    BY <1>7, EndTick, Zenon DEF CleanUp
  <2>2. live' \subseteq live /\ faults' \in Nat
    BY <1>7, RemoveType, Zenon DEF CleanUp
  <2>3. BucketOK'
    BY <1>7, <2>2, Zenon DEF CleanUp, BucketOK
  <2>. QED
    BY <1>7, <2>1, <2>2, <2>3, TypeFrame, Zenon DEF CleanUp
<1>8. CASE Probe(r)
  <2>1. CASE UNCHANGED <<sent, probes>> /\ tick' = [tick EXCEPT ![r] = IdleTick]
    <3>1. TickOK'
      BY <1>8, <2>1, EndTick, Zenon DEF Probe
    <3>. QED
      BY <1>8, <2>1, <3>1, TypeFrame, Zenon DEF Probe, bucketVars
  <2>2. ASSUME NEW k \in NewSegmentKey(r),
               sent' = [sent EXCEPT ![k] = clock], probes' = probes \cup {k},
               tick' = [tick EXCEPT ![r].pc = "probing", ![r].cand = {k}]
        PROVE  TypeOK'
    <3>. DEFINE u == [tick[r] EXCEPT !.pc = "probing", !.cand = {k}]
    <3>0. k \in Key
      BY Zenon DEF NewSegmentKey
    <3>1. u \in TickType /\ u.pc = "probing" /\ tick' = [tick EXCEPT ![r] = u]
      BY <1>0, <2>2, <3>0, Zenon DEF TickType, TickOK
    <3>2. BucketOK'
      BY <1>8, <2>2, <3>0, Zenon DEF Probe, BucketOK
    <3>. HIDE DEF u
    <3>3. TickOK'
      BY <1>8, <3>1, TickFrame, Zenon DEF Probe, HasRollup
    <3>. QED
      BY <1>8, <3>2, <3>3, TypeFrame, Zenon DEF Probe
  <2>. QED
    BY <1>8, <2>1, <2>2, Zenon DEF Probe
<1>9. CASE ProbeAck(r)
  <2>1. TickOK'
    BY <1>9, EndTick, Zenon DEF ProbeAck, bucketVars
  <2>. QED
    BY <1>9, <2>1, TypeFrame, Zenon DEF ProbeAck
<1>. QED
  BY <1>1, <1>2, <1>4, <1>5, <1>6, <1>7, <1>8, <1>9, Zenon DEF Compaction

LEMMA TypeCrash ==
    ASSUME TypeOK, NEW r \in Replica, Crash(r)
    PROVE  TypeOK'
<1>. USE DEF TypeOK
<1>1. BucketOK'
  BY TypeFrame, Zenon DEF Crash
<1>2. WriterOK'
  BY Zenon DEF Crash, WriterOK, WriterType, IdleWriter
<1>3. StateOK'
  BY DEF Crash, StateOK, Empty
<1>4. 0 \in 0..Len(rolls') /\ Len(rolls) \in Nat /\ Len(rolls') = Len(rolls)
  BY DEF Crash, bucketVars, BucketOK
<1>5. NewLadder \in LadderType
  BY Zenon DEF NewLadder, LadderType
<1>6. ladder' \in [Replica -> LadderType]
  BY <1>5, Zenon DEF Crash, TickOK
<1>7. TickOK'
  <2>1. IdleTick \in TickType /\ IdleTick.pc \notin HasRollup
    BY IdleTickType, Zenon DEF HasRollup
  <2>2. tick' = [tick EXCEPT ![r] = IdleTick] /\ held' = [held EXCEPT ![r] = 0]
    BY Zenon DEF Crash
  <2>3. Len(rolls') \in Nat /\ Len(rolls) <= Len(rolls')
    BY <1>4
  <2>. QED
    BY <1>4, <1>6, <2>1, <2>2, <2>3, TickStep, Zenon
<1>8. faults' \in Nat
  BY DEF Crash, Fault
<1>. QED
  BY <1>1, <1>2, <1>3, <1>7, <1>8, Zenon

LEMMA TypeNext == ReplayLaws /\ TypeOK /\ [Next]_vars => TypeOK'
<1>1. TypeOK /\ UNCHANGED vars => TypeOK'
  BY TypeFrame, Zenon DEF vars, bucketVars, TypeOK
<1>. QED
  BY <1>1, TypeWrite, TypeSync, TypeCompaction, TypeCrash, Zenon DEF Next

-----------------------------------------------------------------------------
(* JournalInv.                                                             *)

MarkType == [lm : Nat, key : Nat]

-----------------------------------------------------------------------------
(* Marks.                                                                  *)

\* The order of marks is transitive.
LEMMA CoversTransitive ==
    ASSUME NEW m \in MarkType, NEW n \in MarkType, Covers(n, m.lm, m.key),
           NEW lm \in Nat, NEW k \in Nat, Covers(m, lm, k)
    PROVE  Covers(n, lm, k)
BY DEF MarkType, Covers

\* A write that m leaves out comes after every write m covers.
LEMMA CoveredFirst ==
    ASSUME NEW f, NEW m \in MarkType, NEW a \in Nat, NEW b \in Nat,
           f[a] \in Nat, f[b] \in Nat,
           Covers(m, f[a], a), ~Covers(m, f[b], b)
    PROVE  Before(f, a, b)
BY DEF MarkType, Covers, Before

\* A mark at a write that m leaves out is above m.
LEMMA MarkAbove ==
    ASSUME NEW m \in MarkType, NEW x \in Nat, NEW k \in Nat, ~Covers(m, x, k)
    PROVE  Covers([lm |-> x, key |-> k], m.lm, m.key)
BY DEF MarkType, Covers

\* A mark at the last of some writes covers them all.
LEMMA LastCovers ==
    ASSUME NEW f, NEW k \in Nat, NEW last \in Nat, f[k] \in Nat, f[last] \in Nat,
           k = last \/ Before(f, k, last)
    PROVE  Covers([lm |-> f[last], key |-> last], f[k], k)
BY DEF Covers, Before

LEMMA LastIndex ==
    ASSUME NEW n \in Nat, NEW i \in 1..n
    PROVE  n \in 1..n /\ i <= n
OBVIOUS

Associates(s, t, u) == (s \o t) \o u = s \o (t \o u)

\* Concatenation is associative.
LEMMA ConcatAssoc ==
    ASSUME NEW S, NEW s \in Seq(S), NEW t \in Seq(S), NEW u \in Seq(S)
    PROVE  Associates(s, t, u)
BY DEF Associates

LEMMA EarlierIndex ==
    ASSUME NEW n \in Nat, NEW i \in 1..(n + 1), NEW j \in 1..(n + 1), i <= j, j # n + 1
    PROVE  i \in 1..n /\ j \in 1..n
OBVIOUS

\* A mark that is Age old covers nothing younger.
LEMMA NotYetCovered ==
    ASSUME NEW m \in MarkType, NEW now \in Nat, m.lm + Age <= now,
           NEW x \in Nat, now < x + Age, NEW k \in Nat
    PROVE  ~Covers(m, x, k)
BY DEF MarkType, Covers

\* What a mark covers is no younger than the mark.
LEMMA CoveredStamp ==
    ASSUME NEW lm \in Nat, NEW key \in Nat, NEW x \in Nat, NEW k \in Nat,
           Covers([lm |-> lm, key |-> key], x, k)
    PROVE  x <= lm
BY DEF Covers

\* Nothing younger than Age is foldable from a listing of the past.
LEMMA NotYetFoldable ==
    ASSUME NEW l, NEW now \in Nat, \A j \in In(l) : l[j] <= now /\ l[j] \in Nat,
           NEW x \in Nat, now < x + Age
    PROVE  ~Foldable(l, x)
BY DEF Foldable

\* A PUT within its deadline lands younger than Age.
LEMMA NotYetAged ==
    ASSUME NEW now \in Nat, NEW s \in Nat, now <= s + Deadline,
           NEW x \in Nat, s <= x + Skew
    PROVE  now < x + Age
OBVIOUS

LEMMA OlderAged ==
    ASSUME NEW a \in Nat, NEW b \in Nat, a - b >= Age, NEW c \in Nat, c <= b
    PROVE  a - c >= Age
OBVIOUS

\* A step that moves only the program counter of a tick.
LEMMA PcMoves ==
    ASSUME tick \in [Replica -> TickType], NEW r \in Replica, NEW pc,
           tick' = [tick EXCEPT ![r].pc = pc]
    PROVE  /\ tick'[r].pc = pc /\ tick'[r].lst = tick[r].lst
           /\ tick'[r].cand = tick[r].cand
           /\ \A q \in Replica \ {r} : tick'[q] = tick[q]
BY DEF TickType

\* Replaying one set of segments after another one that precedes it.
LEMMA ReplayConcat ==
    ASSUME ReplayLaws, NEW f \in [Key -> Nat], NEW A \in SUBSET Key, NEW B \in SUBSET Key,
           \A a \in A, b \in B : Before(f, a, b)
    PROVE  Canonical(f, A) \o Canonical(f, B) = Canonical(f, A \cup B)
<1>1. ReplayExtends(f, A, B)
  BY Zenon DEF ReplayLaws
<1>. QED
  BY <1>1, Zenon DEF ReplayExtends

\* The canonical sequence of a set depends only on the stamps of its own
\* members: two replicas that agree on those replay in the same order.
LEMMA CanonicalAgree ==
    ASSUME NEW f, NEW g, NEW S, \A k \in S : f[k] = g[k]
    PROVE  Canonical(f, S) = Canonical(g, S)
<1>1. ASSUME NEW k \in S
      PROVE  Rank(f, S, k) = Rank(g, S, k)
  <2>1. {j \in S : Before(f, j, k)} = {j \in S : Before(g, j, k)}
    BY Zenon DEF Before
  <2>. QED
    BY <2>1, Zenon DEF Rank
<1>2. ASSUME NEW n
      PROVE  AtRank(f, S, n) = AtRank(g, S, n)
  BY <1>1, Zenon DEF AtRank
<1>. QED
  BY <1>2 DEF Canonical

\* The zero mark covers no segment.
LEMMA ZeroMarkCoversNothing ==
    /\ ZeroMark \in MarkType
    /\ \A lm \in Nat, k \in Nat : lm # 0 => ~Covers(ZeroMark, lm, k)
BY DEF ZeroMark, MarkType, Covers

LEMMA CurrentMarkType == TypeOK => CurrentMark \in MarkType
<1>. SUFFICES ASSUME TypeOK PROVE CurrentMark \in MarkType
  OBVIOUS
<1>1. CASE rolls = <<>>
  BY <1>1, ZeroMarkCoversNothing, Zenon DEF CurrentMark
<1>2. CASE rolls # <<>>
  <2>1. rolls \in Seq(RollupType) /\ Len(rolls) \in 1..Len(rolls)
    BY <1>2 DEF TypeOK, BucketOK
  <2>2. rolls[Len(rolls)] \in RollupType
    BY <2>1
  <2>. QED
    BY <1>2, <2>2, Zenon DEF CurrentMark, RollupType, MarkType
<1>. QED
  BY <1>1, <1>2, Zenon

\* A tick past the rollup GET holds a rollup.
LEMMA HoldsRollup ==
    ASSUME TypeOK, NEW r \in Replica, tick[r].pc \in HasRollup
    PROVE  /\ held[r] \in 1..Len(rolls)
           /\ rolls # <<>>
           /\ rolls[held[r]] \in RollupType
           /\ rolls[held[r]].mark \in MarkType
<1>1. held[r] \in 0..Len(rolls) /\ held[r] # 0 /\ rolls \in Seq(RollupType)
  BY Zenon DEF TypeOK, TickOK, BucketOK
<1>2. held[r] \in 1..Len(rolls) /\ rolls # <<>>
  BY <1>1
<1>3. rolls[held[r]] \in RollupType
  BY <1>1, <1>2
<1>. QED
  BY <1>2, <1>3, Zenon DEF RollupType, MarkType

\* What an earlier rollup covers, the present one covers.
LEMMA MarksGrow ==
    ASSUME TypeOK, MarksSound, NEW r \in Replica, tick[r].pc \in HasRollup,
           NEW lm \in Nat, NEW k \in Nat, Covers(rolls[held[r]].mark, lm, k)
    PROVE  Covers(CurrentMark, lm, k)
<1>1. /\ held[r] \in 1..Len(rolls) /\ rolls # <<>> /\ rolls[held[r]].mark \in MarkType
  BY HoldsRollup, Zenon
<1>2. Len(rolls) \in 1..Len(rolls) /\ held[r] <= Len(rolls)
  BY <1>1 DEF TypeOK, BucketOK
<1>3. CurrentMark = rolls[Len(rolls)].mark /\ CurrentMark \in MarkType
  BY <1>1, CurrentMarkType, Zenon DEF CurrentMark
<1>4. Covers(CurrentMark, rolls[held[r]].mark.lm, rolls[held[r]].mark.key)
  BY <1>1, <1>2, <1>3, Zenon DEF MarksSound
<1>. QED
  BY <1>1, <1>3, <1>4, CoversTransitive

-----------------------------------------------------------------------------
(* The initial state.                                                      *)

\* Nothing lies beneath the zero mark, so a seeded rollup is exact.
LEMMA BeneathZero ==
    ASSUME ReplayLaws, TypeOK
    PROVE  /\ Beneath(ZeroMark) = {}
           /\ Legacy \o Canonical(stamp, Beneath(ZeroMark)) = Legacy
<1>1. Beneath(ZeroMark) = {}
  <2>1. ASSUME NEW k \in Landed PROVE ~Covers(ZeroMark, stamp[k], k)
    <3>1. stamp[k] \in Nat /\ stamp[k] # 0 /\ k \in Nat
      BY Zenon DEF Landed, Writes, TypeOK, BucketOK
    <3>. QED
      BY <3>1, ZeroMarkCoversNothing, Zenon
  <2>. QED
    BY <2>1, Zenon DEF Beneath
<1>2. stamp \in [Key -> Nat]
  BY Zenon DEF TypeOK, BucketOK
<1>3. Canonical(stamp, {}) = <<>>
  BY <1>2, Zenon DEF ReplayLaws
<1>. QED
  BY <1>1, <1>3

\* An idle tick has no listing.
LEMMA IdleSound ==
    ASSUME NEW r \in Replica, In(tick[r].lst) = {}, tick[r].pc \in {"idle", "start"}
    PROVE  ListingSound(r) /\ TickSound(r)
BY Zenon DEF ListingSound, TickSound, Foldable

LEMMA EmptyListing == In(None) = {} /\ In(IdleTick.lst) = {} /\ IdleTick.pc = "idle"
BY Zenon DEF In, None, IdleTick

LEMMA InvInit == ReplayLaws /\ Init => JournalInv
<1>. SUFFICES ASSUME ReplayLaws, Init PROVE JournalInv
  OBVIOUS
<1>0. TypeOK
  BY TypeInit, Zenon
<1>1. StampsSound
  <2>1. PICK past \in [Backlog -> 1..Start] :
           stamp = [k \in Key |-> IF k \in Backlog THEN past[k] ELSE NoStamp]
    BY Zenon DEF Init
  <2>2. ASSUME NEW k \in Key
        PROVE  /\ stamp[k] \in 0..Start
               /\ k \in Backlog <=> stamp[k] # 0
    BY <2>1 DEF NoStamp
  <2>. QED
    BY <2>2 DEF Init, StampsSound, NoStamp
<1>2. rolls = <<>> \/ rolls = <<Seeding>>
  BY Zenon DEF Init
<1>3. CurrentMark = ZeroMark
  BY <1>2 DEF CurrentMark, Seeding
<1>4. MarksSound
  BY <1>2 DEF MarksSound, Seeding, Covers, ZeroMark
<1>5. Durable
  BY Zenon DEF Init, Durable, Landed, Writes, NoStamp
<1>6. RollupExact
  <2>1. Legacy \o Canonical(stamp, Beneath(CurrentMark)) = Legacy
    BY <1>0, <1>3, BeneathZero, Zenon
  <2>2. rolls # <<>> => rolls[Len(rolls)].state = Legacy
    BY <1>2 DEF Seeding
  <2>. QED
    BY <2>1, <2>2, Zenon DEF RollupExact
<1>7. ASSUME NEW r \in Replica PROVE ListingSound(r) /\ TickSound(r)
  <2>1. tick[r] = IdleTick
    BY Zenon DEF Init
  <2>. QED
    BY <2>1, IdleSound, EmptyListing, Zenon
<1>. QED
  BY <1>1, <1>4, <1>5, <1>6, <1>7, Zenon DEF JournalInv

-----------------------------------------------------------------------------
(* Steps that leave the bucket alone.                                      *)

\* What JournalInv says of the bucket reads nothing else.
LEMMA BucketFrame ==
    ASSUME JournalInv, UNCHANGED bucketVars
    PROVE  StampsSound' /\ MarksSound' /\ Durable' /\ RollupExact'
BY Zenon DEF JournalInv, bucketVars, StampsSound, MarksSound, Durable, RollupExact,
       Landed, Writes, CurrentMark, Beneath

\* What it says of a replica reads the bucket and that replica's tick.
LEMMA ReplicaFrame ==
    ASSUME JournalInv, UNCHANGED bucketVars, NEW q \in Replica,
           tick'[q] = tick[q], held'[q] = held[q]
    PROVE  ListingSound(q)' /\ TickSound(q)'
<1>1. ListingSound(q) /\ TickSound(q)
  BY Zenon DEF JournalInv
<1>2. ListingSound(q)'
  BY <1>1, Zenon DEF ListingSound, bucketVars, Landed, Writes, In, Foldable,
              KnownMark, CurrentMark
<1>3. TickSound(q)'
  BY <1>1, Zenon DEF TickSound, bucketVars, Landed, Writes, In, CurrentMark,
              Candidates, Leftovers, Aged, Ops, Beneath
<1>. QED
  BY <1>2, <1>3, Zenon

LEMMA Frame ==
    ASSUME JournalInv, UNCHANGED <<bucketVars, tick, held>>
    PROVE  JournalInv'
<1>1. \A q \in Replica : ListingSound(q)' /\ TickSound(q)'
  BY ReplicaFrame, Zenon
<1>. QED
  BY <1>1, BucketFrame, Zenon DEF JournalInv

\* A step of one replica that does not touch the bucket is the business of
\* that replica's tick alone.
LEMMA LocalStep ==
    ASSUME JournalInv, UNCHANGED bucketVars, NEW r \in Replica,
           \A q \in Replica \ {r} : tick'[q] = tick[q] /\ held'[q] = held[q],
           ListingSound(r)', TickSound(r)'
    PROVE  JournalInv'
<1>1. \A q \in Replica \ {r} : ListingSound(q)' /\ TickSound(q)'
  BY ReplicaFrame, Zenon
<1>. QED
  BY <1>1, BucketFrame, Zenon DEF JournalInv

\* A listing stays sound when only the marks move, and they move up.
LEMMA ListingStep ==
    ASSUME NEW q \in Replica, ListingSound(q), tick'[q].lst = tick[q].lst,
           UNCHANGED <<clock, sent, stamp, probes>>,
           \A k \in Landed : Covers(KnownMark(q), stamp[k], k)
                                => Covers(KnownMark(q)', stamp[k], k)
    PROVE  ListingSound(q)'
<1>1. Landed' = Landed /\ In(tick[q].lst)' = In(tick[q].lst)
  BY Zenon DEF Landed, Writes, In
<1>2. \A lm : Foldable(tick[q].lst, lm)' <=> Foldable(tick[q].lst, lm)
  BY Zenon DEF Foldable, In
<1>. QED
  BY <1>1, <1>2, Zenon DEF ListingSound

\* A tick that ends leaves nothing to be checked.
LEMMA EndSound ==
    ASSUME NEW r \in Replica, tick'[r] = IdleTick
    PROVE  ListingSound(r)' /\ TickSound(r)'
<1>1. In(tick[r].lst)' = {} /\ tick[r].pc' = "idle"
  BY EmptyListing, Zenon DEF In
<1>. QED
  BY <1>1, Zenon DEF ListingSound, TickSound, Foldable

LEMMA EndStep ==
    ASSUME TypeOK, JournalInv, UNCHANGED bucketVars, NEW r \in Replica,
           tick' = [tick EXCEPT ![r] = IdleTick],
           \A q \in Replica \ {r} : held'[q] = held[q]
    PROVE  JournalInv'
<1>1. tick'[r] = IdleTick /\ \A q \in Replica \ {r} : tick'[q] = tick[q]
  BY Zenon DEF TypeOK, TickOK
<1>. QED
  BY <1>1, EndSound, LocalStep, Zenon

\* A tick that goes on with the listing and the rollup it has.
LEMMA MoveSound ==
    ASSUME JournalInv, UNCHANGED <<clock, sent, stamp, landings, probes, rolls>>,
           NEW r \in Replica,
           tick[r].pc \in HasRollup, tick'[r].pc \in HasRollup \ {"clean"},
           tick'[r].lst = tick[r].lst, held'[r] = held[r],
           tick'[r].pc \in {"recheck", "commit"} => tick'[r].cand = Candidates(r)
    PROVE  ListingSound(r)' /\ TickSound(r)'
<1>1. ListingSound(r)'
  <2>1. KnownMark(r)' = KnownMark(r) /\ ListingSound(r)
    BY Zenon DEF JournalInv, KnownMark
  <2>. QED
    BY <2>1, ListingStep, Zenon
<1>2. Candidates(r)' = Candidates(r)
  BY Zenon DEF Candidates, Leftovers, Aged, In
<1>3. TickSound(r)'
  BY <1>2, Zenon DEF TickSound, HasRollup
<1>. QED
  BY <1>1, <1>3, Zenon

LEMMA MoveStep ==
    ASSUME TypeOK, JournalInv, UNCHANGED <<bucketVars, held>>, NEW r \in Replica,
           NEW t, tick' = [tick EXCEPT ![r] = t],
           tick[r].pc \in HasRollup, t.pc \in HasRollup \ {"clean"},
           t.lst = tick[r].lst,
           t.pc \in {"recheck", "commit"} => t.cand = Candidates(r)
    PROVE  JournalInv'
<1>1. tick'[r] = t /\ \A q \in Replica \ {r} : tick'[q] = tick[q] /\ held'[q] = held[q]
  BY Zenon DEF TypeOK, TickOK
<1>2. UNCHANGED <<clock, sent, stamp, landings, probes, rolls>> /\ held'[r] = held[r]
  BY Zenon DEF bucketVars
<1>. QED
  BY <1>1, <1>2, MoveSound, LocalStep, Zenon

-----------------------------------------------------------------------------
(* S3 and the writer.                                                      *)

LEMMA InvClockTick ==
    ASSUME TypeOK, JournalInv, ClockTick
    PROVE  JournalInv'
<1>1. /\ clock \in Nat /\ clock' = clock + 1 /\ stamp \in [Key -> Nat] /\ sent \in [Key -> Nat]
      /\ rolls \in Seq(RollupType)
      /\ UNCHANGED <<sent, stamp, landings, live, probes, rolls, tick, held>>
  BY Zenon DEF ClockTick, TypeOK, BucketOK
<1>2. StampsSound'
  BY <1>1 DEF JournalInv, StampsSound
<1>3. MarksSound'
  <2>1. ASSUME NEW i \in 1..Len(rolls) PROVE rolls[i].mark.lm \in Nat
    <3>1. rolls[i] \in RollupType
      BY <1>1
    <3>. QED
      BY <3>1, Zenon DEF RollupType
  <2>. QED
    BY <1>1, <2>1 DEF JournalInv, MarksSound
<1>4. Durable' /\ RollupExact'
  BY <1>1, Zenon DEF JournalInv, Durable, RollupExact, Landed, Writes, CurrentMark, Beneath
<1>5. ASSUME NEW r \in Replica PROVE ListingSound(r)'
  <2>1. \A k \in In(tick[r].lst) : tick[r].lst[k] \in Nat
    BY DEF TypeOK, TickOK, TickType, In
  <2>2. ListingSound(r)
    BY Zenon DEF JournalInv
  <2>3. \A k \in In(tick[r].lst) : tick[r].lst[k] <= clock
    BY <2>2, Zenon DEF ListingSound
  <2>4. ASSUME NEW k \in In(tick[r].lst) PROVE tick[r].lst[k] <= clock'
    <3>1. /\ tick[r].lst[k] \in Nat /\ tick[r].lst[k] <= clock
          /\ clock \in Nat /\ clock' = clock + 1
      BY <1>1, <2>1, <2>3, Zenon
    <3>. QED
      BY <3>1
  <2>. QED
    BY <1>1, <2>2, <2>4, Zenon
    DEF ListingSound, Landed, Writes, In, Foldable, KnownMark, CurrentMark
<1>6. ASSUME NEW r \in Replica PROVE TickSound(r)'
  BY <1>1, Zenon DEF JournalInv, TickSound, Landed, Writes, In, CurrentMark, Candidates,
              Leftovers, Aged, Ops, Beneath
<1>. QED
  BY <1>2, <1>3, <1>4, <1>5, <1>6, Zenon DEF JournalInv

\* A fresh key has reached neither the bucket nor a listing.
LEMMA FreshKey ==
    ASSUME TypeOK, JournalInv, NEW r \in Replica, NEW k \in NewSegmentKey(r)
    PROVE  /\ k \in Key /\ stamp[k] = NoStamp /\ k \notin Landed
           /\ \A q \in Replica : k \notin In(tick[q].lst)
<1>1. k \in Key /\ sent[k] = 0
  BY Zenon DEF NewSegmentKey
<1>2. stamp[k] = NoStamp
  BY <1>1, Zenon DEF JournalInv, StampsSound
<1>. QED
  BY <1>1, <1>2, Zenon DEF JournalInv, ListingSound, Landed, NoStamp

\* Drawing a key, for a segment or for a probe, disturbs no listing.
LEMMA DrawKey ==
    ASSUME TypeOK, JournalInv, NEW r \in Replica, NEW k \in NewSegmentKey(r),
           sent' = [sent EXCEPT ![k] = clock],
           probes' = probes \/ probes' = probes \cup {k},
           UNCHANGED <<clock, stamp, landings, live, rolls>>
    PROVE  /\ StampsSound' /\ MarksSound' /\ Durable' /\ RollupExact'
           /\ \A q \in Replica : tick'[q] = tick[q] /\ held'[q] = held[q]
                                    => ListingSound(q)' /\ TickSound(q)'
           /\ Landed' = Landed
<1>0. /\ clock \in Nat /\ sent \in [Key -> Nat] /\ stamp \in [Key -> Nat]
      /\ probes \subseteq Key
  BY Zenon DEF TypeOK, BucketOK
<1>1. /\ k \in Key /\ stamp[k] = NoStamp
      /\ \A q \in Replica : k \notin In(tick[q].lst)
  BY FreshKey, Zenon
<1>2. Landed' = Landed
  BY <1>0, <1>1, Zenon DEF Landed, Writes, NoStamp
<1>3. StampsSound'
  BY <1>0, <1>1 DEF JournalInv, StampsSound, NoStamp
<1>4. CurrentMark' = CurrentMark /\ \A m : Beneath(m)' = Beneath(m)
  BY <1>2, Zenon DEF CurrentMark, Beneath
<1>5. MarksSound' /\ Durable' /\ RollupExact'
  BY <1>2, <1>4, Zenon DEF JournalInv, MarksSound, Durable, RollupExact
<1>6. ASSUME NEW q \in Replica, tick'[q] = tick[q], held'[q] = held[q]
      PROVE  ListingSound(q)' /\ TickSound(q)'
  <2>0. ListingSound(q) /\ TickSound(q)
    BY Zenon DEF JournalInv
  <2>1. ListingSound(q)'
    <3>1. \A j \in In(tick[q].lst) : sent'[j] = sent[j]
      BY <1>0, <1>1, Zenon DEF In
    <3>2. In(tick[q].lst)' = In(tick[q].lst) /\ KnownMark(q)' = KnownMark(q)
      BY <1>4, <1>6, Zenon DEF In, KnownMark
    <3>. QED
      BY <1>2, <1>6, <2>0, <3>1, <3>2, Zenon DEF ListingSound, Foldable
  <2>2. Candidates(q)' = Candidates(q)
    BY <1>6, Zenon DEF Candidates, Leftovers, Aged, In
  <2>3. Ops(tick[q].cand)' \subseteq Ops(tick[q].cand)
    BY <1>6, Zenon DEF Ops
  <2>4. TickSound(q)'
    BY <1>4, <1>6, <2>0, <2>2, <2>3, Zenon DEF TickSound
  <2>. QED
    BY <2>1, <2>4, Zenon
<1>. QED
  BY <1>2, <1>3, <1>5, <1>6, Zenon

LEMMA InvSend ==
    ASSUME TypeOK, JournalInv, NEW r \in Replica, Send(r)
    PROVE  JournalInv'
<1>1. PICK k \in NewSegmentKey(r) : sent' = [sent EXCEPT ![k] = clock]
  BY Zenon DEF Send
<1>2. UNCHANGED <<clock, stamp, landings, live, rolls, probes, tick, held>>
  BY Zenon DEF Send
<1>. QED
  BY <1>1, <1>2, DrawKey, Zenon DEF JournalInv

LEMMA InvProbe ==
    ASSUME TypeOK, JournalInv, NEW r \in Replica, Probe(r)
    PROVE  JournalInv'
<1>0. UNCHANGED <<clock, stamp, landings, live, rolls, held>> /\ tick[r].pc = "probe"
  BY Zenon DEF Probe
<1>1. CASE UNCHANGED <<sent, probes>> /\ tick' = [tick EXCEPT ![r] = IdleTick]
  BY <1>0, <1>1, EndStep, Zenon DEF bucketVars
<1>2. ASSUME NEW k \in NewSegmentKey(r),
             sent' = [sent EXCEPT ![k] = clock], probes' = probes \cup {k},
             tick' = [tick EXCEPT ![r].pc = "probing", ![r].cand = {k}]
      PROVE  JournalInv'
  <2>1. /\ StampsSound' /\ MarksSound' /\ Durable' /\ RollupExact'
        /\ \A q \in Replica : tick'[q] = tick[q] /\ held'[q] = held[q]
                                 => ListingSound(q)' /\ TickSound(q)'
        /\ Landed' = Landed
    BY <1>0, <1>2, DrawKey, Zenon
  <2>2. /\ tick'[r] = [tick[r] EXCEPT !.pc = "probing", !.cand = {k}]
        /\ \A q \in Replica \ {r} : tick'[q] = tick[q]
    BY <1>2, Zenon DEF TypeOK, TickOK
  <2>3. /\ tick'[r].pc = "probing" /\ tick'[r].cand = {k}
        /\ tick'[r].lst = tick[r].lst
    BY <2>2 DEF TypeOK, TickOK, TickType
  <2>4. TickSound(r)'
    BY <1>2, <2>3, Zenon DEF TickSound
  <2>5. ListingSound(r)'
    <3>0. ListingSound(r)
      BY Zenon DEF JournalInv
    <3>1. \A j \in In(tick[r].lst) : sent'[j] = sent[j]
      BY <1>2, FreshKey, Zenon DEF In, TypeOK, BucketOK
    <3>2. In(tick[r].lst)' = In(tick[r].lst)
      BY <2>3, Zenon DEF In
    <3>3. KnownMark(r)' = KnownMark(r)
      BY <1>0, <2>3, Zenon DEF KnownMark, HasRollup, CurrentMark
    <3>. QED
      BY <1>0, <2>1, <2>3, <3>0, <3>1, <3>2, <3>3, Zenon DEF ListingSound, Foldable
  <2>. QED
    BY <1>0, <2>1, <2>2, <2>4, <2>5, Zenon DEF JournalInv
<1>. QED
  BY <1>1, <1>2, Zenon DEF Probe

\* A PUT that takes effect now is stamped too late to be covered by the
\* rollup or to be foldable from any listing; and a write that lands again
\* was not covered or foldable under its first stamp either.
LEMMA InvLand ==
    ASSUME TypeOK, JournalInv, NEW k \in Key, Land(k)
    PROVE  JournalInv'
<1>0. /\ clock \in Nat /\ stamp \in [Key -> Nat] /\ sent \in [Key -> Nat]
      /\ landings \in [Key -> Nat] /\ probes \subseteq Key /\ live \subseteq Key
  BY Zenon DEF TypeOK, BucketOK
<1>1. PICK t \in 1..clock : t + Skew >= clock /\ stamp' = [stamp EXCEPT ![k] = t]
  BY Zenon DEF Land
<1>2. /\ UNCHANGED <<clock, sent, probes, rolls, held, tick>>
      /\ landings' = [landings EXCEPT ![k] = @ + 1] /\ live' = live \cup {k}
      /\ sent[k] # 0 /\ (landings[k] > 0 => InFlight(k))
  BY Zenon DEF Land
<1>3. t \in Nat /\ t <= clock /\ t # 0 /\ clock < t + Age
  BY <1>0, <1>1
<1>4. stamp' \in [Key -> Nat] /\ stamp'[k] = t /\ \A j \in Key \ {k} : stamp'[j] = stamp[j]
  BY <1>0, <1>1
\* The write is still within its deadline if it had landed before.
<1>5. ASSUME k \in Landed
      PROVE  clock <= sent[k] + Deadline /\ sent[k] <= stamp[k] + Skew
             /\ clock < stamp[k] + Age
  <2>1. k \notin probes /\ stamp[k] # NoStamp
    BY <1>5, Zenon DEF Landed, Writes, NoStamp
  <2>2. landings[k] # 0 /\ sent[k] <= stamp[k] + Skew
    BY <2>1, Zenon DEF JournalInv, StampsSound
  <2>3. InFlight(k)
    BY <1>0, <1>2, <2>2
  <2>4. \A r \in Replica : tick[r].pc = "probing" => tick[r].cand # {k}
    BY <2>1, Zenon DEF JournalInv, TickSound
  <2>5. clock <= sent[k] + Deadline
    BY <2>3, <2>4, Zenon DEF InFlight
  <2>. QED
    BY <1>0, <2>2, <2>5
<1>6. StampsSound'
  <2>1. sent[k] <= t + Skew
    BY <1>0, <1>1 DEF JournalInv, StampsSound
  <2>2. landings'[k] # 0 /\ \A j \in Key \ {k} : landings'[j] = landings[j]
    BY <1>0, <1>2
  <2>3. ASSUME NEW j \in Key
        PROVE  /\ sent'[j] <= clock' /\ stamp'[j] <= clock'
               /\ stamp'[j] # NoStamp => sent'[j] # 0 /\ sent'[j] <= stamp'[j] + Skew
               /\ landings'[j] = 0 <=> stamp'[j] = NoStamp
               /\ j \in live' => stamp'[j] # NoStamp
    <3>1. CASE j = k
      BY <1>2, <1>3, <1>4, <2>1, <2>2, <3>1, Zenon DEF JournalInv, StampsSound, NoStamp
    <3>2. CASE j # k
      BY <1>2, <1>4, <2>2, <3>2, Zenon DEF JournalInv, StampsSound, NoStamp
    <3>. QED
      BY <3>1, <3>2, Zenon
  <2>. QED
    BY <2>3, Zenon DEF StampsSound
<1>7. MarksSound' /\ CurrentMark' = CurrentMark /\ \A r \in Replica : KnownMark(r)' = KnownMark(r)
  BY <1>2, Zenon DEF JournalInv, MarksSound, CurrentMark, KnownMark
<1>8. \A j \in Key \ {k} : j \in Landed' <=> j \in Landed
  BY <1>2, <1>4, Zenon DEF Landed, Writes
\* Neither its old nor its new stamp is beneath the mark.
<1>9. ASSUME NEW x \in Nat, x # 0, clock < x + Age PROVE ~Covers(CurrentMark, x, k)
  <2>1. CASE CurrentMark = ZeroMark
    BY <1>9, <2>1, ZeroMarkCoversNothing, Zenon
  <2>2. CASE CurrentMark # ZeroMark
    <3>1. rolls # <<>> /\ CurrentMark = rolls[Len(rolls)].mark /\ CurrentMark \in MarkType
      BY <2>2, CurrentMarkType, Zenon DEF CurrentMark
    <3>2. Len(rolls) \in 1..Len(rolls)
      BY <3>1 DEF TypeOK, BucketOK
    <3>3. CurrentMark.lm + Age <= clock
      BY <2>2, <3>1, <3>2, Zenon DEF JournalInv, MarksSound
    <3>. QED
      BY <1>0, <1>9, <3>1, <3>3, NotYetCovered, Zenon
  <2>. QED
    BY <2>1, <2>2, Zenon
<1>10. Beneath(CurrentMark)' = Beneath(CurrentMark) /\ k \notin Beneath(CurrentMark)
  <2>1. k \notin Beneath(CurrentMark)'
    BY <1>3, <1>4, <1>7, <1>9, Zenon DEF Beneath
  <2>2. k \notin Beneath(CurrentMark)
    <3>1. SUFFICES ASSUME k \in Landed PROVE ~Covers(CurrentMark, stamp[k], k)
      BY Zenon DEF Beneath
    <3>2. stamp[k] \in Nat /\ stamp[k] # 0
      BY <1>0, <3>1, Zenon DEF Landed
    <3>. QED
      BY <1>5, <1>9, <3>1, <3>2, Zenon
  <2>3. Beneath(CurrentMark)' \subseteq Key /\ Beneath(CurrentMark) \subseteq Key
    BY Zenon DEF Beneath, Landed, Writes
  <2>4. \A j \in Key \ {k} : j \in Beneath(CurrentMark)' <=> j \in Beneath(CurrentMark)
    BY <1>4, <1>7, <1>8, Zenon DEF Beneath
  <2>5. Beneath(CurrentMark)' \subseteq Beneath(CurrentMark)
    BY <2>1, <2>3, <2>4, Zenon
  <2>6. Beneath(CurrentMark) \subseteq Beneath(CurrentMark)'
    BY <2>2, <2>3, <2>4, Zenon
  <2>. QED
    BY <2>2, <2>5, <2>6, Zenon
<1>11. RollupExact'
  <2>1. \A j \in Beneath(CurrentMark) : stamp'[j] = stamp[j]
    BY <1>4, <1>10, Zenon DEF Beneath, Landed, Writes
  <2>2. Canonical(stamp', Beneath(CurrentMark)) = Canonical(stamp, Beneath(CurrentMark))
    BY <2>1, CanonicalAgree, Zenon
  <2>. QED
    BY <1>2, <1>10, <2>2, Zenon DEF JournalInv, RollupExact
<1>12. Durable'
  <2>1. ASSUME NEW j \in Landed' PROVE j \in live' \/ Covers(CurrentMark', stamp'[j], j)
    <3>1. CASE j = k
      BY <1>2, <3>1, Zenon
    <3>2. CASE j # k
      <4>1. j \in Key \ {k}
        BY <3>2, Zenon DEF Landed, Writes
      <4>2. j \in Landed
        BY <1>8, <4>1, Zenon
      <4>. QED
        BY <1>2, <1>4, <1>7, <4>1, <4>2, Zenon DEF JournalInv, Durable
    <3>. QED
      BY <3>1, <3>2, Zenon
  <2>. QED
    BY <2>1, Zenon DEF Durable
<1>13. ASSUME NEW r \in Replica PROVE ListingSound(r)' /\ TickSound(r)'
  <2>. DEFINE l == tick[r].lst
  <2>0. ListingSound(r) /\ TickSound(r) /\ l \in [Key -> Nat] /\ tick[r].cand \subseteq Key
    BY Zenon DEF JournalInv, TypeOK, TickOK, TickType
  <2>1. ASSUME NEW x \in Nat, clock < x + Age PROVE ~Foldable(l, x)
    <3>1. ASSUME NEW j \in In(l) PROVE l[j] <= clock /\ l[j] \in Nat
      BY <2>0, Zenon DEF ListingSound, In
    <3>. QED
      BY <1>0, <2>1, <3>1, NotYetFoldable, Zenon
  <2>2. k \in In(l) /\ k \in Landed => ~Foldable(l, l[k])
    <3>1. SUFFICES ASSUME k \in In(l), k \in Landed PROVE ~Foldable(l, l[k])
      OBVIOUS
    <3>2. sent[k] <= l[k] + Skew /\ l[k] \in Nat
      BY <2>0, <3>1, Zenon DEF ListingSound
    <3>3. clock < l[k] + Age
      <4>1. clock <= sent[k] + Deadline /\ sent[k] \in Nat
        BY <1>0, <1>5, <3>1, Zenon
      <4>. QED
        BY <1>0, <3>2, <4>1, NotYetAged, Zenon
    <3>. QED
      BY <2>1, <3>2, <3>3, Zenon
  <2>3. k \in In(l) => stamp[k] # NoStamp
    BY <2>0, Zenon DEF ListingSound
  <2>4. k \in In(l) /\ k \in Landed' => k \in Landed
    BY <1>2, <2>3, Zenon DEF Landed, Writes, NoStamp
  <2>5. ~Foldable(l, stamp'[k])
    BY <1>3, <1>4, <2>1, Zenon
  <2>6. In(l)' = In(l) /\ l' = l
    BY <1>2, Zenon DEF In
  <2>7. ListingSound(r)'
    <3>1. ASSUME NEW j \in In(l)
          PROVE  l[j] <= clock' /\ stamp'[j] # NoStamp /\ sent'[j] <= l[j] + Skew
      BY <1>2, <1>3, <1>4, <2>0, Zenon DEF ListingSound, In, NoStamp
    <3>2. ASSUME NEW j \in Landed', j \in In(l), Foldable(l, l[j]) \/ Foldable(l, stamp'[j])
          PROVE  l[j] = stamp'[j]
      <4>1. j \in Key /\ j # k
        BY <2>2, <2>4, <2>5, <3>2, Zenon DEF In
      <4>2. j \in Landed /\ stamp'[j] = stamp[j]
        BY <1>4, <1>8, <4>1, Zenon
      <4>. QED
        BY <2>0, <3>2, <4>2, Zenon DEF ListingSound
    <3>3. ASSUME NEW j \in Landed', Foldable(l, stamp'[j])
          PROVE  j \in In(l) \/ Covers(KnownMark(r), stamp'[j], j)
      <4>1. j \in Key /\ j # k
        BY <2>5, <3>3, Zenon DEF Landed, Writes
      <4>2. j \in Landed /\ stamp'[j] = stamp[j]
        BY <1>4, <1>8, <4>1, Zenon
      <4>. QED
        BY <2>0, <3>3, <4>2, Zenon DEF ListingSound
    <3>. QED
      BY <1>2, <1>7, <2>6, <3>1, <3>2, <3>3, Zenon DEF ListingSound, Foldable
  <2>8. Candidates(r)' = Candidates(r) /\ Ops(tick[r].cand)' = Ops(tick[r].cand)
    BY <1>2, Zenon DEF Candidates, Leftovers, Aged, In, Ops
  <2>9. TickSound(r)'
    BY <1>2, <1>10, <2>0, <2>8, Zenon DEF TickSound
  <2>. QED
    BY <2>7, <2>9, Zenon
<1>. QED
  BY <1>6, <1>7, <1>11, <1>12, <1>13, Zenon DEF JournalInv

-----------------------------------------------------------------------------
(* A sync tick.                                                            *)

\* The first rollup has the zero mark, like no rollup at all.
LEMMA SeedInstalled ==
    ASSUME ReplayLaws, TypeOK, JournalInv, NEW r \in Replica, rolls = <<>>, rolls' = <<Seeding>>,
           UNCHANGED <<clock, sent, stamp, landings, live, probes>>,
           \A q \in Replica \ {r} : tick'[q] = tick[q] /\ held'[q] = held[q]
    PROVE  /\ StampsSound' /\ MarksSound' /\ Durable' /\ RollupExact'
           /\ \A q \in Replica \ {r} : ListingSound(q)' /\ TickSound(q)'
           /\ CurrentMark = ZeroMark /\ CurrentMark' = ZeroMark
           /\ tick[r].pc \notin HasRollup
<1>1. CurrentMark = ZeroMark /\ CurrentMark' = ZeroMark
  BY Zenon DEF CurrentMark, Seeding
<1>2. StampsSound' /\ Durable'
  BY <1>1, Zenon DEF JournalInv, StampsSound, Durable, Landed, Writes
<1>3. MarksSound'
  BY DEF MarksSound, Seeding, Covers, ZeroMark
<1>4. RollupExact'
  <2>1. Legacy \o Canonical(stamp, Beneath(ZeroMark)) = Legacy
    BY BeneathZero, Zenon
  <2>2. Beneath(CurrentMark)' = Beneath(ZeroMark)
    BY <1>1, Zenon DEF Beneath, Landed, Writes
  <2>3. rolls'[Len(rolls')].state = Legacy
    BY Zenon DEF Seeding
  <2>. QED
    BY <2>1, <2>2, <2>3, Zenon DEF RollupExact
<1>5. \A q \in Replica : tick[q].pc \notin HasRollup
  BY HoldsRollup, Zenon
<1>6. ASSUME NEW q \in Replica \ {r} PROVE ListingSound(q)' /\ TickSound(q)'
  <2>0. /\ ListingSound(q) /\ TickSound(q) /\ tick'[q] = tick[q] /\ held'[q] = held[q]
        /\ tick[q].pc \notin HasRollup
    BY <1>5, Zenon DEF JournalInv
  <2>1. KnownMark(q)' = KnownMark(q)
    BY <1>1, <2>0, Zenon DEF KnownMark
  <2>2. ListingSound(q)'
    BY <2>0, <2>1, ListingStep, Zenon
  <2>3. TickSound(q)'
    BY <2>0, Zenon DEF TickSound, HasRollup
  <2>. QED
    BY <2>2, <2>3, Zenon
<1>. QED
  BY <1>1, <1>2, <1>3, <1>4, <1>5, <1>6, Zenon

LEMMA InvSync ==
    ASSUME ReplayLaws, TypeOK, JournalInv, NEW r \in Replica, Sync(r)
    PROVE  JournalInv'
<1>0. /\ tick \in [Replica -> TickType] /\ held \in [Replica -> 0..Len(rolls)]
      /\ tick[r] \in TickType /\ stamp \in [Key -> Nat] /\ live \subseteq Key
      /\ ListingSound(r) /\ TickSound(r)
  BY Zenon DEF TypeOK, TickOK, BucketOK, JournalInv
<1>1. ASSUME NEW flush \in BOOLEAN, TickStart(r, flush) PROVE JournalInv'
  <2>1. /\ tick'[r].pc = "start" /\ tick'[r].lst = None /\ UNCHANGED bucketVars
        /\ \A q \in Replica \ {r} : tick'[q] = tick[q] /\ held'[q] = held[q]
    BY <1>0, <1>1, Zenon DEF TickStart, IdleTick
  <2>2. In(tick[r].lst)' = {}
    BY <2>1, EmptyListing, Zenon DEF In
  <2>3. ListingSound(r)' /\ TickSound(r)'
    BY <2>1, <2>2, Zenon DEF ListingSound, TickSound, Foldable
  <2>. QED
    BY <2>1, <2>3, LocalStep, Zenon
<1>2. CASE TickList(r)
  <2>1. /\ tick'[r].pc = "listed" /\ tick'[r].lst = StampsOf(stamp, live)
        /\ UNCHANGED bucketVars
        /\ \A q \in Replica \ {r} : tick'[q] = tick[q] /\ held'[q] = held[q]
    BY <1>0, <1>2, Zenon DEF TickList, TickType
  <2>2. \A k \in Key : tick'[r].lst[k] = IF k \in live THEN stamp[k] ELSE NoStamp
    BY <2>1, Zenon DEF StampsOf
  <2>3. In(tick[r].lst)' = live
    BY <1>0, <2>2, Zenon DEF In, JournalInv, StampsSound
  <2>4. KnownMark(r)' = CurrentMark
    BY <2>1, Zenon DEF KnownMark, HasRollup, CurrentMark, bucketVars
  <2>5. ListingSound(r)'
    <3>1. \A k \in live : tick'[r].lst[k] = stamp[k] /\ k \in Key
      BY <1>0, <2>2, Zenon
    <3>2. /\ UNCHANGED <<clock, sent, stamp>> /\ Landed' = Landed
          /\ \A k \in live : stamp[k] <= clock /\ stamp[k] # NoStamp
                             /\ sent[k] <= stamp[k] + Skew
          /\ \A k \in Landed : k \in live \/ Covers(CurrentMark, stamp[k], k)
      BY <1>0, <2>1, Zenon DEF bucketVars, JournalInv, StampsSound, Durable, Landed, Writes
    <3>. QED
      BY <2>3, <2>4, <3>1, <3>2, Zenon DEF ListingSound
  <2>6. TickSound(r)'
    BY <2>1, Zenon DEF TickSound
  <2>. QED
    BY <2>1, <2>5, <2>6, LocalStep, Zenon
<1>3. CASE TickRollup(r)
  <2>1. /\ tick[r].pc = "listed" /\ tick'[r].pc \in {"seed", "rolled"}
        /\ tick'[r].lst = tick[r].lst /\ UNCHANGED bucketVars
        /\ \A q \in Replica \ {r} : tick'[q] = tick[q] /\ held'[q] = held[q]
        /\ tick'[r].pc = "rolled" => rolls # <<>> /\ held'[r] = Len(rolls)
    <3>1. tick[r].pc = "listed" /\ UNCHANGED bucketVars
      BY <1>3, Zenon DEF TickRollup
    <3>2. CASE rolls = <<>>
      <4>1. tick' = [tick EXCEPT ![r].pc = "seed"] /\ UNCHANGED held
        BY <1>3, <3>2, Zenon DEF TickRollup
      <4>2. /\ tick'[r].pc = "seed" /\ tick'[r].lst = tick[r].lst
            /\ \A q \in Replica \ {r} : tick'[q] = tick[q] /\ held'[q] = held[q]
        BY <1>0, <4>1, PcMoves, Zenon
      <4>. QED
        BY <3>1, <4>2
    <3>3. CASE rolls # <<>>
      <4>1. /\ tick' = [tick EXCEPT ![r].pc = "rolled"]
            /\ held' = [held EXCEPT ![r] = Len(rolls)]
        BY <1>3, <3>3, Zenon DEF TickRollup
      <4>. QED
        BY <1>0, <3>1, <3>3, <4>1, PcMoves, Zenon
    <3>. QED
      BY <3>2, <3>3, Zenon
  <2>3. KnownMark(r)' = KnownMark(r)
    BY <2>1, Zenon DEF KnownMark, HasRollup, CurrentMark, bucketVars
  <2>4. ListingSound(r)'
    BY <1>0, <2>1, <2>3, ListingStep, Zenon DEF bucketVars
  <2>5. TickSound(r)'
    BY <2>1, Zenon DEF TickSound
  <2>. QED
    BY <2>1, <2>4, <2>5, LocalStep, Zenon
<1>4. CASE Seed(r)
  <2>1. /\ tick[r].pc = "seed" /\ tick'[r].pc \in {"rolled", "listed"}
        /\ tick'[r].lst = tick[r].lst
        /\ UNCHANGED <<clock, sent, stamp, landings, live, probes>>
        /\ \A q \in Replica \ {r} : tick'[q] = tick[q] /\ held'[q] = held[q]
    <3>1. \/ tick' = [tick EXCEPT ![r].pc = "rolled"] /\ held' = [held EXCEPT ![r] = 1]
          \/ tick' = [tick EXCEPT ![r].pc = "listed"] /\ held' = [held EXCEPT ![r] = 0]
      BY <1>4, Zenon DEF Seed
    <3>. QED
      BY <1>0, <1>4, <3>1, PcMoves, Zenon DEF Seed
  <2>2. TickSound(r)'
    BY <2>1, Zenon DEF TickSound
  <2>3. KnownMark(r)' = KnownMark(r) => ListingSound(r)'
    BY <1>0, <2>1, ListingStep, Zenon
  <2>4. CASE rolls = <<>>
    <3>1. rolls' = <<Seeding>> /\ held'[r] = 1
      BY <1>0, <1>4, <2>4, Zenon DEF Seed
    <3>2. /\ StampsSound' /\ MarksSound' /\ Durable' /\ RollupExact'
          /\ \A q \in Replica \ {r} : ListingSound(q)' /\ TickSound(q)'
          /\ CurrentMark = ZeroMark /\ CurrentMark' = ZeroMark
      BY <2>1, <2>4, <3>1, SeedInstalled, Zenon
    <3>3. KnownMark(r)' = ZeroMark /\ KnownMark(r) = ZeroMark
      BY <2>1, <3>1, <3>2 DEF KnownMark, HasRollup, Seeding
    <3>. QED
      BY <2>2, <2>3, <3>2, <3>3, Zenon DEF JournalInv
  <2>5. CASE rolls # <<>>
    <3>1. UNCHANGED bucketVars /\ tick'[r].pc = "listed"
      BY <1>0, <1>4, <2>5 DEF Seed, TickType, bucketVars
    <3>2. KnownMark(r)' = KnownMark(r)
      BY <2>1, <3>1, Zenon DEF KnownMark, HasRollup, CurrentMark, bucketVars
    <3>. QED
      BY <2>1, <2>2, <2>3, <3>1, <3>2, LocalStep, Zenon
  <2>. QED
    BY <2>4, <2>5, Zenon
<1>5. CASE SeedLost(r)
  <2>1. /\ rolls = <<>> /\ rolls' = <<Seeding>> /\ tick'[r] = IdleTick
        /\ UNCHANGED <<clock, sent, stamp, landings, live, probes>>
        /\ \A q \in Replica \ {r} : tick'[q] = tick[q] /\ held'[q] = held[q]
    BY <1>0, <1>5, Zenon DEF SeedLost
  <2>. QED
    BY <2>1, SeedInstalled, EndSound, Zenon DEF JournalInv
<1>6. CASE TickFails(r)
  BY <1>6, EndStep, Zenon DEF TickFails
<1>7. CASE FetchUnseen(r)
  <2>1. CASE Unseen(r) \subseteq live
    <3>. DEFINE t == [tick[r] EXCEPT !.pc = "fetched", !.staged = Unseen(r)]
    <3>1. tick' = [tick EXCEPT ![r] = t] /\ UNCHANGED <<bucketVars, held>>
      BY <1>0, <1>7, <2>1, Zenon DEF FetchUnseen
    <3>2. t.pc = "fetched" /\ t.lst = tick[r].lst /\ tick[r].pc = "rolled"
      BY <1>0, <1>7, Zenon DEF FetchUnseen, TickType
    <3>. HIDE DEF t
    <3>. QED
      BY <3>1, <3>2, MoveStep, Zenon DEF HasRollup
  <2>2. CASE ~(Unseen(r) \subseteq live)
    BY <1>7, <2>2, EndStep, Zenon DEF FetchUnseen
  <2>. QED
    BY <2>1, <2>2, Zenon
<1>8. CASE FetchFails(r)
  BY <1>8, EndStep, Zenon DEF FetchFails
<1>9. CASE RebuildInput(r)
  <2>1. PICK in, out :
           tick' = [tick EXCEPT ![r] = [tick[r] EXCEPT !.pc = "built", !.input = in,
                                                       !.built = out]]
    BY <1>0, <1>9, Zenon DEF RebuildInput
  <2>. DEFINE t == [tick[r] EXCEPT !.pc = "built", !.input = in, !.built = out]
  <2>2. t.pc = "built" /\ t.lst = tick[r].lst /\ tick[r].pc = "fetched"
    BY <1>0, <1>9, Zenon DEF RebuildInput, TickType
  <2>3. tick' = [tick EXCEPT ![r] = t] /\ UNCHANGED <<bucketVars, held>>
    BY <1>9, <2>1, Zenon DEF RebuildInput
  <2>. HIDE DEF t
  <2>. QED
    BY <2>2, <2>3, MoveStep, Zenon DEF HasRollup
<1>10. CASE RebuildSwap(r)
  <2>1. CASE tick[r].flush
    <3>1. tick' = [tick EXCEPT ![r] = IdleTick] /\ UNCHANGED <<bucketVars, held>>
      BY <1>0, <1>10, <2>1, Zenon DEF RebuildSwap
    <3>. QED
      BY <3>1, EndStep, Zenon
  <2>2. CASE ~tick[r].flush
    <3>. DEFINE t == [IdleTick EXCEPT !.pc = "ladder", !.lst = tick[r].lst]
    <3>1. tick' = [tick EXCEPT ![r] = t] /\ UNCHANGED <<bucketVars, held>>
      BY <1>0, <1>10, <2>2, Zenon DEF RebuildSwap
    <3>2. t.pc = "ladder" /\ t.lst = tick[r].lst /\ tick[r].pc = "built"
      BY <1>10, Zenon DEF RebuildSwap, IdleTick
    <3>. HIDE DEF t
    <3>. QED
      BY <3>1, <3>2, MoveStep, Zenon DEF HasRollup
  <2>. QED
    BY <2>1, <2>2, Zenon
<1>. QED
  BY <1>1, <1>2, <1>3, <1>4, <1>5, <1>6, <1>7, <1>8, <1>9, <1>10, Zenon DEF Sync

-----------------------------------------------------------------------------
(* Compaction.                                                             *)

\* Deleting writes the rollup covers loses nothing.
LEMMA DeleteCovered ==
    ASSUME TypeOK, JournalInv, NEW r \in Replica, live' \subseteq live,
           \A k \in Landed : k \in live \ live' => Covers(CurrentMark, stamp[k], k),
           UNCHANGED <<clock, sent, stamp, landings, probes, rolls>>,
           \A q \in Replica \ {r} : tick'[q] = tick[q] /\ held'[q] = held[q],
           ListingSound(r)', TickSound(r)'
    PROVE  JournalInv'
<1>1. Landed' = Landed /\ CurrentMark' = CurrentMark /\ \A m : Beneath(m)' = Beneath(m)
  BY Zenon DEF Landed, Writes, CurrentMark, Beneath
<1>2. StampsSound' /\ MarksSound'
  BY Zenon DEF JournalInv, StampsSound, MarksSound
<1>3. Durable' /\ RollupExact'
  BY <1>1, Zenon DEF JournalInv, Durable, RollupExact
<1>4. ASSUME NEW q \in Replica \ {r} PROVE ListingSound(q)' /\ TickSound(q)'
  <2>1. tick'[q] = tick[q] /\ held'[q] = held[q] /\ ListingSound(q) /\ TickSound(q)
    BY Zenon DEF JournalInv
  <2>2. ListingSound(q)'
    <3>1. KnownMark(q)' = KnownMark(q)
      BY <1>1, <2>1, Zenon DEF KnownMark
    <3>. QED
      BY <2>1, <3>1, ListingStep, Zenon
  <2>3. Candidates(q)' = Candidates(q) /\ Ops(tick[q].cand)' = Ops(tick[q].cand)
    BY <2>1, Zenon DEF In, Candidates, Leftovers, Aged, Ops
  <2>4. TickSound(q)'
    BY <1>1, <2>1, <2>3, Zenon DEF TickSound
  <2>. QED
    BY <2>2, <2>4, Zenon
<1>. QED
  BY <1>2, <1>3, <1>4, Zenon DEF JournalInv

\* A leftover is what the ladder takes it for.
LEMMA LeftoverCovered ==
    ASSUME TypeOK, JournalInv, NEW r \in Replica, tick[r].pc \in HasRollup,
           NEW k \in Landed, k \in Leftovers(r)
    PROVE  Covers(CurrentMark, stamp[k], k)
<1>1. /\ k \in In(tick[r].lst) /\ Foldable(tick[r].lst, tick[r].lst[k])
      /\ Covers(rolls[held[r]].mark, tick[r].lst[k], k)
  BY Zenon DEF Leftovers, Aged, Foldable
<1>2. tick[r].lst[k] = stamp[k]
  BY <1>1, Zenon DEF JournalInv, ListingSound
<1>3. stamp[k] \in Nat /\ k \in Nat
  BY Zenon DEF TypeOK, BucketOK, Landed, Writes
<1>. QED
  BY <1>1, <1>2, <1>3, MarksGrow, Zenon DEF JournalInv

LEMMA InvLadder ==
    ASSUME TypeOK, JournalInv, NEW r \in Replica, LadderStep(r)
    PROVE  JournalInv'
<1>0. /\ tick \in [Replica -> TickType] /\ tick[r] \in TickType
      /\ tick[r].pc = "ladder" /\ tick[r].pc \in HasRollup
      /\ ListingSound(r)
  BY Zenon DEF LadderStep, TypeOK, TickOK, HasRollup, JournalInv
<1>1. /\ UNCHANGED <<clock, sent, stamp, landings, probes, rolls, held>>
  BY Zenon DEF LadderStep
<1>2. live' \subseteq live /\ live \ live' \subseteq Leftovers(r)
  <2>1. Remove(Leftovers(r))
    BY Zenon DEF LadderStep
  <2>. QED
    BY <2>1, RemoveType, Zenon
<1>3. \A k \in Landed : k \in live \ live' => Covers(CurrentMark, stamp[k], k)
  BY <1>0, <1>2, LeftoverCovered, Zenon
<1>4. PICK t \in {[tick[r] EXCEPT !.pc = "recheck", !.cand = Candidates(r)],
                  [tick[r] EXCEPT !.pc = "probe"], IdleTick} :
         tick' = [tick EXCEPT ![r] = t]
  BY Zenon DEF LadderStep, TypeOK, TickOK
<1>5. tick'[r] = t /\ \A q \in Replica \ {r} : tick'[q] = tick[q] /\ held'[q] = held[q]
  BY <1>0, <1>1, <1>4, Zenon
<1>6. CASE t = [tick[r] EXCEPT !.pc = "recheck", !.cand = Candidates(r)]
  <2>1. /\ tick'[r].pc = "recheck" /\ tick'[r].cand = Candidates(r)
        /\ tick'[r].lst = tick[r].lst /\ held'[r] = held[r]
    BY <1>0, <1>1, <1>5, <1>6 DEF TickType
  <2>2. ListingSound(r)' /\ TickSound(r)'
    BY <1>0, <1>1, <2>1, MoveSound, Zenon DEF HasRollup
  <2>. QED
    BY <1>1, <1>2, <1>3, <1>5, <2>2, DeleteCovered, Zenon
<1>7. CASE t = [tick[r] EXCEPT !.pc = "probe"]
  <2>1. tick'[r].pc = "probe" /\ tick'[r].lst = tick[r].lst
    BY <1>0, <1>5, <1>7, Zenon DEF TickType
  <2>2. TickSound(r)'
    BY <2>1, Zenon DEF TickSound
  <2>3. KnownMark(r)' = CurrentMark /\ KnownMark(r) = rolls[held[r]].mark
    BY <1>0, <1>1, <2>1, Zenon DEF KnownMark, HasRollup, CurrentMark
  <2>4. ASSUME NEW k \in Landed, Covers(KnownMark(r), stamp[k], k)
        PROVE  Covers(KnownMark(r)', stamp[k], k)
    <3>1. stamp[k] \in Nat /\ k \in Nat
      BY Zenon DEF TypeOK, BucketOK, Landed, Writes
    <3>. QED
      BY <1>0, <2>3, <2>4, <3>1, MarksGrow, Zenon DEF JournalInv
  <2>5. ListingSound(r)'
    BY <1>0, <1>1, <2>1, <2>4, Zenon DEF ListingSound, In, Foldable, Landed, Writes
  <2>. QED
    BY <1>1, <1>2, <1>3, <1>5, <2>2, <2>5, DeleteCovered, Zenon
<1>8. CASE t = IdleTick
  <2>1. ListingSound(r)' /\ TickSound(r)'
    BY <1>5, <1>8, EndSound, Zenon
  <2>. QED
    BY <1>1, <1>2, <1>3, <1>5, <2>1, DeleteCovered, Zenon
<1>. QED
  BY <1>4, <1>6, <1>7, <1>8, Zenon

\* The election: what the winner folds is exactly what lies between the old
\* mark and the new one, so the new rollup is exact.
LEMMA Election ==
    ASSUME ReplayLaws, TypeOK, JournalInv, NEW r \in Replica, tick[r].pc = "commit", Elected(r),
           NEW last \in Key, IsLast(r, last)
    PROVE  LET nm == Folded(r, last).mark IN
           /\ nm \in MarkType /\ nm.lm + Age <= clock
           /\ \A lm \in Nat, k \in Nat : Covers(CurrentMark, lm, k) => Covers(nm, lm, k)
           /\ Ops(tick[r].cand) \subseteq Beneath(nm)
           /\ Folded(r, last).state = Legacy \o Canonical(stamp, Beneath(nm))
<1>. DEFINE l  == tick[r].lst
            m  == rolls[held[r]].mark
            nm == [lm |-> l[last], key |-> last]
            C  == Ops(tick[r].cand)
<1>0. /\ l \in [Key -> Nat] /\ stamp \in [Key -> Nat] /\ clock \in Nat
      /\ rolls \in Seq(RollupType) /\ tick[r].cand \subseteq Key
      /\ ListingSound(r) /\ RollupExact
  BY Zenon DEF TypeOK, TickOK, TickType, BucketOK, JournalInv
<1>1. /\ m \in MarkType /\ rolls # <<>> /\ m = CurrentMark
      /\ rolls[held[r]].state = Legacy \o Canonical(stamp, Beneath(m))
  <2>1. rolls # <<>> /\ m \in MarkType
    BY HoldsRollup, Zenon DEF HasRollup
  <2>. QED
    BY <1>0, <2>1, Zenon DEF Elected, CurrentMark, RollupExact
<1>2. KnownMark(r) = m
  BY Zenon DEF KnownMark, HasRollup
<1>3. tick[r].cand = Candidates(r)
  BY Zenon DEF JournalInv, TickSound
<1>4. ASSUME NEW k \in tick[r].cand
      PROVE  k \in In(l) /\ Foldable(l, l[k]) /\ ~Covers(m, l[k], k)
  BY <1>3, Zenon DEF Candidates, Leftovers, Aged, Foldable
<1>5. ASSUME NEW k \in C PROVE k \in Landed /\ l[k] = stamp[k] /\ ~Covers(m, stamp[k], k)
  <2>1. k \in tick[r].cand /\ k \notin probes /\ k \in Key
    BY <1>0, <1>5, Zenon DEF Ops
  <2>2. k \in In(l) /\ Foldable(l, l[k]) /\ ~Covers(m, l[k], k)
    BY <1>4, <2>1, Zenon
  <2>3. k \in Landed
    BY <1>0, <2>1, <2>2, Zenon DEF ListingSound, Landed, Writes, NoStamp
  <2>. QED
    BY <1>0, <2>2, <2>3, Zenon DEF ListingSound
<1>6. PICK j \in In(l) : l[j] - l[last] >= Age
  <2>1. last \in tick[r].cand
    BY Zenon DEF IsLast
  <2>. QED
    BY <1>4, <2>1, Zenon DEF Foldable
<1>7. l[j] \in Nat /\ l[j] <= clock /\ l[last] \in Nat
  BY <1>0, Zenon DEF ListingSound, In
<1>8. nm \in MarkType /\ nm.lm + Age <= clock
  <2>1. nm \in MarkType
    BY <1>7, Zenon DEF MarkType
  <2>2. l[last] + Age <= clock
    <3>. HIDE DEF l
    <3>. QED
      BY <1>0, <1>6, <1>7
  <2>. QED
    BY <2>1, <2>2, Zenon
<1>9. ~Covers(m, l[last], last)
  BY <1>4, Zenon DEF IsLast
<1>10. ASSUME NEW lm \in Nat, NEW k \in Nat, Covers(m, lm, k) PROVE Covers(nm, lm, k)
  <2>. HIDE DEF m, nm, l
  <2>1. Covers(nm, m.lm, m.key)
    BY <1>1, <1>7, <1>9, MarkAbove, Zenon DEF nm
  <2>. QED
    BY <1>1, <1>8, <1>10, <2>1, CoversTransitive, Zenon
<1>11. Beneath(nm) = Beneath(m) \cup C
  <2>1. ASSUME NEW k \in Beneath(m) PROVE k \in Beneath(nm)
    <3>1. k \in Landed /\ Covers(m, stamp[k], k) /\ stamp[k] \in Nat /\ k \in Nat
      BY <1>0, <2>1, Zenon DEF Beneath, Landed, Writes
    <3>. QED
      BY <1>10, <3>1, Zenon DEF Beneath
  <2>2. ASSUME NEW k \in C PROVE k \in Beneath(nm)
    <3>1. k \in Landed /\ l[k] = stamp[k] /\ k \in Nat /\ stamp[k] \in Nat
      BY <1>0, <1>5, Zenon DEF Landed, Writes
    <3>2. k = last \/ Before(l, k, last)
      BY Zenon DEF IsLast, Ops
    <3>3. Covers(nm, l[k], k)
      BY <1>7, <3>1, <3>2, LastCovers, Zenon
    <3>. QED
      BY <3>1, <3>3, Zenon DEF Beneath
  <2>3. ASSUME NEW k \in Beneath(nm), k \notin Beneath(m) PROVE k \in C
    <3>1. /\ k \in Landed /\ Covers(nm, stamp[k], k) /\ ~Covers(m, stamp[k], k)
          /\ k \in Key \ probes /\ stamp[k] \in Nat
      BY <1>0, <2>3, Zenon DEF Beneath, Landed, Writes
    <3>2. stamp[k] <= l[last]
      BY <1>7, <3>1, CoveredStamp, Zenon
    <3>3. Foldable(l, stamp[k])
      <4>1. l[j] - stamp[k] >= Age
        BY <1>6, <1>7, <3>1, <3>2, OlderAged, Zenon
      <4>. QED
        BY <4>1, Zenon DEF Foldable
    <3>4. k \in In(l) /\ l[k] = stamp[k]
      BY <1>0, <1>2, <3>1, <3>3, Zenon DEF ListingSound
    <3>5. k \in Candidates(r)
      BY <3>1, <3>3, <3>4, Zenon DEF Candidates, Leftovers, Aged, Foldable
    <3>. QED
      BY <1>3, <3>1, <3>5, Zenon DEF Ops
  <2>. HIDE DEF m, nm, C
  <2>. QED
    BY <2>1, <2>2, <2>3, Zenon
<1>12. Canonical(stamp, Beneath(m)) \o Canonical(stamp, C) = Canonical(stamp, Beneath(nm))
  <2>1. Beneath(m) \subseteq Key /\ C \subseteq Key
    BY <1>0, Zenon DEF Beneath, Landed, Writes, Ops
  <2>3. ASSUME NEW a \in Beneath(m), NEW b \in C PROVE Before(stamp, a, b)
    <3>1. Covers(m, stamp[a], a) /\ ~Covers(m, stamp[b], b)
      BY <1>5, Zenon DEF Beneath
    <3>2. a \in Nat /\ b \in Nat /\ stamp[a] \in Nat /\ stamp[b] \in Nat
      BY <1>0, <2>1, Zenon
    <3>. HIDE DEF m, C
    <3>. QED
      BY <1>1, <3>1, <3>2, CoveredFirst, Zenon
  <2>. HIDE DEF m, nm, C
  <2>2. stamp \in [Key -> Nat] /\ Beneath(m) \in SUBSET Key /\ C \in SUBSET Key
    BY <1>0, <2>1, Zenon
  <2>4. Canonical(stamp, Beneath(m)) \o Canonical(stamp, C) = Canonical(stamp, Beneath(m) \cup C)
    BY <2>2, <2>3, ReplayConcat, Zenon
  <2>. QED
    BY <1>11, <2>4, Zenon
<1>13. Canonical(l, C) = Canonical(stamp, C)
  <2>1. \A k \in C : l[k] = stamp[k]
    BY <1>5, Zenon
  <2>. QED
    BY <2>1, CanonicalAgree, Zenon
<1>14. Folded(r, last).mark = nm /\ Folded(r, last).state = Legacy \o Canonical(stamp, Beneath(nm))
  <2>1. /\ Folded(r, last).mark = nm
        /\ Folded(r, last).state = rolls[held[r]].state \o Canonical(l, C)
    BY Zenon DEF Folded
  <2>2. Canonical(stamp, Beneath(m)) \in Seq(Nat) /\ Canonical(stamp, C) \in Seq(Nat)
    <3>1. stamp \in [Key -> Int] /\ Beneath(m) \in SUBSET Key /\ C \in SUBSET Key
      BY <1>0 DEF Beneath, Landed, Writes, Ops
    <3>. HIDE DEF m, C
    <3>. QED
      BY <3>1, ReplayType, Zenon
  <2>. HIDE DEF m, nm, C, l
  <2>3. (Legacy \o Canonical(stamp, Beneath(m))) \o Canonical(stamp, C)
          = Legacy \o (Canonical(stamp, Beneath(m)) \o Canonical(stamp, C))
    <3>1. Associates(Legacy, Canonical(stamp, Beneath(m)), Canonical(stamp, C))
      BY <2>2, ConcatAssoc, Zenon
    <3>. QED
      BY <3>1, Zenon DEF Associates
  <2>. QED
    BY <1>1, <1>12, <1>13, <2>1, <2>3, Zenon
<1>15. C \subseteq Beneath(nm)
  BY <1>11, Zenon
<1>. HIDE DEF m, nm, C, l
<1>. QED
  BY <1>1, <1>8, <1>10, <1>14, <1>15, Zenon DEF C

\* Installing that rollup, whether or not the winner learns of it.
LEMMA Install ==
    ASSUME ReplayLaws, TypeOK, JournalInv, NEW r \in Replica, tick[r].pc = "commit", Elected(r),
           NEW last \in Key, IsLast(r, last), rolls' = Append(rolls, Folded(r, last)),
           UNCHANGED <<clock, sent, stamp, landings, live, probes>>,
           \A q \in Replica \ {r} : tick'[q] = tick[q] /\ held'[q] = held[q]
    PROVE  /\ StampsSound' /\ MarksSound' /\ Durable' /\ RollupExact'
           /\ \A q \in Replica \ {r} : ListingSound(q)' /\ TickSound(q)'
           /\ CurrentMark' = Folded(r, last).mark
           /\ Len(rolls') = Len(rolls) + 1
           /\ rolls'[Len(rolls) + 1] = Folded(r, last)
<1>. DEFINE nm == Folded(r, last).mark
<1>0. /\ stamp \in [Key -> Nat] /\ clock \in Nat /\ rolls \in Seq(RollupType)
  BY Zenon DEF TypeOK, BucketOK
<1>1. /\ nm \in MarkType /\ nm.lm + Age <= clock
      /\ \A lm \in Nat, k \in Nat : Covers(CurrentMark, lm, k) => Covers(nm, lm, k)
      /\ Folded(r, last).state = Legacy \o Canonical(stamp, Beneath(nm))
  BY Election, Zenon
<1>2. /\ Len(rolls') = Len(rolls) + 1 /\ rolls' # <<>> /\ Len(rolls) \in Nat
      /\ rolls'[Len(rolls) + 1] = Folded(r, last)
      /\ \A i \in 1..Len(rolls) : rolls'[i] = rolls[i]
  <2>1. Folded(r, last) \in RollupType
    BY FoldedType, Zenon
  <2>2. Grown(rolls, Folded(r, last), rolls')
    BY <1>0, <2>1, AppendGrows, Zenon
  <2>. QED
    BY <2>2, Zenon DEF Grown
<1>3. CurrentMark' = nm
  BY <1>2, Zenon DEF CurrentMark
<1>4. Landed' = Landed /\ \A m : Beneath(m)' = Beneath(m)
  BY Zenon DEF Landed, Writes, Beneath
<1>. HIDE DEF nm
<1>5. ASSUME NEW k \in Landed, Covers(CurrentMark, stamp[k], k)
      PROVE  Covers(CurrentMark', stamp[k], k)
  <2>1. k \in Nat /\ stamp[k] \in Nat
    BY <1>0, Zenon DEF Landed, Writes
  <2>. QED
    BY <1>1, <1>3, <1>5, <2>1, Zenon
<1>6. StampsSound'
  BY Zenon DEF JournalInv, StampsSound
<1>7. Durable'
  BY <1>4, <1>5, Zenon DEF JournalInv, Durable
<1>8. RollupExact'
  <2>1. Beneath(CurrentMark)' = Beneath(nm)
    BY <1>3, Zenon DEF Beneath, Landed, Writes
  <2>. QED
    BY <1>1, <1>2, <2>1, Zenon DEF RollupExact
<1>9. MarksSound'
  <2>1. ASSUME NEW i \in 1..Len(rolls)
        PROVE  /\ rolls[i].mark = ZeroMark \/ rolls[i].mark.lm + Age <= clock
               /\ Covers(nm, rolls[i].mark.lm, rolls[i].mark.key)
    <3>0. rolls[i] \in RollupType /\ rolls # <<>>
      <4>1. rolls \in Seq(RollupType)
        BY <1>0, Zenon
      <4>. QED
        BY <4>1
    <3>1. rolls[i] \in RollupType /\ Len(rolls) \in 1..Len(rolls) /\ rolls # <<>>
      BY <1>2, <3>0, LastIndex, Zenon
    <3>2. rolls[i].mark.lm \in Nat /\ rolls[i].mark.key \in Nat
      BY <3>1, Zenon DEF RollupType
    <3>3. i <= Len(rolls) /\ CurrentMark = rolls[Len(rolls)].mark
      BY <1>2, <3>1, LastIndex, Zenon DEF CurrentMark
    <3>4. Covers(CurrentMark, rolls[i].mark.lm, rolls[i].mark.key)
      BY <3>1, <3>3, Zenon DEF JournalInv, MarksSound
    <3>. QED
      BY <1>1, <3>2, <3>4, Zenon DEF JournalInv, MarksSound
  <2>2. rolls'[Len(rolls')].mark = nm /\ \A i \in 1..Len(rolls') : i # Len(rolls') => i \in 1..Len(rolls)
    BY <1>2 DEF nm
  <2>3. Covers(nm, nm.lm, nm.key)
    BY <1>1 DEF Covers, MarkType
  <2>4. \A i \in 1..Len(rolls') : rolls'[i].mark = ZeroMark \/ rolls'[i].mark.lm + Age <= clock'
    BY <1>1, <1>2, <2>1, <2>2, Zenon
  <2>5. ASSUME NEW i \in 1..Len(rolls'), NEW j \in 1..Len(rolls'), i <= j
        PROVE  Covers(rolls'[j].mark, rolls'[i].mark.lm, rolls'[i].mark.key)
    <3>1. CASE j = Len(rolls') /\ i = Len(rolls')
      BY <2>2, <2>3, <3>1, Zenon
    <3>2. CASE j = Len(rolls') /\ i # Len(rolls')
      BY <1>2, <2>1, <2>2, <3>2, Zenon
    <3>3. CASE j # Len(rolls')
      <4>1. j \in 1..Len(rolls) /\ i \in 1..Len(rolls)
        BY <1>2, <2>5, <3>3, EarlierIndex, Zenon
      <4>. QED
        BY <1>2, <2>5, <4>1, Zenon DEF JournalInv, MarksSound
    <3>. QED
      BY <3>1, <3>2, <3>3, Zenon
  <2>. QED
    BY <2>4, <2>5, Zenon DEF MarksSound
<1>10. ASSUME NEW q \in Replica \ {r} PROVE ListingSound(q)' /\ TickSound(q)'
  <2>0. tick'[q] = tick[q] /\ held'[q] = held[q] /\ ListingSound(q) /\ TickSound(q)
    BY Zenon DEF JournalInv
  <2>1. tick[q].pc \in HasRollup => rolls'[held[q]] = rolls[held[q]]
    BY <1>2, HoldsRollup, Zenon
  <2>2. ASSUME NEW k \in Landed, Covers(KnownMark(q), stamp[k], k)
        PROVE  Covers(KnownMark(q)', stamp[k], k)
    BY <1>5, <2>0, <2>1, <2>2, Zenon DEF KnownMark
  <2>3. ListingSound(q)'
    BY <2>0, <2>2, ListingStep, Zenon
  <2>4. tick[q].pc \in HasRollup => Candidates(q)' = Candidates(q)
    BY <2>0, <2>1, Zenon DEF Candidates, Leftovers, Aged, In
  <2>5. Beneath(CurrentMark) \subseteq Beneath(CurrentMark)'
    BY <1>4, <1>5, Zenon DEF Beneath
  <2>6. Ops(tick[q].cand)' = Ops(tick[q].cand)
    BY <2>0, Zenon DEF Ops
  <2>7. TickSound(q)'
    BY <2>0, <2>4, <2>5, <2>6, Zenon DEF TickSound, HasRollup
  <2>. QED
    BY <2>3, <2>7, Zenon
<1>. QED
  BY <1>2, <1>3, <1>6, <1>7, <1>8, <1>9, <1>10, Zenon DEF nm

LEMMA InvCommit ==
    ASSUME ReplayLaws, TypeOK, JournalInv, NEW r \in Replica, CompactCommit(r) \/ CommitLost(r)
    PROVE  JournalInv'
<1>0. /\ tick \in [Replica -> TickType] /\ held \in [Replica -> 0..Len(rolls)]
      /\ tick[r] \in TickType /\ tick[r].pc = "commit" /\ ListingSound(r)
  BY Zenon DEF TypeOK, TickOK, CompactCommit, CommitLost, JournalInv
<1>1. CASE CompactCommit(r) /\ tick[r].cand \subseteq Cached(cache[r]) /\ Elected(r)
  <2>1. PICK last \in Key : IsLast(r, last) /\ rolls' = Append(rolls, Folded(r, last))
    BY <1>1, Zenon DEF CompactCommit
  <2>2. /\ tick'[r].pc = "clean" /\ tick'[r].cand = tick[r].cand
        /\ tick'[r].lst = tick[r].lst /\ held'[r] = Len(rolls) + 1
        /\ UNCHANGED <<clock, sent, stamp, landings, live, probes>>
        /\ \A q \in Replica \ {r} : tick'[q] = tick[q] /\ held'[q] = held[q]
    <3>1. /\ tick' = [tick EXCEPT ![r].pc = "clean"] /\ held' = [held EXCEPT ![r] = Len(rolls) + 1]
          /\ UNCHANGED <<clock, sent, stamp, landings, live, probes>>
      BY <1>1, Zenon DEF CompactCommit
    <3>. QED
      BY <1>0, <3>1, Zenon DEF TickType
  <2>3. /\ StampsSound' /\ MarksSound' /\ Durable' /\ RollupExact'
        /\ \A q \in Replica \ {r} : ListingSound(q)' /\ TickSound(q)'
        /\ CurrentMark' = Folded(r, last).mark
        /\ rolls'[Len(rolls) + 1] = Folded(r, last)
    BY <1>0, <1>1, <2>1, <2>2, Install, Zenon
  <2>4. /\ Ops(tick[r].cand) \subseteq Beneath(Folded(r, last).mark)
        /\ \A lm \in Nat, k \in Nat :
              Covers(CurrentMark, lm, k) => Covers(Folded(r, last).mark, lm, k)
    BY <1>0, <1>1, <2>1, Election, Zenon
  <2>5. TickSound(r)'
    <3>1. Ops(tick[r].cand)' \subseteq Beneath(CurrentMark)'
      BY <2>2, <2>3, <2>4, Zenon DEF Ops, Beneath, Landed, Writes
    <3>. QED
      BY <2>2, <3>1, Zenon DEF TickSound
  <2>6. KnownMark(r) = CurrentMark /\ KnownMark(r)' = Folded(r, last).mark
    <3>1. rolls # <<>>
      BY <1>0, HoldsRollup, Zenon DEF HasRollup
    <3>. QED
      BY <1>0, <1>1, <2>2, <2>3, <3>1, Zenon DEF KnownMark, HasRollup, Elected, CurrentMark
  <2>7. ASSUME NEW k \in Landed, Covers(KnownMark(r), stamp[k], k)
        PROVE  Covers(KnownMark(r)', stamp[k], k)
    <3>1. k \in Nat /\ stamp[k] \in Nat
      BY Zenon DEF Landed, Writes, TypeOK, BucketOK
    <3>. QED
      BY <2>4, <2>6, <2>7, <3>1, Zenon
  <2>8. ListingSound(r)'
    BY <1>0, <2>2, <2>7, ListingStep, Zenon
  <2>. QED
    BY <2>3, <2>5, <2>8, Zenon DEF JournalInv
<1>2. CASE CompactCommit(r) /\ ~(tick[r].cand \subseteq Cached(cache[r]) /\ Elected(r))
  BY <1>2, EndStep, Zenon DEF CompactCommit, bucketVars
<1>3. CASE CommitLost(r)
  <2>1. PICK last \in Key : IsLast(r, last) /\ rolls' = Append(rolls, Folded(r, last))
    BY <1>3, Zenon DEF CommitLost
  <2>2. /\ tick'[r] = IdleTick /\ Elected(r)
        /\ UNCHANGED <<clock, sent, stamp, landings, live, probes>>
        /\ \A q \in Replica \ {r} : tick'[q] = tick[q] /\ held'[q] = held[q]
    BY <1>0, <1>3, Zenon DEF CommitLost
  <2>. QED
    BY <1>0, <2>1, <2>2, Install, EndSound, Zenon DEF JournalInv
<1>. QED
  BY <1>1, <1>2, <1>3, Zenon

LEMMA InvCompaction ==
    ASSUME ReplayLaws, TypeOK, JournalInv, NEW r \in Replica, Compaction(r)
    PROVE  JournalInv'
<1>0. tick \in [Replica -> TickType] /\ held \in [Replica -> 0..Len(rolls)]
  BY Zenon DEF TypeOK, TickOK
<1>1. CASE CompactRecheck(r)
  <2>1. CASE held[r] = Len(rolls)
    <3>. DEFINE t == [tick[r] EXCEPT !.pc = "commit"]
    <3>1. tick' = [tick EXCEPT ![r] = t] /\ UNCHANGED <<bucketVars, held>>
      BY <1>0, <1>1, <2>1, Zenon DEF CompactRecheck
    <3>2. /\ t.pc = "commit" /\ t.lst = tick[r].lst /\ t.cand = tick[r].cand
          /\ tick[r].pc = "recheck"
      BY <1>0, <1>1 DEF CompactRecheck, TickType
    <3>3. tick[r].cand = Candidates(r)
      BY <3>2, Zenon DEF JournalInv, TickSound
    <3>. HIDE DEF t
    <3>. QED
      BY <3>1, <3>2, <3>3, MoveStep, Zenon DEF HasRollup
  <2>2. CASE held[r] # Len(rolls)
    BY <1>0, <1>1, <2>2, EndStep, Zenon DEF CompactRecheck
  <2>. QED
    BY <2>1, <2>2, Zenon
<1>2. CASE CompactFails(r) \/ ProbeAck(r)
  BY <1>2, EndStep, Zenon DEF CompactFails, ProbeAck
<1>3. CASE CleanUp(r)
  <2>1. /\ tick[r].pc = "clean" /\ tick'[r] = IdleTick
        /\ UNCHANGED <<clock, sent, stamp, landings, probes, rolls>>
        /\ \A q \in Replica \ {r} : tick'[q] = tick[q] /\ held'[q] = held[q]
    BY <1>0, <1>3, Zenon DEF CleanUp
  <2>2. live' \subseteq live /\ live \ live' \subseteq tick[r].cand
    BY <1>3, RemoveType, Zenon DEF CleanUp
  <2>3. ASSUME NEW k \in Landed, k \in live \ live' PROVE Covers(CurrentMark, stamp[k], k)
    <3>1. k \in Ops(tick[r].cand)
      BY <2>2, <2>3, Zenon DEF Ops, Landed, Writes
    <3>. QED
      BY <2>1, <3>1, Zenon DEF JournalInv, TickSound, Beneath
  <2>4. ListingSound(r)' /\ TickSound(r)'
    BY <2>1, EndSound, Zenon
  <2>. QED
    BY <2>1, <2>2, <2>3, <2>4, DeleteCovered, Zenon
<1>. QED
  BY <1>1, <1>2, <1>3, InvLadder, InvCommit, InvProbe, Zenon DEF Compaction

-----------------------------------------------------------------------------
(* Every step.                                                             *)

LEMMA InvNext == ReplayLaws /\ TypeOK /\ JournalInv /\ [Next]_vars => JournalInv'
<1>. SUFFICES ASSUME ReplayLaws, TypeOK, JournalInv, [Next]_vars PROVE JournalInv'
  OBVIOUS
<1>1. CASE UNCHANGED vars
  BY <1>1, Frame, Zenon DEF vars, bucketVars
<1>2. ASSUME NEW r \in Replica, Write(r) PROVE JournalInv'
  <2>1. CASE Ack(r) \/ PutFails(r) \/ Insert(r)
    BY <2>1, Frame, Zenon DEF Ack, PutFails, Insert
  <2>. QED
    BY <1>2, <2>1, InvSend, Zenon DEF Write
<1>3. ASSUME NEW r \in Replica, Crash(r) PROVE JournalInv'
  <2>1. \A q \in Replica \ {r} : held'[q] = held[q]
    BY <1>3, Zenon DEF Crash, TypeOK, TickOK
  <2>. QED
    BY <1>3, <2>1, EndStep, Zenon DEF Crash
<1>. QED
  BY <1>1, <1>2, <1>3, InvClockTick, InvLand, InvSync, InvCompaction, Zenon DEF Next

-----------------------------------------------------------------------------
(* What the replicas serve: the invariant that relates a replica's cache,  *)
(* state, listing and rollup to the bucket.  A PUT that takes effect twice *)
(* gives a segment a second LastModified, and a cache may then hold the    *)
(* first; this part is about the journals in which that does not happen.   *)

\* No PUT took effect a second time, so a segment has one LastModified.
LandedOnce == \A k \in Key : landings[k] <= 1

\* The rollup the replica holds covers k.
Folds(r, k) == held[r] # 0 /\ Covers(rolls[held[r]].mark, stamp[k], k)

Distinct(s) == \A i, j \in DOMAIN s : s[i] = s[j] => i = j

-----------------------------------------------------------------------------
(* The bucket.                                                             *)

\* A probe has been sent; every segment, a probe too, is there until a rollup
\* covers it; every rollup there ever was is exact; and the segment against
\* which the last candidate was aged is still there.
BucketServing ==
    /\ clock # 0 /\ \A k \in probes : sent[k] # 0
    /\ \A k \in Key : stamp[k] # NoStamp => k \in live \/ Covers(CurrentMark, stamp[k], k)
    /\ \A i \in 1..Len(rolls) :
          rolls[i].state = Legacy \o Canonical(stamp, Beneath(rolls[i].mark))
    /\ CurrentMark # ZeroMark => \E j \in live : stamp[j] >= CurrentMark.lm + Age

-----------------------------------------------------------------------------
(* A replica.                                                              *)

\* A cache entry is a landed segment, at its stamp once it has been listed.
CacheSound(r) ==
    \A k \in Cached(cache[r]) : stamp[k] # NoStamp /\ cache[r][k] \in {NoStamp, stamp[k]}

\* A segment in flight has been sent, and has landed when it is inserted.
WriterServing(r) ==
    writer[r].pc # "idle" =>
        /\ sent[writer[r].key] # 0 /\ writer[r].key \notin probes
        /\ writer[r].pc = "insert" => stamp[writer[r].key] # NoStamp
        /\ Prompt => sent[writer[r].key] = clock

\* What is served is in the cache or in the rollup, and what is in the cache is
\* served.
ServedSound(r) ==
    /\ \A x \in Applied(served[r]) :
          \/ held[r] # 0 /\ x \in Applied(Legacy)
          \/ x \in Landed /\ (x \in Cached(cache[r]) \/ Folds(r, x))
    /\ Ops(Cached(cache[r])) \subseteq Applied(served[r])

\* The listing of a tick, and what it may leave out.
ListServing(r) ==
    LET l == tick[r].lst IN
    /\ \A k \in In(l) : l[k] = stamp[k]
    /\ tick[r].barrier \subseteq Landed
    /\ \A k \in tick[r].old : stamp[k] # NoStamp
    /\ tick[r].pc \in {"listed", "seed", "rolled", "fetched", "built"} =>
          \A k \in tick[r].barrier \cup tick[r].old :
              k \in In(l) \/ Covers(KnownMark(r), stamp[k], k)
    /\ tick[r].pc \in {"start", "listed", "seed", "rolled", "fetched"} =>
          tick[r].old \subseteq Cached(cache[r])
    /\ tick[r].pc = "seed" => held[r] = 0

\* Between fetchUnseen and rebuild: what was listed is cached or staged.
FetchServing(r) ==
    LET l == tick[r].lst IN
    tick[r].pc = "fetched" =>
        /\ \A k \in In(l) : Folds(r, k) \/ k \in Cached(cache[r]) \/ k \in tick[r].staged
        /\ \A k \in In(l) \cap Unlisted(cache[r]) :
              k \notin tick[r].old /\ (k \in tick[r].staged \/ Folds(r, k))
        /\ \A k \in tick[r].staged : k \in In(l) /\ ~Folds(r, k)

\* The replay: the rollup, the listed segments it leaves out in canonical
\* order, then the unlisted ones U in key order.
BuiltFrom(r, U) ==
    /\ U \subseteq tick[r].input
    /\ \A k \in U : k \in In(tick[r].lst) => Folds(r, k)
    /\ \A k \in tick[r].input \ U : ~Folds(r, k)
    /\ Prompt => \A k \in U : ~Folds(r, k)
    /\ tick[r].built = rolls[held[r]].state \o Canonical(stamp, Ops(tick[r].input \ U))
                                            \o Canonical(None, Ops(U))

BuildServing(r) ==
    tick[r].pc = "built" =>
        /\ \E U \in SUBSET Key : BuiltFrom(r, U)
        /\ \A k \in tick[r].input : stamp[k] # NoStamp
        /\ tick[r].staged \subseteq tick[r].input /\ tick[r].staged \subseteq In(tick[r].lst)
        /\ tick[r].input \subseteq Cached(cache[r]) \cup tick[r].staged
        /\ \A k \in In(tick[r].lst) : Folds(r, k) \/ k \in tick[r].input

\* Compaction: what was listed is cached or covered, and what was folded is
\* covered by every later rollup.
FoldServing(r) ==
    /\ tick[r].pc \in {"ladder", "recheck", "commit"} =>
          \A k \in In(tick[r].lst) : Folds(r, k) \/ k \in Cached(cache[r])
    /\ tick[r].pc = "clean" => 
          \A k \in tick[r].cand : stamp[k] # NoStamp /\ Covers(CurrentMark, stamp[k], k)

\* What holds when LIST..GET and PUT..insert take no measurable time: an
\* unlisted entry that a tick did not find at its start is not in its rollup.
PromptServing(r) ==
    Prompt =>
        /\ InListWindow(r) => \A k \in Unlisted(cache[r]) \ tick[r].old : sent[k] = clock
        /\ tick[r].pc \in {"rolled", "fetched"} =>
              \A k \in Unlisted(cache[r]) \ tick[r].old : ~Folds(r, k)
        /\ tick[r].pc = "built" => \A k \in Late(r) : ~Folds(r, k)
        /\ Distinct(served[r])

ReplicaServing(r) ==
    /\ CacheSound(r) /\ WriterServing(r) /\ ServedSound(r) /\ ListServing(r)
    /\ FetchServing(r) /\ BuildServing(r) /\ FoldServing(r) /\ PromptServing(r)

\* The inductive invariant of serving, for journals in which no PUT took effect
\* twice.
ServingInv == BucketServing /\ \A r \in Replica : ReplicaServing(r)

-----------------------------------------------------------------------------
(* Sequences.                                                              *)

LEMMA AppliedConcat ==
    ASSUME NEW s \in Seq(Nat), NEW t \in Seq(Nat)
    PROVE  /\ s \o t \in Seq(Nat)
           /\ Applied(s \o t) = Applied(s) \cup Applied(t)
           /\ Distinct(s) /\ Distinct(t) /\ Applied(s) \cap Applied(t) = {}
                 => Distinct(s \o t)
<1>. DEFINE m == Len(s)
            n == Len(t)
            u == s \o t
<1>1. /\ u \in Seq(Nat) /\ Len(u) = m + n /\ m \in Nat /\ n \in Nat
      /\ DOMAIN s = 1..m /\ DOMAIN t = 1..n /\ DOMAIN u = 1..(m + n)
      /\ \A i \in 1..m : u[i] = s[i]
      /\ \A i \in 1..n : u[m + i] = t[i]
  BY SMT
<1>. HIDE DEF m, n, u
<1>2. ASSUME NEW i \in DOMAIN u
      PROVE  \/ i \in DOMAIN s /\ u[i] = s[i]
             \/ i - m \in DOMAIN t /\ u[i] = t[i - m] /\ i = m + (i - m)
  <2>1. CASE i <= m
    BY <1>1, <2>1
  <2>2. CASE i > m
    <3>1. i - m \in 1..n /\ m + (i - m) = i
      BY <1>1, <2>2
    <3>. QED
      BY <1>1, <3>1
  <2>. QED
    BY <1>1, <2>1, <2>2
<1>3. Applied(u) \subseteq Applied(s) \cup Applied(t)
  BY <1>2, Zenon DEF Applied
<1>4. Applied(s) \subseteq Applied(u)
  <2>1. \A i \in 1..m : i \in 1..(m + n)
    BY <1>1
  <2>. QED
    BY <1>1, <2>1, Zenon DEF Applied
<1>5. Applied(t) \subseteq Applied(u)
  <2>1. \A i \in 1..n : m + i \in 1..(m + n)
    BY <1>1
  <2>. QED
    BY <1>1, <2>1, Zenon DEF Applied
<1>6. ASSUME Distinct(s), Distinct(t), Applied(s) \cap Applied(t) = {},
             NEW i \in DOMAIN u, NEW j \in DOMAIN u, u[i] = u[j]
      PROVE  i = j
  <2>1. CASE i \in DOMAIN s /\ u[i] = s[i] /\ j \in DOMAIN s /\ u[j] = s[j]
    BY <1>6, <2>1, Zenon DEF Distinct
  <2>2. CASE i \in DOMAIN s /\ u[i] = s[i] /\ j - m \in DOMAIN t /\ u[j] = t[j - m]
    BY <1>6, <2>2, Zenon DEF Applied
  <2>3. CASE i - m \in DOMAIN t /\ u[i] = t[i - m] /\ j \in DOMAIN s /\ u[j] = s[j]
    BY <1>6, <2>3, Zenon DEF Applied
  <2>4. CASE /\ i - m \in DOMAIN t /\ u[i] = t[i - m] /\ i = m + (i - m)
             /\ j - m \in DOMAIN t /\ u[j] = t[j - m] /\ j = m + (j - m)
    BY <1>6, <2>4, Zenon DEF Distinct
  <2>. QED
    BY <1>2, <2>1, <2>2, <2>3, <2>4, Zenon
<1>7. Distinct(s) /\ Distinct(t) /\ Applied(s) \cap Applied(t) = {} => Distinct(u)
  BY <1>6, Zenon DEF Distinct
<1>. QED
  BY <1>1, <1>3, <1>4, <1>5, <1>7, Zenon DEF u

LEMMA AppliedAppend ==
    ASSUME NEW s \in Seq(Nat), NEW k \in Nat
    PROVE  /\ Applied(Append(s, k)) = Applied(s) \cup {k}
           /\ Distinct(s) /\ k \notin Applied(s) => Distinct(Append(s, k))
<1>. DEFINE m == Len(s)
            u == Append(s, k)
<1>1. /\ m \in Nat /\ DOMAIN s = 1..m /\ DOMAIN u = 1..(m + 1)
      /\ \A i \in 1..m : u[i] = s[i]
      /\ u[m + 1] = k
  BY SMT
<1>. HIDE DEF m, u
<1>2. /\ \A i \in 1..(m + 1) : i \in 1..m \/ i = m + 1
      /\ \A i \in 1..m : i \in 1..(m + 1)
      /\ m + 1 \in 1..(m + 1)
  BY <1>1
<1>3. Applied(u) = Applied(s) \cup {k}
  BY <1>1, <1>2, Zenon DEF Applied
<1>4. Distinct(s) /\ k \notin Applied(s) => Distinct(u)
  BY <1>1, <1>2, Zenon DEF Applied, Distinct
<1>. QED
  BY <1>3, <1>4, Zenon DEF u

\* A replay holds the segments it replays, each once.  MetadataJournalProofs
\* proves it of Canonical.
ReplayHolds ==
    \A f \in [Key -> Int], S \in SUBSET Key :
        /\ Canonical(f, S) \in Seq(Nat)
        /\ Applied(Canonical(f, S)) = S
        /\ Distinct(Canonical(f, S))

-----------------------------------------------------------------------------
(* How the bucket may change while no PUT takes effect twice: a stamp, a    *)
(* key and a rollup stay what they are.                                     *)

BucketGrows ==
    /\ \A k \in Key : stamp[k] # NoStamp => stamp'[k] = stamp[k]
    /\ \A k \in Key : sent[k] # 0 => sent'[k] = sent[k]
    /\ probes \subseteq probes' /\ \A k \in probes' : k \in probes \/ sent[k] = 0
    /\ Len(rolls) <= Len(rolls')
    /\ \A i \in 1..Len(rolls) : rolls'[i] = rolls[i]

\* A step between two sound states.
SoundStep == /\ TypeOK /\ JournalInv /\ TypeOK' /\ JournalInv'
         /\ BucketGrows

LEMMA BucketStays ==
    ASSUME TypeOK, UNCHANGED <<stamp, rolls, probes>>,
           sent' = sent \/ \E r \in Replica : \E k \in NewSegmentKey(r) : sent' = [sent EXCEPT ![k] = clock]
    PROVE  BucketGrows
<1>1. \A k \in Key : sent[k] # 0 => sent'[k] = sent[k]
  BY Zenon DEF TypeOK, BucketOK, NewSegmentKey
<1>2. Len(rolls) <= Len(rolls')
  <2>1. rolls \in Seq(RollupType)
    BY Zenon DEF TypeOK, BucketOK
  <2>2. Len(rolls) \in Nat
    BY <2>1
  <2>. QED
    BY <2>2
<1>. QED
  BY <1>1, <1>2, Zenon DEF BucketGrows

LEMMA RollsGrow ==
    ASSUME TypeOK, UNCHANGED <<stamp, sent, probes>>,
           \/ rolls = <<>> /\ rolls' = <<Seeding>>
           \/ \E r \in Replica, last \in Key : /\ tick[r].pc = "commit" /\ IsLast(r, last)
                                               /\ rolls' = Append(rolls, Folded(r, last))
    PROVE  BucketGrows
<1>1. rolls \in Seq(RollupType)
  BY Zenon DEF TypeOK, BucketOK
<1>2. Len(rolls) <= Len(rolls') /\ \A i \in 1..Len(rolls) : rolls'[i] = rolls[i]
  <2>1. CASE rolls = <<>> /\ rolls' = <<Seeding>>
    BY <2>1
  <2>2. ASSUME NEW x, rolls' = Append(rolls, x)
        PROVE  Len(rolls) <= Len(rolls') /\ \A i \in 1..Len(rolls) : rolls'[i] = rolls[i]
    BY <1>1, <2>2
  <2>. QED
    BY <2>1, <2>2, Zenon
<1>. QED
  BY <1>2, Zenon DEF BucketGrows

LEMMA LandGrows ==
    ASSUME TypeOK, JournalInv, NEW k \in Key, Land(k), LandedOnce'
    PROVE  BucketGrows
<1>1. /\ UNCHANGED <<sent, probes, rolls>> /\ stamp \in [Key -> Nat] /\ rolls \in Seq(RollupType)
      /\ landings \in [Key -> Nat] /\ landings' = [landings EXCEPT ![k] = @ + 1]
  BY Zenon DEF Land, TypeOK, BucketOK
<1>2. landings[k] = 0
  <2>1. landings'[k] <= 1 /\ landings'[k] = landings[k] + 1 /\ landings[k] \in Nat
    BY <1>1, Zenon DEF LandedOnce
  <2>. QED
    BY <2>1
<1>3. stamp[k] = NoStamp
  BY <1>2, Zenon DEF JournalInv, StampsSound
<1>4. \A j \in Key : stamp[j] # NoStamp => stamp'[j] = stamp[j]
  <2>1. PICK t \in 1..clock : stamp' = [stamp EXCEPT ![k] = t]
    BY Zenon DEF Land
  <2>. QED
    BY <1>1, <1>3, <2>1, Zenon
<1>5. Len(rolls) <= Len(rolls')
  <2>1. Len(rolls) \in Nat
    BY <1>1
  <2>. QED
    BY <1>1, <2>1
<1>. QED
  BY <1>1, <1>4, <1>5, Zenon DEF BucketGrows

LEMMA ProbeGrows ==
    ASSUME TypeOK, NEW r \in Replica, Probe(r)
    PROVE  BucketGrows
<1>1. CASE UNCHANGED <<sent, probes>>
  BY <1>1, BucketStays, Zenon DEF Probe
<1>2. ASSUME NEW k \in NewSegmentKey(r), sent' = [sent EXCEPT ![k] = clock],
             probes' = probes \cup {k}
      PROVE  BucketGrows
  <2>1. k \in Key /\ sent[k] = 0 /\ sent \in [Key -> Nat]
    BY NamesAssumption, Zenon DEF NewSegmentKey, TypeOK, BucketOK
  <2>2. \A j \in Key : sent[j] # 0 => sent'[j] = sent[j]
    BY <1>2, <2>1, Zenon
  <2>3. UNCHANGED <<stamp, rolls>>
    BY Zenon DEF Probe
  <2>4. Len(rolls) <= Len(rolls')
    <3>1. rolls \in Seq(RollupType)
      BY Zenon DEF TypeOK, BucketOK
    <3>2. Len(rolls) \in Nat
      BY <3>1
    <3>. QED
      BY <2>3, <3>2
  <2>. QED
    BY <1>2, <2>1, <2>2, <2>3, <2>4, Zenon DEF BucketGrows
<1>. QED
  BY <1>1, <1>2, Zenon DEF Probe

\* Every step of a journal without a second landing is such a change.
LEMMA NextGrows ==
    ASSUME TypeOK, JournalInv, LandedOnce', [Next]_vars
    PROVE  BucketGrows
<1>1. CASE UNCHANGED vars
  BY <1>1, BucketStays, Zenon DEF vars
<1>2. CASE ClockTick
  BY <1>2, BucketStays, Zenon DEF ClockTick
<1>3. ASSUME NEW r \in Replica, Write(r) \/ Crash(r) PROVE BucketGrows
  BY <1>3, BucketStays, Zenon DEF Write, Crash, Send, Ack, PutFails, Insert, bucketVars
<1>4. ASSUME NEW r \in Replica, Sync(r) PROVE BucketGrows
  <2>1. CASE Seed(r) \/ SeedLost(r)
    <3>1. UNCHANGED <<stamp, sent, probes>>
          /\ (rolls' = rolls \/ (rolls = <<>> /\ rolls' = <<Seeding>>))
      BY <2>1, Zenon DEF Seed, SeedLost
    <3>. QED
      BY <3>1, BucketStays, RollsGrow, Zenon
  <2>2. CASE ~(Seed(r) \/ SeedLost(r))
    BY <1>4, <2>2, BucketStays, Zenon DEF Sync, TickStart, TickList, TickRollup, TickFails,
       FetchUnseen, FetchFails, RebuildInput, RebuildSwap, bucketVars
  <2>. QED
    BY <2>1, <2>2
<1>5. ASSUME NEW r \in Replica, Compaction(r) PROVE BucketGrows
  <2>1. CASE CompactCommit(r) \/ CommitLost(r)
    <3>1. tick[r].pc = "commit" /\ UNCHANGED <<stamp, sent, probes>>
      BY <2>1, Zenon DEF CompactCommit, CommitLost
    <3>2. rolls' = rolls
          \/ \E last \in Key : IsLast(r, last) /\ rolls' = Append(rolls, Folded(r, last))
      BY <2>1, Zenon DEF CompactCommit, CommitLost
    <3>. QED
      BY <3>1, <3>2, BucketStays, RollsGrow, Zenon
  <2>2. CASE LadderStep(r) \/ CompactRecheck(r) \/ CompactFails(r) \/ CleanUp(r) \/ ProbeAck(r)
    BY <2>2, BucketStays, Zenon DEF LadderStep, CompactRecheck, CompactFails, CleanUp, ProbeAck,
       bucketVars
  <2>. QED
    BY <1>5, <2>1, <2>2, ProbeGrows, Zenon DEF Compaction
<1>. QED
  BY <1>1, <1>2, <1>3, <1>4, <1>5, LandGrows, Zenon DEF Next
\* What has landed stays landed, at its stamp, and stays a write or a probe.
LEMMA LandedStays ==
    ASSUME SoundStep, NEW k \in Key, stamp[k] # NoStamp
    PROVE  /\ stamp'[k] = stamp[k] /\ stamp'[k] # NoStamp
           /\ sent[k] # 0 /\ sent'[k] = sent[k]
           /\ k \in probes' <=> k \in probes
           /\ k \in Landed' <=> k \in Landed
<1>1. stamp'[k] = stamp[k] /\ sent[k] # 0
  BY Zenon DEF SoundStep, BucketGrows, JournalInv, StampsSound
<1>2. sent'[k] = sent[k] /\ (k \in probes' <=> k \in probes)
  BY <1>1, Zenon DEF SoundStep, BucketGrows
<1>. QED
  BY <1>1, <1>2, Zenon DEF Landed, Writes, NoStamp

LEMMA LandedGrows == ASSUME SoundStep PROVE Landed \subseteq Landed'
<1>1. ASSUME NEW k \in Landed PROVE k \in Landed'
  <2>1. k \in Key /\ stamp[k] # NoStamp
    BY Zenon DEF Landed, Writes, NoStamp
  <2>. QED
    BY <2>1, LandedStays, Zenon
<1>. QED
  BY <1>1

LEMMA OpsStay ==
    ASSUME SoundStep, NEW S \in SUBSET Key, \A k \in S : stamp[k] # NoStamp
    PROVE  S \ probes' = S \ probes /\ Canonical(stamp', S \ probes) = Canonical(stamp, S \ probes)
<1>1. \A k \in S : stamp'[k] = stamp[k] /\ (k \in probes' <=> k \in probes)
  BY LandedStays, Zenon
<1>2. Canonical(stamp', S \ probes) = Canonical(stamp, S \ probes)
  BY <1>1, CanonicalAgree, Zenon
<1>. QED
  BY <1>1, <1>2, Zenon

LEMMA StampType ==
    ASSUME TypeOK, NEW k \in Key
    PROVE  stamp[k] \in Nat /\ k \in Nat /\ k # 0
BY KeyAssumption, Zenon DEF TypeOK, BucketOK

LEMMA RollOf ==
    ASSUME NEW R \in Seq(RollupType), NEW i \in 1..Len(R)
    PROVE  R[i] \in RollupType /\ R[i].mark \in MarkType /\ R[i].state \in Seq(Nat)
<1>1. R[i] \in RollupType
  OBVIOUS
<1>. QED
  BY <1>1, Zenon DEF RollupType, MarkType

LEMMA MarkOfRoll ==
    ASSUME TypeOK, NEW i \in 1..Len(rolls)
    PROVE  rolls[i] \in RollupType /\ rolls[i].mark \in MarkType /\ rolls[i].state \in Seq(Nat)
BY RollOf, Zenon DEF TypeOK, BucketOK

\* What a rollup covers, every later one covers.
LEMMA CoveredStays ==
    ASSUME SoundStep, NEW k \in Key, stamp[k] # NoStamp,
           NEW h \in 1..Len(rolls), NEW g \in 1..Len(rolls'), h <= g,
           Covers(rolls[h].mark, stamp[k], k)
    PROVE  Covers(rolls'[g].mark, stamp'[k], k)
<1>1. rolls'[h] = rolls[h] /\ stamp'[k] = stamp[k] /\ stamp[k] \in Nat /\ k \in Nat
  BY LandedStays, StampType, Zenon DEF SoundStep, BucketGrows
<1>2. h \in 1..Len(rolls')
  <2>1. rolls \in Seq(RollupType) /\ rolls' \in Seq(RollupType) /\ Len(rolls) <= Len(rolls')
    BY Zenon DEF SoundStep, TypeOK, BucketOK, BucketGrows
  <2>. QED
    BY <2>1
<1>3. rolls'[g].mark \in MarkType /\ rolls[h].mark \in MarkType
  BY RollOf, Zenon DEF SoundStep, TypeOK, BucketOK
<1>4. Covers(rolls'[g].mark, rolls'[h].mark.lm, rolls'[h].mark.key)
  BY <1>2, Zenon DEF SoundStep, JournalInv, MarksSound
<1>. QED
  BY <1>1, <1>3, <1>4, CoversTransitive, Zenon

LEMMA LastRoll ==
    ASSUME TypeOK, rolls # <<>>
    PROVE  Len(rolls) \in 1..Len(rolls) /\ CurrentMark = rolls[Len(rolls)].mark
<1>1. rolls \in Seq(RollupType)
  BY Zenon DEF TypeOK, BucketOK
<1>2. Len(rolls) \in 1..Len(rolls)
  BY <1>1
<1>. QED
  BY <1>2, Zenon DEF CurrentMark

LEMMA CurrentStays ==
    ASSUME SoundStep, NEW k \in Key, stamp[k] # NoStamp, Covers(CurrentMark, stamp[k], k)
    PROVE  Covers(CurrentMark', stamp'[k], k)
<1>1. stamp[k] \in Nat /\ k \in Nat /\ stamp[k] # 0 /\ TypeOK /\ TypeOK'
  BY StampType, Zenon DEF SoundStep, NoStamp
<1>2. rolls # <<>>
  BY <1>1, ZeroMarkCoversNothing, Zenon DEF CurrentMark
<1>3. Len(rolls) \in 1..Len(rolls) /\ CurrentMark = rolls[Len(rolls)].mark
  BY <1>1, <1>2, LastRoll, Zenon
<1>4. Len(rolls) <= Len(rolls') /\ rolls' # <<>> /\ Len(rolls') \in 1..Len(rolls')
  <2>1. rolls \in Seq(RollupType) /\ rolls' \in Seq(RollupType) /\ Len(rolls) <= Len(rolls')
    BY Zenon DEF SoundStep, TypeOK, BucketOK, BucketGrows
  <2>. QED
    BY <1>3, <2>1
<1>5. CurrentMark' = rolls'[Len(rolls')].mark
  BY <1>4, Zenon DEF CurrentMark
<1>. QED
  BY <1>3, <1>4, <1>5, CoveredStays, Zenon

\* A replica's rollup is replaced by later ones only.
HeldGrows(q) == held[q] # 0 => held'[q] >= held[q]

LEMMA FoldsStay ==
    ASSUME SoundStep, NEW q \in Replica, HeldGrows(q), NEW k \in Key, stamp[k] # NoStamp, Folds(q, k)
    PROVE  Folds(q, k)'
<1>1. held[q] \in 0..Len(rolls) /\ held'[q] \in 0..Len(rolls') /\ held[q] # 0
  BY Zenon DEF Folds, SoundStep, TypeOK, TickOK
<1>2. held[q] \in 1..Len(rolls) /\ held'[q] \in 1..Len(rolls') /\ held[q] <= held'[q] /\ held'[q] # 0
  <2>1. Len(rolls) \in Nat /\ Len(rolls') \in Nat
    <3>1. rolls \in Seq(RollupType) /\ rolls' \in Seq(RollupType)
      BY Zenon DEF SoundStep, TypeOK, BucketOK
    <3>. QED
      BY <3>1
  <2>. QED
    BY <1>1, <2>1 DEF HeldGrows
<1>. QED
  BY <1>2, CoveredStays, Zenon DEF Folds

LEMMA FoldsSame ==
    ASSUME SoundStep, NEW q \in Replica, held'[q] = held[q], NEW k \in Key, stamp[k] # NoStamp
    PROVE  Folds(q, k)' <=> Folds(q, k)
<1>1. held[q] # 0 => rolls'[held[q]] = rolls[held[q]]
  <2>1. held[q] \in 0..Len(rolls) /\ rolls \in Seq(RollupType)
    BY Zenon DEF SoundStep, TypeOK, TickOK, BucketOK
  <2>2. held[q] # 0 => held[q] \in 1..Len(rolls)
    BY <2>1
  <2>. QED
    BY <2>2, Zenon DEF SoundStep, BucketGrows
<1>2. stamp'[k] = stamp[k]
  BY LandedStays, Zenon
<1>. QED
  BY <1>1, <1>2, Zenon DEF Folds

LEMMA HeldSame ==
    ASSUME SoundStep, NEW q \in Replica, held'[q] = held[q]
    PROVE  HeldGrows(q)
<1>1. held[q] \in 0..Len(rolls) /\ rolls \in Seq(RollupType)
  BY Zenon DEF SoundStep, TypeOK, TickOK, BucketOK
<1>. QED
  BY <1>1 DEF HeldGrows

LEMMA KnownStays ==
    ASSUME SoundStep, NEW q \in Replica, held'[q] = held[q],
           tick'[q].pc \in HasRollup <=> tick[q].pc \in HasRollup,
           NEW k \in Key, stamp[k] # NoStamp, Covers(KnownMark(q), stamp[k], k)
    PROVE  Covers(KnownMark(q)', stamp'[k], k)
<1>1. CASE tick[q].pc \in HasRollup
  <2>1. held[q] # 0 /\ held'[q] # 0
    BY <1>1, Zenon DEF SoundStep, TypeOK, TickOK
  <2>2. Folds(q, k)
    BY <1>1, <2>1, Zenon DEF KnownMark, Folds
  <2>3. Folds(q, k)'
    BY <2>2, FoldsSame, Zenon
  <2>. QED
    BY <1>1, <2>3, Zenon DEF KnownMark, Folds
<1>2. CASE tick[q].pc \notin HasRollup
  BY <1>2, CurrentStays, Zenon DEF KnownMark
<1>. QED
  BY <1>1, <1>2
-----------------------------------------------------------------------------
(* What a step leaves alone.                                               *)

LEMMA HeldNotNil ==
    ASSUME SoundStep, NEW q \in Replica, HeldGrows(q), held[q] # 0
    PROVE  held'[q] # 0
<1>1. held[q] \in 0..Len(rolls) /\ rolls \in Seq(RollupType) /\ held'[q] >= held[q]
  BY Zenon DEF SoundStep, TypeOK, TickOK, BucketOK, HeldGrows
<1>2. Len(rolls) \in Nat
  BY <1>1
<1>. QED
  BY <1>1, <1>2

LEMMA WriterKey ==
    ASSUME TypeOK, NEW q \in Replica, writer[q].pc # "idle"
    PROVE  writer[q].key \in Key
BY Zenon DEF TypeOK, WriterOK, WriterType

LEMMA CacheFrame ==
    ASSUME SoundStep, NEW q \in Replica, CacheSound(q), cache'[q] = cache[q]
    PROVE  CacheSound(q)'
<1>1. ASSUME NEW k \in Cached(cache[q])'
      PROVE  stamp'[k] # NoStamp /\ cache'[q][k] \in {NoStamp, stamp'[k]}
  <2>1. k \in Key /\ k \in Cached(cache[q])
    BY Zenon DEF Cached
  <2>2. stamp[k] # NoStamp /\ cache[q][k] \in {NoStamp, stamp[k]}
    BY <2>1, Zenon DEF CacheSound
  <2>. QED
    BY <2>1, <2>2, LandedStays, Zenon
<1>. QED
  BY <1>1, Zenon DEF CacheSound

LEMMA WriterFrame ==
    ASSUME SoundStep, NEW q \in Replica, WriterServing(q),
           writer'[q] = writer[q] \/ writer'[q] = IdleWriter,
           Prompt /\ writer[q].pc # "idle" => clock' = clock
    PROVE  WriterServing(q)'
<1>. SUFFICES ASSUME writer'[q].pc # "idle" PROVE WriterServing(q)'
  BY Zenon DEF WriterServing
<1>1. writer'[q] = writer[q] /\ writer[q].pc # "idle"
  BY DEF IdleWriter
<1>2. writer[q].key \in Key
  BY <1>1, WriterKey, Zenon DEF SoundStep
<1>3. /\ sent[writer[q].key] # 0 /\ writer[q].key \notin probes
      /\ writer[q].pc = "insert" => stamp[writer[q].key] # NoStamp
      /\ Prompt => sent[writer[q].key] = clock
  BY <1>1, Zenon DEF WriterServing
<1>4. sent'[writer[q].key] = sent[writer[q].key] /\ writer[q].key \notin probes'
  BY <1>2, <1>3, Zenon DEF SoundStep, BucketGrows
<1>5. writer[q].pc = "insert" => stamp'[writer[q].key] # NoStamp
  BY <1>2, <1>3, LandedStays, Zenon
<1>. QED
  BY <1>1, <1>3, <1>4, <1>5, Zenon DEF WriterServing

LEMMA CachedOps ==
    ASSUME SoundStep, NEW q \in Replica, CacheSound(q)
    PROVE  \A k \in Cached(cache[q]) : k \in Key /\ (k \in probes' <=> k \in probes)
<1>1. ASSUME NEW k \in Cached(cache[q]) PROVE k \in Key /\ stamp[k] # NoStamp
  BY Zenon DEF CacheSound, Cached
<1>. QED
  BY <1>1, LandedStays, Zenon

LEMMA ServedFrame ==
    ASSUME SoundStep, NEW q \in Replica, CacheSound(q), ServedSound(q), HeldGrows(q),
           Cached(cache[q])' = Cached(cache[q]), served'[q] = served[q]
    PROVE  ServedSound(q)'
<1>1. ASSUME NEW x \in Applied(served[q])
      PROVE  \/ held'[q] # 0 /\ x \in Applied(Legacy)
             \/ x \in Landed' /\ (x \in Cached(cache[q]) \/ Folds(q, x)')
  <2>1. CASE held[q] # 0 /\ x \in Applied(Legacy)
    BY <2>1, HeldNotNil, Zenon
  <2>2. CASE x \in Landed /\ (x \in Cached(cache[q]) \/ Folds(q, x))
    <3>1. x \in Landed' /\ x \in Key /\ stamp[x] # NoStamp
      BY <2>2, LandedGrows, Zenon DEF Landed, Writes, NoStamp
    <3>2. Folds(q, x) => Folds(q, x)'
      BY <3>1, FoldsStay, Zenon
    <3>. QED
      BY <2>2, <3>1, <3>2, Zenon
  <2>. QED
    BY <2>1, <2>2, Zenon DEF ServedSound
<1>2. Ops(Cached(cache[q]))' = Ops(Cached(cache[q]))
  BY CachedOps, Zenon DEF Ops
<1>3. Applied(served[q])' = Applied(served[q])
  BY Zenon DEF Applied
<1>. QED
  BY <1>1, <1>2, <1>3, Zenon DEF ServedSound

\* A listed key has landed.
LEMMA ListedLanded ==
    ASSUME JournalInv, NEW q \in Replica, NEW k \in In(tick[q].lst)
    PROVE  k \in Key /\ stamp[k] # NoStamp
BY Zenon DEF JournalInv, ListingSound, In

LEMMA ListFrame ==
    ASSUME SoundStep, NEW q \in Replica, ListServing(q), held'[q] = held[q],
           tick'[q].lst = tick[q].lst, tick'[q].old = tick[q].old,
           tick'[q].barrier = tick[q].barrier,
           \/ tick'[q].pc = tick[q].pc
           \/ /\ tick[q].pc \in {"rolled", "fetched"}
              /\ tick'[q].pc \in {"fetched", "built"}
           \/ tick'[q].pc \in {"ladder", "recheck", "commit", "clean", "probe", "probing"},
           tick'[q].pc = "built" \/ Cached(cache[q]) \subseteq Cached(cache[q])'
    PROVE  ListServing(q)'
<1>1. In(tick[q].lst)' = In(tick[q].lst)
  BY Zenon DEF In
<1>2. \A k \in In(tick[q].lst) : tick[q].lst[k] = stamp'[k]
  BY ListedLanded, LandedStays, Zenon DEF ListServing, SoundStep
<1>3. tick[q].barrier \subseteq Landed'
  BY LandedGrows, Zenon DEF ListServing
<1>4. ASSUME NEW k \in tick[q].old PROVE k \in Key /\ stamp[k] # NoStamp
  <2>1. tick[q].old \in SUBSET Key
    BY Zenon DEF SoundStep, TypeOK, TickOK, TickType
  <2>. QED
    BY <2>1, Zenon DEF ListServing
<1>5. \A k \in tick[q].old : stamp'[k] # NoStamp
  BY <1>4, LandedStays, Zenon
<1>6. ASSUME tick'[q].pc \in {"listed", "seed", "rolled", "fetched", "built"},
             NEW k \in tick[q].barrier \cup tick[q].old
      PROVE  k \in In(tick[q].lst) \/ Covers(KnownMark(q)', stamp'[k], k)
  <2>1. k \in Key /\ stamp[k] # NoStamp
    BY <1>4, Zenon DEF ListServing, Landed, Writes, NoStamp
  <2>2. /\ tick[q].pc \in {"listed", "seed", "rolled", "fetched", "built"}
        /\ tick'[q].pc \in HasRollup <=> tick[q].pc \in HasRollup
    BY <1>6 DEF HasRollup
  <2>3. k \in In(tick[q].lst) \/ Covers(KnownMark(q), stamp[k], k)
    BY <2>2, Zenon DEF ListServing
  <2>. QED
    BY <2>1, <2>2, <2>3, KnownStays, Zenon
<1>7. tick'[q].pc \in {"start", "listed", "seed", "rolled", "fetched"} =>
          tick[q].old \subseteq Cached(cache[q])'
  <2>. SUFFICES ASSUME tick'[q].pc \in {"start", "listed", "seed", "rolled", "fetched"}
                PROVE  tick[q].old \subseteq Cached(cache[q])'
    OBVIOUS
  <2>1. tick[q].pc \in {"start", "listed", "seed", "rolled", "fetched"} /\ tick'[q].pc # "built"
    OBVIOUS
  <2>. QED
    BY <2>1, Zenon DEF ListServing
<1>8. tick'[q].pc = "seed" => held'[q] = 0
  <2>1. tick'[q].pc = "seed" => tick[q].pc = "seed"
    OBVIOUS
  <2>. QED
    BY <2>1, Zenon DEF ListServing
<1>. QED
  BY <1>1, <1>2, <1>3, <1>5, <1>6, <1>7, <1>8, Zenon DEF ListServing

LEMMA FetchFrame ==
    ASSUME SoundStep, NEW q \in Replica, FetchServing(q), tick'[q] = tick[q], held'[q] = held[q],
           cache'[q] = cache[q]
    PROVE  FetchServing(q)'
<1>. SUFFICES ASSUME tick[q].pc = "fetched" PROVE FetchServing(q)'
  BY Zenon DEF FetchServing
<1>1. /\ In(tick[q].lst)' = In(tick[q].lst) /\ Cached(cache[q])' = Cached(cache[q])
      /\ Unlisted(cache[q])' = Unlisted(cache[q])
  BY Zenon DEF In, Cached, Unlisted
<1>2. \A k \in In(tick[q].lst) : Folds(q, k)' <=> Folds(q, k)
  BY ListedLanded, FoldsSame, Zenon DEF SoundStep
<1>. QED
  BY <1>1, <1>2, Zenon DEF FetchServing

LEMMA InputType ==
    ASSUME TypeOK, NEW q \in Replica
    PROVE  /\ tick[q] \in TickType /\ tick[q].input \in SUBSET Key /\ tick[q].staged \in SUBSET Key
           /\ tick[q].cand \in SUBSET Key /\ tick[q].built \in Seq(Nat)
           /\ tick[q].lst \in [Key -> Nat] /\ tick[q].old \in SUBSET Key
BY Zenon DEF TypeOK, TickOK, TickType

LEMMA BuildFrame ==
    ASSUME SoundStep, NEW q \in Replica, BuildServing(q), tick'[q] = tick[q], held'[q] = held[q],
           Cached(cache[q]) \subseteq Cached(cache[q])'
    PROVE  BuildServing(q)'
<1>. SUFFICES ASSUME tick[q].pc = "built" PROVE BuildServing(q)'
  BY Zenon DEF BuildServing
<1>. DEFINE I == tick[q].input
<1>1. In(tick[q].lst)' = In(tick[q].lst)
  BY Zenon DEF In
<1>2. I \in SUBSET Key /\ \A k \in I : stamp[k] # NoStamp
  BY InputType, Zenon DEF BuildServing, SoundStep
<1>3. \A k \in I : stamp'[k] # NoStamp /\ (Folds(q, k)' <=> Folds(q, k))
  BY <1>2, LandedStays, FoldsSame, Zenon
<1>4. \A k \in In(tick[q].lst) : Folds(q, k)' <=> Folds(q, k)
  BY ListedLanded, FoldsSame, Zenon DEF SoundStep
<1>5. rolls'[held'[q]] = rolls[held[q]]
  <2>1. held[q] \in 1..Len(rolls)
    BY HoldsRollup, Zenon DEF SoundStep, HasRollup
  <2>. QED
    BY <2>1 DEF SoundStep, BucketGrows
<1>6. ASSUME NEW U \in SUBSET Key, BuiltFrom(q, U) PROVE BuiltFrom(q, U)'
  <2>1. U \subseteq I /\ I \ U \in SUBSET Key
    BY <1>2, <1>6, Zenon DEF BuiltFrom
  <2>2. Ops(I \ U)' = Ops(I \ U) /\ Canonical(stamp', Ops(I \ U)) = Canonical(stamp, Ops(I \ U))
    BY <1>2, <2>1, OpsStay, Zenon DEF Ops
  <2>3. Ops(U)' = Ops(U)
    BY <1>2, <2>1, OpsStay, Zenon DEF Ops
  <2>4. \A k \in U : k \in In(tick[q].lst) => Folds(q, k)'
    BY <1>3, <1>6, <2>1, Zenon DEF BuiltFrom
  <2>5. /\ \A k \in I \ U : ~Folds(q, k)'
        /\ Prompt => \A k \in U : ~Folds(q, k)'
    BY <1>3, <1>6, <2>1, Zenon DEF BuiltFrom
  <2>6. tick[q].built = rolls[held[q]].state \o Canonical(stamp, Ops(I \ U)) \o Canonical(None, Ops(U))
    BY <1>6, Zenon DEF BuiltFrom
  <2>. QED
    BY <1>1, <1>5, <2>1, <2>2, <2>3, <2>4, <2>5, <2>6, Zenon DEF BuiltFrom
<1>7. \E U \in SUBSET Key : BuiltFrom(q, U)'
  BY <1>6, Zenon DEF BuildServing
<1>. QED
  BY <1>1, <1>3, <1>4, <1>7, Zenon DEF BuildServing

LEMMA FoldFrame ==
    ASSUME SoundStep, NEW q \in Replica, FoldServing(q), held'[q] = held[q],
           tick'[q].lst = tick[q].lst, tick'[q].pc = "clean" => tick'[q] = tick[q],
           tick'[q].pc \in {"ladder", "recheck", "commit"} =>
               tick[q].pc \in {"ladder", "recheck", "commit"},
           Cached(cache[q]) \subseteq Cached(cache[q])'
    PROVE  FoldServing(q)'
<1>1. In(tick[q].lst)' = In(tick[q].lst)
  BY Zenon DEF In
<1>2. \A k \in In(tick[q].lst) : Folds(q, k)' <=> Folds(q, k)
  BY ListedLanded, FoldsSame, Zenon DEF SoundStep
<1>3. ASSUME tick'[q].pc = "clean", NEW k \in tick'[q].cand
      PROVE  stamp'[k] # NoStamp /\ Covers(CurrentMark', stamp'[k], k)
  <2>1. tick[q].pc = "clean" /\ k \in tick[q].cand
    BY <1>3, Zenon
  <2>2. k \in Key /\ stamp[k] # NoStamp /\ Covers(CurrentMark, stamp[k], k)
    BY <2>1, InputType, Zenon DEF SoundStep, FoldServing
  <2>. QED
    BY <2>2, CurrentStays, LandedStays, Zenon
<1>. QED
  BY <1>1, <1>2, <1>3, Zenon DEF FoldServing

\* Whoever listed a PUT before it was sent cannot have folded it.
LEMMA FreshUncovered ==
    ASSUME TypeOK, JournalInv, NEW k \in Key, stamp[k] # NoStamp, sent[k] = clock,
           NEW i \in 1..Len(rolls)
    PROVE  ~Covers(rolls[i].mark, stamp[k], k)
<1>1. rolls[i].mark \in MarkType /\ stamp[k] \in Nat /\ k \in Nat /\ clock \in Nat
  BY MarkOfRoll, StampType, Zenon DEF TypeOK, BucketOK
<1>2. rolls[i].mark = ZeroMark \/ rolls[i].mark.lm + Age <= clock
  BY Zenon DEF JournalInv, MarksSound
<1>3. sent[k] <= stamp[k] + Skew
  BY Zenon DEF JournalInv, StampsSound
<1>4. clock < stamp[k] + Age
  BY <1>1, <1>3, ClockAssumption
<1>5. CASE rolls[i].mark = ZeroMark
  BY <1>1, <1>5, ZeroMarkCoversNothing, Zenon DEF NoStamp
<1>6. CASE rolls[i].mark.lm + Age <= clock
  BY <1>1, <1>4, <1>6, NotYetCovered, Zenon
<1>. QED
  BY <1>2, <1>5, <1>6, Zenon

LEMMA FreshUnfolded ==
    ASSUME TypeOK, JournalInv, NEW k \in Key, stamp[k] # NoStamp, sent[k] = clock, NEW q \in Replica
    PROVE  ~Folds(q, k)
<1>1. held[q] # 0 => held[q] \in 1..Len(rolls)
  <2>1. held[q] \in 0..Len(rolls) /\ rolls \in Seq(RollupType)
    BY Zenon DEF TypeOK, TickOK, BucketOK
  <2>. QED
    BY <2>1
<1>. QED
  BY <1>1, FreshUncovered, Zenon DEF Folds

LEMMA FreshUnfoldedNext ==
    ASSUME SoundStep, UNCHANGED <<clock, sent, stamp>>,
           NEW k \in Key, stamp[k] # NoStamp, sent[k] = clock, NEW q \in Replica
    PROVE  ~Folds(q, k)'
<1>. SUFFICES ASSUME held'[q] # 0 PROVE ~Covers(rolls'[held'[q]].mark, stamp'[k], k)
  BY Zenon DEF Folds
<1>. DEFINE m == rolls'[held'[q]].mark
<1>1. held'[q] \in 1..Len(rolls')
  <2>1. held'[q] \in 0..Len(rolls') /\ rolls' \in Seq(RollupType)
    BY Zenon DEF SoundStep, TypeOK, TickOK, BucketOK
  <2>. QED
    BY <2>1
<1>2. m \in MarkType
  <2>1. rolls' \in Seq(RollupType)
    BY Zenon DEF SoundStep, TypeOK, BucketOK
  <2>. QED
    BY <1>1, <2>1, RollOf, Zenon
<1>3. stamp[k] \in Nat /\ k \in Nat /\ clock \in Nat /\ sent[k] <= stamp[k] + Skew
  BY StampType, Zenon DEF SoundStep, TypeOK, BucketOK, JournalInv, StampsSound
<1>4. m = ZeroMark \/ m.lm + Age <= clock
  BY <1>1, Zenon DEF SoundStep, JournalInv, MarksSound
<1>5. clock < stamp[k] + Age
  BY <1>3, ClockAssumption
<1>. QED
  BY <1>2, <1>3, <1>4, <1>5, NotYetCovered, ZeroMarkCoversNothing, Zenon DEF NoStamp

LEMMA PromptFrame ==
    ASSUME SoundStep, NEW q \in Replica, CacheSound(q), PromptServing(q),
           tick'[q] = tick[q], held'[q] = held[q], cache'[q] = cache[q], served'[q] = served[q],
           Prompt /\ InListWindow(q) => clock' = clock
    PROVE  PromptServing(q)'
<1>. SUFFICES ASSUME Prompt PROVE PromptServing(q)'
  BY Zenon DEF PromptServing
<1>1. Cached(cache[q])' = Cached(cache[q]) /\ Unlisted(cache[q])' = Unlisted(cache[q])
  BY Zenon DEF Cached, Unlisted
<1>2. \A k \in Cached(cache[q]) : k \in Key /\ stamp[k] # NoStamp
  BY Zenon DEF CacheSound, Cached
<1>3. Unlisted(cache[q]) \subseteq Cached(cache[q])
  BY DEF Unlisted, Cached, NoStamp, Absent
<1>4. \A k \in Cached(cache[q]) : sent'[k] = sent[k] /\ (Folds(q, k)' <=> Folds(q, k))
  BY <1>2, LandedStays, FoldsSame, Zenon
<1>5. Late(q)' = Late(q) /\ Late(q) \subseteq Cached(cache[q])
  BY <1>1, Zenon DEF Late
<1>. QED
  BY <1>1, <1>3, <1>4, <1>5, Zenon DEF PromptServing, InListWindow, Distinct

\* A replica whose own state does not change.
LEMMA ReplicaStays ==
    ASSUME SoundStep, NEW q \in Replica, ReplicaServing(q),
           writer'[q] = writer[q] \/ writer'[q] = IdleWriter,
           tick'[q] = tick[q], held'[q] = held[q], cache'[q] = cache[q], served'[q] = served[q],
           Prompt /\ writer[q].pc # "idle" => clock' = clock,
           Prompt /\ InListWindow(q) => clock' = clock
    PROVE  ReplicaServing(q)'
<1>1. Cached(cache[q])' = Cached(cache[q])
  BY Zenon DEF Cached
<1>2. HeldGrows(q)
  BY HeldSame, Zenon
<1>3. CacheSound(q)' /\ WriterServing(q)' /\ ServedSound(q)' /\ ListServing(q)'
  BY <1>1, <1>2, CacheFrame, WriterFrame, ServedFrame, ListFrame, Zenon DEF ReplicaServing
<1>4. FetchServing(q)' /\ BuildServing(q)'
  BY <1>1, FetchFrame, BuildFrame, Zenon DEF ReplicaServing
<1>5. FoldServing(q)' /\ PromptServing(q)'
  BY <1>1, FoldFrame, PromptFrame, Zenon DEF ReplicaServing
<1>. QED
  BY <1>3, <1>4, <1>5, Zenon DEF ReplicaServing

-----------------------------------------------------------------------------
(* The bucket.                                                             *)

\* A step that installs no rollup: what lands is not covered yet, and what is
\* deleted is.
LEMMA BucketKeeps ==
    ASSUME SoundStep, BucketServing, rolls' = rolls, clock' # 0,
           \A k \in probes' : sent'[k] # 0,
           \A k \in Key : stamp[k] = NoStamp /\ stamp'[k] # NoStamp
               => k \in live' /\ \A i \in 1..Len(rolls) : ~Covers(rolls[i].mark, stamp'[k], k),
           \A k \in live : k \in live' \/ Covers(CurrentMark, stamp[k], k)
    PROVE  BucketServing'
<1>1. CurrentMark' = CurrentMark
  BY Zenon DEF CurrentMark
<1>2. ASSUME NEW k \in Key, stamp'[k] # NoStamp
      PROVE  k \in live' \/ Covers(CurrentMark', stamp'[k], k)
  <2>1. CASE stamp[k] = NoStamp
    BY <1>2, <2>1, Zenon
  <2>2. CASE stamp[k] # NoStamp
    BY <1>1, <2>2, LandedStays, Zenon DEF BucketServing
  <2>. QED
    BY <2>1, <2>2, Zenon
<1>3. ASSUME NEW i \in 1..Len(rolls)
      PROVE  rolls[i].state = Legacy \o Canonical(stamp', Beneath(rolls[i].mark)')
  <2>. DEFINE B == Beneath(rolls[i].mark)
  <2>1. \A k \in B : k \in Key /\ stamp[k] # NoStamp
    BY Zenon DEF Beneath, Landed, Writes, NoStamp
  <2>2. B \subseteq B'
    <3>1. ASSUME NEW k \in B PROVE k \in Landed' /\ Covers(rolls[i].mark, stamp'[k], k)
      BY <2>1, LandedGrows, LandedStays, Zenon DEF Beneath
    <3>. QED
      BY <3>1, Zenon DEF Beneath
  <2>3. B' \subseteq B
    <3>1. ASSUME NEW k \in B' PROVE k \in B
      <4>1. k \in Key /\ k \in Landed' /\ stamp'[k] # NoStamp /\ Covers(rolls[i].mark, stamp'[k], k)
        BY Zenon DEF Beneath, Landed, Writes, NoStamp
      <4>2. stamp[k] # NoStamp
        BY <4>1, Zenon
      <4>. QED
        BY <4>1, <4>2, LandedStays, Zenon DEF Beneath
    <3>. QED
      BY <3>1, Zenon
  <2>4. Canonical(stamp', B) = Canonical(stamp, B)
    <3>1. \A k \in B : stamp'[k] = stamp[k]
      BY <2>1, LandedStays, Zenon
    <3>. QED
      BY <3>1, CanonicalAgree, Zenon
  <2>5. rolls[i].state = Legacy \o Canonical(stamp, B)
    BY Zenon DEF BucketServing
  <2>6. B' = B
    BY <2>2, <2>3, Zenon
  <2>. QED
    BY <2>4, <2>5, <2>6, Zenon
<1>4. ASSUME CurrentMark' # ZeroMark
      PROVE  \E j \in live' : stamp'[j] >= CurrentMark'.lm + Age
  <2>1. PICK j \in live : stamp[j] >= CurrentMark.lm + Age
    BY <1>1, <1>4, Zenon DEF BucketServing
  <2>2. j \in Key /\ stamp[j] # NoStamp /\ CurrentMark \in MarkType
    BY CurrentMarkType, Zenon DEF SoundStep, JournalInv, StampsSound, TypeOK, BucketOK
  <2>3. stamp'[j] = stamp[j] /\ stamp[j] \in Nat /\ j \in Nat
    BY <2>2, LandedStays, StampType, Zenon DEF SoundStep
  <2>4. ~Covers(CurrentMark, stamp[j], j)
    BY <2>1, <2>2, <2>3, ClockAssumption DEF Covers, MarkType
  <2>5. j \in live'
    BY <2>4, Zenon
  <2>. QED
    BY <1>1, <2>1, <2>3, <2>5, Zenon
<1>. QED
  BY <1>1, <1>2, <1>3, <1>4, Zenon DEF BucketServing

\* A step that installs a rollup.
LEMMA BucketRolls ==
    ASSUME SoundStep, BucketServing, UNCHANGED <<clock, sent, stamp, live, probes>>,
           Len(rolls') = Len(rolls) + 1,
           CurrentMark' # ZeroMark => \E j \in live : stamp[j] >= CurrentMark'.lm + Age
    PROVE  BucketServing'
<1>1. rolls \in Seq(RollupType) /\ rolls' \in Seq(RollupType) /\ Len(rolls) \in Nat
  <2>1. rolls \in Seq(RollupType) /\ rolls' \in Seq(RollupType)
    BY Zenon DEF SoundStep, TypeOK, BucketOK
  <2>. QED
    BY <2>1
<1>2. ASSUME NEW k \in Key, stamp[k] # NoStamp
      PROVE  k \in live \/ Covers(CurrentMark', stamp'[k], k)
  BY <1>2, CurrentStays, Zenon DEF BucketServing
<1>3. ASSUME NEW i \in 1..Len(rolls')
      PROVE  rolls'[i].state = Legacy \o Canonical(stamp', Beneath(rolls[i].mark)')
  <2>1. CASE i \in 1..Len(rolls)
    <3>1. rolls'[i] = rolls[i]
      BY <2>1, Zenon DEF SoundStep, BucketGrows
    <3>2. rolls[i].state = Legacy \o Canonical(stamp, Beneath(rolls[i].mark))
      BY <2>1, Zenon DEF BucketServing
    <3>3. Beneath(rolls[i].mark)' = Beneath(rolls[i].mark)
      BY <3>1, Zenon DEF Beneath, Landed, Writes
    <3>. QED
      BY <3>1, <3>2, <3>3, Zenon
  <2>2. CASE i = Len(rolls')
    <3>1. rolls' # <<>>
      BY <1>1
    <3>2. RollupExact'
      BY Zenon DEF SoundStep, JournalInv
    <3>3. CurrentMark' = rolls'[i].mark
      BY <2>2, <3>1, Zenon DEF CurrentMark
    <3>. QED
      BY <2>2, <3>1, <3>2, <3>3, Zenon DEF RollupExact
  <2>3. i \in 1..Len(rolls) \/ i = Len(rolls')
    BY <1>1
  <2>. QED
    BY <2>1, <2>2, <2>3, Zenon
<1>. QED
  BY <1>2, <1>3, Zenon DEF BucketServing

\* A step that leaves the bucket as it is, but may draw a key.
LEMMA BucketSame ==
    ASSUME SoundStep, BucketServing, UNCHANGED <<clock, stamp, live, probes, rolls>>
    PROVE  BucketServing'
<1>1. \A k \in probes' : k \in Key /\ sent'[k] # 0
  BY Zenon DEF SoundStep, TypeOK, BucketOK, BucketGrows, BucketServing
<1>2. clock' # 0
  BY Zenon DEF BucketServing
<1>. QED
  BY <1>1, <1>2, BucketKeeps, Zenon

\* A step that deletes covered segments.
LEMMA BucketCleaned ==
    ASSUME SoundStep, BucketServing, UNCHANGED <<clock, stamp, probes, rolls, sent>>,
           NEW S, Remove(S), \A k \in S : Covers(CurrentMark, stamp[k], k)
    PROVE  BucketServing'
<1>1. live \ live' \subseteq S
  BY RemoveType, Zenon DEF SoundStep
<1>2. clock' # 0 /\ \A k \in probes' : sent'[k] # 0
  BY Zenon DEF BucketServing
<1>. QED
  BY <1>1, <1>2, BucketKeeps, Zenon
=============================================================================
