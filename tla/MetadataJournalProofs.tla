----------------------- MODULE MetadataJournalProofs -----------------------
(***************************************************************************)
(* What holds of the S3 metadata journal for every number of replicas,     *)
(* every set of keys, every age threshold, clock skew and PUT deadline     *)
(* with Deadline + Skew < Age, and any number of faults.                   *)
(***************************************************************************)
EXTENDS MetadataJournalServing, FiniteSetTheorems

-----------------------------------------------------------------------------
(* The order of replay.                                                    *)

\* A sequence of naturals from S is a sequence of naturals.
LEMMA NatSeq ==
    ASSUME NEW S, S \subseteq Nat, NEW s \in Seq(S)
    PROVE  s \in Seq(Nat)
<1>1. Len(s) \in Nat /\ s \in [1..Len(s) -> S]
  OBVIOUS
<1>2. s \in [1..Len(s) -> Nat]
  BY <1>1, Zenon
<1>3. \A n \in Nat : \A u \in [1..n -> Nat] : u \in Seq(Nat)
  OBVIOUS
<1>. QED
  BY <1>1, <1>2, <1>3, Zenon

\* The order is strict.
LEMMA BeforeStrict ==
    ASSUME NEW f, NEW j \in Int, NEW k \in Int, f[j] \in Int, f[k] \in Int,
           Before(f, j, k)
    PROVE  ~Before(f, k, j) /\ j # k
BY DEF Before

\* A rank is below the size of the set.
LEMMA RankBound ==
    ASSUME NEW f, NEW S, IsFiniteSet(S), S \subseteq Int,
           \A k \in S : f[k] \in Int, NEW k \in S
    PROVE  Rank(f, S, k) \in 0..(Cardinality(S) - 1)
<1>. DEFINE below == {j \in S : Before(f, j, k)}
<1>1. below \in SUBSET (S \ {k})
  BY BeforeStrict, Zenon
<1>2. IsFiniteSet(S \ {k}) /\ Cardinality(S \ {k}) = Cardinality(S) - 1
  BY FS_RemoveElement, Zenon
<1>3. IsFiniteSet(below) /\ Cardinality(below) <= Cardinality(S \ {k})
  BY <1>1, <1>2, FS_Subset, Zenon
<1>4. Cardinality(below) \in Nat /\ Cardinality(S) \in Nat
  BY <1>3, FS_CardinalityType, Zenon
<1>5. Rank(f, S, k) = Cardinality(below)
  BY Zenon DEF Rank
<1>. HIDE DEF below
<1>. QED
  BY <1>2, <1>3, <1>4, <1>5

\* Ranks separate the elements of a set.
LEMMA RankMonotone ==
    ASSUME NEW f, NEW S, IsFiniteSet(S), S \subseteq Int,
           \A k \in S : f[k] \in Int,
           NEW j \in S, NEW k \in S, Before(f, j, k)
    PROVE  Rank(f, S, j) < Rank(f, S, k)
<1>. DEFINE low == {i \in S : Before(f, i, j)}
            high == {i \in S : Before(f, i, k)}
<1>1. low \in SUBSET high
  <2>1. ASSUME NEW i \in S, Before(f, i, j) PROVE Before(f, i, k)
    <3>1. i \in Int /\ j \in Int /\ k \in Int
      OBVIOUS
    <3>2. f[i] \in Int /\ f[j] \in Int /\ f[k] \in Int
      OBVIOUS
    <3>. QED
      BY <2>1, <3>1, <3>2 DEF Before
  <2>. QED
    BY <2>1, Zenon
<1>2. j \in high /\ j \notin low
  BY BeforeStrict, Zenon
<1>3. IsFiniteSet(high) /\ IsFiniteSet(low)
  <2>1. high \in SUBSET S /\ low \in SUBSET S
    OBVIOUS
  <2>. QED
    BY <2>1, FS_Subset, Zenon
<1>4. Cardinality(low) <= Cardinality(high) /\ Cardinality(low) # Cardinality(high)
  BY <1>1, <1>2, <1>3, FS_Subset, Zenon
<1>5. Cardinality(low) \in Nat /\ Cardinality(high) \in Nat
  BY <1>3, FS_CardinalityType, Zenon
<1>6. Rank(f, S, j) = Cardinality(low) /\ Rank(f, S, k) = Cardinality(high)
  BY Zenon DEF Rank
<1>. HIDE DEF low, high
<1>. QED
  BY <1>4, <1>5, <1>6

\* No two elements have the same rank.
LEMMA RankInjective ==
    ASSUME NEW f, NEW S, IsFiniteSet(S), S \subseteq Int,
           \A k \in S : f[k] \in Int,
           NEW j \in S, NEW k \in S, Rank(f, S, j) = Rank(f, S, k)
    PROVE  j = k
<1>1. Rank(f, S, j) \in Int /\ Rank(f, S, k) \in Int
  <2>1. Rank(f, S, j) \in 0..(Cardinality(S) - 1) /\ Rank(f, S, k) \in 0..(Cardinality(S) - 1)
    BY RankBound, Zenon
  <2>. QED
    BY <2>1
<1>2. ~Before(f, j, k) /\ ~Before(f, k, j)
  <2>1. Before(f, j, k) => Rank(f, S, j) < Rank(f, S, k)
    BY RankMonotone, Zenon
  <2>2. Before(f, k, j) => Rank(f, S, k) < Rank(f, S, j)
    BY RankMonotone, Zenon
  <2>. QED
    BY <1>1, <2>1, <2>2
<1>3. j \in Int /\ k \in Int /\ f[j] \in Int /\ f[k] \in Int
  OBVIOUS
<1>. QED
  BY <1>2, <1>3 DEF Before

\* Every rank below the size of the set is taken, by one element.
LEMMA RankTaken ==
    ASSUME NEW f, NEW S, IsFiniteSet(S), S \subseteq Int,
           \A k \in S : f[k] \in Int, NEW i \in 1..Cardinality(S)
    PROVE  \E k \in S : AtRank(f, S, i - 1) = {k}
<1>. DEFINE n == Cardinality(S)
            place == [k \in S |-> Rank(f, S, k) + 1]
<1>1. n \in Nat
  BY FS_CardinalityType, Zenon
<1>2. ASSUME NEW k \in S
      PROVE  Rank(f, S, k) \in 0..(n - 1) /\ Rank(f, S, k) + 1 \in 1..n
  <2>1. Rank(f, S, k) \in 0..(n - 1)
    BY RankBound, Zenon
  <2>. HIDE DEF n
  <2>. QED
    BY <2>1, <1>1
<1>4. place \in Injection(S, 1..n)
  <2>1. place \in [S -> 1..n]
    BY <1>2, Zenon
  <2>2. ASSUME NEW j \in S, NEW k \in S, place[j] = place[k] PROVE j = k
    <3>1. Rank(f, S, j) = Rank(f, S, k)
      BY <2>2, <1>2
    <3>. QED
      BY <3>1, RankInjective, Zenon
  <2>. QED
    BY <2>1, <2>2, Zenon DEF Injection, IsInjective
<1>5. place \in Surjection(S, 1..n)
  <2>1. IsFiniteSet(1..n) /\ Cardinality(1..n) = n
    BY <1>1, FS_Interval
  <2>. QED
    BY <1>4, <2>1, FS_Injection, Zenon
<1>6. PICK k \in S : place[k] = i
  BY <1>5, Zenon DEF Surjection
<1>7. Rank(f, S, k) = i - 1
  BY <1>6, <1>2
<1>8. ASSUME NEW j \in S, Rank(f, S, j) = i - 1 PROVE j = k
  BY <1>7, <1>8, RankInjective, Zenon
<1>. QED
  BY <1>7, <1>8, Zenon DEF AtRank

Lists(s, S) == \A k \in S : \E i \in 1..Cardinality(S) : s[i] = k

\* Every position of the canonical sequence is taken: it lists the set, each
\* element at its rank.
LEMMA CanonicalSeq ==
    ASSUME NEW f, NEW S, IsFiniteSet(S), S \subseteq Int,
           \A k \in S : f[k] \in Int
    PROVE  /\ Canonical(f, S) \in Seq(S)
           /\ Len(Canonical(f, S)) = Cardinality(S)
           /\ Lists(Canonical(f, S), S)
<1>. DEFINE n == Cardinality(S)
<1>1. n \in Nat
  BY FS_CardinalityType, Zenon
<1>2. ASSUME NEW k \in S PROVE Rank(f, S, k) + 1 \in 1..n /\ Rank(f, S, k) \in Int
  <2>1. Rank(f, S, k) \in 0..(n - 1)
    BY RankBound, Zenon
  <2>. HIDE DEF n
  <2>. QED
    BY <2>1, <1>1
<1>6. ASSUME NEW i \in 1..n PROVE \E k \in S : AtRank(f, S, i - 1) = {k}
  <2>1. i \in 1..Cardinality(S)
    OBVIOUS
  <2>. HIDE DEF n
  <2>. QED
    BY <2>1, RankTaken
<1>7. ASSUME NEW i \in 1..n
      PROVE  /\ Canonical(f, S)[i] \in S
             /\ AtRank(f, S, i - 1) = {Canonical(f, S)[i]}
  <2>1. PICK k \in S : AtRank(f, S, i - 1) = {k}
    BY <1>6, Zenon
  <2>2. Canonical(f, S)[i] = CHOOSE x \in {k} : TRUE
    BY <2>1, Zenon DEF Canonical
  <2>. QED
    BY <2>1, <2>2, Zenon
<1>8. Canonical(f, S) \in [1..n -> S]
  <2>1. Canonical(f, S) = [i \in 1..n |-> Canonical(f, S)[i]]
    BY DEF Canonical
  <2>. QED
    BY <2>1, <1>7, Zenon
<1>9. ASSUME NEW k \in S
      PROVE  \E i \in 1..n : Canonical(f, S)[i] = k
  <2>1. k \in AtRank(f, S, (Rank(f, S, k) + 1) - 1)
    BY <1>2 DEF AtRank
  <2>. QED
    BY <2>1, <1>2, <1>7, Zenon
<1>. QED
  <2>. HIDE DEF n
  <2>1. Canonical(f, S) \in Seq(S) /\ Len(Canonical(f, S)) = n
    BY <1>1, <1>8
  <2>. QED
    BY <2>1, <1>9, Zenon DEF n, Lists

\* No element of the set occurs twice.
LEMMA CanonicalOnce ==
    ASSUME NEW f, NEW S, IsFiniteSet(S), S \subseteq Int,
           \A k \in S : f[k] \in Int,
           NEW i \in DOMAIN Canonical(f, S), NEW j \in DOMAIN Canonical(f, S),
           Canonical(f, S)[i] = Canonical(f, S)[j]
    PROVE  i = j
<1>. DEFINE c == Canonical(f, S)
            n == Cardinality(S)
<1>1. c \in Seq(S) /\ Len(c) = n /\ \A k \in S : \E x \in 1..n : c[x] = k
  <2>1. c \in Seq(S) /\ Len(c) = n
    BY CanonicalSeq, Zenon
  <2>2. Lists(c, S)
    BY CanonicalSeq, Zenon
  <2>. QED
    BY <2>1, <2>2, Zenon DEF Lists
<1>2. n \in Nat
  BY FS_CardinalityType, Zenon
<1>. HIDE DEF c, n
<1>3. c \in [1..n -> S]
  BY <1>1
<1>4. c \in Surjection(1..n, S)
  BY <1>1, <1>3, Zenon DEF Surjection
<1>5. IsFiniteSet(1..n) /\ Cardinality(1..n) = n
  BY <1>2, FS_Interval
<1>6. c \in Injection(1..n, S)
  BY <1>4, <1>5, FS_Surjection, Zenon DEF n
<1>7. i \in 1..n /\ j \in 1..n /\ c[i] = c[j]
  BY <1>3 DEF c
<1>. QED
  BY <1>6, <1>7, Zenon DEF Injection, IsInjective

\* Folding a set B on top of a set A that precedes it gives the canonical
\* sequence of both: compact may extend the rollup instead of replaying it.
LEMMA CanonicalConcat ==
    ASSUME NEW f, NEW A, NEW B, IsFiniteSet(A), IsFiniteSet(B),
           A \subseteq Int, B \subseteq Int,
           \A k \in A \cup B : f[k] \in Int,
           \A a \in A, b \in B : Before(f, a, b)
    PROVE  Canonical(f, A) \o Canonical(f, B) = Canonical(f, A \cup B)
<1>. DEFINE both == A \cup B
            n == Cardinality(A)
            m == Cardinality(B)
<1>1. A \cap B = {}
  BY BeforeStrict, Zenon
<1>2. /\ n \in Nat /\ m \in Nat
      /\ IsFiniteSet(both) /\ Cardinality(both) = n + m
  <2>1. n \in Nat /\ m \in Nat
    BY FS_CardinalityType, Zenon
  <2>2. IsFiniteSet(both) /\ Cardinality(both) = n + m - Cardinality(A \cap B)
    BY FS_Union, Zenon
  <2>3. Cardinality(A \cap B) = 0
    BY <1>1, FS_EmptySet, Zenon
  <2>. QED
    BY <2>1, <2>2, <2>3
<1>3. ASSUME NEW k \in A
      PROVE  Rank(f, both, k) = Rank(f, A, k) /\ Rank(f, A, k) \in 0..(n - 1)
  <2>1. {j \in both : Before(f, j, k)} = {j \in A : Before(f, j, k)}
    BY BeforeStrict, Zenon
  <2>. QED
    BY <2>1, RankBound, Zenon DEF Rank
<1>4. ASSUME NEW k \in B
      PROVE  Rank(f, both, k) = n + Rank(f, B, k) /\ Rank(f, B, k) \in 0..(m - 1)
  <2>. DEFINE below == {j \in B : Before(f, j, k)}
  <2>1. {j \in both : Before(f, j, k)} = A \cup below
    OBVIOUS
  <2>2. below \in SUBSET B /\ A \cap below = {}
    BY <1>1, Zenon
  <2>3. IsFiniteSet(below)
    BY <2>2, FS_Subset, Zenon
  <2>4. Cardinality(A \cup below)
          = n + Cardinality(below) - Cardinality(A \cap below)
    BY <2>3, FS_Union, Zenon
  <2>5. Cardinality(A \cap below) = 0
    BY <2>2, FS_EmptySet, Zenon
  <2>6. Rank(f, B, k) = Cardinality(below) /\ Rank(f, B, k) \in 0..(m - 1)
    BY RankBound, Zenon DEF Rank
  <2>7. Rank(f, both, k) = Cardinality(A \cup below)
    BY <2>1, Zenon DEF Rank
  <2>. HIDE DEF below, n, m, both
  <2>. QED
    BY <2>4, <2>5, <2>6, <2>7, <1>2
<1>. HIDE DEF n, m
<1>5. ASSUME NEW i \in 1..n
      PROVE  AtRank(f, both, i - 1) = AtRank(f, A, i - 1)
  <2>1. \A k \in A : Rank(f, both, k) = Rank(f, A, k)
    BY <1>3, Zenon
  <2>2. ASSUME NEW k \in B PROVE Rank(f, both, k) # i - 1
    BY <1>2, <1>4
  <2>. QED
    BY <2>1, <2>2, Zenon DEF AtRank
<1>6. ASSUME NEW i \in (n + 1)..(n + m)
      PROVE  AtRank(f, both, i - 1) = AtRank(f, B, (i - n) - 1)
  <2>1. ASSUME NEW k \in A PROVE Rank(f, both, k) # i - 1
    BY <1>2, <1>3
  <2>2. ASSUME NEW k \in B
        PROVE  Rank(f, both, k) = i - 1 <=> Rank(f, B, k) = (i - n) - 1
    BY <1>2, <1>4
  <2>. QED
    BY <2>1, <2>2, Zenon DEF AtRank
<1>. HIDE DEF both
<1>. DEFINE pick(S) == CHOOSE k \in S : TRUE
<1>7. /\ Canonical(f, A) = [i \in 1..n |-> pick(AtRank(f, A, i - 1))]
      /\ Canonical(f, B) = [i \in 1..m |-> pick(AtRank(f, B, i - 1))]
      /\ Canonical(f, both) = [i \in 1..(n + m) |-> pick(AtRank(f, both, i - 1))]
  BY <1>2, Zenon DEF Canonical, n, m
<1>. HIDE DEF pick
<1>8. ASSUME NEW i \in 1..(n + m)
      PROVE  pick(AtRank(f, both, i - 1))
               = IF i <= n THEN Canonical(f, A)[i] ELSE Canonical(f, B)[i - n]
  <2>1. CASE i <= n
    <3>1. i \in 1..n
      BY <2>1, <1>2
    <3>. QED
      BY <2>1, <3>1, <1>5, <1>7, Zenon
  <2>2. CASE ~(i <= n)
    <3>1. i \in (n + 1)..(n + m) /\ i - n \in 1..m
      BY <2>2, <1>2
    <3>. QED
      BY <2>2, <3>1, <1>6, <1>7, Zenon
  <2>. QED
    BY <2>1, <2>2, Zenon
<1>9. Canonical(f, A) \o Canonical(f, B)
        = [i \in 1..(n + m) |->
              IF i <= n THEN Canonical(f, A)[i] ELSE Canonical(f, B)[i - n]]
  <2>1. Len(Canonical(f, A)) = n /\ Len(Canonical(f, B)) = m
    BY <1>2, <1>7
  <2>. QED
    BY <1>2, <1>7, <2>1
<1>. QED
  BY <1>7, <1>8, <1>9, Zenon DEF both

-----------------------------------------------------------------------------
(* What the invariants of the bucket and of serving imply.                 *)

\* What compaction relies on, from the invariants.
LEMMA CompactionSoundHolds == TypeOK /\ JournalInv /\ ServingInv => CompactionSound
<1>. SUFFICES ASSUME TypeOK, JournalInv, ServingInv PROVE CompactionSound
  OBVIOUS
<1>1. ASSUME NEW r \in Replica, tick[r].pc = "commit", NEW k \in tick[r].cand
      PROVE  k \in Cached(cache[r])
  <2>1. tick[r].cand = Candidates(r)
    BY <1>1 DEF JournalInv, TickSound
  <2>2. /\ k \in In(tick[r].lst) /\ Aged(tick[r].lst, k)
        /\ ~Covers(rolls[held[r]].mark, tick[r].lst[k], k)
    BY <1>1, <2>1, Zenon DEF Candidates, Leftovers
  <2>3. ReplicaServing(r)
    BY Zenon DEF ServingInv
  <2>4. tick[r].lst[k] = stamp[k]
    BY <2>2, <2>3, Zenon DEF ReplicaServing, ListServing
  <2>. QED
    BY <1>1, <2>2, <2>3, <2>4 DEF ReplicaServing, FoldServing, Folds
<1>2. ASSUME NEW k \in live, Covers(CurrentMark, stamp[k], k)
      PROVE  \E j \in live : stamp[j] - stamp[k] >= Age
  <2>1. k \in Key /\ stamp[k] # NoStamp
    BY Zenon DEF TypeOK, BucketOK, JournalInv, StampsSound
  <2>2. stamp[k] \in Nat /\ k \in Nat /\ CurrentMark \in MarkType
    BY <2>1, StampType, CurrentMarkType, Zenon
  <2>3. CurrentMark # ZeroMark
    BY <1>2, <2>1, <2>2, ZeroMarkCoversNothing, Zenon DEF NoStamp
  <2>4. PICK j \in live : stamp[j] >= CurrentMark.lm + Age
    BY <2>3, Zenon DEF ServingInv, BucketServing
  <2>5. stamp[j] \in Nat
    BY StampType, Zenon DEF TypeOK, BucketOK
  <2>6. stamp[k] <= CurrentMark.lm
    BY <1>2, <2>2 DEF Covers, MarkType
  <2>7. stamp[j] - stamp[k] >= Age
    BY <2>2, <2>4, <2>5, <2>6, ClockAssumption DEF MarkType
  <2>. QED
    BY <2>7, Zenon
<1>. QED
  BY <1>1, <1>2, Zenon DEF CompactionSound, CandidatesCached, LeftoversAged

\* A rebuild serves every write that was in the bucket when its tick began.
LEMMA FlushBarrierHolds == ReplayHolds /\ TypeOK /\ JournalInv /\ ServingInv => FlushBarrier
<1>. SUFFICES ASSUME ReplayHolds, TypeOK, JournalInv, ServingInv PROVE FlushBarrier
  OBVIOUS
<1>. SUFFICES ASSUME NEW r \in Replica, tick[r].pc = "built", NEW k \in tick[r].barrier
              PROVE  k \in Applied(Rebuilt(r))
  BY Zenon DEF FlushBarrier
<1>1. ReplicaServing(r) /\ BucketServing
  BY Zenon DEF ServingInv
<1>2. Applied(Rebuilt(r)) = Applied(Legacy) \cup Parts(r)
  BY <1>1, RebuiltHolds, Zenon DEF ReplicaServing
<1>3. k \in Landed /\ (k \in In(tick[r].lst) \/ Covers(KnownMark(r), stamp[k], k))
  BY <1>1 DEF ReplicaServing, ListServing
<1>4. held[r] # 0 /\ KnownMark(r) = rolls[held[r]].mark
  BY DEF TypeOK, TickOK, KnownMark, HasRollup
<1>5. Folds(r, k) => k \in Parts(r)
  BY <1>3, Zenon DEF Folds, Beneath, Parts
<1>6. k \in tick[r].input => k \in Parts(r)
  BY <1>3, Zenon DEF Landed, Writes, Ops, Parts
<1>7. k \in In(tick[r].lst) => Folds(r, k) \/ k \in tick[r].input
  BY <1>1, Zenon DEF ReplicaServing, BuildServing
<1>. QED
  BY <1>2, <1>3, <1>4, <1>5, <1>6, <1>7, Zenon DEF Folds

\* What a step may do to what a replica serves.
LEMMA ServedGrows ==
    ASSUME ReplayHolds, SoundStep, ServingInv, [Next]_vars, NEW r \in Replica
    PROVE  /\ Insert(r) => writer[r].key \in Applied(served'[r])
           /\ Crash(r) \/ Applied(served[r]) \subseteq Applied(served'[r])
<1>1. ReplicaServing(r) /\ BucketServing /\ served \in [Replica -> Seq(Nat)]
  BY Zenon DEF ServingInv, SoundStep, TypeOK, StateOK
<1>2. ASSUME NEW q \in Replica, Insert(q)
      PROVE  /\ writer[q].key \in Applied(served'[q])
             /\ Applied(served[q]) \subseteq Applied(served'[q])
  <2>1. writer[q].pc = "insert" /\ writer[q].pc # "idle"
    BY <1>2 DEF Insert
  <2>2. writer[q].key \in Key /\ writer[q].key \notin probes /\ writer[q].key \in Nat
    BY <2>1, WriterKey, StampType, Zenon DEF ServingInv, ReplicaServing, WriterServing, SoundStep
  <2>3. CASE writer[q].key \in Cached(cache[q])
    <3>1. served' = served
      BY <1>2, <2>3, Zenon DEF Insert
    <3>2. Ops(Cached(cache[q])) \subseteq Applied(served[q])
      BY Zenon DEF ServingInv, ReplicaServing, ServedSound
    <3>. QED
      BY <2>2, <2>3, <3>1, <3>2, Zenon DEF Ops
  <2>4. CASE writer[q].key \notin Cached(cache[q])
    <3>1. served'[q] = Append(served[q], writer[q].key) /\ served[q] \in Seq(Nat)
      BY <1>1, <1>2, <2>4, Zenon DEF Insert
    <3>2. Applied(Append(served[q], writer[q].key)) = Applied(served[q]) \cup {writer[q].key}
      BY <2>2, <3>1, AppliedAppend, Zenon
    <3>. QED
      BY <3>1, <3>2, Zenon
  <2>. QED
    BY <2>3, <2>4, Zenon
<1>3. ASSUME RebuildSwap(r) PROVE Applied(served[r]) \subseteq Applied(served'[r])
  <2>1. served'[r] = Rebuilt(r) /\ tick[r].pc = "built"
    BY <1>1, <1>3, Zenon DEF RebuildSwap
  <2>2. Applied(Rebuilt(r)) = Applied(Legacy) \cup Parts(r)
    BY <1>1, <2>1, RebuiltHolds, Zenon DEF ReplicaServing, SoundStep
  <2>3. ASSUME NEW x \in Landed, x \in Cached(cache[r]) \/ Folds(r, x) PROVE x \in Parts(r)
    BY <2>3, Zenon DEF Folds, Beneath, Parts, Ops, Late, Landed, Writes
  <2>. QED
    BY <1>1, <2>1, <2>2, <2>3, Zenon DEF ReplicaServing, ServedSound
<1>4. ASSUME NEW q \in Replica, q # r, RebuildSwap(q) \/ Crash(q) \/ Insert(q)
      PROVE  served'[r] = served[r]
  BY <1>1, <1>4, Zenon DEF RebuildSwap, Crash, Insert
<1>5. \/ served' = served
      \/ \E q \in Replica : RebuildSwap(q) \/ Crash(q) \/ Insert(q)
  <2>1. ASSUME NEW q \in Replica, Write(q) \/ Sync(q) \/ Compaction(q) \/ Crash(q)
        PROVE  served' = served \/ RebuildSwap(q) \/ Crash(q) \/ Insert(q)
    BY <2>1, Zenon DEF Write, Send, Ack, PutFails, Sync, TickStart, TickList,
       TickRollup, Seed, SeedLost, TickFails, FetchUnseen, FetchFails, RebuildInput, Compaction,
       LadderStep, CompactRecheck, CompactCommit, CommitLost, CompactFails, CleanUp, Probe, ProbeAck
  <2>. QED
    BY <2>1, Zenon DEF Next, vars, ClockTick, Land
<1>. QED
  BY <1>2, <1>3, <1>4, <1>5, Zenon

\* No segment is applied twice, from the invariants.
LEMMA AppliedOnceHolds == Prompt /\ ServingInv => AppliedOnce
BY Zenon DEF ServingInv, ReplicaServing, PromptServing, Distinct, AppliedOnce

-----------------------------------------------------------------------------
(* The theorems.                                                           *)

\* The replay order is as the steps of the journal assume.
LEMMA ReplayOrder == ReplayLaws
<1>1. ASSUME NEW S \in SUBSET Key PROVE IsFiniteSet(S) /\ S \subseteq Int /\ S \subseteq Nat
  <2>1. IsFiniteSet(S)
    BY FS_Subset, KeyAssumption, Zenon
  <2>. QED
    BY <2>1, KeyAssumption
<1>2. ASSUME NEW f \in [Key -> Int], NEW S \in SUBSET Key PROVE Canonical(f, S) \in Seq(Nat)
  <2>1. Canonical(f, S) \in Seq(S)
    BY <1>1, CanonicalSeq, Zenon
  <2>. QED
    BY <1>1, <2>1, NatSeq, Zenon
<1>3. ASSUME NEW f \in [Key -> Nat] PROVE Canonical(f, {}) = <<>>
  <2>1. Canonical(f, {}) \in Seq({}) /\ Len(Canonical(f, {})) = 0
    <3>1. IsFiniteSet({}) /\ Cardinality({}) = 0
      BY FS_EmptySet, Zenon
    <3>. QED
      BY <3>1, CanonicalSeq, Zenon
  <2>. QED
    BY <2>1
<1>4. ASSUME NEW f \in [Key -> Nat], NEW A \in SUBSET Key, NEW B \in SUBSET Key,
             \A a \in A, b \in B : Before(f, a, b)
      PROVE  ReplayExtends(f, A, B)
  <2>1. IsFiniteSet(A) /\ IsFiniteSet(B) /\ A \subseteq Int /\ B \subseteq Int
    BY <1>1, Zenon
  <2>2. \A k \in A \cup B : f[k] \in Int
    OBVIOUS
  <2>. QED
    BY <1>4, <2>1, <2>2, CanonicalConcat DEF ReplayExtends
<1>. QED
  BY <1>2, <1>3, <1>4, Zenon DEF ReplayLaws

\* The type invariant, with what it says of the locals of a tick: no handler
\* of a tick dereferences a rollup that the replica does not hold.
THEOREM TypeCorrect == Spec => []TypeOK
<1>1. TypeOK /\ [Next]_vars => TypeOK'
  BY TypeNext, ReplayOrder, Zenon
<1>. QED
  BY <1>1, TypeInit, PTL DEF Spec

\* The strengthening that makes the two theorems below inductive: what can be
\* folded from a listing is all in the listing, at the stamp it has in the
\* bucket, and what was deleted before the listing is covered.
THEOREM JournalCorrect == Spec => []JournalInv
<1>1. Init => JournalInv
  BY InvInit, ReplayOrder, Zenon
<1>2. TypeOK /\ JournalInv /\ [Next]_vars => JournalInv'
  BY InvNext, ReplayOrder, Zenon
<1>. QED
  BY <1>1, <1>2, TypeCorrect, PTL DEF Spec

\* The rollup is the legacy state followed by every write at or below its
\* mark, once each and in canonical order, whatever compactions race, are
\* lost, or are retried by other replicas (compact, seed).
THEOREM RollupExactAlways == Spec => []RollupExact
<1>1. JournalInv => RollupExact
  BY Zenon DEF JournalInv
<1>. QED
  BY <1>1, JournalCorrect, PTL

\* No write that reached the bucket is lost by the deletes of ladder and
\* compact: it is there until a rollup covers it.
THEOREM DurableAlways == Spec => []Durable
<1>1. JournalInv => Durable
  BY Zenon DEF JournalInv
<1>. QED
  BY <1>1, JournalCorrect, PTL

-----------------------------------------------------------------------------
(* What the replicas serve.                                                *)

\* A replay holds the segments it replays, each once.
LEMMA CanonicalApplied ==
    ASSUME NEW f \in [Key -> Int], NEW S \in SUBSET Key
    PROVE  /\ Canonical(f, S) \in Seq(Nat)
           /\ Applied(Canonical(f, S)) = S
           /\ Distinct(Canonical(f, S))
<1>1. IsFiniteSet(S) /\ S \subseteq Int /\ S \subseteq Nat
  <2>1. IsFiniteSet(S)
    BY FS_Subset, KeyAssumption, Zenon
  <2>. QED
    BY <2>1, KeyAssumption
<1>2. \A k \in S : f[k] \in Int
  OBVIOUS
<1>3. /\ Canonical(f, S) \in Seq(S) /\ Len(Canonical(f, S)) = Cardinality(S)
      /\ \A k \in S : \E i \in 1..Cardinality(S) : Canonical(f, S)[i] = k
  <2>1. Canonical(f, S) \in Seq(S) /\ Len(Canonical(f, S)) = Cardinality(S)
    BY <1>1, <1>2, CanonicalSeq, Zenon
  <2>2. Lists(Canonical(f, S), S)
    BY <1>1, <1>2, CanonicalSeq, Zenon
  <2>. QED
    BY <2>1, <2>2, Zenon DEF Lists
<1>4. Canonical(f, S) \in Seq(Nat)
  BY <1>1, <1>3, NatSeq, Zenon
<1>5. DOMAIN Canonical(f, S) = 1..Cardinality(S) /\ \A i \in DOMAIN Canonical(f, S) : Canonical(f, S)[i] \in S
  BY <1>3
<1>6. Applied(Canonical(f, S)) = S
  BY <1>3, <1>5, Zenon DEF Applied
<1>7. Distinct(Canonical(f, S))
  BY <1>1, <1>2, CanonicalOnce, Zenon DEF Distinct
<1>. QED
  BY <1>4, <1>6, <1>7

\* The canonical order has the properties that the invariants assume of it.
LEMMA ReplayHeld == ReplayHolds
BY CanonicalApplied, Zenon DEF ReplayHolds

\* While no PUT takes effect twice, every cache, listing, replay and state of
\* every replica agrees with the bucket as ServingInv says.
THEOREM ServingCorrect == Spec /\ []LandedOnce => []ServingInv
<1>1. TypeOK /\ JournalInv /\ TypeOK' /\ JournalInv' /\ ServingInv /\ LandedOnce' /\ [Next]_vars
        => ServingInv'
  BY ReplayOrder, ReplayHeld, NextGrows, ServingNext, Zenon DEF SoundStep
<1>2. Init => ServingInv
  BY ReplayOrder, ServingInit
<1>. QED
  BY <1>1, <1>2, TypeCorrect, JournalCorrect, PTL DEF Spec

\* No PUT takes effect twice where the SDK does not retry a segment PUT.
LEMMA OneAttempt ==
    ASSUME Attempts <= 1
    PROVE  Spec => []LandedOnce
<1>1. Init => LandedOnce
  BY DEF Init, LandedOnce
<1>2. TypeOK /\ LandedOnce /\ [Next]_vars => LandedOnce'
  <2>. SUFFICES ASSUME TypeOK, LandedOnce, [Next]_vars PROVE LandedOnce'
    OBVIOUS
  <2>1. landings \in [Key -> Nat]
    BY Zenon DEF TypeOK, BucketOK
  <2>2. ASSUME NEW k \in Key, Land(k) PROVE LandedOnce'
    <3>1. landings[k] < Attempts /\ landings' = [landings EXCEPT ![k] = @ + 1]
      BY <2>2, Zenon DEF Land
    <3>. QED
      BY <2>1, <3>1, BoundAssumption DEF LandedOnce
  <2>3. CASE UNCHANGED landings
    BY <2>3, Zenon DEF LandedOnce
  <2>4. ASSUME NEW r \in Replica, Write(r) \/ Sync(r) PROVE UNCHANGED landings
    BY <2>4, Zenon DEF bucketVars, Write, Send, Ack, PutFails, Insert, Sync, TickStart, TickList,
       TickRollup, Seed, SeedLost, TickFails, FetchUnseen, FetchFails, RebuildInput, RebuildSwap
  <2>5. ASSUME NEW r \in Replica, Compaction(r) \/ Crash(r) PROVE UNCHANGED landings
    <3>1. UNCHANGED bucketVars => UNCHANGED landings
      BY Zenon DEF bucketVars
    <3>. QED
      BY <2>5, <3>1, Zenon DEF Compaction, LadderStep, CompactRecheck, CompactCommit, CommitLost,
         CompactFails, CleanUp, Probe, ProbeAck, Crash
  <2>6. UNCHANGED landings \/ \E k \in Key : Land(k)
    BY <2>4, <2>5, Zenon DEF Next, vars, ClockTick
  <2>. QED
    BY <2>2, <2>3, <2>6, Zenon
<1>. QED
  BY <1>1, <1>2, TypeCorrect, PTL DEF Spec

\* compact finds every candidate in the cache, and what it could not delete is
\* old enough for the next ladder, whatever is written meanwhile (compact,
\* ladder).
THEOREM CompactionSoundAlways == Spec /\ []LandedOnce => []CompactionSound
BY CompactionSoundHolds, TypeCorrect, JournalCorrect, ServingCorrect, PTL

\* A tick, a Flush in particular, ends with every write served that was in the
\* bucket when it began, whatever was folded, deleted and inserted since
\* (fetchUnseen, rebuild).
THEOREM FlushBarrierAlways == Spec /\ []LandedOnce => []FlushBarrier
<1>1. TypeOK /\ JournalInv /\ ServingInv => FlushBarrier
  BY ReplayHeld, FlushBarrierHolds
<1>. QED
  BY <1>1, TypeCorrect, JournalCorrect, ServingCorrect, PTL

\* Read your writes: commit answers Apply when the replica serves the write,
\* and short of a restart no replica stops serving a write it served (commit,
\* the evictions and the late re-apply of rebuild).
THEOREM ReadYourWritesAlways == Spec /\ []LandedOnce => ReadYourWrites
<1>1. TypeOK /\ JournalInv /\ TypeOK' /\ JournalInv' /\ ServingInv /\ LandedOnce' /\ [Next]_vars
        => [\A r \in Replica :
              /\ Insert(r) => writer[r].key \in Applied(served'[r])
              /\ Crash(r) \/ Applied(served[r]) \subseteq Applied(served'[r])]_vars
  BY ReplayHeld, NextGrows, ServedGrows, Zenon DEF SoundStep
<1>. QED
  BY <1>1, TypeCorrect, JournalCorrect, ServingCorrect, PTL DEF Spec, ReadYourWrites

\* Nothing to replay is replayed as the empty sequence.
LEMMA CanonicalEmpty == ASSUME NEW f PROVE Canonical(f, {}) = <<>>
<1>1. Canonical(f, {}) \in Seq({}) /\ Len(Canonical(f, {})) = 0
  <2>1. IsFiniteSet({}) /\ Cardinality({}) = 0
    BY FS_EmptySet, Zenon
  <2>. QED
    BY <2>1, CanonicalSeq, Zenon
<1>. QED
  BY <1>1

\* A tick that knows every write rebuilds the canonical replay of the journal.
LEMMA TickConvergesHolds == Prompt /\ TypeOK /\ JournalInv /\ ServingInv => TickConverges
<1>. SUFFICES ASSUME Prompt, TypeOK, JournalInv, ServingInv, NEW r \in Replica, tick[r].pc = "built",
                     \A k \in Landed : \/ k \in In(tick[r].lst)
                                       \/ Covers(rolls[held[r]].mark, stamp[k], k)
              PROVE  Rebuilt(r) = Legacy \o Canonical(stamp, Landed)
  BY Zenon DEF TickConverges
<1>. DEFINE m == rolls[held[r]].mark
            I == tick[r].input
            B == Beneath(m)
<1>1. CacheSound(r) /\ BuildServing(r) /\ PromptServing(r) /\ BucketServing
  BY Zenon DEF ServingInv, ReplicaServing
<1>2. /\ I \in SUBSET Key /\ stamp \in [Key -> Nat] /\ held[r] \in 1..Len(rolls) /\ held[r] # 0
      /\ m \in MarkType
  BY InputType, HoldsRollup DEF TypeOK, BucketOK, TickOK, HasRollup
<1>3. PICK U \in SUBSET Key : BuiltFrom(r, U)
  BY <1>1, Zenon DEF BuildServing
<1>4. \A k \in I : k \in Key /\ stamp[k] # NoStamp
  BY <1>1, <1>2, Zenon DEF BuildServing
<1>5. \A k \in Landed : k \in In(tick[r].lst) \/ Folds(r, k)
  BY <1>2, Zenon DEF Folds
<1>6. \A k \in Key : stamp[k] # NoStamp /\ k \notin probes <=> k \in Landed
  BY Zenon DEF Landed, Writes, NoStamp
<1>7. \A k \in In(tick[r].lst) : Folds(r, k) \/ k \in I
  BY <1>1, Zenon DEF BuildServing
<1>8. Ops(U) = {}
  <2>1. ASSUME NEW k \in U, k \notin probes PROVE FALSE
    <3>1. k \in Landed /\ ~Folds(r, k)
      BY <1>3, <1>4, <1>6, <2>1, Zenon DEF BuiltFrom
    <3>. QED
      BY <1>3, <1>5, <2>1, <3>1, Zenon DEF BuiltFrom
  <2>. QED
    BY <2>1, Zenon DEF Ops
<1>9. Ops(Late(r)) = {}
  <2>1. ASSUME NEW k \in Late(r), k \notin probes PROVE FALSE
    <3>1. k \in Key /\ stamp[k] # NoStamp /\ k \notin I
      BY <1>1, UnlistedCached, Zenon DEF Late, CacheSound
    <3>2. k \in Landed /\ ~Folds(r, k)
      BY <1>1, <1>6, <2>1, <3>1, Zenon DEF PromptServing
    <3>. QED
      BY <1>5, <1>7, <3>1, <3>2, Zenon
  <2>. QED
    BY <2>1, Zenon DEF Ops
<1>10. Ops(I \ U) = Landed \ B
  <2>1. ASSUME NEW k \in Ops(I \ U) PROVE k \in Landed /\ k \notin B
    <3>1. k \in I \ U /\ k \notin probes /\ ~Folds(r, k)
      BY <1>3, Zenon DEF Ops, BuiltFrom
    <3>. QED
      BY <1>2, <1>4, <1>6, <3>1, Zenon DEF Beneath, Folds
  <2>2. ASSUME NEW k \in Landed \ B PROVE k \in Ops(I \ U)
    <3>1. ~Folds(r, k) /\ k \notin probes
      BY Zenon DEF Beneath, Folds, Landed, Writes
    <3>2. k \in In(tick[r].lst) /\ k \in I
      BY <1>5, <1>7, <3>1, Zenon
    <3>3. k \notin U
      BY <1>3, <3>1, <3>2, Zenon DEF BuiltFrom
    <3>. QED
      BY <3>1, <3>2, <3>3, Zenon DEF Ops
  <2>. QED
    BY <2>1, <2>2, Zenon
<1>11. PICK b, j : b = Canonical(stamp, B) /\ j = Canonical(stamp, Landed \ B)
  OBVIOUS
<1>12. B \in SUBSET Key /\ Landed \ B \in SUBSET Key /\ B \cup (Landed \ B) = Landed
  BY Zenon DEF Beneath, Landed, Writes
<1>13. b \o j = Canonical(stamp, Landed)
  <2>1. ASSUME NEW x \in B, NEW y \in Landed \ B PROVE Before(stamp, x, y)
    <3>1. Covers(m, stamp[x], x) /\ ~Covers(m, stamp[y], y) /\ x \in Key /\ y \in Key
      BY <1>12, Zenon DEF Beneath
    <3>2. x \in Nat /\ y \in Nat /\ stamp[x] \in Nat /\ stamp[y] \in Nat
      BY <3>1, StampType, Zenon
    <3>. QED
      BY <1>2, <3>1, <3>2, CoveredFirst, Zenon
  <2>2. PICK C : C = Landed \ B
    OBVIOUS
  <2>3. \A x \in B, y \in C : Before(stamp, x, y)
    BY <2>1, <2>2, Zenon
  <2>4. Canonical(stamp, B) \o Canonical(stamp, C) = Canonical(stamp, B \cup C)
    BY <1>2, <1>12, <2>2, <2>3, ReplayConcat, ReplayOrder, Zenon
  <2>. QED
    BY <1>11, <1>12, <2>2, <2>4, Zenon
<1>14. b \in Seq(Nat) /\ j \in Seq(Nat)
  <2>1. stamp \in [Key -> Int]
    BY <1>2
  <2>. QED
    BY <1>11, <1>12, <2>1, CanonicalApplied, Zenon
<1>15. Rebuilt(r) = Legacy \o b \o j \o <<>> \o <<>>
  <2>1. rolls[held[r]].state = Legacy \o b
    BY <1>1, <1>2, <1>11, Zenon DEF BucketServing
  <2>2. tick[r].built = rolls[held[r]].state \o j \o <<>>
    BY <1>3, <1>8, <1>10, <1>11, CanonicalEmpty, Zenon DEF BuiltFrom
  <2>. QED
    BY <1>9, <2>1, <2>2, CanonicalEmpty, Zenon DEF Rebuilt
<1>16. Legacy \o b \o j \in Seq(Nat) /\ Associates(Legacy, b, j)
  <2>1. \A s, t \in Seq(Nat) : s \o t \in Seq(Nat)
    OBVIOUS
  <2>2. Legacy \o b \o j \in Seq(Nat)
    BY <1>14, <2>1, LegacyAssumption, Zenon
  <2>. QED
    BY <1>14, <2>2, LegacyAssumption, ConcatAssoc, Zenon
<1>17. Legacy \o b \o j \o <<>> \o <<>> = Legacy \o b \o j
  <2>1. ASSUME NEW s \in Seq(Nat) PROVE s \o <<>> = s
    OBVIOUS
  <2>. QED
    BY <1>16, <2>1, Zenon
<1>. QED
  BY <1>13, <1>15, <1>16, <1>17, Zenon DEF Associates

\* Where LIST..GET and PUT..insert take no measurable time, no replica serves a
\* state in which a segment was applied twice (commit's insert, stamp adoption,
\* the evictions and the late re-apply of rebuild).
THEOREM AppliedOnceAlways == ASSUME Prompt PROVE Spec /\ []LandedOnce => []AppliedOnce
<1>1. ServingInv => AppliedOnce
  BY AppliedOnceHolds
<1>. QED
  BY <1>1, ServingCorrect, PTL

\* Replicas agree: under the same conditions a tick whose listing and rollup
\* together hold every write of the bucket installs the canonical replay of the
\* whole journal, however many compactions the writes went through (rebuild).
THEOREM TickConvergesAlways == ASSUME Prompt PROVE Spec /\ []LandedOnce => []TickConverges
<1>1. TypeOK /\ JournalInv /\ ServingInv => TickConverges
  BY TickConvergesHolds
<1>. QED
  BY <1>1, TypeCorrect, JournalCorrect, ServingCorrect, PTL
=============================================================================
