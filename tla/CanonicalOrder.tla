--------------------------- MODULE CanonicalOrder ---------------------------
(***************************************************************************)
(* The order in which the S3 metadata backend replays segments, and the    *)
(* high-water mark of a rollup: wire.go, and the sorts of tick.go and      *)
(* compact.go.  Keys are naturals that stand for UUIDv7 segment names; a   *)
(* map f gives each key its LastModified.                                  *)
(***************************************************************************)
EXTENDS Integers, FiniteSets

\* A rollup with this mark covers nothing: every key and stamp is above zero.
ZeroMark == [lm |-> 0, key |-> 0]

\* mark.covers: at or below the mark.
Covers(m, lm, k) == lm < m.lm \/ (lm = m.lm /\ k <= m.key)

\* The comparison of replay and compact: by LastModified, then by key.
Before(f, j, k) == f[j] < f[k] \/ (f[j] = f[k] /\ j < k)

\* How many elements of S come before k.
Rank(f, S, k) == Cardinality({j \in S : Before(f, j, k)})

AtRank(f, S, n) == {k \in S : Rank(f, S, k) = n}

\* S as a sequence in canonical order.
Canonical(f, S) ==
    [i \in 1..Cardinality(S) |-> CHOOSE k \in AtRank(f, S, i - 1) : TRUE]
=============================================================================
