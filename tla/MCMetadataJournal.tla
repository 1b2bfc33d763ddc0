------------------------- MODULE MCMetadataJournal -------------------------
(* Instances of MetadataJournal for TLC.                                   *)
EXTENDS MetadataJournal, TLC

CONSTANTS r1, r2

\* A legacy object with one operation; zero is no segment's key.
MCLegacy == <<0>>

\* r1 draws every key that is not in the bucket already.
OneWriter == [r \in Replica |-> IF r = r1 THEN Key \ Backlog ELSE {}]

\* Two writers whose keys alternate.
TwoWriters == [r \in Replica |-> {k \in Key \ Backlog : k % 2 = IF r = r1 THEN 1 ELSE 0}]

\* Nobody draws a key.
NoWriter == [r \in Replica |-> {}]

\* Sound when the replicas have the same roles and draw no keys.
Twins == Permutations(Replica)
=============================================================================
