----------------------------- MODULE RepoCounts -----------------------------
(***************************************************************************)
(* Clone counts per repository and day in the metadata store               *)
(* (strategy/git/repocounts.go), kept by replicas whose UTC days differ by *)
(* at most one: RequestIsClone, IncrementClone, Reap and TopRepos.         *)
(***************************************************************************)
EXTENDS FiniteSets, Integers, Sequences, SequencesExt, FiniteSetsExt

CONSTANTS Replica, Repo, MaxDay, RetentionDays, MaxCount, InspectLimit, Lookahead

VARIABLES
    day,        \* replica -> its UTC day
    counts,     \* the IntMap: <<repo, day>> -> count, present or not
    reap,       \* replica -> [left: keys still to look at, cutoff], the Reap in progress
    cloned,     \* ghost: <<repo, day>> -> initial clones handled
    counted     \* ghost: <<repo, day>> -> increments sent

vars == <<day, counts, reap, cloned, counted>>

Day == 0 .. MaxDay
Key == Repo \X Day
NoReap == [left |-> {}, cutoff |-> 0]

Init ==
    /\ day = [r \in Replica |-> 0] /\ counts = [k \in {} |-> 0]
    /\ reap = [r \in Replica |-> NoReap]
    /\ cloned = [k \in Key |-> 0] /\ counted = [k \in Key |-> 0]

\* Midnight, at most a day apart on any two replicas.
Midnight(r) ==
    /\ day[r] < MaxDay /\ \A q \in Replica : day[r] <= day[q]
    /\ day' = [day EXCEPT ![r] = @ + 1] /\ UNCHANGED <<counts, reap, cloned, counted>>

-----------------------------------------------------------------------------
(* Requests: a method, a path and the pkt-lines of a body.                 *)

Bodies == {<<>>, <<"want">>, <<"want", "have">>, <<"want", "want", "have">>, <<"ls-refs">>}
Requests == [post : BOOLEAN, uploadPack : BOOLEAN, body : Bodies]

Prefix(s, n) == SubSeq(s, 1, IF Len(s) < n THEN Len(s) ELSE n)
inspectUploadPackBody(q) == Prefix(q.body, InspectLimit)
isLsRefsBody(b) == Contains(Prefix(b, Lookahead), "ls-refs")
RequestIsClone(q) ==
    /\ q.post /\ q.uploadPack
    /\ LET inspect == inspectUploadPackBody(q)
       IN ~isLsRefsBody(inspect) /\ ~Contains(inspect, "have")

\* What the request is, seen whole.
InitialClone(q) == q.post /\ q.uploadPack /\ ~Contains(q.body, "have") /\ ~Contains(q.body, "ls-refs")

Added(m, k) == [x \in DOMAIN m \cup {k} |-> (IF x \in DOMAIN m THEN m[x] ELSE 0) + (IF x = k THEN 1 ELSE 0)]
\* An increment that the store refuses is logged and dropped: it changes nothing here.
IncrementClone(r, repo, q) ==
    LET k == <<repo, day[r]>>
    IN /\ counted[k] < MaxCount /\ cloned[k] < MaxCount
       /\ counts' = IF RequestIsClone(q) THEN Added(counts, k) ELSE counts
       /\ counted' = IF RequestIsClone(q) THEN [counted EXCEPT ![k] = @ + 1] ELSE counted
       /\ cloned' = IF InitialClone(q) THEN [cloned EXCEPT ![k] = @ + 1] ELSE cloned
       /\ UNCHANGED <<day, reap>>

-----------------------------------------------------------------------------
(* Reap: entries and cutoff are taken once, the deletes follow one by one  *)
(* and stop at the first that fails.                                       *)

ReapStart(r) ==
    /\ reap[r].left = {} /\ DOMAIN counts # {}
    /\ reap' = [reap EXCEPT ![r] = [left |-> DOMAIN counts, cutoff |-> day[r] - RetentionDays]]
    /\ UNCHANGED <<day, counts, cloned, counted>>
StaleInclusive(k, cutoff) == k[2] <= cutoff
Stale(k, cutoff) == k[2] < cutoff
ReapStep(r) ==
    \E k \in reap[r].left :
        /\ \/ /\ reap' = [reap EXCEPT ![r].left = @ \ {k}]
              /\ counts' = IF Stale(k, reap[r].cutoff)
                           THEN [x \in DOMAIN counts \ {k} |-> counts[x]] ELSE counts
           \/ /\ Stale(k, reap[r].cutoff) /\ reap' = [reap EXCEPT ![r] = NoReap] /\ UNCHANGED counts
        /\ UNCHANGED <<day, cloned, counted>>

Next ==
    \E r \in Replica :
        \/ Midnight(r) \/ ReapStart(r) \/ ReapStep(r)
        \/ \E repo \in Repo, q \in Requests : IncrementClone(r, repo, q)

Spec == Init /\ [][Next]_vars

-----------------------------------------------------------------------------
Total(m, repo, first) ==
    MapThenSumSet(LAMBDA k : m[k], {k \in DOMAIN m : k[1] = repo /\ k[2] >= first})
TopRepos(r, windowDays, repo) == Total(counts, repo, day[r] - windowDays + 1)

\* Every window up to the retention shows every increment of its days to every replica,
\* although another replica may reap with a clock that is a day ahead (TopRepos, Reap).
WindowComplete ==
    \A r \in Replica, w \in 1 .. RetentionDays, repo \in Repo :
        TopRepos(r, w, repo) = Total(counted, repo, day[r] - w + 1)

\* Looking at a bounded prefix of the body may take a fetch for a clone; it never
\* overlooks a clone (RequestIsClone).
ClonesCounted == \A k \in Key : cloned[k] <= counted[k]

\* No clone is lost between the request and the table of the busiest repositories.
CountsComplete == WindowComplete /\ ClonesCounted
=============================================================================
