-------------------------- MODULE BundleBuildProofs -------------------------
(***************************************************************************)
(* The sharing of a bundle's build, for any finite number of requests: a   *)
(* reference count is the number of those who hold one, so nobody reads a  *)
(* closed file and none stays open.                                        *)
(***************************************************************************)
EXTENDS BundleBuild, FiniteSetTheorems, TLAPS

Pc == {"new", "open", "join", "retain", "wait", "copy", "again", "build", "finish",
       "close", "release", "end"}
Build == [done : BOOLEAN, empty : BOOLEAN, file : {"none", "open", "closed"}, refs : Nat]
Use == [pc : Pc, kind : {"get", "pregenerate"}, on : Req \cup {Nobody}]

BundleTypes ==
    /\ table \in Req \cup {Nobody}
    /\ build \in [Req -> Build]
    /\ req \in [Req -> Use]
    /\ publisher \in [Req -> {"none", "copy", "delete", "release", "end"}]

\* A build nobody knows of yet, or that has not come to anything so far.
Fresh(r) == ~build[r].done /\ build[r].file = "none" /\ publisher[r] = "none"

\* Where a request may be, with what it uses and what became of its own build.
Placed(r) ==
    \/ req[r].pc \in {"new", "open", "join"} /\ req[r].on = Nobody /\ Fresh(r)
    \/ req[r].pc \in {"retain", "wait", "copy"} /\ req[r].on \in Req \ {r} /\ Fresh(r)
    \/ req[r].pc \in {"again", "build"} /\ req[r].on = r /\ Fresh(r) /\ table = r
    \/ req[r].pc \in {"copy", "finish"} /\ req[r].on = r /\ build[r].file # "none"
    \/ req[r].pc = "finish" /\ req[r].on = r /\ Fresh(r) /\ table = r
    \/ req[r].pc = "close" /\ req[r].on = r /\ Fresh(r)
    \/ req[r].pc = "release" /\ req[r].on = r /\ build[r].done
    \/ req[r].pc = "end" /\ req[r].on = Nobody /\ (Fresh(r) \/ build[r].done)

\* Who holds a reference on b: its owner until it has released it, its publisher
\* while it runs, and the followers that wait or copy.
Owning(b) == ~(build[b].done /\ At(b, "end"))
Publishing(b) == publisher[b] \in {"copy", "delete", "release"}
Following(r, b) == r # b /\ req[r].on = b /\ req[r].pc \in {"wait", "copy"}

Holders(b) == {h \in Req \X {"owner", "publisher", "follower"} :
                  \/ h = <<b, "owner">> /\ Owning(b)
                  \/ h = <<b, "publisher">> /\ Publishing(b)
                  \/ \E r \in Req : h = <<r, "follower">> /\ Following(r, b)}

Counted(b) == build[b].refs = Cardinality(Holders(b))

\* The file of a build, its publisher and its entry in the table.
FileSound(b) ==
    /\ build[b].file = "closed" => build[b].refs = 0
    /\ build[b].file = "open" => build[b].refs > 0
    /\ build[b].file # "none" => build[b].done
    /\ publisher[b] # "none" => build[b].file # "none"
    /\ publisher[b] \in {"copy", "delete"} => table = b
TableSound ==
    table # Nobody => \/ req[table].pc \in {"again", "build"}
                      \/ req[table].pc = "finish" /\ build[table].file = "none"
                      \/ publisher[table] \in {"copy", "delete"}

\* Whoever follows a build follows one that has ended or that its owner will end,
\* and copies only from a build with a file.
Announced(r) ==
    req[r].on \in Req \ {r} =>
        /\ \/ build[req[r].on].done
           \/ req[req[r].on].pc \in {"again", "build", "finish", "close"}
        /\ At(r, "copy") => build[req[r].on].file # "none"

\* The inductive invariant.
BundleInv ==
    /\ BundleTypes /\ TableSound
    /\ \A r \in Req : Placed(r) /\ Announced(r) /\ FileSound(r) /\ Counted(r)

\* Requests are finitely many, and the empty entry of the table is none of them.
Requests == IsFiniteSet(Req) /\ Nobody \notin Req

-----------------------------------------------------------------------------
(* Who joins the holders of a reference, and who leaves them.              *)

LEMMA HoldersFinite ==
    ASSUME Requests, NEW b \in Req
    PROVE  IsFiniteSet(Holders(b))
<1>1. IsFiniteSet({"owner", "publisher", "follower"})
  <2>1. {"owner", "publisher", "follower"} = {"owner"} \cup {"publisher"} \cup {"follower"}
    OBVIOUS
  <2>2. IsFiniteSet({"owner"}) /\ IsFiniteSet({"publisher"}) /\ IsFiniteSet({"follower"})
    BY FS_Singleton, Zenon
  <2>3. IsFiniteSet({"owner"} \cup {"publisher"})
    BY <2>2, FS_Union, Zenon
  <2>4. IsFiniteSet({"owner"} \cup {"publisher"} \cup {"follower"})
    BY <2>2, <2>3, FS_Union, Zenon
  <2> QED
    BY <2>1, <2>4, Zenon
<1>2. IsFiniteSet(Req \X {"owner", "publisher", "follower"})
  BY <1>1, FS_Product, Zenon DEF Requests
<1>3. Holders(b) \subseteq Req \X {"owner", "publisher", "follower"}
  BY Zenon DEF Holders
<1> QED
  BY <1>2, <1>3, FS_Subset, Zenon

LEMMA CountSame ==
    ASSUME NEW b \in Req, Counted(b), build'[b].refs = build[b].refs,
           Owning(b)' <=> Owning(b), Publishing(b)' <=> Publishing(b),
           \A r \in Req : Following(r, b)' <=> Following(r, b)
    PROVE  Counted(b)'
<1>1. Holders(b)' = Holders(b)
  BY Zenon DEF Holders
<1> QED
  BY <1>1, Zenon DEF Counted

LEMMA CountUp ==
    ASSUME Requests, NEW b \in Req, BundleTypes, Counted(b), build'[b].refs = build[b].refs + 1,
           NEW h, h \notin Holders(b), Holders(b)' = Holders(b) \cup {h}
    PROVE  Counted(b)'
<1>1. Cardinality(Holders(b) \cup {h}) = Cardinality(Holders(b)) + 1
  BY HoldersFinite, FS_AddElement
<1> QED
  BY <1>1 DEF Counted

LEMMA CountDown ==
    ASSUME Requests, NEW b \in Req, BundleTypes, Counted(b), build'[b].refs = build[b].refs - 1,
           NEW h, h \in Holders(b), Holders(b)' = Holders(b) \ {h}
    PROVE  Counted(b)'
<1>1. Cardinality(Holders(b) \ {h}) = Cardinality(Holders(b)) - 1
  BY HoldersFinite, FS_RemoveElement
<1> QED
  BY <1>1 DEF Counted

\* A build that somebody holds has a positive count.
LEMMA HeldPositive ==
    ASSUME Requests, NEW b \in Req, BundleTypes, Counted(b), NEW h \in Holders(b)
    PROVE  build[b].refs > 0
<1>1. IsFiniteSet(Holders(b)) /\ Holders(b) # {}
  BY HoldersFinite
<1>2. Cardinality(Holders(b)) # 0
  BY <1>1, FS_EmptySet, Zenon
<1>3. build[b].refs \in Nat
  BY DEF BundleTypes, Build
<1> QED
  BY <1>2, <1>3 DEF Counted

LEMMA FollowerJoins ==
    ASSUME Requests, NEW b \in Req, NEW r \in Req, BundleTypes, Counted(b),
           build'[b].refs = build[b].refs + 1,
           Owning(b)' <=> Owning(b), Publishing(b)' <=> Publishing(b),
           \A o \in Req \ {r} : Following(o, b)' <=> Following(o, b),
           ~Following(r, b), Following(r, b)'
    PROVE  Counted(b)'
<1>1. <<r, "follower">> \notin Holders(b)
  BY DEF Holders
<1>2. Holders(b)' = Holders(b) \cup {<<r, "follower">>}
  BY DEF Holders
<1> QED
  BY <1>1, <1>2, CountUp

LEMMA FollowerLeaves ==
    ASSUME Requests, NEW b \in Req, NEW r \in Req, BundleTypes, Counted(b),
           build'[b].refs = build[b].refs - 1,
           Owning(b)' <=> Owning(b), Publishing(b)' <=> Publishing(b),
           \A o \in Req \ {r} : Following(o, b)' <=> Following(o, b),
           Following(r, b), ~Following(r, b)'
    PROVE  Counted(b)'
<1>1. <<r, "follower">> \in Holders(b)
  BY DEF Holders
<1>2. Holders(b)' = Holders(b) \ {<<r, "follower">>}
  BY DEF Holders
<1> QED
  BY <1>1, <1>2, CountDown

LEMMA OwnerLeaves ==
    ASSUME Requests, NEW b \in Req, BundleTypes, Counted(b),
           build'[b].refs = build[b].refs - 1,
           Owning(b), ~Owning(b)', Publishing(b)' <=> Publishing(b),
           \A o \in Req : Following(o, b)' <=> Following(o, b)
    PROVE  Counted(b)'
<1>1. <<b, "owner">> \in Holders(b)
  BY DEF Holders
<1>2. Holders(b)' = Holders(b) \ {<<b, "owner">>}
  BY DEF Holders
<1> QED
  BY <1>1, <1>2, CountDown

LEMMA PublisherJoins ==
    ASSUME Requests, NEW b \in Req, BundleTypes, Counted(b),
           build'[b].refs = build[b].refs + 1,
           Owning(b)' <=> Owning(b), ~Publishing(b), Publishing(b)',
           \A o \in Req : Following(o, b)' <=> Following(o, b)
    PROVE  Counted(b)'
<1>1. <<b, "publisher">> \notin Holders(b)
  BY DEF Holders
<1>2. Holders(b)' = Holders(b) \cup {<<b, "publisher">>}
  BY DEF Holders
<1> QED
  BY <1>1, <1>2, CountUp

LEMMA PublisherLeaves ==
    ASSUME Requests, NEW b \in Req, BundleTypes, Counted(b),
           build'[b].refs = build[b].refs - 1,
           Owning(b)' <=> Owning(b), Publishing(b), ~Publishing(b)',
           \A o \in Req : Following(o, b)' <=> Following(o, b)
    PROVE  Counted(b)'
<1>1. <<b, "publisher">> \in Holders(b)
  BY DEF Holders
<1>2. Holders(b)' = Holders(b) \ {<<b, "publisher">>}
  BY DEF Holders
<1> QED
  BY <1>1, <1>2, CountDown

-----------------------------------------------------------------------------
(* Steps of one request, and what they leave to the others.                *)

OthersReq(r) == \A o \in Req \ {r} : req'[o] = req[o]
OthersBuild(b) == \A o \in Req \ {b} : build'[o] = build[o]
Busy == {"again", "build", "finish", "close"}

LEMMA GoMoves ==
    ASSUME BundleTypes, NEW r \in Req, NEW pc \in Pc, Go(r, pc)
    PROVE  /\ req' \in [Req -> Use] /\ OthersReq(r)
           /\ req'[r].pc = pc /\ req'[r].on = req[r].on
  BY DEF BundleTypes, Go, OthersReq, Use

LEMMA TurnMoves ==
    ASSUME BundleTypes, NEW r \in Req, NEW pc \in Pc, NEW on \in Req \cup {Nobody},
           req' = [req EXCEPT ![r].pc = pc, ![r].on = on]
    PROVE  /\ req' \in [Req -> Use] /\ OthersReq(r)
           /\ req'[r].pc = pc /\ req'[r].on = on
  BY DEF BundleTypes, OthersReq, Use

\* retain and release change the count, and release the file of the last holder.
LEMMA RetainMoves ==
    ASSUME BundleTypes, NEW b \in Req, build' = [build EXCEPT ![b] = Retained(@)]
    PROVE  /\ build' \in [Req -> Build] /\ OthersBuild(b)
           /\ build'[b].refs = build[b].refs + 1 /\ build'[b].refs > 0
           /\ build'[b].done = build[b].done /\ build'[b].file = build[b].file
  BY DEF BundleTypes, Build, OthersBuild, Retained

LEMMA OneLess ==
    \A n \in Nat : n > 0 => n - 1 \in Nat /\ (n = 1 => n - 1 = 0) /\ (n # 1 => n - 1 > 0)
  BY SMT

LEMMA ReleasedRecord ==
    ASSUME NEW c \in Build, c.refs > 0, c.file # "closed"
    PROVE  /\ Released(c) \in Build
           /\ Released(c).refs = c.refs - 1
           /\ Released(c).done = c.done
           /\ (Released(c).file = "none") <=> (c.file = "none")
           /\ Released(c).file = "closed" => Released(c).refs = 0
           /\ Released(c).file = "open" => Released(c).refs > 0
<1> DEFINE f == IF c.refs = 1 /\ c.file = "open" THEN "closed" ELSE c.file
           d == [c EXCEPT !.refs = c.refs - 1, !.file = f]
<1>1. Released(c) = d
  BY DEF Released
<1>2. /\ c.refs \in Nat /\ c.refs - 1 \in Nat /\ c.file \in {"none", "open"}
      /\ c.refs = 1 => c.refs - 1 = 0
      /\ c.refs # 1 => c.refs - 1 > 0
  BY OneLess DEF Build
<1>3. f \in {"none", "open", "closed"}
  BY <1>2
<1>4. /\ (f = "none") <=> (c.file = "none")
      /\ f = "closed" => c.refs = 1
      /\ f = "open" => c.refs # 1
  BY <1>2
<1> HIDE DEF f
<1>5. d \in Build /\ d.refs = c.refs - 1 /\ d.done = c.done /\ d.file = f
  BY <1>2, <1>3 DEF Build
<1> HIDE DEF d
<1> QED
  BY <1>1, <1>2, <1>4, <1>5

LEMMA ReleaseMoves ==
    ASSUME BundleTypes, NEW b \in Req, build[b].refs > 0, FileSound(b),
           build' = [build EXCEPT ![b] = Released(@)]
    PROVE  /\ build' \in [Req -> Build] /\ OthersBuild(b)
           /\ build'[b].refs = build[b].refs - 1
           /\ build'[b].done = build[b].done
           /\ (build'[b].file = "none") <=> (build[b].file = "none")
           /\ build'[b].file = "closed" => build'[b].refs = 0
           /\ build'[b].file = "open" => build'[b].refs > 0
<1> DEFINE c == build[b]
           d == Released(c)
<1>1. c \in Build /\ c.refs \in Nat /\ c.file # "closed"
  BY DEF BundleTypes, Build, FileSound
<1>2. /\ d \in Build /\ d.refs = c.refs - 1 /\ d.done = c.done
      /\ (d.file = "none") <=> (c.file = "none")
      /\ d.file = "closed" => d.refs = 0
      /\ d.file = "open" => d.refs > 0
  BY <1>1, ReleasedRecord
<1>3. build'[b] = d /\ OthersBuild(b)
  BY DEF BundleTypes, OthersBuild
<1>4. build' \in [Req -> Build]
  <2>1. build' = [build EXCEPT ![b] = d]
    OBVIOUS
  <2> HIDE DEF d
  <2> QED
    BY <1>2, <2>1 DEF BundleTypes
<1> QED
  BY <1>2, <1>3, <1>4

LEMMA PlacedKept ==
    ASSUME NEW r \in Req, OthersReq(r),
           \A o \in Req \ {r} : /\ Placed(o)
                                /\ build'[o].done = build[o].done
                                /\ (build'[o].file = "none") <=> (build[o].file = "none")
                                /\ publisher'[o] = publisher[o]
                                /\ table = o => table' = o
    PROVE  \A o \in Req \ {r} : Placed(o)'
<1> SUFFICES ASSUME NEW o \in Req \ {r} PROVE Placed(o)'
  OBVIOUS
<1>1. req'[o] = req[o]
  BY DEF OthersReq
<1>2. Fresh(o)' <=> Fresh(o)
  BY DEF Fresh
<1> QED
  BY <1>1, <1>2 DEF Placed

LEMMA AnnouncedKept ==
    ASSUME NEW r \in Req, OthersReq(r), \A o \in Req : Announced(o),
           \A b \in Req : /\ build[b].done => build'[b].done
                          /\ build[b].file # "none" => build'[b].file # "none",
           req[r].pc \in Busy => req'[r].pc \in Busy \/ build'[r].done
    PROVE  \A o \in Req \ {r} : Announced(o)'
<1> SUFFICES ASSUME NEW o \in Req \ {r}, req'[o].on \in Req \ {o} PROVE Announced(o)'
  BY DEF Announced
<1>1. req'[o] = req[o] /\ Announced(o)
  BY DEF OthersReq
<1> DEFINE b == req[o].on
<1>2. b \in Req \ {o}
  BY <1>1
<1>3. build[b].done \/ req[b].pc \in Busy
  BY <1>1, <1>2 DEF Announced, Busy
<1>4. build'[b].done \/ req'[b].pc \in Busy
  BY <1>2, <1>3 DEF OthersReq
<1>5. At(o, "copy")' => build'[b].file # "none"
  BY <1>1, <1>2 DEF Announced, At
<1> QED
  BY <1>1, <1>2, <1>4, <1>5 DEF Announced, Busy

\* A step of r that leaves every count and every file alone.
LEMMA QuietStep ==
    ASSUME BundleInv, NEW r \in Req,
           req' \in [Req -> Use], OthersReq(r), build' \in [Req -> Build], OthersBuild(r),
           build'[r].refs = build[r].refs, build'[r].file = build[r].file,
           build[r].done => build'[r].done,
           UNCHANGED publisher, table' \in Req \cup {Nobody}, TableSound',
           \A o \in Req \ {r} : table = o => table' = o,
           publisher[r] \in {"copy", "delete"} => table' = r,
           Placed(r)', Announced(r)', Owning(r)' <=> Owning(r),
           \A b \in Req : Following(r, b)' <=> Following(r, b),
           req[r].pc \in Busy => req'[r].pc \in Busy \/ build'[r].done
    PROVE  BundleInv'
<1> USE DEF BundleInv
<1>1. BundleTypes'
  BY DEF BundleTypes
<1>2. \A o \in Req : Placed(o)'
  BY PlacedKept DEF OthersBuild
<1>3. \A o \in Req : Announced(o)'
  BY AnnouncedKept DEF OthersBuild
<1>4. ASSUME NEW o \in Req PROVE FileSound(o)'
  <2>1. CASE o = r
    BY <2>1 DEF FileSound
  <2>2. CASE o # r
    BY <2>2 DEF FileSound, OthersBuild
  <2> QED
    BY <2>1, <2>2
<1>5. ASSUME NEW b \in Req PROVE Counted(b)'
  <2>1. Owning(b)' <=> Owning(b)
    BY DEF Owning, OthersReq, OthersBuild, At
  <2>2. \A o \in Req : Following(o, b)' <=> Following(o, b)
    BY DEF Following, OthersReq
  <2>3. build'[b].refs = build[b].refs /\ (Publishing(b)' <=> Publishing(b))
    BY DEF OthersBuild, Publishing
  <2> QED
    BY <2>1, <2>2, <2>3, CountSame
<1> QED
  BY <1>1, <1>2, <1>3, <1>4, <1>5
-----------------------------------------------------------------------------
(* One step per action.                                                    *)

\* A request that has no build yet and follows none turns elsewhere: to another
\* place without a build, or away.
LEMMA StrayStep ==
    ASSUME BundleInv, NEW r \in Req, Placed(r), Fresh(r),
           req[r].pc \in {"new", "open", "join", "retain"},
           req' \in [Req -> Use], OthersReq(r),
           req'[r].pc \in {"open", "join", "end"}, req'[r].on = Nobody, Nobody \notin Req,
           UNCHANGED <<table, build, publisher>>
    PROVE  BundleInv'
<1>1. build' \in [Req -> Build] /\ OthersBuild(r)
  BY DEF BundleInv, BundleTypes, OthersBuild
<1>2. TableSound' /\ table' \in Req \cup {Nobody}
  <2>1. table # r
    BY DEF BundleInv, TableSound, Fresh
  <2> QED
    BY <2>1 DEF BundleInv, BundleTypes, TableSound, OthersReq
<1>3. Placed(r)' /\ Announced(r)'
  BY DEF Placed, Announced, Fresh
<1>4. Owning(r)' <=> Owning(r)
  BY DEF Owning, Fresh
<1>5. \A b \in Req : Following(r, b)' <=> Following(r, b)
  BY DEF Following
<1>6. ~(publisher[r] \in {"copy", "delete"}) /\ ~(req[r].pc \in Busy)
  BY DEF Fresh, Busy
<1> QED
  BY <1>1, <1>2, <1>3, <1>4, <1>5, <1>6, QuietStep

LEMMA ArriveStep ==
    ASSUME Requests, BundleInv, NEW r \in Req, NEW k \in {"get", "pregenerate"}, Arrive(r, k)
    PROVE  BundleInv'
<1>1. req[r].pc = "new" /\ Placed(r) /\ UNCHANGED <<table, build, publisher>>
  BY DEF Arrive, At, BundleInv
<1>2. /\ req' \in [Req -> Use] /\ OthersReq(r)
      /\ req'[r].pc \in {"open", "join"} /\ req'[r].on = Nobody
  BY DEF Arrive, BundleInv, BundleTypes, OthersReq, Use, Pc
<1>3. Fresh(r)
  BY <1>1 DEF Placed
<1> QED
  BY <1>1, <1>2, <1>3, StrayStep DEF Requests

LEMMA OpenStep ==
    ASSUME Requests, BundleInv, NEW r \in Req, Open(r)
    PROVE  BundleInv'
<1>1. req[r].pc = "open" /\ Placed(r) /\ UNCHANGED <<table, build, publisher>>
  BY DEF Open, At, BundleInv
<1>2. Fresh(r) /\ req[r].on = Nobody
  BY <1>1 DEF Placed
<1>3. PICK pc \in {"end", "join"} : Go(r, pc)
  BY DEF Open
<1>4. pc \in Pc /\ BundleTypes
  BY DEF Pc, BundleInv
<1>5. req' \in [Req -> Use] /\ OthersReq(r) /\ req'[r].pc = pc /\ req'[r].on = Nobody
  BY <1>2, <1>3, <1>4, GoMoves
<1> QED
  BY <1>1, <1>2, <1>5, StrayStep DEF Requests

\* A step of the owner of a build on which only its place depends.
LEMMA OwnerStep ==
    ASSUME BundleInv, NEW r \in Req,
           req[r].on = r, req'[r].on = r, req[r].pc # "end", req'[r].pc # "end",
           req' \in [Req -> Use], OthersReq(r), build' \in [Req -> Build], OthersBuild(r),
           build'[r].refs = build[r].refs, build'[r].file = build[r].file,
           build[r].done => build'[r].done,
           UNCHANGED publisher, table' \in Req \cup {Nobody}, TableSound',
           \A o \in Req \ {r} : table = o => table' = o,
           publisher[r] \in {"copy", "delete"} => table' = r,
           Placed(r)', req'[r].pc \in Busy \/ build'[r].done
    PROVE  BundleInv'
<1>1. Announced(r)' /\ (Owning(r)' <=> Owning(r))
  BY DEF Announced, Owning, At
<1>2. \A b \in Req : Following(r, b)' <=> Following(r, b)
  BY DEF Following
<1> QED
  BY <1>1, <1>2, QuietStep

LEMMA OpenAgainStep ==
    ASSUME BundleInv, NEW r \in Req, OpenAgain(r) \/ BuildFails(r) \/ BuildEmpty(r)
    PROVE  BundleInv'
<1>1. /\ req[r].pc \in {"again", "build"} /\ Placed(r) /\ BundleTypes
      /\ UNCHANGED <<table, publisher>>
  BY DEF OpenAgain, BuildFails, BuildEmpty, At, BundleInv
<1>2. Fresh(r) /\ req[r].on = r /\ table = r
  BY <1>1 DEF Placed
<1>3. PICK pc \in {"finish", "build"} : Go(r, pc)
  BY DEF OpenAgain, BuildFails, BuildEmpty
<1>4. pc \in Pc
  BY DEF Pc
<1>5. req' \in [Req -> Use] /\ OthersReq(r) /\ req'[r].pc = pc /\ req'[r].on = r
  BY <1>1, <1>2, <1>3, <1>4, GoMoves
<1>6. /\ build' \in [Req -> Build] /\ OthersBuild(r)
      /\ build'[r].refs = build[r].refs /\ build'[r].file = build[r].file
      /\ build'[r].done = build[r].done
  <2>1. CASE UNCHANGED build
    BY <1>1, <2>1 DEF BundleTypes, OthersBuild
  <2>2. CASE BuildEmpty(r)
    <3>1. PICK e \in BOOLEAN : build' = [build EXCEPT ![r].empty = e]
      BY <2>2 DEF BuildEmpty
    <3> QED
      BY <1>1, <3>1 DEF BundleTypes, OthersBuild, Build
  <2> QED
    BY <2>1, <2>2 DEF OpenAgain, BuildFails
<1>7. Placed(r)'
  BY <1>1, <1>2, <1>5, <1>6 DEF Placed, Fresh
<1>8. TableSound' /\ table' \in Req \cup {Nobody}
  BY <1>1, <1>2, <1>5, <1>6 DEF TableSound, Fresh
<1> QED
  BY <1>1, <1>2, <1>5, <1>6, <1>7, <1>8, OwnerStep DEF Busy

LEMMA JoinStep ==
    ASSUME Requests, BundleInv, NEW r \in Req, Join(r)
    PROVE  BundleInv'
<1>1. /\ req[r].pc = "join" /\ Placed(r) /\ BundleTypes /\ TableSound
      /\ UNCHANGED <<build, publisher>>
  BY DEF Join, At, BundleInv
<1>2. Fresh(r) /\ req[r].on = Nobody
  BY <1>1 DEF Placed
<1>3. build' \in [Req -> Build] /\ OthersBuild(r)
  BY <1>1 DEF BundleTypes, OthersBuild
<1>4. CASE table = Nobody
  <2>1. table' = r /\ req' = [req EXCEPT ![r].pc = "again", ![r].on = r]
    BY <1>4 DEF Join
  <2>2. "again" \in Pc
    BY DEF Pc
  <2>3. /\ req' \in [Req -> Use] /\ OthersReq(r)
        /\ req'[r].pc = "again" /\ req'[r].on = r
    BY <1>1, <2>1, <2>2, TurnMoves
  <2>4. TableSound' /\ table' \in Req \cup {Nobody}
    BY <2>1, <2>3 DEF TableSound
  <2>5. \A o \in Req \ {r} : table = o => table' = o
    BY <1>4 DEF Requests
  <2>6. Placed(r)' /\ Announced(r)'
    BY <1>1, <1>2, <2>1, <2>3 DEF Placed, Announced, Fresh
  <2>7. Owning(r)' <=> Owning(r)
    BY <1>1, <2>3 DEF Owning, At
  <2>8. \A b \in Req : Following(r, b)' <=> Following(r, b)
    BY <1>1, <2>3 DEF Following
  <2> QED
    BY <1>1, <1>3, <2>1, <2>3, <2>4, <2>5, <2>6, <2>7, <2>8, QuietStep DEF Busy
<1>5. CASE table # Nobody /\ req[r].kind = "get"
  <2>1. table' = table /\ req' = [req EXCEPT ![r].pc = "retain", ![r].on = table]
    BY <1>5 DEF Join
  <2>2. "retain" \in Pc /\ table \in Req
    BY <1>1, <1>5 DEF Pc, BundleTypes
  <2>3. /\ req' \in [Req -> Use] /\ OthersReq(r)
        /\ req'[r].pc = "retain" /\ req'[r].on = table
    BY <1>1, <2>1, <2>2, TurnMoves
  <2>4. table # r
    BY <1>1, <1>2, <1>5 DEF TableSound, Fresh
  <2>5. TableSound' /\ table' \in Req \cup {Nobody}
    BY <1>1, <2>1, <2>2, <2>3, <2>4 DEF TableSound, OthersReq
  <2>6. build[table].done \/ req[table].pc \in {"again", "build", "finish", "close"}
    BY <1>1, <1>5, <2>2 DEF TableSound, BundleInv, FileSound
  <2>7. Placed(r)'
    BY <1>1, <1>2, <2>2, <2>3, <2>4 DEF Placed, Fresh
  <2>8. Announced(r)'
    BY <1>1, <2>2, <2>3, <2>4, <2>6 DEF Announced, OthersReq, At
  <2>9. Owning(r)' <=> Owning(r)
    BY <1>1, <2>3 DEF Owning, At
  <2>10. \A b \in Req : Following(r, b)' <=> Following(r, b)
    BY <1>1, <2>3 DEF Following
  <2>11. ~(publisher[r] \in {"copy", "delete"})
    BY <1>2 DEF Fresh
  <2> QED
    BY <1>1, <1>3, <2>1, <2>3, <2>5, <2>7, <2>8, <2>9, <2>10, <2>11, QuietStep DEF Busy
<1>6. CASE table # Nobody /\ req[r].kind # "get"
  <2>1. table' = table /\ Go(r, "end")
    BY <1>6 DEF Join, Go
  <2>2. "end" \in Pc
    BY DEF Pc
  <2>3. /\ req' \in [Req -> Use] /\ OthersReq(r)
        /\ req'[r].pc = "end" /\ req'[r].on = Nobody
    BY <1>1, <1>2, <2>1, <2>2, GoMoves
  <2> QED
    BY <1>1, <1>2, <2>1, <2>3, StrayStep DEF Requests
<1> QED
  BY <1>4, <1>5, <1>6
LEMMA FollowerHolds ==
    ASSUME Requests, BundleInv, NEW r \in Req, NEW b \in Req, Following(r, b)
    PROVE  build[b].refs > 0
<1>1. <<r, "follower">> \in Holders(b)
  BY DEF Holders
<1> QED
  BY <1>1, HeldPositive DEF BundleInv

LEMMA OwnerHolds ==
    ASSUME Requests, BundleInv, NEW b \in Req, Owning(b)
    PROVE  build[b].refs > 0
<1>1. <<b, "owner">> \in Holders(b)
  BY DEF Holders
<1> QED
  BY <1>1, HeldPositive DEF BundleInv

LEMMA PublisherHolds ==
    ASSUME Requests, BundleInv, NEW b \in Req, Publishing(b)
    PROVE  build[b].refs > 0
<1>1. <<b, "publisher">> \in Holders(b)
  BY DEF Holders
<1> QED
  BY <1>1, HeldPositive DEF BundleInv

LEMMA RetainStep ==
    ASSUME Requests, BundleInv, NEW r \in Req, Retain(r)
    PROVE  BundleInv'
<1>1. req[r].pc = "retain" /\ Placed(r) /\ BundleTypes /\ UNCHANGED <<table, publisher>>
  BY DEF Retain, At, BundleInv
<1>2. Fresh(r) /\ req[r].on \in Req \ {r}
  BY <1>1 DEF Placed
<1> PICK b \in Req \ {r} : b = req[r].on
  BY <1>2
<1>3. CASE build[b].refs > 0
  <2>1. build' = [build EXCEPT ![b] = Retained(@)] /\ Go(r, "wait")
    BY <1>3 DEF Retain
  <2>2. "wait" \in Pc
    BY DEF Pc
  <2>3. req' \in [Req -> Use] /\ OthersReq(r) /\ req'[r].pc = "wait" /\ req'[r].on = b
    BY <1>1, <2>1, <2>2, GoMoves
  <2>4. /\ build' \in [Req -> Build] /\ OthersBuild(b)
        /\ build'[b].refs = build[b].refs + 1 /\ build'[b].refs > 0
        /\ build'[b].done = build[b].done /\ build'[b].file = build[b].file
    BY <1>1, <1>2, <2>1, RetainMoves
  <2>5. \A o \in Req : build'[o].done = build[o].done /\ build'[o].file = build[o].file
    BY <2>4 DEF OthersBuild
  <2>6. BundleTypes' /\ TableSound'
    <3>1. table # r
      BY <1>1, <1>2 DEF BundleInv, TableSound, Fresh, Requests
    <3> QED
      BY <1>1, <2>3, <2>4, <2>5, <3>1 DEF BundleInv, BundleTypes, TableSound, OthersReq
  <2>7. \A o \in Req : Placed(o)'
    <3>1. Placed(r)'
      BY <1>1, <1>2, <2>3, <2>5 DEF Placed, Fresh
    <3>2. \A o \in Req \ {r} : Placed(o)'
      BY <1>1, <2>3, <2>5, PlacedKept DEF BundleInv
    <3> QED
      BY <3>1, <3>2
  <2>8. \A o \in Req : Announced(o)'
    <3>1. Announced(r)'
      BY <1>1, <1>2, <2>3, <2>5 DEF BundleInv, Announced, At, OthersReq
    <3>2. \A o \in Req \ {r} : Announced(o)'
      BY <1>1, <2>3, <2>5, AnnouncedKept DEF BundleInv, Busy
    <3> QED
      BY <3>1, <3>2
  <2>9. ASSUME NEW o \in Req PROVE FileSound(o)'
    <3>1. CASE o = b
      <4>1. FileSound(b) /\ build[b].file # "closed"
        BY <1>1, <1>2, <1>3 DEF BundleInv, FileSound, BundleTypes, Build
      <4> QED
        BY <1>1, <2>4, <3>1, <4>1 DEF FileSound
    <3>2. CASE o # b
      BY <1>1, <2>4, <3>2 DEF BundleInv, FileSound, OthersBuild
    <3> QED
      BY <3>1, <3>2
  <2>10. ASSUME NEW o \in Req PROVE Counted(o)'
    <3>1. Owning(o)' <=> Owning(o)
      BY <1>1, <2>3, <2>5 DEF Owning, OthersReq, At
    <3>2. Publishing(o)' <=> Publishing(o)
      BY <1>1 DEF Publishing
    <3>3. \A q \in Req \ {r} : Following(q, o)' <=> Following(q, o)
      BY <2>3 DEF Following, OthersReq
    <3>4. CASE o = b
      <4>1. ~Following(r, b) /\ Following(r, b)'
        BY <1>1, <1>2, <2>3 DEF Following
      <4> QED
        BY <1>1, <2>4, <3>1, <3>2, <3>3, <3>4, <4>1, FollowerJoins DEF BundleInv
    <3>5. CASE o # b
      <4>1. \A q \in Req : Following(q, o)' <=> Following(q, o)
        BY <1>1, <2>3, <3>3, <3>5 DEF Following
      <4>2. build'[o].refs = build[o].refs
        BY <2>4, <3>5 DEF OthersBuild
      <4> QED
        BY <3>1, <3>2, <4>1, <4>2, CountSame DEF BundleInv
    <3> QED
      BY <3>4, <3>5
  <2> QED
    BY <2>6, <2>7, <2>8, <2>9, <2>10 DEF BundleInv
<1>4. CASE ~(build[b].refs > 0)
  <2>1. build' = build /\ req' = [req EXCEPT ![r].pc = "open", ![r].on = Nobody]
    BY <1>4 DEF Retain
  <2>2. "open" \in Pc
    BY DEF Pc
  <2>3. /\ req' \in [Req -> Use] /\ OthersReq(r)
        /\ req'[r].pc = "open" /\ req'[r].on = Nobody
    BY <1>1, <2>1, <2>2, TurnMoves
  <2> QED
    BY <1>1, <1>2, <2>1, <2>3, StrayStep DEF Requests
<1> QED
  BY <1>3, <1>4

\* What a release of b by anyone leaves as it was.
Releases(b) ==
    /\ build' \in [Req -> Build] /\ OthersBuild(b)
    /\ build'[b].refs = build[b].refs - 1
    /\ \A o \in Req : /\ build'[o].done = build[o].done
                      /\ (build'[o].file = "none") <=> (build[o].file = "none")

FilesSound == \A o \in Req : FileSound(o)

LEMMA ReleaseKeeps ==
    ASSUME BundleInv, NEW b \in Req, build[b].refs > 0,
           build' = [build EXCEPT ![b] = Released(@)], UNCHANGED table,
           publisher'[b] \in {"copy", "delete"} => publisher[b] \in {"copy", "delete"},
           publisher'[b] # "none" => publisher[b] # "none",
           \A o \in Req \ {b} : publisher'[o] = publisher[o]
    PROVE  Releases(b) /\ FilesSound'
<1>1. BundleTypes /\ FileSound(b)
  BY DEF BundleInv
<1>2. /\ build' \in [Req -> Build] /\ OthersBuild(b)
      /\ build'[b].refs = build[b].refs - 1
      /\ build'[b].done = build[b].done
      /\ (build'[b].file = "none") <=> (build[b].file = "none")
      /\ build'[b].file = "closed" => build'[b].refs = 0
      /\ build'[b].file = "open" => build'[b].refs > 0
  BY <1>1, ReleaseMoves
<1>3. FileSound(b)'
  BY <1>1, <1>2 DEF FileSound
<1>4. ASSUME NEW o \in Req \ {b}
      PROVE  build'[o] = build[o] /\ FileSound(o)'
  BY <1>2 DEF OthersBuild, FileSound, BundleInv
<1>5. Releases(b)
  BY <1>2, <1>4 DEF Releases
<1> QED
  BY <1>3, <1>4, <1>5 DEF FilesSound

\* A follower gives its reference back and turns away.
LEMMA FollowerStep ==
    ASSUME Requests, BundleInv, NEW r \in Req, NEW b \in Req, Following(r, b),
           Releases(b), FilesSound',
           req' \in [Req -> Use], OthersReq(r),
           req'[r].pc \in {"open", "end"}, req'[r].on = Nobody,
           UNCHANGED <<table, publisher>>
    PROVE  BundleInv'
<1>1. BundleTypes /\ Placed(r) /\ b # r /\ req[r].on = b /\ req[r].pc \in {"wait", "copy"}
  BY DEF BundleInv, Following
<1>2. Fresh(r)
  BY <1>1 DEF Placed
<1>4. /\ build' \in [Req -> Build] /\ OthersBuild(b)
      /\ build'[b].refs = build[b].refs - 1
  BY DEF Releases
<1>3. \A o \in Req : /\ build'[o].done = build[o].done
                     /\ (build'[o].file = "none") <=> (build[o].file = "none")
  BY DEF Releases
<1>5. BundleTypes' /\ TableSound'
  <2>1. table # r
    BY <1>1, <1>2 DEF BundleInv, TableSound, Fresh, Requests
  <2> QED
    BY <1>1, <1>3, <1>4, <2>1 DEF BundleInv, BundleTypes, TableSound, OthersReq
<1>6. \A o \in Req : Placed(o)'
  <2>1. Placed(r)'
    BY <1>2, <1>3 DEF Placed, Fresh
  <2>2. \A o \in Req \ {r} : Placed(o)'
    <3>1. \A o \in Req \ {r} : /\ Placed(o)
                               /\ build'[o].done = build[o].done
                               /\ (build'[o].file = "none") <=> (build[o].file = "none")
                               /\ publisher'[o] = publisher[o]
                               /\ table = o => table' = o
      BY <1>3, Zenon DEF BundleInv
    <3> QED
      BY <3>1, PlacedKept, Zenon
  <2> QED
    BY <2>1, <2>2
<1>7. \A o \in Req : Announced(o)'
  <2>1. Announced(r)'
    BY DEF Announced, Requests
  <2>2. \A o \in Req \ {r} : Announced(o)'
    <3>1. \A o \in Req : Announced(o)
      BY Zenon DEF BundleInv
    <3>2. \A o \in Req : /\ build[o].done => build'[o].done
                         /\ build[o].file # "none" => build'[o].file # "none"
      BY <1>3, Zenon
    <3>3. req[r].pc \notin Busy
      BY <1>1 DEF Busy
    <3> QED
      BY <3>1, <3>2, <3>3, AnnouncedKept, Zenon
  <2> QED
    BY <2>1, <2>2
<1>8. ASSUME NEW o \in Req PROVE Counted(o)'
  <2>1. Owning(o)' <=> Owning(o)
    <3>1. CASE o = r
      <4>1. ~build[o].done /\ ~build'[o].done
        BY <1>2, <1>3, <3>1, Zenon DEF Fresh
      <4> QED
        BY <4>1, Zenon DEF Owning
    <3>2. CASE o # r
      <4>1. req'[o] = req[o] /\ build'[o].done = build[o].done
        BY <1>3, <3>2, Zenon DEF OthersReq
      <4> QED
        BY <4>1, Zenon DEF Owning, At
    <3> QED
      BY <3>1, <3>2
  <2>2. Publishing(o)' <=> Publishing(o)
    BY DEF Publishing
  <2>3. \A q \in Req \ {r} : Following(q, o)' <=> Following(q, o)
    BY DEF Following, OthersReq
  <2>4. ~Following(r, o)'
    BY DEF Following, Requests
  <2>5. CASE o = b
    BY <1>1, <1>4, <2>1, <2>2, <2>3, <2>4, <2>5, FollowerLeaves DEF BundleInv
  <2>6. CASE o # b
    <3>1. \A q \in Req : Following(q, o)' <=> Following(q, o)
      BY <1>1, <2>3, <2>4, <2>6 DEF Following
    <3>2. build'[o].refs = build[o].refs
      BY <1>4, <2>6 DEF OthersBuild
    <3> QED
      BY <2>1, <2>2, <3>1, <3>2, CountSame DEF BundleInv
  <2> QED
    BY <2>5, <2>6
<1> QED
  BY <1>5, <1>6, <1>7, <1>8 DEF BundleInv, FilesSound
\* A follower reads on, or gives up the build that it waited for or has copied.
LEMMA WaitStep ==
    ASSUME Requests, BundleInv, NEW r \in Req, req[r].on # r,
           Wait(r) \/ TimeOut(r) \/ Copy(r)
    PROVE  BundleInv'
<1>1. /\ req[r].pc \in {"wait", "copy"} /\ Placed(r) /\ BundleTypes
      /\ UNCHANGED <<table, publisher>>
  BY DEF Wait, TimeOut, Copy, At, BundleInv
<1>2. Fresh(r) /\ req[r].on \in Req \ {r}
  BY <1>1 DEF Placed
<1> PICK b \in Req \ {r} : b = req[r].on
  BY <1>2
<1>3. Following(r, b)
  BY <1>1 DEF Following
<1>4. CASE /\ build' = [build EXCEPT ![b] = Released(@)]
           /\ \E pc \in {"open", "end"} : req' = [req EXCEPT ![r].pc = pc, ![r].on = Nobody]
  <2>1. PICK pc \in {"open", "end"} : req' = [req EXCEPT ![r].pc = pc, ![r].on = Nobody]
    BY <1>4
  <2>2. pc \in Pc
    BY DEF Pc
  <2>3. /\ req' \in [Req -> Use] /\ OthersReq(r)
        /\ req'[r].pc = pc /\ req'[r].on = Nobody
    BY <1>1, <2>1, <2>2, TurnMoves
  <2>4. build[b].refs > 0
    BY <1>3, FollowerHolds
  <2>5. Releases(b) /\ FilesSound'
    BY <1>1, <1>4, <2>4, ReleaseKeeps
  <2> QED
    BY <1>1, <1>3, <2>3, <2>5, FollowerStep
<1>5. CASE UNCHANGED build /\ Go(r, "copy") /\ req[r].pc = "wait" /\ build[b].file # "none"
  <2>1. "copy" \in Pc
    BY DEF Pc
  <2>2. req' \in [Req -> Use] /\ OthersReq(r) /\ req'[r].pc = "copy" /\ req'[r].on = b
    BY <1>1, <1>5, <2>1, GoMoves
  <2>3. build' \in [Req -> Build] /\ OthersBuild(r)
    BY <1>1, <1>5 DEF BundleTypes, OthersBuild
  <2>4. table # r
    BY <1>1, <1>2 DEF BundleInv, TableSound, Fresh, Requests
  <2>5. TableSound' /\ table' \in Req \cup {Nobody}
    BY <1>1, <1>5, <2>2, <2>4 DEF BundleInv, BundleTypes, TableSound, OthersReq
  <2>6. Placed(r)'
    BY <1>1, <1>2, <1>5, <2>2 DEF Placed, Fresh
  <2>7. Announced(r)'
    BY <1>1, <1>5, <2>2 DEF BundleInv, Announced, OthersReq
  <2>8. Owning(r)' <=> Owning(r)
    BY <1>5, <2>2 DEF Owning, At
  <2>9. \A c \in Req : Following(r, c)' <=> Following(r, c)
    BY <1>5, <2>2 DEF Following
  <2>10. ~(publisher[r] \in {"copy", "delete"})
    BY <1>2 DEF Fresh
  <2> QED
    BY <1>1, <1>5, <2>2, <2>3, <2>5, <2>6, <2>7, <2>8, <2>9, <2>10, QuietStep DEF Busy
<1>6. CASE Wait(r)
  <2>1. CASE ~build[b].empty /\ build[b].file # "none"
    BY <1>5, <1>6, <2>1 DEF Wait, At
  <2>2. CASE ~(~build[b].empty /\ build[b].file # "none")
    <3>1. PICK pc \in {"open", "end"} :
            /\ build' = [build EXCEPT ![b] = Released(@)]
            /\ req' = [req EXCEPT ![r] = [@ EXCEPT !.pc = pc, !.on = Nobody]]
      BY <1>6, <2>2 DEF Wait
    <3>2. req' = [req EXCEPT ![r].pc = pc, ![r].on = Nobody]
      BY <1>1, <3>1 DEF BundleTypes, Use
    <3> QED
      BY <1>4, <3>1, <3>2
  <2> QED
    BY <2>1, <2>2
<1>7. CASE TimeOut(r)
  BY <1>4, <1>7 DEF TimeOut
<1>8. CASE Copy(r)
  BY <1>4, <1>8 DEF Copy
<1> QED
  BY <1>6, <1>7, <1>8

\* The owner has served its bundle itself, or finishes a build: without a file the
\* entry of the table goes, and then the followers are told.
LEMMA FinishStep ==
    ASSUME Requests, BundleInv, NEW r \in Req,
           (Copy(r) /\ req[r].on = r) \/ FinishDelete(r) \/ FinishClose(r)
    PROVE  BundleInv'
<1>1. Placed(r) /\ BundleTypes /\ TableSound /\ FileSound(r) /\ UNCHANGED publisher
  BY DEF Copy, FinishDelete, FinishClose, BundleInv
<1>2. CASE Copy(r) /\ req[r].on = r
  <2>1. /\ req[r].pc = "copy" /\ Go(r, "finish") /\ UNCHANGED <<table, build>>
        /\ build[r].file # "none" /\ build[r].done /\ "finish" \in Pc
    BY <1>1, <1>2 DEF Copy, At, Placed, Pc, FileSound
  <2>2. req' \in [Req -> Use] /\ OthersReq(r) /\ req'[r].pc = "finish" /\ req'[r].on = r
    BY <1>1, <1>2, <2>1, GoMoves
  <2>3. build' \in [Req -> Build] /\ OthersBuild(r)
    BY <1>1, <2>1 DEF BundleTypes, OthersBuild
  <2>4. TableSound' /\ table' \in Req \cup {Nobody}
    BY <1>1, <2>1, <2>2 DEF BundleTypes, TableSound, OthersReq
  <2>5. Placed(r)' /\ (publisher[r] \in {"copy", "delete"} => table' = r)
    BY <1>1, <2>1, <2>2 DEF Placed, FileSound
  <2> QED
    BY <1>1, <1>2, <2>1, <2>2, <2>3, <2>4, <2>5, OwnerStep
<1>3. CASE FinishDelete(r)
  <2>1. /\ req[r].pc = "finish" /\ req[r].on = r /\ UNCHANGED build
        /\ "close" \in Pc /\ "release" \in Pc
    BY <1>1, <1>3 DEF FinishDelete, At, Placed, Pc
  <2>2. build' \in [Req -> Build] /\ OthersBuild(r)
    BY <1>1, <2>1 DEF BundleTypes, OthersBuild
  <2>3. CASE build[r].file = "none"
    <3>1. table' = Nobody /\ Go(r, "close") /\ Fresh(r) /\ table = r
      BY <1>1, <1>3, <2>1, <2>3 DEF FinishDelete, Placed
    <3>2. req' \in [Req -> Use] /\ OthersReq(r) /\ req'[r].pc = "close" /\ req'[r].on = r
      BY <1>1, <2>1, <3>1, GoMoves
    <3>3. TableSound' /\ table' \in Req \cup {Nobody}
      BY <3>1 DEF TableSound
    <3>4. Placed(r)' /\ ~(publisher[r] \in {"copy", "delete"})
      BY <1>1, <2>1, <3>1, <3>2 DEF Placed, Fresh
    <3> QED
      BY <1>1, <2>1, <2>2, <3>1, <3>2, <3>3, <3>4, OwnerStep DEF Busy
  <2>4. CASE build[r].file # "none"
    <3>1. table' = table /\ Go(r, "release") /\ build[r].done
      BY <1>1, <1>3, <2>4 DEF FinishDelete, FileSound
    <3>2. req' \in [Req -> Use] /\ OthersReq(r) /\ req'[r].pc = "release" /\ req'[r].on = r
      BY <1>1, <2>1, <3>1, GoMoves
    <3>3. TableSound' /\ table' \in Req \cup {Nobody}
      BY <1>1, <2>1, <2>4, <3>1, <3>2 DEF BundleTypes, TableSound, OthersReq
    <3>4. Placed(r)' /\ (publisher[r] \in {"copy", "delete"} => table' = r)
      BY <1>1, <2>1, <3>1, <3>2 DEF Placed, FileSound
    <3> QED
      BY <1>1, <2>1, <2>2, <3>1, <3>2, <3>3, <3>4, OwnerStep
  <2> QED
    BY <2>3, <2>4
<1>4. CASE FinishClose(r)
  <2>1. /\ req[r].pc = "close" /\ req[r].on = r /\ Fresh(r) /\ UNCHANGED table
        /\ "release" \in Pc /\ Go(r, "release")
    BY <1>1, <1>4 DEF FinishClose, At, Placed, Pc
  <2>2. req' \in [Req -> Use] /\ OthersReq(r) /\ req'[r].pc = "release" /\ req'[r].on = r
    BY <1>1, <2>1, GoMoves
  <2>3. /\ build' \in [Req -> Build] /\ OthersBuild(r) /\ build'[r].done
        /\ build'[r].refs = build[r].refs /\ build'[r].file = build[r].file
    BY <1>1, <1>4 DEF FinishClose, BundleTypes, OthersBuild, Build
  <2>4. TableSound' /\ table' \in Req \cup {Nobody}
    <3>1. table # r
      BY <1>1, <2>1 DEF TableSound, Fresh, Requests
    <3> QED
      BY <1>1, <2>1, <2>2, <2>3, <3>1 DEF BundleTypes, TableSound, OthersReq, OthersBuild
  <2>5. Placed(r)' /\ ~(publisher[r] \in {"copy", "delete"})
    BY <2>1, <2>2, <2>3 DEF Placed, Fresh
  <2> QED
    BY <1>1, <2>1, <2>2, <2>3, <2>4, <2>5, OwnerStep
<1> QED
  BY <1>2, <1>3, <1>4
\* The owner gives its own reference back.
LEMMA FinishReleaseStep ==
    ASSUME Requests, BundleInv, NEW r \in Req, FinishRelease(r)
    PROVE  BundleInv'
<1>1. /\ req[r].pc = "release" /\ Placed(r) /\ BundleTypes /\ TableSound
      /\ UNCHANGED <<table, publisher>> /\ "end" \in Pc
  BY DEF FinishRelease, At, BundleInv, Pc
<1>2. build[r].done /\ req[r].on = r /\ Owning(r)
  BY <1>1 DEF Placed, Owning, At
<1>3. /\ req' \in [Req -> Use] /\ OthersReq(r)
      /\ req'[r].pc = "end" /\ req'[r].on = Nobody
  <2>1. req' = [req EXCEPT ![r].pc = "end", ![r].on = Nobody]
    BY DEF FinishRelease
  <2> QED
    BY <1>1, <2>1, TurnMoves
<1>4. Releases(r) /\ FilesSound'
  <2>1. build' = [build EXCEPT ![r] = Released(@)]
    BY DEF FinishRelease
  <2>2. build[r].refs > 0
    BY <1>2, OwnerHolds
  <2> QED
    BY <1>1, <2>1, <2>2, ReleaseKeeps
<1>5. /\ build' \in [Req -> Build] /\ OthersBuild(r)
      /\ build'[r].refs = build[r].refs - 1
  BY <1>4 DEF Releases
<1>6. \A o \in Req : /\ build'[o].done = build[o].done
                     /\ (build'[o].file = "none") <=> (build[o].file = "none")
  BY <1>4 DEF Releases
<1>7. BundleTypes' /\ TableSound'
  BY <1>1, <1>3, <1>5, <1>6 DEF BundleTypes, TableSound, OthersReq
<1>8. \A o \in Req : Placed(o)'
  <2>1. Placed(r)'
    BY <1>2, <1>3, <1>6 DEF Placed
  <2>2. \A o \in Req \ {r} : Placed(o)'
    BY <1>1, <1>3, <1>6, PlacedKept DEF BundleInv
  <2> QED
    BY <2>1, <2>2
<1>9. \A o \in Req : Announced(o)'
  <2>1. Announced(r)'
    BY <1>3 DEF Announced, Requests
  <2>2. \A o \in Req \ {r} : Announced(o)'
    BY <1>1, <1>3, <1>6, AnnouncedKept DEF BundleInv, Busy
  <2> QED
    BY <2>1, <2>2
<1>10. ASSUME NEW o \in Req PROVE Counted(o)'
  <2>1. Publishing(o)' <=> Publishing(o)
    BY <1>1 DEF Publishing
  <2>2. \A q \in Req : Following(q, o)' <=> Following(q, o)
    BY <1>1, <1>3 DEF Following, OthersReq
  <2>3. CASE o = r
    <3>1. ~Owning(o)'
      BY <1>2, <1>3, <1>6, <2>3 DEF Owning, At
    <3> QED
      BY <1>1, <1>2, <1>5, <2>1, <2>2, <2>3, <3>1, OwnerLeaves DEF BundleInv
  <2>4. CASE o # r
    <3>1. Owning(o)' <=> Owning(o)
      BY <1>3, <1>6, <2>4 DEF Owning, At, OthersReq
    <3>2. build'[o].refs = build[o].refs
      BY <1>5, <2>4 DEF OthersBuild
    <3> QED
      BY <2>1, <2>2, <3>1, <3>2, CountSame DEF BundleInv
  <2> QED
    BY <2>3, <2>4
<1> QED
  BY <1>4, <1>7, <1>8, <1>9, <1>10 DEF BundleInv, FilesSound

\* The bundle is there: its publisher takes a reference.
LEMMA PublishStep ==
    ASSUME Requests, BundleInv, NEW r \in Req, PublishBundle(r)
    PROVE  BundleInv'
<1>1. /\ req[r].pc = "build" /\ Placed(r) /\ BundleTypes /\ TableSound
      /\ UNCHANGED table
  BY DEF PublishBundle, At, BundleInv
<1>2. Fresh(r) /\ req[r].on = r /\ table = r
  BY <1>1 DEF Placed
<1>3. PICK pc \in {"copy", "finish"} : Go(r, pc)
  BY DEF PublishBundle
<1>4. req' \in [Req -> Use] /\ OthersReq(r) /\ req'[r].pc = pc /\ req'[r].on = r
  <2>1. pc \in Pc
    BY DEF Pc
  <2> QED
    BY <1>1, <1>2, <1>3, <2>1, GoMoves
<1>5. /\ build' \in [Req -> Build] /\ OthersBuild(r)
      /\ build'[r].refs = build[r].refs + 1 /\ build'[r].refs > 0
      /\ build'[r].done /\ build'[r].file = "open"
  <2> DEFINE c == [build[r] EXCEPT !.file = "open", !.done = TRUE]
             d == [c EXCEPT !.refs = c.refs + 1]
  <2>1. build' = [build EXCEPT ![r] = d]
    BY DEF PublishBundle, Retained
  <2>2. build[r] \in Build
    BY <1>1 DEF BundleTypes
  <2>3. c \in Build /\ c.refs = build[r].refs /\ c.done /\ c.file = "open"
    BY <2>2 DEF Build
  <2> HIDE DEF c
  <2>4. d \in Build /\ d.refs = c.refs + 1 /\ d.refs > 0 /\ d.done /\ d.file = "open"
    BY <2>3 DEF Build
  <2> HIDE DEF d
  <2> QED
    BY <1>1, <2>1, <2>3, <2>4 DEF BundleTypes, OthersBuild
<1>6. /\ publisher' \in [Req -> {"none", "copy", "delete", "release", "end"}]
      /\ publisher'[r] = "copy" /\ \A o \in Req \ {r} : publisher'[o] = publisher[o]
  BY <1>1 DEF PublishBundle, BundleTypes
<1>7. BundleTypes' /\ TableSound'
  BY <1>1, <1>2, <1>4, <1>5, <1>6 DEF BundleTypes, TableSound
<1>8. \A o \in Req : Placed(o)'
  <2>1. Placed(r)'
    BY <1>4, <1>5 DEF Placed
  <2>2. \A o \in Req \ {r} : Placed(o)'
    BY <1>1, <1>4, <1>5, <1>6, PlacedKept DEF BundleInv, OthersBuild
  <2> QED
    BY <2>1, <2>2
<1>9. \A o \in Req : Announced(o)'
  <2>1. Announced(r)'
    BY <1>4 DEF Announced
  <2>2. \A o \in Req : /\ build[o].done => build'[o].done
                       /\ build[o].file # "none" => build'[o].file # "none"
    BY <1>2, <1>5 DEF OthersBuild, Fresh
  <2>3. \A o \in Req \ {r} : Announced(o)'
    BY <1>4, <1>5, <2>2, AnnouncedKept DEF BundleInv
  <2> QED
    BY <2>1, <2>3
<1>10. ASSUME NEW o \in Req PROVE FileSound(o)'
  <2>1. CASE o = r
    BY <1>1, <1>2, <1>5, <1>6, <2>1 DEF FileSound
  <2>2. CASE o # r
    BY <1>1, <1>5, <1>6, <2>2 DEF FileSound, BundleInv, OthersBuild
  <2> QED
    BY <2>1, <2>2
<1>11. ASSUME NEW o \in Req PROVE Counted(o)'
  <2>1. \A q \in Req : Following(q, o)' <=> Following(q, o)
    BY <1>2, <1>4 DEF Following, OthersReq
  <2>2. CASE o = r
    <3>1. Owning(o)' <=> Owning(o)
      BY <1>1, <1>4, <2>2 DEF Owning, At
    <3>2. ~Publishing(o) /\ Publishing(o)'
      BY <1>2, <1>6, <2>2 DEF Fresh, Publishing
    <3> QED
      BY <1>1, <1>5, <2>1, <2>2, <3>1, <3>2, PublisherJoins DEF BundleInv
  <2>3. CASE o # r
    <3>1. Owning(o)' <=> Owning(o)
      BY <1>4, <1>5, <2>3 DEF Owning, At, OthersReq, OthersBuild
    <3>2. build'[o].refs = build[o].refs /\ (Publishing(o)' <=> Publishing(o))
      BY <1>5, <1>6, <2>3 DEF OthersBuild, Publishing
    <3> QED
      BY <2>1, <3>1, <3>2, CountSame DEF BundleInv
  <2> QED
    BY <2>2, <2>3
<1> QED
  BY <1>7, <1>8, <1>9, <1>10, <1>11 DEF BundleInv
\* A publisher goes on: what it holds and what the requests do is left alone.
LEMMA PublisherMoves ==
    ASSUME BundleInv, NEW r \in Req, UNCHANGED <<build, req>>,
           publisher[r] \in {"copy", "delete"}, publisher'[r] \in {"delete", "release"},
           publisher' \in [Req -> {"none", "copy", "delete", "release", "end"}],
           \A o \in Req \ {r} : publisher'[o] = publisher[o],
           \/ table' = table /\ publisher'[r] = "delete"
           \/ table' = Nobody /\ publisher'[r] = "release"
    PROVE  BundleInv'
<1>1. /\ BundleTypes /\ TableSound /\ Placed(r) /\ FileSound(r)
      /\ table = r /\ build[r].file # "none" /\ build[r].done
  BY DEF BundleInv, FileSound
<1>2. OthersReq(r) /\ BundleTypes'
  BY <1>1 DEF OthersReq, BundleTypes
<1>3. \A o \in Req : Placed(o)'
  <2>1. Placed(r)'
    BY <1>1 DEF Placed, Fresh
  <2>2. \A o \in Req \ {r} : Placed(o)'
    BY <1>1, <1>2, PlacedKept DEF BundleInv
  <2> QED
    BY <2>1, <2>2
<1>4. \A o \in Req : Announced(o)'
  BY DEF BundleInv, Announced, At
<1>5. ASSUME NEW o \in Req PROVE Counted(o)'
  <2>1. Owning(o)' <=> Owning(o)
    BY DEF Owning, At
  <2>2. Publishing(o)' <=> Publishing(o)
    BY DEF Publishing
  <2>3. \A q \in Req : Following(q, o)' <=> Following(q, o)
    BY DEF Following
  <2> QED
    BY <2>1, <2>2, <2>3, CountSame DEF BundleInv
<1>6. CASE table' = table /\ publisher'[r] = "delete"
  <2>1. TableSound'
    BY <1>1, <1>6 DEF TableSound
  <2>2. \A o \in Req : FileSound(o)'
    BY <1>1, <1>6 DEF BundleInv, FileSound
  <2> QED
    BY <1>2, <1>3, <1>4, <1>5, <2>1, <2>2 DEF BundleInv
<1>7. CASE table' = Nobody /\ publisher'[r] = "release"
  <2>1. TableSound'
    BY <1>7 DEF TableSound
  <2>2. \A o \in Req : FileSound(o)'
    BY <1>1, <1>7 DEF BundleInv, FileSound
  <2> QED
    BY <1>2, <1>3, <1>4, <1>5, <2>1, <2>2 DEF BundleInv
<1> QED
  BY <1>6, <1>7

LEMMA PublisherStep ==
    ASSUME BundleInv, NEW r \in Req, CacheBundle(r) \/ PublisherDelete(r)
    PROVE  BundleInv'
<1>1. BundleTypes
  BY DEF BundleInv
<1> QED
  BY <1>1, PublisherMoves DEF CacheBundle, PublisherDelete, BundleTypes

LEMMA PublisherReleaseStep ==
    ASSUME Requests, BundleInv, NEW r \in Req, PublisherRelease(r)
    PROVE  BundleInv'
<1>1. /\ publisher[r] = "release" /\ Placed(r) /\ BundleTypes /\ TableSound /\ FileSound(r)
      /\ UNCHANGED <<table, req>>
  BY DEF PublisherRelease, BundleInv
<1>2. build[r].file # "none" /\ build[r].done /\ Publishing(r)
  BY <1>1 DEF FileSound, Publishing
<1>3. /\ publisher' \in [Req -> {"none", "copy", "delete", "release", "end"}]
      /\ publisher'[r] = "end" /\ \A o \in Req \ {r} : publisher'[o] = publisher[o]
  BY <1>1 DEF PublisherRelease, BundleTypes
<1>4. Releases(r) /\ FilesSound'
  <2>1. build' = [build EXCEPT ![r] = Released(@)]
    BY DEF PublisherRelease
  <2>2. build[r].refs > 0
    BY <1>2, PublisherHolds
  <2> QED
    BY <1>1, <1>3, <2>1, <2>2, ReleaseKeeps
<1>5. /\ build' \in [Req -> Build] /\ OthersBuild(r)
      /\ build'[r].refs = build[r].refs - 1
  BY <1>4 DEF Releases
<1>6. \A o \in Req : /\ build'[o].done = build[o].done
                     /\ (build'[o].file = "none") <=> (build[o].file = "none")
  BY <1>4 DEF Releases
<1>7. BundleTypes' /\ TableSound'
  BY <1>1, <1>3, <1>5, <1>6 DEF BundleTypes, TableSound
<1>8. OthersReq(r)
  BY <1>1 DEF OthersReq
<1>9. \A o \in Req : Placed(o)'
  <2>1. Placed(r)'
    BY <1>1, <1>2, <1>6 DEF Placed, Fresh
  <2>2. \A o \in Req \ {r} : Placed(o)'
    BY <1>1, <1>3, <1>6, <1>8, PlacedKept DEF BundleInv
  <2> QED
    BY <2>1, <2>2
<1>10. \A o \in Req : Announced(o)'
  BY <1>1, <1>6 DEF BundleInv, Announced, At
<1>11. ASSUME NEW o \in Req PROVE Counted(o)'
  <2>1. \A q \in Req : Following(q, o)' <=> Following(q, o)
    BY <1>1 DEF Following
  <2>2. Owning(o)' <=> Owning(o)
    BY <1>1, <1>6 DEF Owning, At
  <2>3. CASE o = r
    <3>1. Publishing(o) /\ ~Publishing(o)'
      BY <1>2, <1>3, <2>3 DEF Publishing
    <3> QED
      BY <1>1, <1>5, <2>1, <2>2, <2>3, <3>1, PublisherLeaves DEF BundleInv
  <2>4. CASE o # r
    <3>1. build'[o].refs = build[o].refs /\ (Publishing(o)' <=> Publishing(o))
      BY <1>3, <1>5, <2>4 DEF OthersBuild, Publishing
    <3> QED
      BY <2>1, <2>2, <3>1, CountSame DEF BundleInv
  <2> QED
    BY <2>3, <2>4
<1> QED
  BY <1>4, <1>7, <1>9, <1>10, <1>11 DEF BundleInv, FilesSound

LEMMA StutterStep ==
    ASSUME BundleInv, UNCHANGED <<table, build, req, publisher>>
    PROVE  BundleInv'
<1>1. BundleTypes' /\ TableSound'
  BY DEF BundleInv, BundleTypes, TableSound
<1>2. \A r \in Req : Placed(r)' /\ Announced(r)' /\ FileSound(r)'
  <2> SUFFICES ASSUME NEW r \in Req PROVE Placed(r)' /\ Announced(r)' /\ FileSound(r)'
    OBVIOUS
  <2>1. Placed(r) /\ Announced(r) /\ FileSound(r)
    BY DEF BundleInv
  <2>2. Placed(r)'
    BY <2>1, Zenon DEF Placed, Fresh
  <2>3. Announced(r)'
    BY <2>1, Zenon DEF Announced, At
  <2>4. FileSound(r)'
    BY <2>1, Zenon DEF FileSound
  <2> QED
    BY <2>2, <2>3, <2>4
<1>3. \A r \in Req : Counted(r)'
  BY DEF BundleInv, Counted, Holders, Owning, Publishing, Following, At
<1> QED
  BY <1>1, <1>2, <1>3 DEF BundleInv

-----------------------------------------------------------------------------
LEMMA InitBundle ==
    ASSUME Requests, Init
    PROVE  BundleInv
<1>1. \A r \in Req : /\ build[r] = [done |-> FALSE, empty |-> FALSE, file |-> "none", refs |-> 1]
                     /\ req[r] = [pc |-> "new", kind |-> "get", on |-> Nobody]
                     /\ publisher[r] = "none"
  BY DEF Init
<1>2. BundleTypes /\ TableSound
  BY DEF Init, BundleTypes, TableSound, Build, Use, Pc
<1>3. \A r \in Req : Placed(r) /\ Announced(r) /\ FileSound(r)
  <2> SUFFICES ASSUME NEW r \in Req PROVE Placed(r) /\ Announced(r) /\ FileSound(r)
    OBVIOUS
  <2>1. /\ ~build[r].done /\ build[r].file = "none" /\ publisher[r] = "none"
        /\ req[r].pc = "new" /\ req[r].on = Nobody
    BY <1>1
  <2>2. Placed(r)
    BY <2>1 DEF Placed, Fresh
  <2>3. Announced(r)
    BY <2>1 DEF Announced, Requests
  <2>4. FileSound(r)
    BY <2>1 DEF FileSound
  <2> QED
    BY <2>2, <2>3, <2>4
<1>4. ASSUME NEW b \in Req PROVE Counted(b)
  <2>1. Owning(b) /\ ~Publishing(b) /\ \A r \in Req : ~Following(r, b)
    BY <1>1 DEF Owning, Publishing, Following
  <2>2. Holders(b) = {<<b, "owner">>}
    BY <2>1 DEF Holders
  <2>3. Cardinality(Holders(b)) = 1
    BY <2>2, FS_Singleton, Zenon
  <2> QED
    BY <1>1, <2>3 DEF Counted
<1> QED
  BY <1>2, <1>3, <1>4 DEF BundleInv

\* BundleInv holds in every reachable state.
LEMMA BundleInductive ==
    ASSUME Requests
    PROVE  Spec => []BundleInv
<1>1. BundleInv /\ [Next]_vars => BundleInv'
  <2> SUFFICES ASSUME BundleInv, [Next]_vars PROVE BundleInv'
    OBVIOUS
  <2>1. CASE UNCHANGED vars
    BY <2>1, StutterStep DEF vars
  <2>2. CASE Expire
    BY <2>2, StutterStep DEF Expire
  <2>3. ASSUME NEW r \in Req,
               \/ \E k \in {"get", "pregenerate"} : Arrive(r, k)
               \/ Open(r) \/ OpenAgain(r) \/ Join(r) \/ Retain(r) \/ Wait(r) \/ TimeOut(r) \/ Copy(r)
               \/ BuildFails(r) \/ BuildEmpty(r) \/ PublishBundle(r)
               \/ CacheBundle(r) \/ PublisherDelete(r) \/ PublisherRelease(r)
               \/ FinishDelete(r) \/ FinishClose(r) \/ FinishRelease(r)
        PROVE  BundleInv'
    <3>1. Wait(r) \/ TimeOut(r) => req[r].on # r
      BY DEF Wait, TimeOut, At, BundleInv, Placed
    <3> QED
      BY <2>3, <3>1, ArriveStep, OpenStep, OpenAgainStep, JoinStep, RetainStep, WaitStep,
         FinishStep, FinishReleaseStep, PublishStep, PublisherStep, PublisherReleaseStep, Zenon
  <2> QED
    BY <2>1, <2>2, <2>3, Zenon DEF Next
<1>2. Init => BundleInv
  BY InitBundle
<1> QED
  BY <1>1, <1>2, PTL DEF Spec

LEMMA BundleInvSound ==
    ASSUME Requests, BundleInv
    PROVE  BundleShared
<1>1. BundleTypes /\ TableSound
      /\ \A r \in Req : Placed(r) /\ Announced(r) /\ FileSound(r) /\ Counted(r)
  BY DEF BundleInv
<1>2. \A b \in Req : build[b].refs > 0 /\ build[b].file # "none" => build[b].file = "open"
  BY <1>1 DEF BundleTypes, Build, FileSound
<1>3. ReadsOpenFile
  <2>1. ASSUME NEW r \in Req, At(r, "copy") PROVE build[req[r].on].file = "open"
    <3>1. CASE req[r].on = r
      <4>1. build[r].file # "none" /\ Owning(r)
        BY <1>1, <2>1, <3>1 DEF Placed, At, Owning
      <4> QED
        BY <1>2, <3>1, <4>1, OwnerHolds
    <3>2. CASE req[r].on # r
      <4>1. req[r].on \in Req \ {r}
        BY <1>1, <2>1, <3>2 DEF Placed, At
      <4>2. build[req[r].on].file # "none" /\ Following(r, req[r].on)
        BY <1>1, <2>1, <4>1 DEF Announced, Following, At
      <4> QED
        BY <1>2, <4>1, <4>2, FollowerHolds
    <3> QED
      BY <3>1, <3>2
  <2>2. ASSUME NEW r \in Req, publisher[r] = "copy" PROVE build[r].file = "open"
    <3>1. build[r].file # "none" /\ Publishing(r)
      BY <1>1, <2>2 DEF FileSound, Publishing
    <3> QED
      BY <1>2, <3>1, PublisherHolds
  <2> QED
    BY <2>1, <2>2 DEF ReadsOpenFile
<1>4. OneBuild
  <2> DEFINE B == {r \in Req : req[r].on = r /\ req[r].pc \in {"again", "build"}}
  <2>1. B \subseteq {table}
    BY <1>1 DEF Placed
  <2>2. Cardinality(B) <= 1
    <3>1. CASE B = {}
      BY <3>1, FS_EmptySet
    <3>2. CASE B # {}
      <4>1. B = {table}
        BY <2>1, <3>2
      <4>2. Cardinality(B) = 1
        BY <4>1, FS_Singleton, Zenon
      <4> QED
        BY <4>2
    <3> QED
      BY <3>1, <3>2
  <2>3. table # Nobody => build[table].refs > 0
    <3> SUFFICES ASSUME table # Nobody PROVE build[table].refs > 0
      OBVIOUS
    <3>1. table \in Req
      BY <1>1 DEF BundleTypes
    <3>2. Owning(table) \/ Publishing(table)
      BY <1>1, <3>1 DEF TableSound, Owning, Publishing, At
    <3> QED
      BY <3>1, <3>2, OwnerHolds, PublisherHolds
  <2> QED
    BY <2>2, <2>3 DEF OneBuild
<1>5. FollowersAnnounced
  <2> SUFFICES ASSUME NEW r \in Req, At(r, "wait"), ~build[req[r].on].done
               PROVE  req[req[r].on].pc \in {"again", "build", "finish", "close"}
    BY DEF FollowersAnnounced
  <2>1. req[r].on \in Req \ {r}
    BY <1>1 DEF Placed, At
  <2> QED
    BY <1>1, <2>1 DEF Announced
<1>6. FilesClosed
  <2> SUFFICES ASSUME \A r \in Req : req[r].pc = "end" /\ publisher[r] \in {"none", "end"},
                      NEW b \in Req, build[b].file = "open"
               PROVE  FALSE
    BY DEF FilesClosed
  <2>1. build[b].done /\ build[b].refs > 0
    BY <1>1 DEF FileSound
  <2>2. ~Owning(b) /\ ~Publishing(b) /\ \A r \in Req : ~Following(r, b)
    BY <2>1 DEF Owning, Publishing, Following, At
  <2>3. Holders(b) = {}
    BY <2>2, Zenon DEF Holders
  <2>4. build[b].refs = 0
    BY <1>1, <2>3, FS_EmptySet, Zenon DEF Counted
  <2> QED
    BY <2>1, <2>4
<1> QED
  BY <1>3, <1>4, <1>5, <1>6 DEF BundleShared

\* Requests that want the same bundle share one build, read its file while it is
\* open, are told when it ends, and leave no file open, however many they are
\* (snapshot.go bundleBuild, handleBundleRequest, publishBundle).
THEOREM BundleSharedAlways ==
    ASSUME IsFiniteSet(Req), Nobody \notin Req
    PROVE  Spec => []BundleShared
<1>1. Requests
  BY DEF Requests
<1>2. BundleInv => BundleShared
  BY <1>1, BundleInvSound
<1>3. Spec => []BundleInv
  BY <1>1, BundleInductive
<1> QED
  BY <1>2, <1>3, PTL
=============================================================================
