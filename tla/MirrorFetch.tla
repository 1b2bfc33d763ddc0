---------------------------- MODULE MirrorFetch -----------------------------
(***************************************************************************)
(* How fresh a mirror is that is served: fetches under the semaphore of    *)
(* gitclone/manager.go, the check of the refs against upstream, and the    *)
(* requests that depend on them (strategy/git/git.go serveReadyRepo,       *)
(* refs.go handleEnsureRefs, the empty bundle of snapshot.go).  A version  *)
(* stands for the refs and commits of upstream after so many pushes.       *)
(***************************************************************************)
EXTENDS Integers

CONSTANTS
    Caller,
    Kinds,          \* which of "discover", "pack", "ensure", "bundle", "fetch" are asked
    MaxPush,        \* bound: pushes to upstream
    MaxClock,       \* bound: the clock
    RefCheckInterval,
    MaxFaults,      \* bound: git commands that fail
    Nobody

VARIABLES
    upstream, mirror,
    past,           \* history: time -> upstream's version at its end
    clock,
    sem,            \* the fetch semaphore: its holder or Nobody
    fetches,        \* successful fetches: lastFetch moves with every one
    lastFetch,      \* the time of the last one
    valid, checkedAt,   \* refCheckValid, lastRefCheck
    call,           \* caller -> its request
    faults

vars == <<upstream, mirror, past, clock, sem, fetches, lastFetch, valid, checkedAt, call, faults>>

\* want: the commit asked for; before, since: fetches and upstream when it began;
\* got: what a git command read; ran: this call fetched; joined: it coalesced.
Idle == [kind |-> "none", pc |-> "idle", want |-> 0, since |-> 0, before |-> 0, got |-> 0,
         at |-> 0, ran |-> FALSE, joined |-> FALSE, retry |-> FALSE, answer |-> "none"]

Init ==
    /\ upstream = 0 /\ mirror = 0 /\ past = [t \in 0..MaxClock |-> 0] /\ clock = 0
    /\ sem = Nobody /\ fetches = 0 /\ lastFetch = 0 /\ valid = FALSE /\ checkedAt = 0
    /\ call = [c \in Caller |-> Idle] /\ faults = 0

Fault == faults < MaxFaults /\ faults' = faults + 1
At(c, pc) == call[c].pc = pc
Go(c, pc) == call' = [call EXCEPT ![c].pc = pc]
\* What the properties look at when the call is over, and when it ended.
Answer(c, a) ==
    LET k == call[c] IN
    call' = [call EXCEPT ![c] =
       IF a \in {"uptodate", "missing"} \/ (a = "mirror" /\ k.kind = "discover")
       THEN [Idle EXCEPT !.pc = "answered", !.kind = k.kind, !.answer = a, !.want = k.want,
                         !.since = k.since, !.joined = k.joined, !.got = mirror, !.at = clock]
       ELSE [Idle EXCEPT !.pc = "answered"]]
git == <<upstream, past, clock>>
fetching == <<sem, fetches, lastFetch, mirror>>
checking == <<valid, checkedAt>>

Push ==
    /\ upstream < MaxPush /\ upstream' = upstream + 1
    /\ past' = [past EXCEPT ![clock] = upstream + 1]
    /\ UNCHANGED <<clock, fetching, checking, call, faults>>
\* An ls-remote ends within the tick that it began in (ls-remote-timeout).
Tick ==
    /\ clock < MaxClock /\ clock' = clock + 1
    /\ \A c \in Caller : At(c, "compare") => call[c].at = clock
    /\ past' = [past EXCEPT ![clock + 1] = upstream]
    /\ UNCHANGED <<upstream, fetching, checking, call, faults>>

Ask(c, kind, want) ==
    /\ At(c, "idle") /\ kind \in Kinds
    /\ call' = [call EXCEPT ![c] = [Idle EXCEPT !.kind = kind, !.want = want, 
         !.since = IF kind \in {"ensure", "bundle"} THEN upstream ELSE 0,
         !.pc = CASE kind = "discover" -> "check" [] kind = "pack" -> "check" [] kind = "fetch" -> "fetch" [] OTHER -> "look"]]
    /\ UNCHANGED <<git, fetching, checking, faults>>

-----------------------------------------------------------------------------
(* fetchInternal.  A call that had to wait reuses a fetch that ended since. *)

\* The fetch that verifies an empty bundle never does (FetchVerified).
Coalesces(c) == ~call[c].retry /\ fetches > call[c].before
FetchBegin(c) ==
    /\ At(c, "fetch")
    /\ call' = [call EXCEPT ![c].pc = IF sem = Nobody THEN "run" ELSE "queue", ![c].before = fetches]
    /\ sem' = IF sem = Nobody THEN c ELSE sem
    /\ UNCHANGED <<git, fetches, lastFetch, mirror, checking, faults>>
FetchWaited(c) ==
    /\ At(c, "queue")
    /\ \/ /\ sem = Nobody /\ UNCHANGED faults
          /\ IF Coalesces(c)
             THEN UNCHANGED sem /\ call' = [call EXCEPT ![c].pc = "fetched", ![c].joined = TRUE]
             ELSE sem' = c /\ Go(c, "run")
       \/ Fault /\ Go(c, "failed") /\ UNCHANGED sem
    /\ UNCHANGED <<git, fetches, lastFetch, mirror, checking>>
\* git fetch reads upstream's refs at some moment of its run.
GitFetch(c) ==
    /\ At(c, "run")
    /\ call' = [call EXCEPT ![c].pc = "apply", ![c].got = upstream]
    /\ UNCHANGED <<git, fetching, checking, faults>>
FetchEnd(c) ==
    /\ At(c, "apply") /\ sem' = Nobody
    /\ \/ /\ mirror' = call[c].got /\ fetches' = fetches + 1 /\ lastFetch' = clock
          /\ call' = [call EXCEPT ![c].pc = "fetched", ![c].ran = TRUE] /\ UNCHANGED faults
       \/ Fault /\ Go(c, "failed") /\ UNCHANGED <<mirror, fetches, lastFetch>>
    /\ UNCHANGED <<git, checking>>

-----------------------------------------------------------------------------
(* checkRefsStale, for info/refs, ls-refs and packs; a pack is served       *)
(* whatever the check says.                                                *)

Checked(c, a) == IF call[c].kind = "pack" THEN Go(c, "look") ELSE Answer(c, a)

RecentEver == valid
Recent == valid /\ clock - checkedAt < RefCheckInterval
CheckCached(c) ==
    /\ At(c, "check")
    /\ IF Recent THEN Checked(c, "mirror") /\ UNCHANGED valid
       ELSE valid' = FALSE /\ Go(c, "local")
    /\ UNCHANGED <<git, fetching, checkedAt, faults>>
GetLocalRefs(c) ==
    /\ At(c, "local")
    /\ call' = [call EXCEPT ![c].pc = "lsremote", ![c].got = mirror]
    /\ UNCHANGED <<git, fetching, checking, faults>>
GetUpstreamRefs(c) ==
    /\ At(c, "lsremote")
    /\ \/ /\ call' = [call EXCEPT ![c].pc = "compare", ![c].since = upstream, ![c].at = clock]
          /\ UNCHANGED faults
       \/ Fault /\ Checked(c, "upstream")
    /\ UNCHANGED <<git, fetching, checking>>
\* A stale mirror is fetched in the background while upstream answers.
Compare(c) ==
    /\ At(c, "compare")
    /\ IF call[c].got = call[c].since
       THEN Checked(c, "mirror") /\ valid' = TRUE /\ checkedAt' = clock
       ELSE /\ Go(c, IF call[c].kind = "pack" THEN "look" ELSE "fetch")
            /\ valid' = FALSE /\ UNCHANGED checkedAt
    /\ UNCHANGED <<git, fetching, faults>>

-----------------------------------------------------------------------------
(* What depends on a commit or a ref that the mirror may not have.         *)

\* EnsureRefs, "not our ref" and the base of a bundle: look, fetch, look again.
\* The handler of bundles does not fetch if a fetch was recent (freshenMirror).
Look(c) ==
    LET k == call[c] IN
    /\ At(c, "look") /\ k.kind \in {"pack", "ensure"}
    /\ CASE k.want <= mirror -> Answer(c, IF k.kind = "pack" THEN "mirror" ELSE "present")
         [] k.want > mirror /\ ~k.ran /\ ~k.joined -> Go(c, "fetch")
         [] OTHER -> Answer(c, IF k.kind = "pack" THEN "upstream" ELSE "missing")
    /\ UNCHANGED <<git, fetching, checking, faults>>
LookBase(c) ==
    LET k == call[c] IN
    /\ At(c, "look") /\ k.kind = "bundle"
    /\ CASE k.want <= mirror -> Go(c, "bundle")
         [] k.want > mirror /\ ~k.ran /\ ~k.joined /\ clock - lastFetch >= RefCheckInterval
              -> Go(c, "fetch")
         [] OTHER -> Answer(c, "missing")
    /\ UNCHANGED <<git, fetching, checking, faults>>
\* createBundle, under the semaphore: at the head the bundle is empty, which is
\* answered only after a fetch of this very call.
CreateBundleTrusting(c) ==
    /\ At(c, "bundle") /\ sem = Nobody
    /\ Answer(c, IF mirror = call[c].want THEN "uptodate" ELSE "bundle")
    /\ UNCHANGED <<git, fetching, checking, faults>>
CreateBundle(c) ==
    LET k == call[c] IN
    /\ At(c, "bundle") /\ sem = Nobody
    /\ CASE mirror # k.want -> Answer(c, "bundle")
         [] mirror = k.want /\ k.retry -> Answer(c, "uptodate")
         [] OTHER -> call' = [call EXCEPT ![c].pc = "fetch", ![c].retry = TRUE]
    /\ UNCHANGED <<git, fetching, checking, faults>>

\* What a finished or failed fetch means to the call that asked for it.
Fetched(c) ==
    LET k == call[c] IN
    /\ At(c, "fetched")
    /\ IF k.kind \in {"discover", "fetch"} THEN Answer(c, "upstream")
       ELSE Go(c, IF k.retry /\ k.want <= mirror THEN "bundle" ELSE "look")
    /\ valid' = (valid /\ k.kind # "ensure")
    /\ UNCHANGED <<git, fetching, checkedAt, faults>>
FetchFailed(c) ==
    LET k == call[c] IN
    /\ At(c, "failed")
    /\ IF k.kind = "bundle" /\ ~k.retry /\ k.want <= mirror THEN Go(c, "bundle")
       ELSE Answer(c, IF k.kind = "pack" THEN "upstream" ELSE "error")
    /\ UNCHANGED <<git, fetching, checking, faults>>

Next ==
    \/ Push \/ Tick
    \/ \E c \in Caller :
          \/ \E k \in Kinds, w \in 0..MaxPush :
                /\ w <= upstream /\ (k \in {"discover", "fetch"} => w = 0)
                /\ Ask(c, k, w)
          \/ FetchBegin(c) \/ FetchWaited(c) \/ GitFetch(c) \/ FetchEnd(c)
          \/ CheckCached(c) \/ GetLocalRefs(c) \/ GetUpstreamRefs(c) \/ Compare(c)
          \/ Look(c) \/ LookBase(c) \/ CreateBundle(c) \/ Fetched(c) \/ FetchFailed(c)

Spec == Init /\ [][Next]_vars

-----------------------------------------------------------------------------
\* A ref advertisement served from the mirror is at most one check interval (and
\* the tick of the check itself) behind upstream, however checks, fetches and
\* pushes interleave (manager.go EnsureRefsUpToDate, git.go serveReadyRepo).
AdvertisedFresh ==
    \A c \in Caller : At(c, "answered") /\ call[c].kind = "discover" /\ call[c].answer = "mirror"
        => LET t == call[c].at - RefCheckInterval - 1 IN t < 0 \/ call[c].got >= past[t]

\* "Nothing to fast-forward" is answered only if the base was still upstream's
\* head when the request came (snapshot.go handleBundleRequest, FetchVerified).
UpToDateVerified ==
    \A c \in Caller : At(c, "answered") /\ call[c].answer = "uptodate" => call[c].want >= call[c].since

\* A commit that upstream had when the request came is reported missing only
\* if the request joined a fetch that was under way (manager.go EnsureRefs).
MissingIsMissing ==
    \A c \in Caller : /\ At(c, "answered") /\ call[c].kind = "ensure" /\ call[c].answer = "missing"
                      /\ ~call[c].joined
                      => call[c].want > call[c].since

\* "Up to date" and "missing" are answers about upstream, not about a mirror that
\* may lag behind it.
AnswersVerified == UpToDateVerified /\ MissingIsMissing

\* EnsureRefs as documented: it fetches before it reports a commit missing.
EnsureRefsFetches ==
    \A c \in Caller : At(c, "answered") /\ call[c].kind = "ensure" /\ call[c].answer = "missing"
                      => call[c].want > call[c].since
=============================================================================
