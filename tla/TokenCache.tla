----------------------------- MODULE TokenCache -----------------------------
(***************************************************************************)
(* GitHub App installation tokens (internal/githubapp): discovery of an    *)
(* organisation's installation over the configured apps, the fallback      *)
(* organisation, the caches of installations, owners and tokens, and the   *)
(* rate-limit poller that shares them.  GitHub is external: an account has *)
(* one login at a time and still answers to a former one.                  *)
(***************************************************************************)
EXTENDS Integers

CONSTANTS Caller, Apps, Org, Account, AccountOf, FallbackOrg, MaxFaults, None

VARIABLES
    login,          \* account -> its current login at GitHub
    installed,      \* app -> accounts it is installed on, at GitHub
    orgToApp,       \* org -> app that has it, or 0
    installations,  \* app -> org -> account of the cached installation, or None
    owners,         \* app -> account -> remembered owner, or None
    tokens,         \* app -> account -> [of, fresh], or none
    call,           \* caller -> its call
    faults

vars == <<login, installed, orgToApp, installations, owners, tokens, call, faults>>
github == <<login, installed>>
caches == <<orgToApp, installations, owners, tokens>>

NoToken == [of |-> None, fresh |-> FALSE]
NoCall == [pc |-> "idle", kind |-> "request", org |-> None, name |-> None, app |-> 0,
           account |-> None, owner |-> None, token |-> NoToken, failed |-> {}]
FallbackApp == 1

Init ==
    /\ login \in {f \in [Account -> Org] : \A a \in Account : AccountOf[f[a]] = a}
    /\ installed \in [1 .. Apps -> SUBSET Account]
    /\ orgToApp = [o \in Org |-> 0]
    /\ installations = [a \in 1 .. Apps |-> [o \in Org |-> None]]
    /\ owners = [a \in 1 .. Apps |-> [x \in Account |-> None]]
    /\ tokens = [a \in 1 .. Apps |-> [x \in Account |-> NoToken]]
    /\ call = [c \in Caller |-> NoCall] /\ faults = 0

Rename(o) ==
    /\ login[AccountOf[o]] # o /\ faults < MaxFaults
    /\ login' = [login EXCEPT ![AccountOf[o]] = o] /\ faults' = faults + 1
    /\ UNCHANGED <<installed, caches, call>>
\* A cached token comes within RefreshBuffer of its expiry.
Age(a, x) ==
    /\ tokens[a][x].fresh /\ tokens' = [tokens EXCEPT ![a][x].fresh = FALSE]
    /\ UNCHANGED <<github, orgToApp, installations, owners, call, faults>>

-----------------------------------------------------------------------------
(* GetTokenForOrgWithOwner and poll.                                       *)

Ask(c, o) ==
    /\ call[c].pc = "idle"
    /\ call' = [call EXCEPT ![c] = [NoCall EXCEPT !.org = o, !.name = o,
                   !.pc = IF orgToApp[o] # 0 THEN "token" ELSE "lookup",
                   !.app = IF orgToApp[o] # 0 THEN orgToApp[o] ELSE 1]]
    /\ UNCHANGED <<github, caches, faults>>
PollFallback(c) ==
    /\ call[c].pc = "idle" /\ FallbackOrg # None
    /\ call' = [call EXCEPT ![c] = [NoCall EXCEPT !.kind = "poll", !.pc = "lookup",
                   !.name = FallbackOrg, !.app = FallbackApp]]
    /\ UNCHANGED <<github, caches, faults>>
PollInstallation(c, a, x) ==
    /\ call[c].pc = "idle" /\ owners[a][x] # None
    /\ call' = [call EXCEPT ![c] = [NoCall EXCEPT !.kind = "poll", !.pc = "installation",
                   !.app = a, !.account = x]]
    /\ UNCHANGED <<github, caches, faults>>

End(c, pc) == call' = [call EXCEPT ![c].pc = pc]
\* What follows a lookup that found nothing or failed: the next app, then the fallback.
LookupFailed(c) ==
    call' = [call EXCEPT ![c] =
        LET q == [@ EXCEPT !.failed = @ \cup {call[c].app}]
        IN CASE q.kind # "request" -> [q EXCEPT !.pc = "failed"]
             [] q.kind = "request" /\ q.app < Apps -> [q EXCEPT !.app = @ + 1]
             [] q.kind = "request" /\ q.app = Apps /\ FallbackOrg = None -> [q EXCEPT !.pc = "failed"]
             [] q.kind = "request" /\ q.app = Apps /\ FallbackOrg # None ->
                    [q EXCEPT !.kind = "fallback", !.name = FallbackOrg, !.app = FallbackApp]]

-----------------------------------------------------------------------------
(* lookupInstallationID.                                                   *)

LookupCached(c) ==
    /\ call[c].pc = "lookup" /\ installations[call[c].app][call[c].name] # None
    /\ End(c, "discovered") /\ UNCHANGED <<github, caches, faults>>
\* The org endpoint, then the user endpoint: together they find the account or not.
LookupInstallationID(c) ==
    LET q == call[c]
        x == AccountOf[q.name]
    IN /\ q.pc = "lookup" /\ installations[q.app][q.name] = None
       /\ \/ /\ x \in installed[q.app]
             /\ call' = [call EXCEPT ![c].pc = "remember", ![c].owner = login[x]]
             /\ UNCHANGED faults
          \/ x \notin installed[q.app] /\ LookupFailed(c) /\ UNCHANGED faults
          \/ faults < MaxFaults /\ faults' = faults + 1 /\ LookupFailed(c)
       /\ UNCHANGED <<github, caches>>
\* The first owner that was seen stays the owner; both names lead to the installation.
RememberInstallation(c) ==
    LET q == call[c]
        x == AccountOf[q.name]
        owner == IF owners[q.app][x] # None THEN owners[q.app][x] ELSE q.owner
    IN /\ q.pc = "remember"
       /\ owners' = [owners EXCEPT ![q.app][x] = owner]
       /\ installations' = [installations EXCEPT ![q.app][q.name] = x, ![q.app][owner] = x]
       /\ End(c, "discovered") /\ UNCHANGED <<github, orgToApp, tokens, faults>>
\* A request caches which app has the org; the fallback does not.
Discovered(c) ==
    /\ call[c].pc = "discovered"
    /\ orgToApp' = IF call[c].kind = "request" THEN [orgToApp EXCEPT ![call[c].org] = call[c].app] ELSE orgToApp
    /\ End(c, IF call[c].kind = "poll" THEN "failed" ELSE "token")
    /\ UNCHANGED <<github, installations, owners, tokens, faults>>

-----------------------------------------------------------------------------
(* getToken and getInstallationToken.                                      *)

GetToken(c) ==
    LET x == installations[call[c].app][call[c].name]
    IN /\ call[c].pc = "token"
       /\ call' = [call EXCEPT ![c].pc = IF x = None THEN "failed" ELSE "installation", ![c].account = x]
       /\ UNCHANGED <<github, caches, faults>>
GetInstallationTokenOfApp(c) ==
    LET q == call[c]
        owner == owners[q.app][q.account]
    IN /\ q.pc = "installation"
       /\ \E x \in Account :
            call' = [call EXCEPT ![c].owner = owner, ![c].token = tokens[q.app][x],
                                 ![c].pc = CASE owner = None -> "failed"
                                             [] owner # None /\ tokens[q.app][x].fresh -> "answered"
                                             [] OTHER -> "fetch"]
       /\ UNCHANGED <<github, caches, faults>>
GetInstallationToken(c) ==
    LET q == call[c]
        owner == owners[q.app][q.account]
        token == tokens[q.app][q.account]
    IN /\ q.pc = "installation"
       /\ call' = [call EXCEPT ![c].owner = owner, ![c].token = token,
                               ![c].pc = CASE owner = None -> "failed"
                                           [] owner # None /\ token.fresh -> "answered"
                                           [] OTHER -> "fetch"]
       /\ UNCHANGED <<github, caches, faults>>
FetchInstallationToken(c) ==
    /\ call[c].pc = "fetch"
    /\ \/ /\ call' = [call EXCEPT ![c].pc = "store", ![c].token = [of |-> call[c].account, fresh |-> TRUE]]
          /\ UNCHANGED faults
       \/ faults < MaxFaults /\ faults' = faults + 1 /\ End(c, "failed")
    /\ UNCHANGED <<github, caches>>
StoreToken(c) ==
    /\ call[c].pc = "store"
    /\ tokens' = [tokens EXCEPT ![call[c].app][call[c].account] = call[c].token]
    /\ End(c, "answered") /\ UNCHANGED <<github, orgToApp, installations, owners, faults>>

Next ==
    \/ \E o \in Org : Rename(o)
    \/ \E a \in 1 .. Apps, x \in Account : Age(a, x)
    \/ \E c \in Caller :
          \/ \E o \in Org : Ask(c, o)
          \/ PollFallback(c) \/ \E a \in 1 .. Apps, x \in Account : PollInstallation(c, a, x)
          \/ LookupCached(c) \/ LookupInstallationID(c) \/ RememberInstallation(c) \/ Discovered(c)
          \/ GetToken(c) \/ GetInstallationToken(c) \/ FetchInstallationToken(c) \/ StoreToken(c)

Spec == Init /\ [][Next]_vars

-----------------------------------------------------------------------------
Answered(c) == call[c].pc = "answered" /\ call[c].org # None

\* A request gets a token of its own organisation's account, or of the fallback's when
\* every app's lookup failed in this very call: one failed lookup is not remembered
\* (GetTokenForOrgWithOwner; the caches hold one token per installation).
TokenForOrg ==
    \A c \in Caller : Answered(c) =>
        \/ call[c].token.of = AccountOf[call[c].org]
        \/ call[c].token.of = AccountOf[FallbackOrg] /\ call[c].failed = 1 .. Apps

\* The owner reported with the tokens of one installation never changes, although the
\* account is renamed and found again under its new name (rememberInstallation).
OwnerStable ==
    \A c, d \in Caller :
        /\ call[c].pc = "answered" /\ call[d].pc = "answered"
        /\ call[c].app = call[d].app /\ call[c].account = call[d].account
        => call[c].owner = call[d].owner

\* Whoever is sent to an app for a token finds the installation and its owner there: the
\* errors "no installation ID" and "no owner" cannot happen (getToken, getInstallationToken).
MappedResolves ==
    \A c \in Caller : call[c].pc = "token" =>
        LET x == installations[call[c].app][call[c].name]
        IN x # None /\ owners[call[c].app][x] # None

\* Tokens, installations and owners stay together through failures and renames.
TokensRight == TokenForOrg /\ OwnerStable /\ MappedResolves
=============================================================================
