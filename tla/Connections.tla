------------------------------ MODULE Connections ------------------------------
(***************************************************************************)
(* One account's connections: the OAuth links to Google and Notion           *)
(* (oauth_accounts), the destination its leads are written to (destinations),*)
(* and what the providers would really accept, which the account changes     *)
(* behind the server's back.  The requests are those of httpapi/oauth.go,    *)
(* notion.go, notion_setup.go and sheets.go, and the writerFor of a confirm  *)
(* or a preview; each step is one statement or one call to a provider.       *)
(***************************************************************************)
EXTENDS Integers, FiniteSets

CONSTANTS
  Handler,
  TargetsOf,    \* the spreadsheets and databases at each provider
  NoLink, NoDest, NoJob,
  Requests,     \* the kinds of request each handler of the instance is given
  FaultKinds,
  MaxConsents,  \* bound: consents walked at each provider
  MaxFaults     \* bound: faults an instance injects

Provider == {"google", "notion"}
AllRequests == {"connect", "disconnect", "setup", "browse", "confirm", "preview"}

\* "db": SQLite refuses a statement; "token": Google's token endpoint fails for a
\* reason of its own; "omit": Google grants no refresh token; "crash": a restart.
AllFaults == {"db", "token", "omit", "crash"}

ASSUME Kinds == Requests \in [Handler -> SUBSET AllRequests] /\ FaultKinds \subseteq AllFaults
ASSUME Numbers == MaxConsents \in Nat /\ MaxFaults \in Nat
ASSUME Providers == DOMAIN TargetsOf = Provider

Target  == UNION {TargetsOf[p] : p \in Provider}
Consent == 1..MaxConsents
NoToken == 0
Token   == Consent \cup {NoToken}

\* A row of oauth_accounts.  A token is the consent it descends from; fresh says the
\* access token has not expired (Notion's never do, and need no refresh token).
Link == [access: Consent, refresh: Token, fresh: BOOLEAN, broken: BOOLEAN]

\* The row of destinations
Destination == [type: Provider, target: Target, broken: BOOLEAN]

\* What a request holds: its tokens, and the provider and target it works on.
Job == [act: AllRequests, provider: Provider, target: Target, access: Token, refresh: Token,
        fresh: BOOLEAN]

ASSUME AbsentValues == NoLink \notin Link /\ NoDest \notin Destination /\ NoJob \notin Job

VARIABLES
  link, dest,  \* oauth_accounts and destinations
  consents,    \* consents walked at each provider
  revoked,     \* the last consent of each provider that is no longer worth anything
  unshared,    \* Notion databases the integration may not see
  pc, job, faults

vars == <<link, dest, consents, revoked, unshared, pc, job, faults>>
world == <<consents, revoked, unshared>>

\* How a confirm was answered: 200, 502, or 409 with a reconnect or a setup prompt.
Answers == {"written", "retry", "reconnect", "set_up"}
PC == {"idle", "inheriting", "linking", "deleting", "resolving", "opening", "refreshing",
       "persisting", "calling", "saving", "flagging", "checking", "marking"} \cup Answers

\* At most one link per provider and one destination, at a target of its own provider.
TypeOK ==
  /\ link \in [Provider -> Link \cup {NoLink}]
  /\ dest \in Destination \cup {NoDest}
  /\ dest # NoDest => dest.target \in TargetsOf[dest.type]
  /\ consents \in [Provider -> 0..MaxConsents]
  /\ revoked \in [Provider -> 0..MaxConsents]
  /\ unshared \subseteq TargetsOf["notion"]
  /\ pc \in [Handler -> PC]
  /\ job \in [Handler -> Job \cup {NoJob}]
  /\ \A h \in Handler : pc[h] # "idle" => job[h] \in Job
  /\ faults \in 0..MaxFaults

------------------------------------------------------------------------------
\* What the provider would say to a token, and to a token asking for a target.
Honoured(p, t) == t > revoked[p]
Accepts(p, t, x) == Honoured(p, t) /\ x \notin unshared

Fault(kind) == kind \in FaultKinds /\ faults < MaxFaults /\ faults' = faults + 1

Idle(h) == pc[h] = "idle"
Goto(h, step) == pc' = [pc EXCEPT ![h] = step] /\ UNCHANGED job
Finish(h) == pc' = [pc EXCEPT ![h] = "idle"] /\ job' = [job EXCEPT ![h] = NoJob]

Serve(h, act, p, x, t, r, step) ==
  /\ pc' = [pc EXCEPT ![h] = step]
  /\ job' = [job EXCEPT ![h] = [act |-> act, provider |-> p, target |-> x, access |-> t,
                                refresh |-> r, fresh |-> TRUE]]

Confirming(h) == job[h].act = "confirm"
OnGoogle(h) == job[h].provider = "google"

\* A confirm is answered; the other requests only report to the page.
Answer(h, what) == IF Confirming(h) THEN Goto(h, what) ELSE Finish(h)

Return(h) ==
  /\ pc[h] \in Answers
  /\ Finish(h)
  /\ UNCHANGED <<link, dest, world, faults>>

------------------------------------------------------------------------------
(* Connecting and disconnecting                                             *)

\* A callback whose code has been exchanged.  prompt=consent makes Google grant a
\* refresh token as a rule; a new consent shares the account's databases again.
Connect(h, p) ==
  LET t == consents[p] + 1 IN
  /\ "connect" \in Requests[h] /\ Idle(h) /\ consents[p] < MaxConsents
  /\ consents' = [consents EXCEPT ![p] = t]
  /\ unshared' = IF p = "notion" THEN {} ELSE unshared
  /\ \E x \in TargetsOf[p] :
       \/ /\ Serve(h, "connect", p, x, t, IF p = "google" THEN t ELSE NoToken, "linking")
          /\ UNCHANGED faults
       \/ /\ p = "google" /\ Fault("omit")
          /\ Serve(h, "connect", p, x, t, NoToken, "inheriting")
  /\ UNCHANGED <<link, dest, revoked>>

\* storeGoogleTokens without a new refresh token: the prior row's, if there is one.
Inherit(h) ==
  /\ pc[h] = "inheriting"
  /\ pc' = [pc EXCEPT ![h] = "linking"]
  /\ job' = [job EXCEPT ![h].refresh = IF link["google"] = NoLink THEN NoToken
                                       ELSE link["google"].refresh]
  /\ UNCHANGED <<link, dest, world, faults>>

\* UpsertOAuthAccount
Upsert(h) ==
  /\ pc[h] = "linking"
  /\ link' = [link EXCEPT ![job[h].provider] =
       [access |-> job[h].access, refresh |-> job[h].refresh, fresh |-> TRUE, broken |-> FALSE]]
  /\ Finish(h)
  /\ UNCHANGED <<dest, world, faults>>

Disconnect(h, p) ==
  /\ "disconnect" \in Requests[h] /\ Idle(h)
  /\ \E x \in TargetsOf[p] : Serve(h, "disconnect", p, x, NoToken, NoToken, "deleting")
  /\ UNCHANGED <<link, dest, world, faults>>

\* DeleteOAuthAccount
Delete(h) ==
  /\ pc[h] = "deleting"
  /\ link' = [link EXCEPT ![job[h].provider] = NoLink]
  /\ Goto(h, "checking")
  /\ UNCHANGED <<dest, world, faults>>

------------------------------------------------------------------------------
(* Reaching a destination                                                   *)

\* handleSheetsCreate and Attach, handleNotionCreateDatabase and SetDestination
Setup(h, p) ==
  /\ "setup" \in Requests[h] /\ Idle(h)
  /\ \E x \in TargetsOf[p] : Serve(h, "setup", p, x, NoToken, NoToken, "opening")
  /\ UNCHANGED <<link, dest, world, faults>>

\* handleNotionResources and handleNotionMapping
Browse(h) ==
  /\ "browse" \in Requests[h] /\ Idle(h)
  /\ \E x \in TargetsOf["notion"] : Serve(h, "browse", "notion", x, NoToken, NoToken, "opening")
  /\ UNCHANGED <<link, dest, world, faults>>

\* A confirm comes here inside confirmMu, a preview does not.
UseDestination(h) ==
  /\ Idle(h)
  /\ \/ /\ "confirm" \in Requests[h]
        /\ \A g \in Handler : pc[g] # "idle" => job[g].act # "confirm"
        /\ \E x \in TargetsOf["google"] :
             Serve(h, "confirm", "google", x, NoToken, NoToken, "resolving")
     \/ /\ "preview" \in Requests[h]
        /\ \E x \in TargetsOf["google"] :
             Serve(h, "preview", "google", x, NoToken, NoToken, "resolving")
  /\ UNCHANGED <<link, dest, world, faults>>

\* writerFor
Resolve(h) ==
  /\ pc[h] = "resolving"
  /\ \/ dest = NoDest /\ Answer(h, "set_up")
     \/ dest # NoDest /\ dest.broken /\ Answer(h, "reconnect")
     \/ /\ dest # NoDest /\ ~dest.broken
        /\ pc' = [pc EXCEPT ![h] = "opening"]
        /\ job' = [job EXCEPT ![h].provider = dest.type, ![h].target = dest.target]
  /\ UNCHANGED <<link, dest, world, faults>>

\* userTokenSource and notionAccessToken: a missing or broken link is errReconnect.
Open(h) ==
  LET l == link[job[h].provider] IN
  /\ pc[h] = "opening"
  /\ \/ l = NoLink /\ Answer(h, "reconnect")
     \/ l # NoLink /\ l.broken /\ Answer(h, "reconnect")
     \/ /\ l # NoLink /\ ~l.broken
        /\ pc' = [pc EXCEPT ![h] = IF OnGoogle(h) THEN "refreshing" ELSE "calling"]
        /\ job' = [job EXCEPT ![h].access = l.access, ![h].refresh = l.refresh,
                              ![h].fresh = l.fresh]
  /\ UNCHANGED <<link, dest, world, faults>>

\* TokenSource.Token with an access token that has not expired, or a refresh that works
Refresh(h) ==
  /\ pc[h] = "refreshing"
  /\ \/ job[h].fresh /\ Goto(h, "calling")
     \/ /\ ~job[h].fresh /\ Honoured("google", job[h].refresh)
        /\ pc' = [pc EXCEPT ![h] = "persisting"]
        /\ job' = [job EXCEPT ![h].access = job[h].refresh, ![h].fresh = TRUE]
  /\ UNCHANGED <<link, dest, world, faults>>

\* Any error from Token: sheetWriter flags the connection, a setup request does not.
NoFreshToken(h) == IF job[h].act = "setup" THEN Finish(h) ELSE Goto(h, "flagging")

RefreshRefused(h) ==
  /\ pc[h] = "refreshing"
  /\ ~job[h].fresh /\ ~Honoured("google", job[h].refresh)
  /\ NoFreshToken(h)
  /\ UNCHANGED <<link, dest, world, faults>>

RefreshFails(h) ==
  /\ pc[h] = "refreshing" /\ ~job[h].fresh /\ Fault("token")
  /\ NoFreshToken(h)
  /\ UNCHANGED <<link, dest, world>>

\* Mutant: UpdateOAuthTokens is an upsert.
PersistOrInsert(h) ==
  /\ pc[h] = "persisting"
  /\ link' = [link EXCEPT !["google"] =
       [access |-> job[h].access, refresh |-> job[h].refresh, fresh |-> TRUE, broken |-> FALSE]]
  /\ Goto(h, "calling")
  /\ UNCHANGED <<dest, world, faults>>

\* UpdateOAuthTokens: whatever row the account has by now, if it has one.
Persist(h) ==
  /\ pc[h] = "persisting"
  /\ link' = IF link["google"] = NoLink THEN link
             ELSE [link EXCEPT !["google"].access = job[h].access, !["google"].fresh = TRUE,
                               !["google"].broken = FALSE]
  /\ Goto(h, "calling")
  /\ UNCHANGED <<dest, world, faults>>

Accepted(h) == Accepts(job[h].provider, job[h].access, job[h].target)

\* The provider does what is asked.
Call(h) ==
  /\ pc[h] = "calling" /\ Accepted(h)
  /\ IF job[h].act = "setup" THEN Goto(h, "saving") ELSE Answer(h, "written")
  /\ UNCHANGED <<link, dest, world, faults>>

\* Mutant: NeedsReconnect is answered and not recorded.
CallRefusedUnmarked(h) ==
  /\ pc[h] = "calling" /\ ~Accepted(h)
  /\ Answer(h, IF OnGoogle(h) THEN "retry" ELSE "reconnect")
  /\ UNCHANGED <<link, dest, world, faults>>

\* Mutant: NeedsReconnect does not recognise the error.
CallRefusedUnrecognised(h) ==
  /\ pc[h] = "calling" /\ ~Accepted(h)
  /\ Answer(h, "retry")
  /\ UNCHANGED <<link, dest, world, faults>>

\* It refuses the token or the target: Notion's 401, 403 and 404 are NeedsReconnect;
\* Google's are errors like any other, and a preview has none.
CallRefused(h) ==
  /\ pc[h] = "calling" /\ ~Accepted(h)
  /\ IF OnGoogle(h) \/ job[h].act = "preview" THEN Answer(h, "retry") ELSE Goto(h, "flagging")
  /\ UNCHANGED <<link, dest, world, faults>>

\* It fails for any other reason.
CallFails(h) ==
  /\ pc[h] = "calling"
  /\ Answer(h, "retry")
  /\ UNCHANGED <<link, dest, world, faults>>

\* SetDestination: it replaces whatever was there, and clears its broken flag.
Save(h) ==
  /\ pc[h] = "saving"
  /\ dest' = [type |-> job[h].provider, target |-> job[h].target, broken |-> FALSE]
  /\ Finish(h)
  /\ UNCHANGED <<link, world, faults>>

------------------------------------------------------------------------------
(* markConnectionBroken and markNotionBroken                                *)

\* MarkOAuthBroken
Flag(h) ==
  LET p == job[h].provider IN
  /\ pc[h] = "flagging"
  /\ link' = IF link[p] = NoLink THEN link ELSE [link EXCEPT ![p].broken = TRUE]
  /\ Goto(h, IF OnGoogle(h) THEN "marking" ELSE "checking")
  /\ UNCHANGED <<dest, world, faults>>

\* Mutant: the destination is left to the next write to find out about.
CheckNothing(h) ==
  /\ pc[h] = "checking"
  /\ Answer(h, "reconnect")
  /\ UNCHANGED <<link, dest, world, faults>>

\* GetDestination: only the provider's own destination loses its access.
Check(h) ==
  /\ pc[h] = "checking"
  /\ IF dest # NoDest /\ dest.type = job[h].provider THEN Goto(h, "marking")
     ELSE Answer(h, "reconnect")
  /\ UNCHANGED <<link, dest, world, faults>>

\* MarkDestinationBroken, whatever the destination is by now
Mark(h) ==
  /\ pc[h] = "marking"
  /\ dest' = IF dest = NoDest THEN NoDest ELSE [dest EXCEPT !.broken = TRUE]
  /\ Answer(h, "reconnect")
  /\ UNCHANGED <<link, world, faults>>

------------------------------------------------------------------------------
\* A statement is refused.  Where it only keeps a record the request goes on without
\* it; elsewhere it ends in a 500.
StatementFails(h) ==
  /\ Fault("db")
  /\ \/ pc[h] \in {"linking", "deleting", "resolving", "opening", "saving"} /\ Finish(h)
     \/ pc[h] = "inheriting" /\ Goto(h, "linking")
     \/ pc[h] = "persisting" /\ Goto(h, "calling")
     \/ pc[h] = "flagging" /\ Goto(h, IF OnGoogle(h) THEN "marking" ELSE "checking")
     \/ pc[h] \in {"checking", "marking"} /\ Answer(h, "reconnect")
  /\ UNCHANGED <<link, dest, world>>

Crash ==
  /\ \E h \in Handler : ~Idle(h)
  /\ Fault("crash")
  /\ pc' = [h \in Handler |-> "idle"]
  /\ job' = [h \in Handler |-> NoJob]
  /\ UNCHANGED <<link, dest, world>>

(* What happens elsewhere                                                   *)

Revoke(p) ==
  /\ revoked[p] < consents[p]
  /\ revoked' = [revoked EXCEPT ![p] = consents[p]]
  /\ UNCHANGED <<link, dest, consents, unshared, pc, job, faults>>

Unshare(x) ==
  /\ x \notin unshared
  /\ unshared' = unshared \cup {x}
  /\ UNCHANGED <<link, dest, consents, revoked, pc, job, faults>>

Expire ==
  /\ link["google"] # NoLink /\ link["google"].fresh
  /\ link' = [link EXCEPT !["google"].fresh = FALSE]
  /\ UNCHANGED <<dest, world, pc, job, faults>>

------------------------------------------------------------------------------
Init ==
  /\ link = [p \in Provider |-> NoLink]
  /\ dest = NoDest
  /\ consents = [p \in Provider |-> 0]
  /\ revoked = [p \in Provider |-> 0]
  /\ unshared = {}
  /\ pc = [h \in Handler |-> "idle"]
  /\ job = [h \in Handler |-> NoJob]
  /\ faults = 0

Request(h) ==
  \/ \E p \in Provider : Connect(h, p) \/ Disconnect(h, p) \/ Setup(h, p)
  \/ Browse(h) \/ UseDestination(h)

HandlerStep(h) ==
  \/ Inherit(h) \/ Upsert(h) \/ Delete(h) \/ Resolve(h) \/ Open(h)
  \/ Refresh(h) \/ RefreshRefused(h) \/ RefreshFails(h) \/ Persist(h)
  \/ Call(h) \/ CallRefused(h) \/ CallFails(h) \/ Save(h)
  \/ Flag(h) \/ Check(h) \/ Mark(h) \/ StatementFails(h) \/ Return(h)

World ==
  \/ \E p \in Provider : Revoke(p)
  \/ \E x \in TargetsOf["notion"] : Unshare(x)
  \/ Expire

Next == (\E h \in Handler : Request(h) \/ HandlerStep(h)) \/ Crash \/ World

Spec == Init /\ [][Next]_vars

\* Every call a request makes returns, access tokens expire, and a provider that is
\* asked often enough to write what it refuses to gets round to saying so.
FairSpec ==
  /\ Spec
  /\ WF_vars(Expire)
  /\ \A h \in Handler : WF_vars(HandlerStep(h))
                          /\ SF_vars(CallRefused(h) /\ job[h].act = "confirm")

------------------------------------------------------------------------------
(* Safety and liveness                                                      *)

\* The step that flags a destination, and whose it is
JustMarked == dest # NoDest /\ ~dest.broken /\ dest' = [dest EXCEPT !.broken = TRUE]
MarkingFor(p) == \E h \in Handler : pc[h] = "marking" /\ pc'[h] # "marking" /\ job[h].provider = p

\* oauth.go:191 "a destination on another provider is unaffected by dropping the Google
\* link", and notion.go:148: losing or dropping one provider flags a destination at that
\* provider, never one at the other.
OtherProviderUnaffected == [][JustMarked => MarkingFor(dest.type)]_vars

\* A destination nobody can write to, though nothing says so; and a disconnect that found
\* its provider's link gone and has yet to see about the destination.
Unlinked == dest # NoDest /\ ~dest.broken /\ link[dest.type] = NoLink
Flagging ==
  \E h \in Handler :
    pc[h] \in {"checking", "marking"} /\ job[h].act = "disconnect" /\ job[h].provider = dest.type

\* README:349 and oauth.go:182, with any number of requests at work: a destination never
\* comes to be without its link and unflagged, with no request left to flag it, but by a
\* setup that saves what it opened before the link was dropped, or by a fault.
UnlinkedIsFlagged ==
  [][Unlinked' /\ (Unlinked => Flagging) =>
       Flagging' \/ dest' # dest \/ faults' # faults]_vars

\* What activeDestination tells the page
NeedsReconnect ==
  dest # NoDest /\ (dest.broken \/ link[dest.type] = NoLink \/ link[dest.type].broken)

\* README:40, with any number of requests at work: a confirm is answered with a reconnect
\* prompt only when the account menu says so too, unless a fault kept that from being noted
\* or the account has switched provider since; and asked to connect a destination only
\* when there is none.
PromptIsShown ==
  [][\A h \in Handler :
       /\ pc[h] # "reconnect" /\ pc'[h] = "reconnect" =>
            \/ NeedsReconnect' \/ faults' # faults
            \/ dest # NoDest /\ dest.type # job[h].provider
       /\ pc[h] # "set_up" /\ pc'[h] = "set_up" => dest = NoDest]_vars

\* oauth.go:184 and store/auth.go:318: a link the account dropped is gone until it
\* consents again, though a request still refreshes the token it read from it.
DroppedStaysDropped ==
  [][\A p \in Provider : link[p] = NoLink /\ link'[p] # NoLink =>
       \E h \in Handler : pc[h] = "linking" /\ job[h].provider = p]_vars

\* The destination can no longer be written to with anything the server holds.
Dead ==
  /\ dest # NoDest /\ ~NeedsReconnect
  /\ LET l == link[dest.type] IN
     ~Accepts(dest.type, l.access, dest.target) /\ ~Accepts(dest.type, l.refresh, dest.target)

\* README:242 and 280: access revoked at the provider does not go unnoticed: if the
\* account keeps confirming, the destination is flagged, or set up anew.
RevocationIsNoticed ==
  []<>(\E h \in Handler : pc[h] = "resolving" /\ job[h].act = "confirm") => (Dead ~> ~Dead)
==============================================================================
