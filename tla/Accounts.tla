-------------------------------- MODULE Accounts --------------------------------
(***************************************************************************)
(* Accounts, the single-use links mailed to them, their Google identities    *)
(* and their sessions: httpapi/auth.go, the sign-in half of httpapi/oauth.go *)
(* and the tables of store/auth.go.  Each request is a Handler whose steps    *)
(* are its SQLite statements and its call to the mailer.                      *)
(***************************************************************************)
EXTENDS Integers, Sequences, FiniteSets

CONSTANTS
  Email,       \* addresses; an account is named by its own, and so is the Google
               \* identity that asserts it
  Password, Handler, NoUser, NoPassword, NoJob,
  Requests,    \* the kinds of request the instance issues
  FaultKinds,
  MaxLinks,    \* bound: links mailed
  MaxSessions, \* bound: sessions at one time
  MaxFaults    \* bound: faults an instance injects

AllRequests == {"signup", "verify", "login", "forgot", "reset", "google", "unlink", "logout"}

\* "db": SQLite refuses a statement; "mail": the mailer refuses a message;
\* "crash": the process restarts.
AllFaults == {"db", "mail", "crash"}

ASSUME Kinds == Requests \subseteq AllRequests /\ FaultKinds \subseteq AllFaults
ASSUME Numbers ==
  MaxLinks \in Nat /\ MaxSessions \in Nat /\ MaxFaults \in Nat

\* asserted is history: Google vouched for the address when it made the account.
User    == [password: Password \cup {NoPassword}, verified: BOOLEAN, asserted: BOOLEAN]
Session == [email: Email, by: {"password", "google"}]

ASSUME AbsentUser == NoUser \notin User

\* A row of auth_tokens, and whether its link has reached the mailbox
Link == [kind: {"verify", "reset"}, email: Email, state: {"live", "used", "expired"},
         mailed: BOOLEAN]

Job == [act: AllRequests, email: Email, password: Password \cup {NoPassword}, link: 0..MaxLinks,
        asserted: BOOLEAN]

VARIABLES
  users, google, \* users, and the addresses whose Google identity is linked
  links,         \* auth_tokens
  sessions,
  pc, job, faults

vars == <<users, google, links, sessions, pc, job, faults>>

PC == {"idle", "creating", "minting", "mailing", "consuming", "setting", "verifying",
       "checking", "starting", "identifying", "matching", "asserting", "linking"}

\* A linked identity and a session belong to an account that exists.
TypeOK ==
  /\ users \in [Email -> User \cup {NoUser}]
  /\ google \subseteq {e \in Email : users[e] # NoUser}
  /\ links \in Seq(Link) /\ Len(links) <= MaxLinks
  /\ sessions \subseteq Session
  /\ \A s \in sessions : users[s.email] # NoUser
  /\ pc \in [Handler -> PC]
  /\ job \in [Handler -> Job \cup {NoJob}]
  /\ \A h \in Handler : pc[h] # "idle" => job[h] \in Job
  /\ faults \in 0..MaxFaults

------------------------------------------------------------------------------
Fault(kind) == kind \in FaultKinds /\ faults < MaxFaults /\ faults' = faults + 1

Goto(h, step) == pc' = [pc EXCEPT ![h] = step] /\ UNCHANGED job
Finish(h) == pc' = [pc EXCEPT ![h] = "idle"] /\ job' = [job EXCEPT ![h] = NoJob]
tables == <<users, google, links, sessions>>

Serve(h, act, e, p, n, asserted, step) ==
  /\ act \in Requests /\ pc[h] = "idle"
  /\ pc' = [pc EXCEPT ![h] = step]
  /\ job' = [job EXCEPT ![h] =
       [act |-> act, email |-> e, password |-> p, link |-> n, asserted |-> asserted]]
  /\ UNCHANGED <<tables, faults>>

\* Bound: a request that mails a link starts only if one is left for it.
HasLink ==
  Len(links) + Cardinality({h \in Handler : pc[h] \in {"creating", "minting"}}) < MaxLinks

Request(h) ==
  \E e \in Email :
    \/ \E p \in Password :
         \/ HasLink /\ Serve(h, "signup", e, p, 0, FALSE, "creating")
         \/ Serve(h, "login", e, p, 0, FALSE, "checking")
    \/ \E n \in DOMAIN links, p \in Password :
         /\ links[n].mailed /\ links[n].email = e
         /\ \/ links[n].kind = "verify" /\ Serve(h, "verify", e, NoPassword, n, FALSE, "consuming")
            \/ links[n].kind = "reset" /\ Serve(h, "reset", e, p, n, FALSE, "consuming")
    \/ users[e] # NoUser /\ HasLink /\ Serve(h, "forgot", e, NoPassword, 0, FALSE, "minting")
    \/ \E a \in BOOLEAN : Serve(h, "google", e, NoPassword, 0, a, "identifying")

\* Mutant: an account is active as soon as it is made.
CreateVerified(h) ==
  LET e == job[h].email IN
  /\ pc[h] = "creating"
  /\ IF users[e] # NoUser THEN Finish(h) /\ UNCHANGED users
     ELSE /\ users' = [users EXCEPT ![e] =
               [password |-> job[h].password, verified |-> TRUE,
                asserted |-> job[h].asserted]]
          /\ Goto(h, IF job[h].act = "signup" THEN "minting" ELSE "linking")
  /\ UNCHANGED <<google, links, sessions, faults>>

\* CreateUser; the UNIQUE email decides between two of them, 409 for a sign-up.
Create(h) ==
  LET e == job[h].email IN
  /\ pc[h] = "creating"
  /\ IF users[e] # NoUser THEN Finish(h) /\ UNCHANGED users
     ELSE /\ users' = [users EXCEPT ![e] =
               [password |-> job[h].password, verified |-> FALSE, asserted |-> job[h].asserted]]
          /\ Goto(h, IF job[h].act = "signup" THEN "minting"
                     ELSE IF job[h].asserted THEN "asserting" ELSE "linking")
  /\ UNCHANGED <<google, links, sessions, faults>>

\* CreateAuthToken, for a new account or a forgotten password
Mint(h) ==
  /\ pc[h] = "minting" /\ Len(links) < MaxLinks
  /\ links' = Append(links, [kind |-> IF job[h].act = "signup" THEN "verify" ELSE "reset",
                             email |-> job[h].email, state |-> "live", mailed |-> FALSE])
  /\ pc' = [pc EXCEPT ![h] = "mailing"]
  /\ job' = [job EXCEPT ![h].link = Len(links) + 1]
  /\ UNCHANGED <<users, google, sessions, faults>>

Mail(h) ==
  /\ pc[h] = "mailing"
  /\ links' = [links EXCEPT ![job[h].link].mailed = TRUE]
  /\ Finish(h)
  /\ UNCHANGED <<users, google, sessions, faults>>

\* Logged; a sign-up still answers 201 and a forgotten password 200.
MailFails(h) ==
  /\ pc[h] = "mailing" /\ Fault("mail")
  /\ Finish(h)
  /\ UNCHANGED tables

\* Mutant: used_at is not looked at.
ConsumeAgain(h) ==
  /\ pc[h] = "consuming"
  /\ IF links[job[h].link].state = "expired" THEN Finish(h) /\ UNCHANGED links
     ELSE /\ links' = [links EXCEPT ![job[h].link].state = "used"]
          /\ Goto(h, IF job[h].act = "reset" THEN "setting" ELSE "verifying")
  /\ UNCHANGED <<users, google, sessions, faults>>

\* ConsumeAuthToken: one UPDATE both checks and marks.
Consume(h) ==
  /\ pc[h] = "consuming"
  /\ IF links[job[h].link].state # "live" THEN Finish(h) /\ UNCHANGED links
     ELSE /\ links' = [links EXCEPT ![job[h].link].state = "used"]
          /\ Goto(h, IF job[h].act = "reset" THEN "setting" ELSE "verifying")
  /\ UNCHANGED <<users, google, sessions, faults>>

\* SetPasswordHash
SetPassword(h) ==
  /\ pc[h] = "setting"
  /\ users' = [users EXCEPT ![job[h].email].password = job[h].password]
  /\ Goto(h, "verifying")
  /\ UNCHANGED <<google, links, sessions, faults>>

\* MarkEmailVerified
MarkVerified(h) ==
  /\ pc[h] \in {"verifying", "asserting"}
  /\ users' = [users EXCEPT ![job[h].email].verified = TRUE]
  /\ IF pc[h] = "verifying" THEN Finish(h) ELSE Goto(h, "linking")
  /\ UNCHANGED <<google, links, sessions, faults>>

\* handleLogin: 401 and 403 change nothing.
Login(h) ==
  LET u == users[job[h].email] IN
  /\ pc[h] = "checking"
  /\ IF u # NoUser /\ u.password = job[h].password /\ u.verified
     THEN Goto(h, "starting") ELSE Finish(h)
  /\ UNCHANGED <<tables, faults>>

\* startSession
Start(h) ==
  /\ pc[h] = "starting"
  /\ Cardinality(sessions) < MaxSessions
  /\ sessions' = sessions \cup
       {[email |-> job[h].email, by |-> IF job[h].act = "login" THEN "password" ELSE "google"]}
  /\ Finish(h)
  /\ UNCHANGED <<users, google, links, faults>>

------------------------------------------------------------------------------
(* Google sign-in                                                           *)

\* GetOAuthAccountBySub
Identify(h) ==
  /\ pc[h] = "identifying"
  /\ Goto(h, IF job[h].email \in google THEN "linking" ELSE "matching")
  /\ UNCHANGED <<tables, faults>>

\* Mutant: any account with the address will do.
MatchUnverified(h) ==
  /\ pc[h] = "matching"
  /\ Goto(h, IF users[job[h].email] = NoUser THEN "creating" ELSE "linking")
  /\ UNCHANGED <<tables, faults>>

\* GetUserByEmail: linked only if verified, made if there is none.
Match(h) ==
  LET u == users[job[h].email] IN
  /\ pc[h] = "matching"
  /\ \/ u = NoUser /\ Goto(h, "creating")
     \/ u # NoUser /\ u.verified /\ Goto(h, "linking")
     \/ u # NoUser /\ ~u.verified /\ Finish(h)
  /\ UNCHANGED <<tables, faults>>

\* storeGoogleTokens
LinkGoogle(h) ==
  /\ pc[h] = "linking"
  /\ google' = google \cup {job[h].email}
  /\ Goto(h, "starting")
  /\ UNCHANGED <<users, links, sessions, faults>>

------------------------------------------------------------------------------
\* A statement is refused.  Only handleResetPassword carries on, with nothing left
\* to do but reply; everything else ends in an error page.
StatementFails(h) ==
  /\ pc[h] \notin {"idle", "mailing"} /\ Fault("db")
  /\ Finish(h)
  /\ UNCHANGED tables

\* handleLogout, or the session's own expiry
EndSession(s) ==
  /\ "logout" \in Requests
  /\ sessions' = sessions \ {s}
  /\ UNCHANGED <<users, google, links, pc, job, faults>>

\* handleGoogleDisconnect, as sign-in sees it
Unlink(e) ==
  /\ "unlink" \in Requests /\ e \in google
  /\ google' = google \ {e}
  /\ UNCHANGED <<users, links, sessions, pc, job, faults>>

ExpireLink(n) ==
  /\ links[n].state = "live"
  /\ links' = [links EXCEPT ![n].state = "expired"]
  /\ UNCHANGED <<users, google, sessions, pc, job, faults>>

\* A restart ends every request; sessions are looked up by the hash of their cookie
\* and outlive it, whatever the SESSION_SECRET of the next run.
Restart ==
  /\ Fault("crash")
  /\ pc' = [h \in Handler |-> "idle"]
  /\ job' = [h \in Handler |-> NoJob]
  /\ UNCHANGED tables

------------------------------------------------------------------------------
Init ==
  /\ users = [e \in Email |-> NoUser]
  /\ google = {} /\ links = <<>> /\ sessions = {}
  /\ pc = [h \in Handler |-> "idle"]
  /\ job = [h \in Handler |-> NoJob]
  /\ faults = 0

HandlerStep(h) ==
  \/ Create(h) \/ Mint(h) \/ Mail(h) \/ MailFails(h) \/ Consume(h) \/ SetPassword(h)
  \/ MarkVerified(h) \/ Login(h) \/ Start(h) \/ Identify(h) \/ Match(h) \/ LinkGoogle(h)
  \/ StatementFails(h)

Next ==
  \/ \E h \in Handler : Request(h) \/ HandlerStep(h)
  \/ \E s \in sessions : EndSession(s)
  \/ \E e \in Email : Unlink(e)
  \/ \E n \in DOMAIN links : ExpireLink(n)
  \/ Restart

Spec == Init /\ [][Next]_vars

------------------------------------------------------------------------------
(* Safety                                                                   *)

\* store/auth.go:359 "a token works at most once", also when a link is opened twice
\* at the same time: no two requests are past it together.
LinkWorksOnce ==
  \A g, h \in Handler :
    /\ g # h /\ pc[g] \in {"setting", "verifying"} /\ pc[h] \in {"setting", "verifying"}
    => job[g].link # job[h].link

Proved(e) == \E n \in DOMAIN links : links[n].email = e /\ links[n].mailed /\ links[n].state = "used"

\* auth.go:46: an account is active only once its address is proved, by a link that
\* reached the mailbox or by Google's word, however sign-up and sign-in interleave.
ActiveIsProved ==
  \A e \in Email : users[e] # NoUser /\ users[e].verified => users[e].asserted \/ Proved(e)

\* auth.go:134: a session that began with a password is an active account's.
PasswordSessionsAreActive ==
  \A s \in sessions : s.by = "password" => users[s.email].verified

\* README:338: Google identities are linked only to accounts already verified; one
\* that is not was made by a sign-in, and its password came through its mailbox.
LinkedIsVerified ==
  \A e \in google : users[e].verified \/ users[e].password = NoPassword \/ Proved(e)
==============================================================================
