----------------------------- MODULE AccountsProofs -----------------------------
(***************************************************************************)
(* For every number of addresses, passwords, requests and links: an account   *)
(* is active only once its address is proved, a link works once, and Google   *)
(* is linked to no account whose address is still anybody's.                  *)
(*                                                                          *)
(* The tables are parameters of what is said about them, u for users and l    *)
(* for links, so that one request can be followed from a state to the next.   *)
(***************************************************************************)
EXTENDS Accounts, TLAPS

Shown(l, e) == \E n \in DOMAIN l : l[n].email = e /\ l[n].mailed /\ l[n].state = "used"

\* What LinkedIsVerified says of an address, whether it is linked or about to be
Linkable(u, l, e) == u[e] # NoUser /\ (u[e].verified \/ u[e].password = NoPassword \/ Shown(l, e))

\* The link a request came in by, which has reached the mailbox of its address
CameBy(l, j) == j.link \in DOMAIN l /\ l[j.link].mailed /\ l[j.link].email = j.email

\* What a request at a step knows of the tables.
AtStep(step, j, u, l) ==
  /\ step \in PC /\ j \in Job \cup {NoJob}
  /\ step # "idle" => j \in Job
  /\ step = "creating" => j.act = "signup" \/ (j.act = "google" /\ j.password = NoPassword)
  /\ step = "minting" => u[j.email] # NoUser
  /\ step = "mailing" => j.link \in DOMAIN l
  /\ step = "consuming" => CameBy(l, j) /\ u[j.email] # NoUser
  /\ step \in {"setting", "verifying"} =>
       CameBy(l, j) /\ l[j.link].state = "used" /\ u[j.email] # NoUser
  /\ step = "checking" => j.act = "login"
  /\ step \in {"identifying", "matching", "asserting", "linking"} => j.act = "google"
  /\ step \in {"identifying", "matching"} => j.password = NoPassword
  /\ step = "asserting" => Linkable(u, l, j.email) /\ u[j.email].asserted
  /\ step = "linking" => Linkable(u, l, j.email)
  /\ step = "starting" => u[j.email] # NoUser /\ (j.act = "login" => u[j.email].verified)

UsersInv == users \in [Email -> User \cup {NoUser}] /\ ActiveIsProved
LinksInv == links \in Seq(Link) /\ Len(links) =< MaxLinks /\ \A n \in DOMAIN links : users[links[n].email] # NoUser
GoogleInv == google \subseteq Email /\ \A e \in google : Linkable(users, links, e)
SessionsInv ==
  \A s \in sessions :
    s \in Session /\ users[s.email] # NoUser /\ (s.by = "password" => users[s.email].verified)
Requested ==
  /\ pc \in [Handler -> PC] /\ job \in [Handler -> Job \cup {NoJob}]
  /\ \A h \in Handler : AtStep(pc[h], job[h], users, links)

AccountsInv == UsersInv /\ LinksInv /\ GoogleInv /\ SessionsInv /\ Requested /\ LinkWorksOnce

------------------------------------------------------------------------------
(* Accounts are not removed and keep what was proved of them.               *)

UsersLast ==
  \A e \in Email : users[e] # NoUser =>
    /\ users'[e] # NoUser /\ users'[e].asserted = users[e].asserted
    /\ users[e].verified => users'[e].verified

LinksLast ==
  \A n \in DOMAIN links :
    /\ n \in DOMAIN links' /\ links'[n].email = links[n].email
    /\ links[n].mailed => links'[n].mailed
    /\ links[n].state = "used" => links'[n].state = "used"

PasswordsLast ==
  \A e \in Email : users[e] # NoUser =>
    users'[e].password = users[e].password \/ Shown(links', e)

Lasts == UsersLast /\ PasswordsLast /\ LinksLast

LEMMA ShownLasts ==
  ASSUME LinksLast, NEW e, Shown(links, e)
  PROVE  Shown(links', e)
BY DEF Shown, LinksLast

LEMMA LinkableLasts ==
  ASSUME Lasts, NEW e \in Email, Linkable(users, links, e)
  PROVE  Linkable(users', links', e)
BY ShownLasts DEF Lasts, Linkable, UsersLast, PasswordsLast

LEMMA AtStepLasts ==
  ASSUME Lasts, NEW step, NEW j, AtStep(step, j, users, links)
  PROVE  AtStep(step, j, users', links')
<1>1. CASE step = "idle" BY <1>1 DEF AtStep
<1>2. CASE step # "idle"
  <2>1. j \in Job /\ j.email \in Email BY <1>2 DEF AtStep, Job
  <2>2. CameBy(links, j) => CameBy(links', j) BY DEF CameBy, Lasts, LinksLast
  <2>3. Linkable(users, links, j.email) => Linkable(users', links', j.email) BY <2>1, LinkableLasts
  <2>4. CameBy(links, j) /\ links[j.link].state = "used" => links'[j.link].state = "used"
    BY DEF CameBy, Lasts, LinksLast
  <2>5. users[j.email] # NoUser =>
          /\ users'[j.email] # NoUser /\ users'[j.email].asserted = users[j.email].asserted
          /\ users[j.email].verified => users'[j.email].verified
    BY <2>1 DEF Lasts, UsersLast
  <2>6. j.link \in DOMAIN links => j.link \in DOMAIN links' BY DEF Lasts, LinksLast
  <2> QED BY <2>1, <2>2, <2>3, <2>4, <2>5, <2>6 DEF AtStep, Linkable
<1> QED BY <1>1, <1>2

\* One request moves on, and no other is past the same link.
LEMMA OneMoves ==
  ASSUME AccountsInv, Lasts, NEW h \in Handler, NEW step, NEW j,
         pc' = [pc EXCEPT ![h] = step], job' = [job EXCEPT ![h] = j],
         AtStep(step, j, users', links'),
         step \in {"setting", "verifying"} =>
           \A g \in Handler \ {h} : pc[g] \in {"setting", "verifying"} => job[g].link # j.link
  PROVE  Requested' /\ LinkWorksOnce'
<1>0. pc \in [Handler -> PC] /\ job \in [Handler -> Job \cup {NoJob}] BY DEF AccountsInv, Requested
<1>1. pc' \in [Handler -> PC] /\ job' \in [Handler -> Job \cup {NoJob}] BY <1>0 DEF AtStep
<1>2. ASSUME NEW g \in Handler PROVE AtStep(pc'[g], job'[g], users', links')
  <2>1. CASE g = h BY <1>0, <2>1
  <2>2. CASE g # h
    <3>1. pc'[g] = pc[g] /\ job'[g] = job[g] BY <1>0, <2>2
    <3>2. AtStep(pc[g], job[g], users, links) BY DEF AccountsInv, Requested
    <3> QED BY <3>1, <3>2, AtStepLasts
  <2> QED BY <2>1, <2>2
<1>3. pc'[h] = step /\ job'[h] = j /\ \A g \in Handler \ {h} : pc'[g] = pc[g] /\ job'[g] = job[g]
  BY <1>0
<1>4. LinkWorksOnce' BY <1>3 DEF LinkWorksOnce, AccountsInv
<1> QED BY <1>1, <1>2, <1>4 DEF Requested

\* Where no table changes, everything lasts.
LEMMA NothingWritten ==
  ASSUME users' = users, links' = links
  PROVE  Lasts
BY DEF Lasts, UsersLast, LinksLast, PasswordsLast

LEMMA TablesStay ==
  ASSUME AccountsInv, users' = users, links' = links, google' = google, sessions' = sessions
  PROVE  UsersInv' /\ LinksInv' /\ GoogleInv' /\ SessionsInv' /\ Lasts
BY NothingWritten DEF AccountsInv, UsersInv, LinksInv, GoogleInv, SessionsInv, ActiveIsProved, Proved

------------------------------------------------------------------------------
(* Steps that write no table                                                *)

\* A request ends.
LEMMA EndsKeep ==
  ASSUME AccountsInv, Lasts, UsersInv', LinksInv', GoogleInv', SessionsInv', NEW h \in Handler, Finish(h)
  PROVE  AccountsInv'
<1>1. AtStep("idle", NoJob, users', links') BY DEF AtStep, PC
<1>2. pc' = [pc EXCEPT ![h] = "idle"] /\ job' = [job EXCEPT ![h] = NoJob] BY DEF Finish
<1> QED BY <1>1, <1>2, OneMoves DEF AccountsInv

\* A request goes on with the job it has.
LEMMA GoesOn ==
  ASSUME AccountsInv, Lasts, UsersInv', LinksInv', GoogleInv', SessionsInv', NEW h \in Handler, NEW step,
         Goto(h, step), AtStep(step, job[h], users', links'),
         step \in {"setting", "verifying"} =>
           \A g \in Handler \ {h} : pc[g] \in {"setting", "verifying"} => job[g].link # job[h].link
  PROVE  AccountsInv'
<1>1. pc' = [pc EXCEPT ![h] = step] /\ job' = [job EXCEPT ![h] = job[h]]
  BY DEF Goto, AccountsInv, Requested
<1> QED BY <1>1, OneMoves DEF AccountsInv

LEMMA ServeKeeps ==
  ASSUME AccountsInv, NEW h \in Handler, NEW step, NEW j, pc' = [pc EXCEPT ![h] = step],
         job' = [job EXCEPT ![h] = j], UNCHANGED <<tables, faults>>,
         AtStep(step, j, users, links), step \notin {"setting", "verifying"}
  PROVE  AccountsInv'
<1>1. users' = users /\ links' = links /\ google' = google /\ sessions' = sessions BY DEF tables
<1>2. AtStep(step, j, users', links') BY <1>1
<1>3. Lasts BY <1>1, NothingWritten
<1>4. Requested' /\ LinkWorksOnce' BY <1>2, <1>3, OneMoves
<1> QED BY <1>1, <1>4, TablesStay DEF AccountsInv

LEMMA RequestKeeps ==
  ASSUME AccountsInv, NEW h \in Handler, Request(h)
  PROVE  AccountsInv'
<1> DEFINE J(act, e, p, n, a) == [act |-> act, email |-> e, password |-> p, link |-> n, asserted |-> a]
           Begins(step, j) ==
             /\ pc' = [pc EXCEPT ![h] = step] /\ job' = [job EXCEPT ![h] = j]
             /\ UNCHANGED <<tables, faults>>
<1>1. PICK e \in Email :
        \/ \E p \in Password : \/ Begins("creating", J("signup", e, p, 0, FALSE))
                               \/ Begins("checking", J("login", e, p, 0, FALSE))
        \/ \E n \in DOMAIN links, p \in Password :
             /\ links[n].mailed /\ links[n].email = e
             /\ \/ Begins("consuming", J("verify", e, NoPassword, n, FALSE))
                \/ Begins("consuming", J("reset", e, p, n, FALSE))
        \/ users[e] # NoUser /\ Begins("minting", J("forgot", e, NoPassword, 0, FALSE))
        \/ \E a \in BOOLEAN : Begins("identifying", J("google", e, NoPassword, 0, a))
  BY DEF Request, Serve
<1>2. \A act \in AllRequests, p \in Password \cup {NoPassword}, n \in 0..MaxLinks, a \in BOOLEAN :
        J(act, e, p, n, a) \in Job
  BY DEF Job
<1>3. 0 \in 0..MaxLinks BY Numbers
<1>4. \A act : act \in {"signup", "login", "verify", "reset", "forgot", "google"} => act \in AllRequests
  BY DEF AllRequests
<1>s. ASSUME NEW step \in PC \ {"setting", "verifying"}, NEW j, Begins(step, j), AtStep(step, j, users, links)
      PROVE  AccountsInv'
  BY <1>s, ServeKeeps
<1>5. ASSUME NEW p \in Password
      PROVE  /\ AtStep("creating", J("signup", e, p, 0, FALSE), users, links)
             /\ AtStep("checking", J("login", e, p, 0, FALSE), users, links)
  BY <1>2, <1>3, <1>4 DEF AtStep, PC
<1>6. ASSUME NEW n \in DOMAIN links, NEW p \in Password \cup {NoPassword}, links[n].mailed, links[n].email = e,
             NEW act \in {"verify", "reset"}
      PROVE  AtStep("consuming", J(act, e, p, n, FALSE), users, links)
  <2>1. n \in 0..MaxLinks /\ users[e] # NoUser BY <1>6, Numbers DEF AccountsInv, LinksInv
  <2> QED BY <1>2, <1>4, <1>6, <2>1 DEF AtStep, PC, CameBy
<1>7. users[e] # NoUser => AtStep("minting", J("forgot", e, NoPassword, 0, FALSE), users, links)
  BY <1>2, <1>3, <1>4 DEF AtStep, PC
<1>8. ASSUME NEW a \in BOOLEAN PROVE AtStep("identifying", J("google", e, NoPassword, 0, a), users, links)
  BY <1>2, <1>3, <1>4 DEF AtStep, PC
<1>9. {"creating", "checking", "consuming", "minting", "identifying"} \subseteq PC \ {"setting", "verifying"}
  BY DEF PC
<1> HIDE DEF J, Begins
<1> QED BY <1>1, <1>s, <1>5, <1>6, <1>7, <1>8, <1>9

\* The steps that only read
LEMMA ReadsKeep ==
  ASSUME AccountsInv, NEW h \in Handler,
         MailFails(h) \/ Login(h) \/ Identify(h) \/ Match(h) \/ StatementFails(h)
  PROVE  AccountsInv'
<1>1. users' = users /\ links' = links /\ google' = google /\ sessions' = sessions
  BY DEF MailFails, Login, Identify, Match, StatementFails, tables
<1>2. UsersInv' /\ LinksInv' /\ GoogleInv' /\ SessionsInv' /\ Lasts BY <1>1, TablesStay
<1>3. AtStep(pc[h], job[h], users, links) BY DEF AccountsInv, Requested
<1>4. CASE Finish(h) BY <1>2, <1>4, EndsKeep
<1>5. CASE Login(h) /\ users[job[h].email] # NoUser /\ users[job[h].email].verified /\ Goto(h, "starting")
  <2>1. AtStep("starting", job[h], users', links') BY <1>1, <1>3, <1>5 DEF Login, AtStep, PC
  <2> QED BY <1>2, <1>5, <2>1, GoesOn
<1>6. CASE Identify(h) /\ job[h].email \in google /\ Goto(h, "linking")
  <2>1. AtStep("linking", job[h], users', links')
    BY <1>1, <1>3, <1>6 DEF Identify, AtStep, PC, AccountsInv, GoogleInv
  <2> QED BY <1>2, <1>6, <2>1, GoesOn
<1>7. CASE Identify(h) /\ Goto(h, "matching")
  <2>1. AtStep("matching", job[h], users', links') BY <1>1, <1>3, <1>7 DEF Identify, AtStep, PC
  <2> QED BY <1>2, <1>7, <2>1, GoesOn
<1>8. CASE Match(h) /\ Goto(h, "creating")
  <2>1. AtStep("creating", job[h], users', links') BY <1>1, <1>3, <1>8 DEF Match, AtStep, PC
  <2> QED BY <1>2, <1>8, <2>1, GoesOn
<1>9. CASE Match(h) /\ users[job[h].email] # NoUser /\ users[job[h].email].verified /\ Goto(h, "linking")
  <2>1. AtStep("linking", job[h], users', links') BY <1>1, <1>3, <1>9 DEF Match, AtStep, PC, Linkable
  <2> QED BY <1>2, <1>9, <2>1, GoesOn
<1> QED BY <1>4, <1>5, <1>6, <1>7, <1>8, <1>9 DEF MailFails, Login, Identify, Match, StatementFails

------------------------------------------------------------------------------
(* Steps that write the users                                               *)

LEMMA UsersChange ==
  ASSUME AccountsInv, UsersLast, PasswordsLast, users' \in [Email -> User \cup {NoUser}],
         links' = links, google' = google, sessions' = sessions,
         \A e \in Email : users'[e] # NoUser /\ users'[e].verified =>
           users'[e].asserted \/ Shown(links, e)
  PROVE  UsersInv' /\ LinksInv' /\ GoogleInv' /\ SessionsInv' /\ Lasts
<1>1. Lasts BY DEF Lasts, LinksLast
<1>2. UsersInv' BY DEF UsersInv, ActiveIsProved, Proved, Shown
<1>3. \A n \in DOMAIN links : links[n].email \in Email
  <2>1. links \in Seq(Link) BY DEF AccountsInv, LinksInv
  <2>2. \A n \in DOMAIN links : links[n] \in Link BY <2>1
  <2> QED BY <2>2 DEF Link
<1>4. LinksInv' BY <1>3 DEF AccountsInv, LinksInv, UsersLast
<1>5. GoogleInv' BY <1>1, LinkableLasts DEF AccountsInv, GoogleInv
<1>6. SessionsInv' BY DEF AccountsInv, SessionsInv, UsersLast, Session
<1> QED BY <1>1, <1>2, <1>4, <1>5, <1>6

LEMMA CreateKeeps ==
  ASSUME AccountsInv, NEW h \in Handler, Create(h)
  PROVE  AccountsInv'
<1> DEFINE e == job[h].email
           row == [password |-> job[h].password, verified |-> FALSE, asserted |-> job[h].asserted]
<1>1. /\ pc[h] = "creating" /\ links' = links /\ google' = google /\ sessions' = sessions
      /\ AtStep(pc[h], job[h], users, links)
  BY DEF Create, AccountsInv, Requested
<1>2. job[h] \in Job /\ e \in Email BY <1>1 DEF AtStep, Job
<1>3. CASE Finish(h) /\ users' = users BY <1>1, <1>3, TablesStay, EndsKeep
<1>4. CASE users[e] = NoUser /\ users' = [users EXCEPT ![e] = row]
  <2>1. /\ row \in User /\ row # NoUser /\ ~row.verified
        /\ row.password = job[h].password /\ row.asserted = job[h].asserted
    <3>1. row \in User BY <1>2 DEF User, Job
    <3>2. ~row.verified BY Zenon
    <3>3. row.password = job[h].password /\ row.asserted = job[h].asserted BY Zenon
    <3> HIDE DEF row
    <3> QED BY <3>1, <3>2, <3>3, AbsentUser
  <2> HIDE DEF row
  <2>2. users \in [Email -> User \cup {NoUser}] BY DEF AccountsInv, UsersInv
  <2>3. /\ users' \in [Email -> User \cup {NoUser}] /\ users'[e] = row
        /\ \A d \in Email \ {e} : users'[d] = users[d]
    BY <1>2, <1>4, <2>1, <2>2
  <2>4. UsersLast /\ PasswordsLast BY <1>4, <2>3 DEF UsersLast, PasswordsLast
  <2>5. \A d \in Email : users'[d] # NoUser /\ users'[d].verified => users'[d].asserted \/ Shown(links, d)
    BY <2>1, <2>3 DEF AccountsInv, UsersInv, ActiveIsProved, Proved, Shown
  <2>6. UsersInv' /\ LinksInv' /\ GoogleInv' /\ SessionsInv' /\ Lasts BY <1>1, <2>3, <2>4, <2>5, UsersChange
  <2>7. CASE job[h].act = "signup" /\ Goto(h, "minting")
    <3>1. AtStep("minting", job[h], users', links') BY <1>1, <1>2, <2>1, <2>3 DEF AtStep, PC
    <3> QED BY <2>6, <2>7, <3>1, GoesOn
  <2>8. CASE job[h].act # "signup"
    <3>1. job[h].act = "google" /\ row.password = NoPassword BY <1>1, <2>1, <2>8 DEF AtStep
    <3>2. Linkable(users', links', e) BY <2>1, <2>3, <3>1 DEF Linkable
    <3>3. job[h].asserted => AtStep("asserting", job[h], users', links')
      BY <1>2, <2>1, <2>3, <3>1, <3>2 DEF AtStep, PC
    <3>4. AtStep("linking", job[h], users', links') BY <1>2, <3>1, <3>2 DEF AtStep, PC
    <3>5. (job[h].asserted /\ Goto(h, "asserting")) \/ Goto(h, "linking") BY <1>4, <2>1, <2>8 DEF Create
    <3> QED BY <2>6, <3>3, <3>4, <3>5, GoesOn
  <2> QED BY <1>4, <2>7, <2>8 DEF Create
<1> QED BY <1>3, <1>4 DEF Create

LEMMA SetPasswordKeeps ==
  ASSUME AccountsInv, NEW h \in Handler, SetPassword(h)
  PROVE  AccountsInv'
<1> DEFINE e == job[h].email
           row == [users[e] EXCEPT !.password = job[h].password]
<1>1. /\ pc[h] = "setting" /\ links' = links /\ google' = google /\ sessions' = sessions
      /\ AtStep(pc[h], job[h], users, links) /\ users \in [Email -> User \cup {NoUser}]
  BY DEF SetPassword, AccountsInv, Requested, UsersInv
<1>2. job[h] \in Job /\ e \in Email /\ users[e] # NoUser /\ users[e] \in User BY <1>1 DEF AtStep, Job
<1>3. /\ row \in User /\ row.verified = users[e].verified /\ row.asserted = users[e].asserted
  BY <1>2 DEF User, Job
<1>4. row # NoUser BY <1>3, AbsentUser
<1>5. users' = [users EXCEPT ![e] = row] BY DEF SetPassword
<1> HIDE DEF row
<1>6. /\ users' \in [Email -> User \cup {NoUser}] /\ users'[e] = row
      /\ \A d \in Email \ {e} : users'[d] = users[d]
  BY <1>1, <1>2, <1>3, <1>5
<1>7. Shown(links, e) BY <1>1 DEF AtStep, CameBy, Shown
<1>8. UsersLast /\ PasswordsLast BY <1>1, <1>3, <1>4, <1>6, <1>7 DEF UsersLast, PasswordsLast
<1>9. \A d \in Email : users'[d] # NoUser /\ users'[d].verified => users'[d].asserted \/ Shown(links, d)
  BY <1>6, <1>7 DEF AccountsInv, UsersInv, ActiveIsProved, Proved, Shown
<1>10. UsersInv' /\ LinksInv' /\ GoogleInv' /\ SessionsInv' /\ Lasts BY <1>1, <1>6, <1>8, <1>9, UsersChange
<1>11. AtStep("verifying", job[h], users', links') BY <1>1, <1>2, <1>4, <1>6 DEF AtStep, PC, CameBy
<1>12. \A g \in Handler \ {h} : pc[g] \in {"setting", "verifying"} => job[g].link # job[h].link
  BY <1>1 DEF AccountsInv, LinkWorksOnce
<1> QED BY <1>10, <1>11, <1>12, GoesOn DEF SetPassword

LEMMA MarkVerifiedKeeps ==
  ASSUME AccountsInv, NEW h \in Handler, MarkVerified(h)
  PROVE  AccountsInv'
<1> DEFINE e == job[h].email
           row == [users[e] EXCEPT !.verified = TRUE]
<1>1. /\ pc[h] \in {"verifying", "asserting"} /\ links' = links /\ google' = google /\ sessions' = sessions
      /\ AtStep(pc[h], job[h], users, links) /\ users \in [Email -> User \cup {NoUser}]
  BY DEF MarkVerified, AccountsInv, Requested, UsersInv
<1>2. job[h] \in Job /\ e \in Email /\ users[e] # NoUser /\ users[e] \in User
  BY <1>1 DEF AtStep, Job, Linkable
<1>3. /\ row \in User /\ row.verified /\ row.asserted = users[e].asserted /\ row.password = users[e].password
  BY <1>2 DEF User
<1>4. row # NoUser BY <1>3, AbsentUser
<1>5. users' = [users EXCEPT ![e] = row] BY DEF MarkVerified
<1> HIDE DEF row
<1>6. /\ users' \in [Email -> User \cup {NoUser}] /\ users'[e] = row
      /\ \A d \in Email \ {e} : users'[d] = users[d]
  BY <1>1, <1>2, <1>3, <1>5
<1>7. users[e].asserted \/ Shown(links, e) BY <1>1 DEF AtStep, CameBy, Shown
<1>8. UsersLast /\ PasswordsLast BY <1>1, <1>3, <1>4, <1>6 DEF UsersLast, PasswordsLast
<1>9. \A d \in Email : users'[d] # NoUser /\ users'[d].verified => users'[d].asserted \/ Shown(links, d)
  BY <1>3, <1>6, <1>7 DEF AccountsInv, UsersInv, ActiveIsProved, Proved, Shown
<1>10. UsersInv' /\ LinksInv' /\ GoogleInv' /\ SessionsInv' /\ Lasts BY <1>1, <1>6, <1>8, <1>9, UsersChange
<1>11. CASE pc[h] = "verifying" BY <1>10, <1>11, EndsKeep DEF MarkVerified
<1>12. CASE pc[h] = "asserting"
  <2>1. Linkable(users', links', e) BY <1>1, <1>2, <1>10, <1>12, LinkableLasts DEF AtStep
  <2>2. AtStep("linking", job[h], users', links') BY <1>1, <1>2, <1>12, <2>1 DEF AtStep, PC
  <2> QED BY <1>10, <1>12, <2>2, GoesOn DEF MarkVerified
<1> QED BY <1>1, <1>11, <1>12

------------------------------------------------------------------------------
(* Steps that write the links                                               *)

LEMMA LinksChange ==
  ASSUME AccountsInv, LinksLast, links' \in Seq(Link), Len(links') =< MaxLinks,
         users' = users, google' = google, sessions' = sessions,
         \A n \in DOMAIN links' : users[links'[n].email] # NoUser
  PROVE  UsersInv' /\ LinksInv' /\ GoogleInv' /\ SessionsInv' /\ Lasts
<1>1. Lasts BY DEF Lasts, UsersLast, PasswordsLast
<1>2. \A e : Shown(links, e) => Shown(links', e) BY ShownLasts
<1>3. UsersInv'
  <2>1. \A e : Proved(e) <=> Shown(links, e) BY DEF Proved, Shown
  <2>2. \A e : Shown(links', e) => Proved(e)' BY DEF Proved, Shown
  <2> QED BY <1>2, <2>1, <2>2 DEF AccountsInv, UsersInv, ActiveIsProved
<1>4. LinksInv' BY DEF LinksInv
<1>5. GoogleInv' BY <1>1, LinkableLasts DEF AccountsInv, GoogleInv
<1>6. SessionsInv' BY DEF AccountsInv, SessionsInv
<1> QED BY <1>1, <1>3, <1>4, <1>5, <1>6

\* A field of one link is written, and no used link is any longer not.
LEMMA OneLink ==
  ASSUME AccountsInv, NEW n \in DOMAIN links, NEW row \in Link, links' = [links EXCEPT ![n] = row],
         row.email = links[n].email, links[n].mailed => row.mailed,
         links[n].state = "used" => row.state = "used",
         users' = users, google' = google, sessions' = sessions
  PROVE  /\ UsersInv' /\ LinksInv' /\ GoogleInv' /\ SessionsInv' /\ Lasts
         /\ DOMAIN links' = DOMAIN links /\ links'[n] = row
<1>1. links \in Seq(Link) /\ Len(links) =< MaxLinks /\ \A m \in DOMAIN links : users[links[m].email] # NoUser
  BY DEF AccountsInv, LinksInv
<1>2. /\ links' \in Seq(Link) /\ Len(links') = Len(links) /\ DOMAIN links' = DOMAIN links
      /\ links'[n] = row /\ \A m \in DOMAIN links : m # n => links'[m] = links[m]
  BY <1>1
<1>3. LinksLast BY <1>2 DEF LinksLast
<1>4. \A m \in DOMAIN links' : users[links'[m].email] # NoUser BY <1>1, <1>2
<1> QED BY <1>1, <1>2, <1>3, <1>4, LinksChange

LEMMA MintKeeps ==
  ASSUME AccountsInv, NEW h \in Handler, Mint(h)
  PROVE  AccountsInv'
<1> DEFINE kind == IF job[h].act = "signup" THEN "verify" ELSE "reset"
           row == [kind |-> kind, email |-> job[h].email, state |-> "live", mailed |-> FALSE]
           j == [job[h] EXCEPT !.link = Len(links) + 1]
<1>1. /\ pc[h] = "minting" /\ users' = users /\ google' = google /\ sessions' = sessions
      /\ AtStep(pc[h], job[h], users, links) /\ Len(links) < MaxLinks /\ links \in Seq(Link)
      /\ \A m \in DOMAIN links : users[links[m].email] # NoUser
  BY DEF Mint, AccountsInv, Requested, LinksInv
<1>2. job[h] \in Job /\ job[h].email \in Email /\ users[job[h].email] # NoUser BY <1>1 DEF AtStep, Job
<1>3. kind \in {"verify", "reset"} OBVIOUS
<1>4. row \in Link /\ row.email = job[h].email
  <2> HIDE DEF kind
  <2> QED BY <1>2, <1>3 DEF Link
<1>5. links' = Append(links, row) BY DEF Mint
<1>6. j \in Job /\ j.link = Len(links) + 1 BY <1>1, <1>2, Numbers DEF Job
<1>7. pc' = [pc EXCEPT ![h] = "mailing"] /\ job' = [job EXCEPT ![h] = j] BY DEF Mint
<1> HIDE DEF row, j
<1>8. /\ links' \in Seq(Link) /\ Len(links') = Len(links) + 1 /\ DOMAIN links' = 1..Len(links) + 1
      /\ links'[Len(links) + 1] = row /\ \A m \in DOMAIN links : links'[m] = links[m]
  BY <1>1, <1>4, <1>5
<1>9. LinksLast BY <1>1, <1>8 DEF LinksLast
<1>10. \A m \in DOMAIN links' : users[links'[m].email] # NoUser
  <2>1. \A m \in DOMAIN links' : m = Len(links) + 1 \/ m \in DOMAIN links BY <1>1, <1>8
  <2> QED BY <1>1, <1>2, <1>4, <1>8, <2>1
<1>11. Len(links') =< MaxLinks BY <1>1, <1>8, Numbers
<1>12. UsersInv' /\ LinksInv' /\ GoogleInv' /\ SessionsInv' /\ Lasts
  BY <1>1, <1>8, <1>9, <1>10, <1>11, LinksChange
<1>13. AtStep("mailing", j, users', links') BY <1>1, <1>6, <1>8 DEF AtStep, PC
<1> QED BY <1>7, <1>12, <1>13, OneMoves DEF AccountsInv

LEMMA MailKeeps ==
  ASSUME AccountsInv, NEW h \in Handler, Mail(h)
  PROVE  AccountsInv'
<1> DEFINE n == job[h].link
           row == [links[n] EXCEPT !.mailed = TRUE]
<1>1. /\ pc[h] = "mailing" /\ users' = users /\ google' = google /\ sessions' = sessions
      /\ AtStep(pc[h], job[h], users, links) /\ links \in Seq(Link)
  BY DEF Mail, AccountsInv, Requested, LinksInv
<1>2. n \in DOMAIN links /\ links[n] \in Link BY <1>1 DEF AtStep
<1>3. row \in Link /\ row.email = links[n].email /\ row.mailed /\ row.state = links[n].state
  BY <1>2 DEF Link
<1>4. links' = [links EXCEPT ![n] = row] BY DEF Mail
<1> HIDE DEF row
<1>5. UsersInv' /\ LinksInv' /\ GoogleInv' /\ SessionsInv' /\ Lasts BY <1>1, <1>2, <1>3, <1>4, OneLink
<1> QED BY <1>5, EndsKeep DEF Mail

\* ConsumeAuthToken: the link it uses up was live, so nobody else is past it.
LEMMA ConsumeKeeps ==
  ASSUME AccountsInv, NEW h \in Handler, Consume(h)
  PROVE  AccountsInv'
<1> DEFINE n == job[h].link
           row == [links[n] EXCEPT !.state = "used"]
<1>1. /\ pc[h] = "consuming" /\ users' = users /\ google' = google /\ sessions' = sessions
      /\ AtStep(pc[h], job[h], users, links) /\ links \in Seq(Link)
  BY DEF Consume, AccountsInv, Requested, LinksInv
<1>2. /\ n \in DOMAIN links /\ links[n] \in Link /\ job[h] \in Job
      /\ CameBy(links, job[h]) /\ users[job[h].email] # NoUser
  BY <1>1 DEF AtStep, CameBy
<1>3. row \in Link /\ row.email = links[n].email /\ row.mailed = links[n].mailed /\ row.state = "used"
  BY <1>2 DEF Link
<1>4. CASE links[n].state # "live"
  BY <1>1, <1>4, TablesStay, EndsKeep DEF Consume
<1>5. CASE links[n].state = "live"
  <2>1. links' = [links EXCEPT ![n] = row] BY <1>5 DEF Consume
  <2> HIDE DEF row
  <2>2. /\ UsersInv' /\ LinksInv' /\ GoogleInv' /\ SessionsInv' /\ Lasts
        /\ DOMAIN links' = DOMAIN links /\ links'[n] = row
    BY <1>1, <1>2, <1>3, <2>1, OneLink
  <2>3. PICK step \in {"setting", "verifying"} : Goto(h, step) BY <1>5 DEF Consume
  <2>4. AtStep(step, job[h], users', links') BY <1>1, <1>2, <1>3, <2>2 DEF AtStep, PC, CameBy
  <2>5. \A g \in Handler \ {h} : pc[g] \in {"setting", "verifying"} => job[g].link # n
    <3>1. \A g \in Handler : pc[g] \in {"setting", "verifying"} => links[job[g].link].state = "used"
      BY DEF AccountsInv, Requested, AtStep
    <3> QED BY <1>5, <3>1
  <2> QED BY <2>2, <2>3, <2>4, <2>5, GoesOn
<1> QED BY <1>4, <1>5

------------------------------------------------------------------------------
(* Sessions and identities                                                  *)

LEMMA StartKeeps ==
  ASSUME AccountsInv, NEW h \in Handler, Start(h)
  PROVE  AccountsInv'
<1> DEFINE by == IF job[h].act = "login" THEN "password" ELSE "google"
           row == [email |-> job[h].email, by |-> by]
<1>1. /\ pc[h] = "starting" /\ users' = users /\ google' = google /\ links' = links
      /\ AtStep(pc[h], job[h], users, links)
  BY DEF Start, AccountsInv, Requested
<1>2. /\ job[h].email \in Email /\ users[job[h].email] # NoUser
      /\ job[h].act = "login" => users[job[h].email].verified
  BY <1>1 DEF AtStep, Job
<1>3. by \in {"password", "google"} /\ (by = "password" => job[h].act = "login") OBVIOUS
<1>4. row \in Session /\ row.email = job[h].email /\ row.by = by
  <2> HIDE DEF by
  <2> QED BY <1>2, <1>3 DEF Session
<1>5. sessions' = sessions \cup {row} BY DEF Start
<1> HIDE DEF row, by
<1>6. SessionsInv' BY <1>1, <1>2, <1>3, <1>4, <1>5 DEF AccountsInv, SessionsInv
<1>7. UsersInv' /\ LinksInv' /\ GoogleInv' /\ Lasts
  BY <1>1, NothingWritten DEF AccountsInv, UsersInv, LinksInv, GoogleInv, ActiveIsProved, Proved
<1> QED BY <1>6, <1>7, EndsKeep DEF Start

LEMMA LinkGoogleKeeps ==
  ASSUME AccountsInv, NEW h \in Handler, LinkGoogle(h)
  PROVE  AccountsInv'
<1>1. /\ pc[h] = "linking" /\ users' = users /\ links' = links /\ sessions' = sessions
      /\ AtStep(pc[h], job[h], users, links) /\ google' = google \cup {job[h].email}
  BY DEF LinkGoogle, AccountsInv, Requested
<1>2. job[h].email \in Email /\ Linkable(users, links, job[h].email) BY <1>1 DEF AtStep, Job
<1>3. GoogleInv' BY <1>1, <1>2 DEF AccountsInv, GoogleInv
<1>4. UsersInv' /\ LinksInv' /\ SessionsInv' /\ Lasts
  BY <1>1, NothingWritten DEF AccountsInv, UsersInv, LinksInv, SessionsInv, ActiveIsProved, Proved
<1>5. AtStep("starting", job[h], users', links') BY <1>1, <1>2 DEF AtStep, PC, Linkable
<1> QED BY <1>3, <1>4, <1>5, GoesOn DEF LinkGoogle

\* What happens to the tables without a request
LEMMA RequestsStay ==
  ASSUME AccountsInv, Lasts, pc' = pc, job' = job
  PROVE  Requested' /\ LinkWorksOnce'
BY AtStepLasts DEF AccountsInv, Requested, LinkWorksOnce

LEMMA OthersKeep ==
  ASSUME AccountsInv,
         \/ \E s \in sessions : EndSession(s)
         \/ \E e \in Email : Unlink(e)
         \/ \E n \in DOMAIN links : ExpireLink(n)
         \/ Restart \/ UNCHANGED vars
  PROVE  AccountsInv'
<1>1. CASE (\E s \in sessions : EndSession(s)) \/ (\E e \in Email : Unlink(e)) \/ UNCHANGED vars
  <2>1. /\ users' = users /\ links' = links /\ google' \subseteq google /\ sessions' \subseteq sessions
        /\ pc' = pc /\ job' = job
    BY <1>1 DEF EndSession, Unlink, vars
  <2>2. UsersInv' /\ LinksInv' /\ Lasts
    BY <2>1, NothingWritten DEF AccountsInv, UsersInv, LinksInv, ActiveIsProved, Proved
  <2>3. GoogleInv' /\ SessionsInv' BY <2>1 DEF AccountsInv, GoogleInv, SessionsInv
  <2> QED BY <2>1, <2>2, <2>3, RequestsStay DEF AccountsInv
<1>2. ASSUME NEW n \in DOMAIN links, ExpireLink(n) PROVE AccountsInv'
  <2> DEFINE row == [links[n] EXCEPT !.state = "expired"]
  <2>1. /\ users' = users /\ google' = google /\ sessions' = sessions /\ pc' = pc /\ job' = job
        /\ links \in Seq(Link) /\ links[n].state = "live"
    BY <1>2 DEF ExpireLink, AccountsInv, LinksInv
  <2>2. links[n] \in Link BY <2>1
  <2>3. row \in Link /\ row.email = links[n].email /\ row.mailed = links[n].mailed BY <2>2 DEF Link
  <2>4. links' = [links EXCEPT ![n] = row] BY <1>2 DEF ExpireLink
  <2> HIDE DEF row
  <2>5. UsersInv' /\ LinksInv' /\ GoogleInv' /\ SessionsInv' /\ Lasts BY <2>1, <2>3, <2>4, OneLink
  <2> QED BY <2>1, <2>5, RequestsStay DEF AccountsInv
<1>3. CASE Restart
  <2>1. /\ users' = users /\ links' = links /\ google' = google /\ sessions' = sessions
        /\ pc' = [h \in Handler |-> "idle"] /\ job' = [h \in Handler |-> NoJob]
    BY <1>3 DEF Restart, tables
  <2>2. AtStep("idle", NoJob, users', links') BY DEF AtStep, PC
  <2>3. Requested' /\ LinkWorksOnce' BY <2>1, <2>2 DEF Requested, LinkWorksOnce, PC
  <2> QED BY <2>1, <2>3, TablesStay DEF AccountsInv
<1> QED BY <1>1, <1>2, <1>3

------------------------------------------------------------------------------
LEMMA AccountsInvHolds == Spec => []AccountsInv
<1>1. Init => AccountsInv
  BY Numbers DEF Init, AccountsInv, UsersInv, LinksInv, GoogleInv, SessionsInv, Requested, AtStep, PC,
                 LinkWorksOnce, ActiveIsProved
<1>2. AccountsInv /\ [Next]_vars => AccountsInv'
  BY RequestKeeps, ReadsKeep, CreateKeeps, MintKeeps, MailKeeps, ConsumeKeeps, SetPasswordKeeps,
     MarkVerifiedKeeps, StartKeeps, LinkGoogleKeeps, OthersKeep DEF Next, HandlerStep
<1> QED BY <1>1, <1>2, PTL DEF Spec

\* store/auth.go:359, for every number of requests and links: a link is never acted on twice.
THEOREM OneUsePerLink == Spec => []LinkWorksOnce
BY AccountsInvHolds, PTL DEF AccountsInv

\* auth.go:46, for every interleaving of sign-ups, links and sign-ins: no account is active whose
\* address nobody proved.
THEOREM OnlyProvedIsActive == Spec => []ActiveIsProved
<1>1. AccountsInv => ActiveIsProved BY DEF AccountsInv, UsersInv
<1> QED BY <1>1, AccountsInvHolds, PTL

\* README:338: what a Google identity is linked to.
THEOREM GoogleFindsItsOwn == Spec => []LinkedIsVerified
<1>1. AccountsInv => LinkedIsVerified
  BY DEF AccountsInv, GoogleInv, Linkable, LinkedIsVerified, Shown, Proved
<1> QED BY <1>1, AccountsInvHolds, PTL

\* auth.go:134: whoever signs in with a password has a verified address, and keeps it.
THEOREM SignedInIsActive == Spec => []PasswordSessionsAreActive
<1>1. AccountsInv => PasswordSessionsAreActive
  BY DEF AccountsInv, SessionsInv, PasswordSessionsAreActive
<1> QED BY <1>1, AccountsInvHolds, PTL
==============================================================================
