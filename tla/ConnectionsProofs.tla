--------------------------- MODULE ConnectionsProofs ---------------------------
(***************************************************************************)
(* What is proved of Connections for any number of requests in flight and any *)
(* faults: its types, that a dropped link stays dropped, that a destination    *)
(* without one is flagged, and that a reconnect prompt is one the account menu *)
(* shows too.                                                                  *)
(***************************************************************************)
EXTENDS Connections, TLAPS

------------------------------------------------------------------------------
(* The invariants                                                           *)

\* What a request holds at a step: a target of its provider, and where it is about to
\* write a token, one that descends from a consent.
Holds(s, j) ==
  /\ s \in PC /\ j \in Job \cup {NoJob}
  /\ s # "idle" => j \in Job /\ j.target \in TargetsOf[j.provider]
  /\ s \in {"inheriting", "linking", "persisting"} => j.access \in Consent

\* Which requests are ever at a step.  Google's tokens are only flagged by a request that
\* writes to the destination: a setup is told of the error and flags nothing.
Does(s, j) ==
  /\ s = "deleting" => j.act = "disconnect"
  /\ s = "resolving" => j.act \in {"confirm", "preview"}
  /\ s \in {"opening", "refreshing", "persisting", "calling", "flagging"} =>
       j.act \in {"setup", "browse", "confirm", "preview"}
  /\ s # "idle" /\ j.act = "browse" => j.provider = "notion"
  /\ s = "flagging" /\ j.provider = "google" => j.act \in {"confirm", "preview"}

Requested(s, j) == Holds(s, j) /\ Does(s, j)

\* TypeOK in two parts: the tables with what is at the providers, and the requests.
Tables ==
  /\ link \in [Provider -> Link \cup {NoLink}]
  /\ dest \in Destination \cup {NoDest}
  /\ dest # NoDest => dest.target \in TargetsOf[dest.type]
  /\ consents \in [Provider -> 0..MaxConsents]
  /\ revoked \in [Provider -> 0..MaxConsents]
  /\ unshared \subseteq TargetsOf["notion"]
  /\ faults \in 0..MaxFaults

InService ==
  /\ pc \in [Handler -> PC]
  /\ job \in [Handler -> Job \cup {NoJob}]
  /\ \A h \in Handler : Requested(pc[h], job[h])

ConnectionsInv == Tables /\ InService

\* A confirm that looked its destination up found one; there has been one ever since.
Found(s, j, d) ==
  /\ s \in {"opening", "refreshing", "persisting", "calling", "flagging", "checking", "marking"}
  /\ j.act = "confirm"
  => d # NoDest

FoundInv == \A h \in Handler : Found(pc[h], job[h], dest)

------------------------------------------------------------------------------
(* What a request holds                                                     *)

LEMMA TypesOfInv == ConnectionsInv => TypeOK
  BY DEF ConnectionsInv, Tables, InService, TypeOK, Requested, Holds

\* A row of oauth_accounts is made of a consent's tokens.
LEMMA LinkOf ==
  ASSUME NEW a \in Consent, NEW r \in Token, NEW f \in BOOLEAN, NEW b \in BOOLEAN
  PROVE  [access |-> a, refresh |-> r, fresh |-> f, broken |-> b] \in Link
  BY DEF Link

\* One request moves and the others stay as they are.
LEMMA OneMoves ==
  ASSUME InService, NEW h \in Handler, NEW s, NEW j, Requested(s, j),
         pc' = [pc EXCEPT ![h] = s], job' = [job EXCEPT ![h] = j]
  PROVE  InService'
<1>1. s \in PC /\ j \in Job \cup {NoJob}
  BY DEF Requested, Holds
<1>2. pc' \in [Handler -> PC] /\ job' \in [Handler -> Job \cup {NoJob}]
  BY <1>1 DEF InService
<1>3. ASSUME NEW g \in Handler PROVE Requested(pc'[g], job'[g])
  <2>1. CASE g = h
    <3>1. pc'[g] = s /\ job'[g] = j
      BY <2>1 DEF InService
    <3>2. QED BY <3>1
  <2>2. CASE g # h
    <3>1. pc'[g] = pc[g] /\ job'[g] = job[g]
      BY <2>2 DEF InService
    <3>2. QED BY <3>1 DEF InService
  <2>3. QED BY <2>1, <2>2
<1>4. QED BY <1>2, <1>3 DEF InService, Requested, Holds, Does

LEMMA StaysInService ==
  ASSUME InService, UNCHANGED <<pc, job>> PROVE InService'
  BY DEF InService, Requested, Holds, Does

LEMMA GoesOn ==
  ASSUME InService, NEW h \in Handler, NEW s, Goto(h, s), Requested(s, job[h])
  PROVE  InService'
<1>1. pc' = [pc EXCEPT ![h] = s] /\ job' = [job EXCEPT ![h] = job[h]]
  BY DEF Goto, InService
<1>2. QED BY <1>1, OneMoves

LEMMA Finishes ==
  ASSUME InService, NEW h \in Handler, Finish(h) PROVE InService'
<1>1. Requested("idle", NoJob)
  BY DEF Requested, Holds, Does, PC
<1>2. QED BY <1>1, OneMoves DEF Finish

\* A request past its lookup may be answered in any way.
LEMMA Answered ==
  ASSUME InService, NEW h \in Handler, NEW s \in Answers, pc[h] # "idle", Answer(h, s)
  PROVE  InService'
<1>1. Requested(pc[h], job[h])
  BY DEF InService
<1>2. Requested(s, job[h])
  BY <1>1 DEF Requested, Holds, Does, PC, Answers
<1>3. CASE Goto(h, s)
  BY <1>2, <1>3, GoesOn
<1>4. CASE Finish(h)
  BY <1>4, Finishes
<1>5. QED BY <1>3, <1>4 DEF Answer

\* A new request
LEMMA Served ==
  ASSUME InService, NEW h \in Handler, NEW act \in AllRequests, NEW p \in Provider,
         NEW x \in TargetsOf[p], NEW t \in Token, NEW r \in Token, NEW s, Serve(h, act, p, x, t, r, s),
         \/ s \in {"inheriting", "linking"} /\ t \in Consent /\ act = "connect"
         \/ s = "deleting" /\ act = "disconnect"
         \/ s = "resolving" /\ act \in {"confirm", "preview"}
         \/ s = "opening" /\ act = "setup"
         \/ s = "opening" /\ act = "browse" /\ p = "notion"
  PROVE  InService'
<1> DEFINE j == [act |-> act, provider |-> p, target |-> x, access |-> t, refresh |-> r, fresh |-> TRUE]
<1>1. j \in Job /\ j.act = act /\ j.provider = p /\ j.target = x /\ j.access = t
  BY DEF Job, Target
<1>2. s \in PC
  BY DEF PC
<1>3. Holds(s, j)
  BY <1>1, <1>2 DEF Holds
<1>4. Does(s, j)
  BY <1>1 DEF Does
<1>5. pc' = [pc EXCEPT ![h] = s] /\ job' = [job EXCEPT ![h] = j]
  BY DEF Serve
<1>6. QED BY <1>3, <1>4, <1>5, OneMoves DEF Requested

------------------------------------------------------------------------------
(* Each step keeps the requests whole                                       *)

LEMMA ConnectServes ==
  ASSUME ConnectionsInv, NEW h \in Handler, NEW p \in Provider, Connect(h, p)
  PROVE  InService'
<1> DEFINE t == consents[p] + 1
<1>1. t \in Consent /\ t \in Token /\ NoToken \in Token
  BY Numbers DEF ConnectionsInv, Tables, Connect, Consent, Token, NoToken
<1>2. PICK x \in TargetsOf[p] :
        \/ Serve(h, "connect", p, x, t, IF p = "google" THEN t ELSE NoToken, "linking")
        \/ Serve(h, "connect", p, x, t, NoToken, "inheriting")
  BY DEF Connect
<1>3. "connect" \in AllRequests
  BY DEF AllRequests
<1> HIDE DEF t
<1>4. CASE Serve(h, "connect", p, x, t, IF p = "google" THEN t ELSE NoToken, "linking")
  <2> DEFINE r == IF p = "google" THEN t ELSE NoToken
  <2>1. r \in Token
    BY <1>1
  <2>2. Serve(h, "connect", p, x, t, r, "linking")
    BY <1>4
  <2> HIDE DEF r
  <2>3. QED BY <1>1, <1>3, <2>1, <2>2, Served DEF ConnectionsInv
<1>5. CASE Serve(h, "connect", p, x, t, NoToken, "inheriting")
  BY <1>1, <1>3, <1>5, Served DEF ConnectionsInv
<1>6. QED BY <1>2, <1>4, <1>5

LEMMA OthersServe ==
  ASSUME ConnectionsInv, NEW h \in Handler,
         \/ \E p \in Provider : Disconnect(h, p) \/ Setup(h, p)
         \/ Browse(h) \/ UseDestination(h)
  PROVE  InService'
<1>1. /\ {"disconnect", "setup", "browse", "confirm", "preview"} \subseteq AllRequests
      /\ "google" \in Provider /\ "notion" \in Provider /\ NoToken \in Token
  BY DEF AllRequests, Provider, Token
<1>2. CASE \E p \in Provider : Disconnect(h, p)
  BY <1>1, <1>2, Served DEF ConnectionsInv, Disconnect
<1>3. CASE \E p \in Provider : Setup(h, p)
  BY <1>1, <1>3, Served DEF ConnectionsInv, Setup
<1>4. CASE Browse(h)
  BY <1>1, <1>4, Served DEF ConnectionsInv, Browse
<1>5. CASE UseDestination(h)
  BY <1>1, <1>5, Served DEF ConnectionsInv, UseDestination
<1>6. QED BY <1>2, <1>3, <1>4, <1>5

\* The steps that leave a request with the tokens it has, or end it
LEMMA StepKeepsJob ==
  ASSUME ConnectionsInv, NEW h \in Handler,
         \/ Upsert(h) \/ Delete(h) \/ RefreshRefused(h) \/ RefreshFails(h) \/ Persist(h)
         \/ Call(h) \/ CallRefused(h) \/ CallFails(h) \/ Save(h)
         \/ Flag(h) \/ Check(h) \/ Mark(h) \/ StatementFails(h) \/ Return(h)
  PROVE  InService'
<1>1. InService /\ Requested(pc[h], job[h])
  BY DEF ConnectionsInv, InService
<1>2. {"written", "retry", "reconnect"} \subseteq Answers
  BY DEF Answers
<1>3. ASSUME NEW s, Goto(h, s), Requested(s, job[h]) PROVE InService'
  BY <1>1, <1>3, GoesOn
<1>4. ASSUME Finish(h) PROVE InService'
  BY <1>1, <1>4, Finishes
<1>5. ASSUME NEW s \in Answers, pc[h] # "idle", Answer(h, s) PROVE InService'
  BY <1>1, <1>5, Answered
<1>6. CASE Upsert(h) \/ Save(h) \/ Return(h)
  BY <1>4, <1>6 DEF Upsert, Save, Return
<1>7. CASE Delete(h)
  <2>1. Goto(h, "checking") /\ Requested("checking", job[h])
    BY <1>1, <1>7 DEF Delete, Requested, Holds, Does, PC
  <2>2. QED BY <1>3, <2>1
<1>8. CASE RefreshRefused(h) \/ RefreshFails(h)
  <2>1. pc[h] = "refreshing" /\ NoFreshToken(h)
    BY <1>8 DEF RefreshRefused, RefreshFails
  <2>2. CASE job[h].act = "setup"
    BY <1>4, <2>1, <2>2 DEF NoFreshToken
  <2>3. CASE job[h].act # "setup"
    <3>1. Goto(h, "flagging") /\ Requested("flagging", job[h])
      BY <1>1, <2>1, <2>3 DEF NoFreshToken, Requested, Holds, Does, PC
    <3>2. QED BY <1>3, <3>1
  <2>4. QED BY <2>2, <2>3
<1>9. CASE Persist(h)
  <2>1. Goto(h, "calling") /\ Requested("calling", job[h])
    BY <1>1, <1>9 DEF Persist, Requested, Holds, Does, PC
  <2>2. QED BY <1>3, <2>1
<1>10. CASE Call(h)
  <2>1. CASE job[h].act = "setup"
    <3>1. Goto(h, "saving") /\ Requested("saving", job[h])
      BY <1>1, <1>10, <2>1 DEF Call, Requested, Holds, Does, PC
    <3>2. QED BY <1>3, <3>1
  <2>2. CASE job[h].act # "setup"
    BY <1>2, <1>5, <1>10, <2>2 DEF Call
  <2>3. QED BY <2>1, <2>2
<1>11. CASE CallRefused(h)
  <2>1. CASE OnGoogle(h) \/ job[h].act = "preview"
    BY <1>2, <1>5, <1>11, <2>1 DEF CallRefused
  <2>2. CASE ~(OnGoogle(h) \/ job[h].act = "preview")
    <3>1. Goto(h, "flagging") /\ Requested("flagging", job[h])
      BY <1>1, <1>11, <2>2 DEF CallRefused, OnGoogle, Requested, Holds, Does, PC
    <3>2. QED BY <1>3, <3>1
  <2>3. QED BY <2>1, <2>2
<1>12. CASE CallFails(h) \/ Mark(h)
  BY <1>2, <1>5, <1>12 DEF CallFails, Mark
<1>13. CASE Flag(h)
  <2>1. /\ Requested("marking", job[h]) /\ Requested("checking", job[h])
        /\ Goto(h, "marking") \/ Goto(h, "checking")
    BY <1>1, <1>13 DEF Flag, Requested, Holds, Does, PC
  <2>2. QED BY <1>3, <2>1
<1>14. CASE Check(h)
  <2>1. pc[h] = "checking" /\ Requested("marking", job[h])
    BY <1>1, <1>14 DEF Check, Requested, Holds, Does, PC
  <2>2. CASE dest # NoDest /\ dest.type = job[h].provider
    BY <1>3, <1>14, <2>1, <2>2 DEF Check
  <2>3. CASE ~(dest # NoDest /\ dest.type = job[h].provider)
    BY <1>2, <1>5, <1>14, <2>1, <2>3 DEF Check
  <2>4. QED BY <2>2, <2>3
<1>15. CASE StatementFails(h)
  <2>1. CASE Finish(h)
    BY <1>4, <2>1
  <2>2. CASE pc[h] = "inheriting" /\ Goto(h, "linking")
    <3>1. Requested("linking", job[h])
      BY <1>1, <2>2 DEF Requested, Holds, Does, PC
    <3>2. QED BY <1>3, <2>2, <3>1
  <2>3. CASE pc[h] = "persisting" /\ Goto(h, "calling")
    <3>1. Requested("calling", job[h])
      BY <1>1, <2>3 DEF Requested, Holds, Does, PC
    <3>2. QED BY <1>3, <2>3, <3>1
  <2>4. CASE pc[h] = "flagging" /\ (Goto(h, "marking") \/ Goto(h, "checking"))
    <3>1. Requested("marking", job[h]) /\ Requested("checking", job[h])
      BY <1>1, <2>4 DEF Requested, Holds, Does, PC
    <3>2. QED BY <1>3, <2>4, <3>1
  <2>5. CASE pc[h] \in {"checking", "marking"} /\ Answer(h, "reconnect")
    BY <1>2, <1>5, <2>5
  <2>6. QED BY <1>15, <2>1, <2>2, <2>3, <2>4, <2>5 DEF StatementFails
<1>16. QED BY <1>6, <1>7, <1>8, <1>9, <1>10, <1>11, <1>12, <1>13, <1>14, <1>15

\* The steps that read a token or look the destination up
LEMMA StepFillsJob ==
  ASSUME ConnectionsInv, NEW h \in Handler, Inherit(h) \/ Resolve(h) \/ Open(h) \/ Refresh(h)
  PROVE  InService'
<1>1. InService /\ Tables /\ Requested(pc[h], job[h])
  BY DEF ConnectionsInv, InService
<1>2. {"set_up", "reconnect"} \subseteq Answers /\ NoToken \in Token /\ Consent \subseteq Token
  BY DEF Answers, Token
<1>3. ASSUME NEW s \in Answers, pc[h] # "idle", Answer(h, s) PROVE InService'
  BY <1>1, <1>3, Answered
<1>4. CASE Inherit(h)
  <2> DEFINE l == link["google"]
  <2> DEFINE r == IF l = NoLink THEN NoToken ELSE l.refresh
  <2>1. job[h] \in Job /\ job[h].target \in TargetsOf[job[h].provider] /\ job[h].access \in Consent
    BY <1>1, <1>4 DEF Inherit, Requested, Holds
  <2>2. r \in Token
    BY <1>1, <1>2 DEF Tables, Provider, Link
  <2> DEFINE j == [job[h] EXCEPT !.refresh = r]
  <2>3. pc' = [pc EXCEPT ![h] = "linking"] /\ job' = [job EXCEPT ![h] = j]
    BY <1>4 DEF Inherit
  <2> HIDE DEF r
  <2>4. j \in Job /\ j.target = job[h].target /\ j.provider = job[h].provider /\ j.access = job[h].access
    BY <2>1, <2>2 DEF Job
  <2>5. j.act = job[h].act
    BY <2>1 DEF Job
  <2> HIDE DEF j
  <2>6. Requested("linking", j)
    BY <1>1, <1>4, <2>1, <2>4, <2>5 DEF Inherit, Requested, Holds, Does, PC
  <2>7. QED BY <1>1, <2>3, <2>6, OneMoves
<1>5. CASE Resolve(h)
  <2>1. pc[h] = "resolving" /\ job[h] \in Job /\ job[h].act \in {"confirm", "preview"}
    BY <1>1, <1>5 DEF Resolve, Requested, Holds, Does
  <2>2. CASE Answer(h, "set_up") \/ Answer(h, "reconnect")
    BY <1>2, <1>3, <2>1, <2>2
  <2>3. CASE /\ dest # NoDest /\ pc' = [pc EXCEPT ![h] = "opening"]
             /\ job' = [job EXCEPT ![h].provider = dest.type, ![h].target = dest.target]
    <3> DEFINE j == [job[h] EXCEPT !.provider = dest.type, !.target = dest.target]
    <3>1. dest.type \in Provider /\ dest.target \in Target /\ dest.target \in TargetsOf[dest.type]
      BY <1>1, <2>3 DEF Tables, Destination
    <3>2. j \in Job /\ j.act = job[h].act /\ j.provider = dest.type /\ j.target = dest.target
      BY <2>1, <3>1 DEF Job
    <3>3. job' = [job EXCEPT ![h] = j]
      BY <2>3
    <3> HIDE DEF j
    <3>4. Requested("opening", j)
      BY <2>1, <3>1, <3>2 DEF Requested, Holds, Does, PC
    <3>5. QED BY <1>1, <2>3, <3>3, <3>4, OneMoves
  <2>4. QED BY <1>5, <2>2, <2>3 DEF Resolve
<1>6. CASE Open(h)
  <2> DEFINE l == link[job[h].provider]
  <2>1. /\ pc[h] = "opening" /\ job[h] \in Job /\ job[h].act \in {"setup", "browse", "confirm", "preview"}
        /\ job[h].target \in TargetsOf[job[h].provider]
        /\ job[h].act = "browse" => job[h].provider = "notion"
    BY <1>1, <1>6 DEF Open, Requested, Holds, Does
  <2>2. CASE Answer(h, "reconnect")
    BY <1>2, <1>3, <2>1, <2>2
  <2>3. CASE /\ l # NoLink /\ (pc' = [pc EXCEPT ![h] = "refreshing"] \/ pc' = [pc EXCEPT ![h] = "calling"])
             /\ job' = [job EXCEPT ![h].access = l.access, ![h].refresh = l.refresh, ![h].fresh = l.fresh]
    <3> DEFINE j == [job[h] EXCEPT !.access = l.access, !.refresh = l.refresh, !.fresh = l.fresh]
    <3>1. l.access \in Token /\ l.refresh \in Token /\ l.fresh \in BOOLEAN
      BY <1>1, <1>2, <2>1, <2>3 DEF Tables, Job, Link
    <3>2. job' = [job EXCEPT ![h] = j]
      BY <2>3
    <3>3. j \in Job /\ j.act = job[h].act /\ j.provider = job[h].provider /\ j.target = job[h].target
      <4> HIDE DEF l
      <4>1. QED BY <2>1, <3>1 DEF Job
    <3> HIDE DEF j
    <3>4. Requested("refreshing", j) /\ Requested("calling", j)
      BY <2>1, <3>3 DEF Requested, Holds, Does, PC
    <3>5. QED BY <1>1, <2>3, <3>2, <3>4, OneMoves
  <2>4. QED BY <1>6, <2>2, <2>3 DEF Open
<1>7. CASE Refresh(h)
  <2>1. /\ pc[h] = "refreshing" /\ job[h] \in Job /\ job[h].act \in {"setup", "browse", "confirm", "preview"}
        /\ job[h].target \in TargetsOf[job[h].provider]
        /\ job[h].act = "browse" => job[h].provider = "notion"
    BY <1>1, <1>7 DEF Refresh, Requested, Holds, Does
  <2>2. CASE Goto(h, "calling")
    <3>1. Requested("calling", job[h])
      BY <2>1 DEF Requested, Holds, Does, PC
    <3>2. QED BY <1>1, <2>2, <3>1, GoesOn
  <2>3. CASE /\ Honoured("google", job[h].refresh) /\ pc' = [pc EXCEPT ![h] = "persisting"]
             /\ job' = [job EXCEPT ![h].access = job[h].refresh, ![h].fresh = TRUE]
    <3> DEFINE j == [job[h] EXCEPT !.access = job[h].refresh, !.fresh = TRUE]
    <3>1. job[h].refresh \in Consent
      BY <1>1, <2>1, <2>3, Numbers DEF Tables, Provider, Honoured, Job, Token, Consent, NoToken
    <3>2. j \in Job /\ j.act = job[h].act /\ j.provider = job[h].provider
      BY <1>2, <2>1, <3>1 DEF Job
    <3>3. j.target = job[h].target /\ j.access \in Consent
      BY <2>1, <3>1 DEF Job
    <3>4. job' = [job EXCEPT ![h] = j]
      BY <2>3
    <3> HIDE DEF j
    <3>5. Requested("persisting", j)
      BY <2>1, <3>2, <3>3 DEF Requested, Holds, Does, PC
    <3>6. QED BY <1>1, <2>3, <3>4, <3>5, OneMoves
  <2>4. QED BY <1>7, <2>2, <2>3 DEF Refresh
<1>8. QED BY <1>4, <1>5, <1>6, <1>7

LEMMA CrashEndsAll ==
  ASSUME Crash PROVE InService'
<1>1. /\ pc' = [h \in Handler |-> "idle"] /\ job' = [h \in Handler |-> NoJob]
  BY DEF Crash
<1>2. Requested("idle", NoJob)
  BY DEF Requested, Holds, Does, PC
<1>3. QED BY <1>1, <1>2 DEF InService, Requested, Holds, Does, PC

------------------------------------------------------------------------------
(* The tables keep their types                                              *)

LEMMA FaultsAreBounded ==
  ASSUME Tables, UNCHANGED faults \/ \E kind : Fault(kind) PROVE faults' \in 0..MaxFaults
  BY Numbers DEF Tables, Fault

\* What every step that writes to neither table does to the first part of the invariant.
LEMMA TablesLast ==
  ASSUME Tables, UNCHANGED <<link, dest, world>>, faults' \in 0..MaxFaults PROVE Tables'
  BY DEF Tables, world

LEMMA LinkWritten ==
  ASSUME Tables, NEW p \in Provider, NEW l \in Link \cup {NoLink}, link' = [link EXCEPT ![p] = l],
         UNCHANGED <<dest, world, faults>>
  PROVE  Tables'
  BY DEF Tables, world

LEMMA DestinationWritten ==
  ASSUME Tables, dest' \in Destination \cup {NoDest},
         dest' # NoDest => dest'.target \in TargetsOf[dest'.type],
         UNCHANGED <<link, world, faults>>
  PROVE  Tables'
  BY DEF Tables, world

\* The steps of a request that write to a table
LEMMA WritesKeepTables ==
  ASSUME ConnectionsInv, NEW h \in Handler,
         Upsert(h) \/ Delete(h) \/ Persist(h) \/ Flag(h) \/ Save(h) \/ Mark(h)
  PROVE  Tables'
<1>1. Tables /\ Requested(pc[h], job[h]) /\ "google" \in Provider
  BY DEF ConnectionsInv, InService, Provider
<1>2. pc[h] # "idle" /\ job[h] \in Job /\ job[h].target \in TargetsOf[job[h].provider]
  BY <1>1 DEF Requested, Holds, Upsert, Delete, Persist, Flag, Save, Mark
<1>3. job[h].provider \in Provider /\ job[h].target \in Target /\ job[h].refresh \in Token
  BY <1>2 DEF Job
<1>4. CASE Upsert(h)
  <2> DEFINE l == [access |-> job[h].access, refresh |-> job[h].refresh, fresh |-> TRUE, broken |-> FALSE]
  <2>1. job[h].access \in Consent
    BY <1>1, <1>4 DEF Upsert, Requested, Holds
  <2>2. l \in Link
    BY <1>3, <2>1, LinkOf
  <2>3. link' = [link EXCEPT ![job[h].provider] = l] /\ UNCHANGED <<dest, world, faults>>
    BY <1>4 DEF Upsert
  <2> HIDE DEF l
  <2>4. QED BY <1>1, <1>3, <2>2, <2>3, LinkWritten
<1>5. CASE Delete(h)
  BY <1>1, <1>3, <1>5, LinkWritten DEF Delete
<1>6. CASE Persist(h)
  <2>1. CASE link["google"] = NoLink
    BY <1>1, <1>6, <2>1 DEF Persist, Tables, world
  <2>2. CASE link["google"] # NoLink
    <3> DEFINE l == [link["google"] EXCEPT !.access = job[h].access, !.fresh = TRUE, !.broken = FALSE]
    <3>1. job[h].access \in Consent
      BY <1>1, <1>6 DEF Persist, Requested, Holds
    <3>2. link["google"] \in Link
      BY <1>1, <2>2 DEF Tables
    <3>3. l \in Link
      BY <3>1, <3>2 DEF Link
    <3>4. link' = [link EXCEPT !["google"] = l] /\ UNCHANGED <<dest, world, faults>>
      BY <1>6, <2>2 DEF Persist
    <3> HIDE DEF l
    <3>5. QED BY <1>1, <3>3, <3>4, LinkWritten
  <2>3. QED BY <2>1, <2>2
<1>7. CASE Flag(h)
  <2> DEFINE p == job[h].provider
  <2>1. CASE link[p] = NoLink
    BY <1>1, <1>7, <2>1 DEF Flag, Tables, world
  <2>2. CASE link[p] # NoLink
    <3> DEFINE l == [link[p] EXCEPT !.broken = TRUE]
    <3>1. link[p] \in Link
      BY <1>1, <1>3, <2>2 DEF Tables
    <3>2. l \in Link
      BY <3>1 DEF Link
    <3>3. link' = [link EXCEPT ![p] = l] /\ UNCHANGED <<dest, world, faults>>
      BY <1>7, <2>2 DEF Flag
    <3> HIDE DEF l
    <3>4. QED BY <1>1, <1>3, <3>2, <3>3, LinkWritten
  <2>3. QED BY <2>1, <2>2
<1>8. CASE Save(h)
  <2> DEFINE d == [type |-> job[h].provider, target |-> job[h].target, broken |-> FALSE]
  <2>1. d \in Destination /\ d.target \in TargetsOf[d.type]
    BY <1>2, <1>3 DEF Destination
  <2>2. dest' = d /\ UNCHANGED <<link, world, faults>>
    BY <1>8 DEF Save
  <2> HIDE DEF d
  <2>3. QED BY <1>1, <2>1, <2>2, DestinationWritten
<1>9. CASE Mark(h)
  <2>1. UNCHANGED <<link, world, faults>>
    BY <1>9 DEF Mark
  <2>2. dest' \in Destination \cup {NoDest} /\ (dest' # NoDest => dest'.target \in TargetsOf[dest'.type])
    BY <1>1, <1>9 DEF Mark, Tables, Destination
  <2>3. QED BY <1>1, <2>1, <2>2, DestinationWritten
<1>10. QED BY <1>4, <1>5, <1>6, <1>7, <1>8, <1>9

LEMMA RequestsKeepTables ==
  ASSUME ConnectionsInv, NEW h \in Handler, Request(h) \/ HandlerStep(h)
  PROVE  Tables'
<1>1. Tables
  BY DEF ConnectionsInv
<1>2. CASE \E p \in Provider : Connect(h, p)
  <2>1. PICK p \in Provider : Connect(h, p)
    BY <1>2
  <2>2. /\ consents' = [consents EXCEPT ![p] = consents[p] + 1] /\ consents[p] < MaxConsents
        /\ unshared' \in {{}, unshared} /\ UNCHANGED <<link, dest, revoked>>
    BY <2>1 DEF Connect
  <2>3. faults' \in 0..MaxFaults
    BY <1>1, <2>1, FaultsAreBounded DEF Connect
  <2>4. consents' \in [Provider -> 0..MaxConsents]
    BY <1>1, <2>2, Numbers DEF Tables
  <2>5. QED BY <1>1, <2>2, <2>3, <2>4 DEF Tables
<1>3. CASE Upsert(h) \/ Delete(h) \/ Persist(h) \/ Flag(h) \/ Save(h) \/ Mark(h)
  BY <1>3, WritesKeepTables
<1>4. CASE \/ \E p \in Provider : Disconnect(h, p) \/ Setup(h, p)
           \/ Browse(h) \/ UseDestination(h) \/ Inherit(h) \/ Resolve(h) \/ Open(h) \/ Refresh(h)
           \/ RefreshRefused(h) \/ RefreshFails(h) \/ Call(h) \/ CallRefused(h) \/ CallFails(h)
           \/ Check(h) \/ StatementFails(h) \/ Return(h)
  <2>1. UNCHANGED <<link, dest, world>> /\ (UNCHANGED faults \/ \E kind : Fault(kind))
    BY <1>4 DEF Disconnect, Setup, Browse, UseDestination, Inherit, Resolve, Open, Refresh,
                RefreshRefused, RefreshFails, Call, CallRefused, CallFails, Check, StatementFails, Return
  <2>2. QED BY <1>1, <2>1, FaultsAreBounded, TablesLast
<1>5. QED BY <1>2, <1>3, <1>4 DEF Request, HandlerStep

LEMMA WorldKeepsTables ==
  ASSUME ConnectionsInv, Crash \/ World PROVE Tables'
<1>1. Tables
  BY DEF ConnectionsInv
<1>2. CASE Crash
  BY <1>1, <1>2, FaultsAreBounded, TablesLast DEF Crash
<1>3. CASE \E p \in Provider : Revoke(p)
  BY <1>1, <1>3 DEF Revoke, Tables
<1>4. CASE \E x \in TargetsOf["notion"] : Unshare(x)
  BY <1>1, <1>4 DEF Unshare, Tables
<1>5. CASE Expire
  <2> DEFINE l == [link["google"] EXCEPT !.fresh = FALSE]
  <2>1. "google" \in Provider /\ link["google"] \in Link
    BY <1>1, <1>5 DEF Expire, Tables, Provider
  <2>2. l \in Link
    BY <2>1 DEF Link
  <2>3. link' = [link EXCEPT !["google"] = l] /\ UNCHANGED <<dest, world, faults>>
    BY <1>5 DEF Expire
  <2> HIDE DEF l
  <2>4. QED BY <1>1, <2>1, <2>2, <2>3, LinkWritten
<1>6. QED BY <1>2, <1>3, <1>4, <1>5 DEF World

LEMMA ConnectionsStart == Init => ConnectionsInv
<1> SUFFICES ASSUME Init PROVE ConnectionsInv
  OBVIOUS
<1>1. Tables
  BY Numbers DEF Init, Tables
<1>2. InService
  BY DEF Init, InService, Requested, Holds, Does, PC
<1>3. QED BY <1>1, <1>2 DEF ConnectionsInv

LEMMA ConnectionsStep ==
  ConnectionsInv /\ [Next]_vars => ConnectionsInv'
<1> SUFFICES ASSUME ConnectionsInv, [Next]_vars PROVE ConnectionsInv'
  OBVIOUS
<1>1. ASSUME NEW h \in Handler, Request(h) \/ HandlerStep(h) PROVE InService'
  BY <1>1, ConnectServes, OthersServe, StepKeepsJob, StepFillsJob DEF Request, HandlerStep
<1>2. ASSUME NEW h \in Handler, Request(h) \/ HandlerStep(h) PROVE ConnectionsInv'
  BY <1>1, <1>2, RequestsKeepTables DEF ConnectionsInv
<1>3. CASE Crash
  BY <1>3, CrashEndsAll, WorldKeepsTables DEF ConnectionsInv
<1>4. CASE World
  <2>1. UNCHANGED <<pc, job>>
    BY <1>4 DEF World, Revoke, Unshare, Expire
  <2>2. QED BY <1>4, <2>1, StaysInService, WorldKeepsTables DEF ConnectionsInv
<1>5. CASE UNCHANGED vars
  BY <1>5, StaysInService, TablesLast DEF vars, world, ConnectionsInv, Tables
<1>6. QED BY <1>2, <1>3, <1>4, <1>5 DEF Next

LEMMA ConnectionsHold == Spec => []ConnectionsInv
  BY ConnectionsStart, ConnectionsStep, PTL DEF Spec

\* The types, for every number of requests at once, every set of targets and any faults.
THEOREM ConnectionsTypes == Spec => []TypeOK
  BY ConnectionsHold, TypesOfInv, PTL

------------------------------------------------------------------------------
(* Any number of requests at once                                           *)

\* A link appears where there was none by the upsert of a callback only.
LEMMA LinksAppear ==
  ASSUME ConnectionsInv, [Next]_vars, NEW p \in Provider, link[p] = NoLink, link'[p] # NoLink
  PROVE  \E h \in Handler : pc[h] = "linking" /\ job[h].provider = p
<1>1. link \in [Provider -> Link \cup {NoLink}] /\ "google" \in Provider
  BY DEF ConnectionsInv, Tables, Provider
<1>2. link' # link
  OBVIOUS
<1>3. \/ \E h \in Handler : Upsert(h) \/ Delete(h) \/ Persist(h) \/ Flag(h)
      \/ Expire
  <2>1. ASSUME NEW h \in Handler, Request(h) PROVE FALSE
    BY <1>2, <2>1 DEF Request, Connect, Disconnect, Setup, Browse, UseDestination
  <2>2. ASSUME NEW h \in Handler, HandlerStep(h) PROVE Upsert(h) \/ Delete(h) \/ Persist(h) \/ Flag(h)
    BY <1>2, <2>2 DEF HandlerStep, Inherit, Resolve, Open, Refresh, RefreshRefused, RefreshFails, Call,
       CallRefused, CallFails, Save, Check, Mark, StatementFails, Return
  <2>3. Crash \/ World => Expire
    BY <1>2 DEF Crash, World, Revoke, Unshare
  <2>4. QED
    BY <1>2, <2>1, <2>2, <2>3 DEF Next, vars
<1>4. ~Expire
  <2> SUFFICES ASSUME Expire PROVE FALSE
    OBVIOUS
  <2>1. p # "google"
    BY DEF Expire
  <2>2. QED BY <1>1, <2>1 DEF Expire
<1>5. PICK h \in Handler : Upsert(h) \/ Delete(h) \/ Persist(h) \/ Flag(h)
  BY <1>3, <1>4
<1>6. ~Delete(h)
  BY <1>1, <1>5 DEF Delete
<1>7. ~Persist(h)
  <2> SUFFICES ASSUME Persist(h) PROVE FALSE
    OBVIOUS
  <2>1. link["google"] # NoLink
    BY <1>2 DEF Persist
  <2>2. p # "google"
    BY <2>1
  <2>3. QED BY <1>1, <2>1, <2>2 DEF Persist
<1>8. ~Flag(h)
  <2> SUFFICES ASSUME Flag(h) PROVE FALSE
    OBVIOUS
  <2>1. link[job[h].provider] # NoLink
    BY <1>2 DEF Flag
  <2>2. p # job[h].provider
    BY <2>1
  <2>3. QED BY <1>1, <2>1, <2>2 DEF Flag
<1>9. Upsert(h)
  BY <1>5, <1>6, <1>7, <1>8
<1>10. QED BY <1>1, <1>9 DEF Upsert

\* A link the account dropped stays dropped until it consents again, however many
\* requests still hold a token they read from it.
THEOREM DroppedLinksStayDropped == Spec => DroppedStaysDropped
<1>1. ConnectionsInv /\ [Next]_vars =>
        \A p \in Provider : link[p] = NoLink /\ link'[p] # NoLink =>
          \E h \in Handler : pc[h] = "linking" /\ job[h].provider = p
  BY LinksAppear
<1>2. QED BY <1>1, ConnectionsHold, PTL DEF Spec, DroppedStaysDropped

------------------------------------------------------------------------------
(* What a reconnect prompt tells                                            *)

\* What a step of one request leaves alone
LEMMA OthersStay ==
  ASSUME InService, NEW h \in Handler, Request(h) \/ HandlerStep(h), NEW g \in Handler, g # h
  PROVE  pc'[g] = pc[g] /\ job'[g] = job[g]
<1>1. pc \in [Handler -> PC] /\ job \in [Handler -> Job \cup {NoJob}]
  BY DEF InService
<1>2. CASE Request(h)
  BY <1>1, <1>2 DEF Request, Connect, Disconnect, Setup, Browse, UseDestination, Serve
<1>3. CASE HandlerStep(h)
  BY <1>1, <1>3 DEF HandlerStep, Inherit, Upsert, Delete, Resolve, Open, Refresh, RefreshRefused, RefreshFails,
     NoFreshToken, Persist, Call, CallRefused, CallFails, Save, Flag, Check, Mark, StatementFails, Return,
     Goto, Finish, Answer
<1>4. QED BY <1>2, <1>3

\* Where the steps of a request leave it
LEMMA Leaves ==
  ASSUME InService, NEW h \in Handler
  PROVE  /\ \A s : Goto(h, s) => pc'[h] = s /\ job'[h] = job[h]
         /\ Finish(h) => pc'[h] = "idle"
         /\ \A s : Answer(h, s) => \/ pc'[h] = "idle"
                                   \/ pc'[h] = s /\ job'[h] = job[h] /\ Confirming(h)
  BY DEF InService, Goto, Finish, Answer

\* No request takes the destination away: one that is there may change.
LEMMA DestinationStays ==
  ASSUME ConnectionsInv, NEW h \in Handler, HandlerStep(h), dest # NoDest
  PROVE  dest' # NoDest
<1>1. dest \in Destination
  BY DEF ConnectionsInv, Tables
<1>2. CASE Save(h)
  <2>1. job[h] \in Job
    BY <1>2 DEF ConnectionsInv, InService, Requested, Holds, Save
  <2>2. dest' \in Destination
    BY <1>2, <2>1 DEF Save, Job, Destination
  <2>3. QED BY <2>2, AbsentValues
<1>3. CASE Mark(h)
  <2> DEFINE d == [dest EXCEPT !.broken = TRUE]
  <2>1. d \in Destination
    BY <1>1 DEF Destination
  <2>2. dest' = d
    BY <1>3 DEF Mark
  <2>3. QED BY <2>1, <2>2, AbsentValues
<1>4. CASE dest' = dest
  BY <1>4
<1>5. QED
  BY <1>2, <1>3, <1>4 DEF HandlerStep, Inherit, Upsert, Delete, Resolve, Open, Refresh, RefreshRefused,
     RefreshFails, Persist, Call, CallRefused, CallFails, Flag, Check, StatementFails, Return

\* A request is past its lookup only with a destination found, by itself or before.
LEMMA StepFinds ==
  ASSUME ConnectionsInv, FoundInv, NEW h \in Handler, HandlerStep(h)
  PROVE  Found(pc'[h], job'[h], dest')
<1>1. /\ InService /\ pc \in [Handler -> PC] /\ job \in [Handler -> Job \cup {NoJob}]
      /\ Requested(pc[h], job[h]) /\ Found(pc[h], job[h], dest)
  BY DEF ConnectionsInv, InService, FoundInv
<1>2. CASE dest # NoDest
  BY <1>2, DestinationStays DEF Found
<1>3. CASE dest = NoDest
  <2>1. pc[h] \in {"opening", "refreshing", "persisting", "calling", "flagging", "checking", "marking"}
          => job[h].act # "confirm"
    BY <1>1, <1>3 DEF Found
  <2>2. CASE Resolve(h)
    <3>1. pc'[h] \in {"set_up", "idle"}
      BY <1>1, <1>3, <2>2, Leaves DEF Resolve
    <3>2. QED BY <3>1 DEF Found
  <2>3. CASE Delete(h)
    <3>1. job'[h].act = "disconnect"
      BY <1>1, <2>3, Leaves DEF Delete, Requested, Does
    <3>2. QED BY <3>1 DEF Found
  <2>4. CASE Inherit(h) \/ Upsert(h) \/ Save(h) \/ Return(h)
    <3>1. pc'[h] \in {"linking", "idle"}
      BY <1>1, <2>4, Leaves DEF Inherit, Upsert, Save, Return
    <3>2. QED BY <3>1 DEF Found
  <2>5. CASE Open(h) \/ Refresh(h)
    <3>1. job[h] \in Job /\ job[h].act # "confirm"
      BY <1>1, <2>1, <2>5 DEF Open, Refresh, Requested, Holds
    <3>2. pc'[h] = "idle" \/ job'[h].act = job[h].act
      BY <1>1, <2>5, <3>1, Leaves DEF Open, Refresh, Job
    <3>3. QED BY <3>1, <3>2 DEF Found
  <2>6. CASE \/ RefreshRefused(h) \/ RefreshFails(h) \/ Persist(h) \/ Call(h) \/ CallRefused(h)
             \/ CallFails(h) \/ Flag(h) \/ Check(h) \/ Mark(h)
    <3>1. job[h].act # "confirm"
      BY <2>1, <2>6 DEF RefreshRefused, RefreshFails, Persist, Call, CallRefused, CallFails, Flag, Check, Mark
    <3>2. pc'[h] = "idle" \/ job'[h] = job[h]
      BY <1>1, <2>6, Leaves DEF RefreshRefused, RefreshFails, NoFreshToken, Persist, Call, CallRefused, CallFails,
         Flag, Check, Mark
    <3>3. QED BY <3>1, <3>2 DEF Found
  <2>7. CASE StatementFails(h)
    <3>1. \/ pc'[h] \in {"idle", "linking"}
          \/ /\ pc[h] \in {"persisting", "flagging", "checking", "marking"}
             /\ pc'[h] = "idle" \/ job'[h] = job[h]
      BY <1>1, <2>7, Leaves DEF StatementFails
    <3>2. QED BY <2>1, <3>1 DEF Found
  <2>8. QED BY <2>2, <2>3, <2>4, <2>5, <2>6, <2>7 DEF HandlerStep
<1>4. QED BY <1>2, <1>3

LEMMA FoundStep == ConnectionsInv /\ FoundInv /\ [Next]_vars => FoundInv'
<1> SUFFICES ASSUME ConnectionsInv, FoundInv, [Next]_vars PROVE FoundInv'
  OBVIOUS
<1>1. InService /\ pc \in [Handler -> PC] /\ job \in [Handler -> Job \cup {NoJob}]
  BY DEF ConnectionsInv, InService
<1>2. ASSUME NEW h \in Handler, HandlerStep(h) PROVE FoundInv'
  <2>1. ASSUME NEW g \in Handler \ {h} PROVE Found(pc'[g], job'[g], dest')
    BY <1>1, <1>2, OthersStay, DestinationStays DEF FoundInv, Found
  <2>2. QED BY <1>2, <2>1, StepFinds DEF FoundInv
<1>3. ASSUME NEW h \in Handler, Request(h) PROVE FoundInv'
  <2>1. dest' = dest
    BY <1>3 DEF Request, Connect, Disconnect, Setup, Browse, UseDestination
  <2>2. ASSUME NEW act, NEW p, NEW x, NEW t, NEW r, NEW s, Serve(h, act, p, x, t, r, s)
        PROVE  pc'[h] = s /\ job'[h].act = act
    BY <1>1, <2>2 DEF Serve
  <2>3. \/ pc'[h] \in {"inheriting", "linking", "deleting", "resolving"}
        \/ pc'[h] = "opening" /\ job'[h].act \in {"setup", "browse"}
    BY <1>3, <2>2 DEF Request, Connect, Disconnect, Setup, Browse, UseDestination
  <2>4. ASSUME NEW g \in Handler \ {h} PROVE Found(pc'[g], job'[g], dest')
    BY <1>1, <1>3, <2>1, OthersStay DEF FoundInv, Found
  <2>5. QED BY <2>3, <2>4 DEF FoundInv, Found
<1>4. CASE Crash
  BY <1>4 DEF Crash, FoundInv, Found
<1>5. CASE World \/ UNCHANGED vars
  BY <1>5 DEF World, Revoke, Unshare, Expire, vars, FoundInv, Found
<1>6. QED BY <1>2, <1>3, <1>4, <1>5 DEF Next

LEMMA FoundHolds == Spec => [](ConnectionsInv /\ FoundInv)
<1>1. Init => FoundInv
  BY DEF Init, FoundInv, Found
<1>2. QED BY <1>1, FoundStep, ConnectionsStart, ConnectionsStep, PTL DEF Spec

\* Where a fault is counted
LEMMA FaultShows ==
  ASSUME ConnectionsInv, NEW kind, Fault(kind) PROVE faults' # faults
  BY Numbers DEF ConnectionsInv, Tables, Fault

PromptTells(h) ==
  /\ pc[h] # "reconnect" /\ pc'[h] = "reconnect" =>
       \/ NeedsReconnect' \/ faults' # faults
       \/ dest # NoDest /\ dest.type # job[h].provider
  /\ pc[h] # "set_up" /\ pc'[h] = "set_up" => dest = NoDest

LEMMA StepTells ==
  ASSUME ConnectionsInv, FoundInv, NEW h \in Handler, HandlerStep(h) PROVE PromptTells(h)
<1>1. /\ InService /\ pc \in [Handler -> PC] /\ dest \in Destination \cup {NoDest}
      /\ Requested(pc[h], job[h]) /\ Found(pc[h], job[h], dest)
  BY DEF ConnectionsInv, Tables, InService, FoundInv
<1>2. ASSUME pc'[h] \notin {"reconnect", "set_up"} PROVE PromptTells(h)
  BY <1>2 DEF PromptTells
<1>3. CASE \/ Upsert(h) \/ Delete(h) \/ RefreshRefused(h) \/ RefreshFails(h)
           \/ Persist(h) \/ Call(h) \/ CallRefused(h) \/ CallFails(h) \/ Save(h) \/ Flag(h) \/ Return(h)
  <2>1. pc'[h] \in {"checking", "idle", "flagging", "calling", "saving", "written", "retry", "marking"}
    BY <1>1, <1>3, Leaves DEF Upsert, Delete, RefreshRefused, RefreshFails, NoFreshToken, Persist, Call,
       CallRefused, CallFails, Save, Flag, Return
  <2>2. QED BY <1>2, <2>1
<1>4. CASE Inherit(h) \/ Refresh(h)
  <2>1. pc'[h] \in {"linking", "calling", "persisting"}
    BY <1>1, <1>4, Leaves DEF Inherit, Refresh
  <2>2. QED BY <1>2, <2>1
<1>5. CASE Resolve(h)
  <2>1. UNCHANGED <<link, dest>>
    BY <1>5 DEF Resolve
  <2>2. \/ pc'[h] = "idle" \/ pc'[h] = "opening"
        \/ pc'[h] = "set_up" /\ dest = NoDest
        \/ pc'[h] = "reconnect" /\ dest # NoDest /\ dest.broken
    BY <1>1, <1>5, Leaves DEF Resolve
  <2>3. QED BY <2>1, <2>2 DEF PromptTells, NeedsReconnect
<1>6. CASE Open(h)
  <2> DEFINE l == link[job[h].provider]
  <2>1. UNCHANGED <<link, dest>> /\ pc[h] = "opening"
    BY <1>6 DEF Open
  <2>2. CASE Answer(h, "reconnect") /\ (l = NoLink \/ l.broken)
    <3>1. pc'[h] = "idle" \/ (pc'[h] = "reconnect" /\ dest # NoDest)
      BY <1>1, <2>1, <2>2, Leaves DEF Confirming, Found
    <3>2. QED BY <2>1, <2>2, <3>1 DEF PromptTells, NeedsReconnect
  <2>3. CASE pc' = [pc EXCEPT ![h] = IF OnGoogle(h) THEN "refreshing" ELSE "calling"]
    <3>1. pc'[h] \in {"refreshing", "calling"}
      BY <1>1, <2>3
    <3>2. QED BY <1>2, <3>1
  <2>4. QED BY <1>6, <2>2, <2>3 DEF Open
<1>7. CASE Check(h)
  <2>1. pc[h] = "checking"
    BY <1>7 DEF Check
  <2>2. \/ pc'[h] \in {"marking", "idle"}
        \/ pc'[h] = "reconnect" /\ dest # NoDest /\ dest.type # job[h].provider
    BY <1>1, <1>7, <2>1, Leaves DEF Check, Found, Confirming
  <2>3. QED BY <1>2, <2>2 DEF PromptTells
<1>8. CASE Mark(h)
  <2> DEFINE d == [dest EXCEPT !.broken = TRUE]
  <2>1. pc[h] = "marking" /\ (pc'[h] = "idle" \/ (pc'[h] = "reconnect" /\ dest # NoDest))
    BY <1>1, <1>8, Leaves DEF Mark, Found, Confirming
  <2>2. CASE dest # NoDest
    <3>1. d \in Destination /\ d.broken /\ dest' = d
      BY <1>1, <1>8, <2>2 DEF Mark, Destination
    <3>2. NeedsReconnect'
      BY <3>1, AbsentValues DEF NeedsReconnect
    <3>3. QED BY <2>1, <3>2 DEF PromptTells
  <2>3. QED BY <1>2, <2>1, <2>2
<1>9. CASE StatementFails(h)
  <2>1. faults' # faults /\ pc'[h] # "set_up"
    BY <1>1, <1>9, FaultShows, Leaves DEF StatementFails
  <2>2. QED BY <2>1 DEF PromptTells
<1>10. QED BY <1>3, <1>4, <1>5, <1>6, <1>7, <1>8, <1>9 DEF HandlerStep

\* README:40, with any number of requests at work and any faults: a confirm is answered with
\* a reconnect prompt only when the account menu says so too, unless a fault kept that from
\* being noted or the account has switched provider since; with a setup prompt only when
\* there is no destination.
THEOREM PromptsAreShown == Spec => PromptIsShown
<1>1. ConnectionsInv /\ FoundInv /\ [Next]_vars => \A h \in Handler : PromptTells(h)
  <2> SUFFICES ASSUME ConnectionsInv, FoundInv, [Next]_vars, NEW h \in Handler PROVE PromptTells(h)
    OBVIOUS
  <2>1. InService /\ pc \in [Handler -> PC]
    BY DEF ConnectionsInv, InService
  <2>2. ASSUME NEW g \in Handler, Request(g) \/ HandlerStep(g), g # h PROVE PromptTells(h)
    BY <2>1, <2>2, OthersStay DEF PromptTells
  <2>3. CASE Request(h)
    <3>1. pc'[h] \in {"inheriting", "linking", "deleting", "resolving", "opening"}
      BY <2>1, <2>3 DEF Request, Connect, Disconnect, Setup, Browse, UseDestination, Serve
    <3>2. QED BY <3>1 DEF PromptTells
  <2>4. CASE Crash \/ World \/ UNCHANGED vars
    BY <2>4 DEF Crash, World, Revoke, Unshare, Expire, vars, PromptTells
  <2>5. QED BY <2>2, <2>3, <2>4, StepTells DEF Next
<1>2. (\A h \in Handler : PromptTells(h)) <=>
        \A h \in Handler :
          /\ pc[h] # "reconnect" /\ pc'[h] = "reconnect" =>
               \/ NeedsReconnect' \/ faults' # faults
               \/ dest # NoDest /\ dest.type # job[h].provider
          /\ pc[h] # "set_up" /\ pc'[h] = "set_up" => dest = NoDest
  BY DEF PromptTells
<1>3. QED BY <1>1, <1>2, FoundHolds, PTL DEF Spec, PromptIsShown

------------------------------------------------------------------------------
(* A destination whose link is gone                                         *)

\* A link goes by the DELETE of a disconnect only.
LEMMA LinksGo ==
  ASSUME ConnectionsInv, [Next]_vars, NEW p \in Provider, link[p] # NoLink, link'[p] = NoLink
  PROVE  \E h \in Handler : Delete(h) /\ job[h].provider = p
<1>1. link \in [Provider -> Link \cup {NoLink}] /\ "google" \in Provider /\ link[p] \in Link
  BY DEF ConnectionsInv, Tables, Provider
<1>2. link' # link
  OBVIOUS
<1>3. \/ \E h \in Handler : Upsert(h) \/ Delete(h) \/ Persist(h) \/ Flag(h)
      \/ Expire
  <2>1. ASSUME NEW h \in Handler, Request(h) PROVE FALSE
    BY <1>2, <2>1 DEF Request, Connect, Disconnect, Setup, Browse, UseDestination
  <2>2. ASSUME NEW h \in Handler, HandlerStep(h) PROVE Upsert(h) \/ Delete(h) \/ Persist(h) \/ Flag(h)
    BY <1>2, <2>2 DEF HandlerStep, Inherit, Resolve, Open, Refresh, RefreshRefused, RefreshFails, Call,
       CallRefused, CallFails, Save, Check, Mark, StatementFails, Return
  <2>3. Crash \/ World => Expire
    BY <1>2 DEF Crash, World, Revoke, Unshare
  <2>4. QED
    BY <1>2, <2>1, <2>2, <2>3 DEF Next, vars
<1>4. ASSUME NEW q \in Provider, NEW l \in Link, link' = [link EXCEPT ![q] = l] PROVE FALSE
  BY <1>1, <1>4, AbsentValues
<1>5. ~Expire
  <2> SUFFICES ASSUME Expire PROVE FALSE
    OBVIOUS
  <2> DEFINE l == [link["google"] EXCEPT !.fresh = FALSE]
  <2>1. l \in Link /\ link' = [link EXCEPT !["google"] = l]
    BY <1>1 DEF Expire, Link
  <2>2. QED BY <1>1, <1>4, <2>1
<1>6. PICK h \in Handler : Upsert(h) \/ Delete(h) \/ Persist(h) \/ Flag(h)
  BY <1>3, <1>5
<1>7. Holds(pc[h], job[h])
  BY DEF ConnectionsInv, InService, Requested
<1>8. ~Upsert(h)
  <2> SUFFICES ASSUME Upsert(h) PROVE FALSE
    OBVIOUS
  <2> DEFINE l == [access |-> job[h].access, refresh |-> job[h].refresh, fresh |-> TRUE, broken |-> FALSE]
  <2>1. job[h] \in Job /\ job[h].access \in Consent
    BY <1>7 DEF Upsert, Holds
  <2>2. l \in Link /\ link' = [link EXCEPT ![job[h].provider] = l] /\ job[h].provider \in Provider
    BY <2>1, LinkOf DEF Upsert, Job
  <2>3. QED BY <1>4, <2>2
<1>9. ~Persist(h)
  <2> SUFFICES ASSUME Persist(h) PROVE FALSE
    OBVIOUS
  <2> DEFINE l == [link["google"] EXCEPT !.access = job[h].access, !.fresh = TRUE, !.broken = FALSE]
  <2>1. link["google"] # NoLink /\ job[h].access \in Consent
    BY <1>2, <1>7 DEF Persist, Holds
  <2>2. l \in Link
    BY <1>1, <2>1 DEF Link
  <2>3. link' = [link EXCEPT !["google"] = l]
    BY <2>1 DEF Persist
  <2>4. QED BY <1>1, <1>4, <2>2, <2>3
<1>10. ~Flag(h)
  <2> SUFFICES ASSUME Flag(h) PROVE FALSE
    OBVIOUS
  <2> DEFINE q == job[h].provider
             l == [link[q] EXCEPT !.broken = TRUE]
  <2>1. q \in Provider /\ link[q] # NoLink
    BY <1>2, <1>7 DEF Flag, Holds, Job
  <2>2. link[q] \in Link
    BY <1>1, <2>1
  <2>3. l \in Link
    BY <2>2 DEF Link
  <2>4. link' = [link EXCEPT ![q] = l]
    BY <2>1 DEF Flag
  <2>5. QED BY <1>4, <2>1, <2>3, <2>4
<1>11. Delete(h)
  BY <1>6, <1>8, <1>9, <1>10
<1>12. QED BY <1>1, <1>11 DEF Delete

LEMMA UnlinkedStep ==
  ASSUME ConnectionsInv, [Next]_vars, Unlinked', Unlinked => Flagging, dest' = dest, faults' = faults
  PROVE  Flagging'
<1>1. InService /\ dest \in Destination /\ dest.type \in Provider /\ ~dest.broken
  BY DEF ConnectionsInv, Tables, Unlinked, Destination
<1>2. CASE ~Unlinked
  <2>1. link[dest.type] # NoLink /\ link'[dest.type] = NoLink
    BY <1>2 DEF Unlinked
  <2>2. PICK h \in Handler : Delete(h) /\ job[h].provider = dest.type
    BY <1>1, <2>1, LinksGo
  <2>3. pc'[h] = "checking" /\ job'[h] = job[h] /\ job[h].act = "disconnect"
    BY <1>1, <2>2, Leaves DEF Delete, InService, Requested, Does
  <2>4. QED BY <2>2, <2>3 DEF Flagging
<1>3. CASE Unlinked
  <2>1. PICK g \in Handler :
          pc[g] \in {"checking", "marking"} /\ job[g].act = "disconnect" /\ job[g].provider = dest.type
    BY <1>3 DEF Flagging
  <2>2. CASE pc'[g] = pc[g] /\ job'[g] = job[g]
    BY <2>1, <2>2 DEF Flagging
  <2>3. CASE HandlerStep(g)
    <3>1. Check(g) \/ Mark(g) \/ StatementFails(g)
      BY <2>1, <2>3 DEF HandlerStep, Inherit, Upsert, Delete, Resolve, Open, Refresh, RefreshRefused,
         RefreshFails, Persist, Call, CallRefused, CallFails, Save, Flag, Return, Answers
    <3>2. ~StatementFails(g)
      BY FaultShows DEF StatementFails
    <3>3. ~Mark(g)
      BY <1>1 DEF Mark, Destination, Unlinked
    <3>4. pc'[g] = "marking" /\ job'[g] = job[g]
      BY <1>1, <1>3, <2>1, <3>1, <3>2, <3>3, Leaves DEF Check, Unlinked
    <3>5. QED BY <2>1, <3>4 DEF Flagging
  <2>4. ~Request(g)
    BY <2>1 DEF Request, Connect, Disconnect, Setup, Browse, UseDestination, Idle
  <2>5. ~Crash
    BY FaultShows DEF Crash
  <2>6. CASE World \/ UNCHANGED vars
    BY <2>2, <2>6 DEF World, Revoke, Unshare, Expire, vars
  <2>7. ASSUME NEW h \in Handler, Request(h) \/ HandlerStep(h), h # g PROVE Flagging'
    BY <1>1, <2>2, <2>7, OthersStay
  <2>8. QED BY <2>3, <2>4, <2>5, <2>6, <2>7 DEF Next
<1>4. QED BY <1>2, <1>3

\* README:349 and oauth.go:182, with any number of requests at work and any faults: a
\* destination comes to be without its link and unflagged, with no disconnect left to flag
\* it, only by a setup that saves what it opened before the link was dropped, or by a fault.
THEOREM UnlinkedDestinationsAreFlagged == Spec => UnlinkedIsFlagged
<1>1. ConnectionsInv /\ [Next]_vars =>
        (Unlinked' /\ (Unlinked => Flagging) => Flagging' \/ dest' # dest \/ faults' # faults)
  BY UnlinkedStep
<1>2. QED BY <1>1, ConnectionsHold, PTL DEF Spec, UnlinkedIsFlagged

==============================================================================
