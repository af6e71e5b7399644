-------------------------------- MODULE Leads --------------------------------
(***************************************************************************)
(* The life of a lead in the submissions table, from the moment a paste,   *)
(* an email or a re-run is ingested to the moment a reviewer confirms or   *)
(* discards it.  Every HTTP request is served by a goroutine, modelled by a *)
(* Handler, whose steps are the statements it runs against SQLite (each one *)
(* atomic, no transaction spans two of them) and its calls to the LLM and   *)
(* to the destination.  Between two steps any other handler may run.        *)
(*                                                                          *)
(* Early returns that change nothing (400, 404, a 409 on a settled row) are *)
(* stuttering steps and have no action.                                     *)
(***************************************************************************)
EXTENDS Integers, FiniteSets

CONSTANTS
  User,         \* accounts
  Handler,      \* request goroutines; one serves one request at a time
  SubId,        \* ids of submissions the instance may create
  Text,         \* contents a lead can have (text and image together)
  MsgId,        \* Message-IDs of ingested mail
  NoHandler, NoId, NoRow, NoMsg, NoJob,   \* the absent value of each kind
  Requests,     \* the kinds of request the instance issues
  FaultKinds,   \* the kinds of fault the instance injects
  MaxDay,       \* bound: UTC days an instance lasts
  Retention,    \* RETENTION_DAYS
  DedupWindow,  \* messageIDDedupWindow, in days
  MaxAttempts,  \* tries of one destination write
  MaxFaults     \* bound: faults an instance injects

AllRequests == {"submit", "email", "rerun", "confirm", "discard"}

\* "reply": a row lands but the writer is told otherwise; "update": SQLite, or a
\* request context the client cancelled, refuses the bookkeeping after a write;
\* "crash": the process is killed (ListenAndServe has no graceful shutdown).
AllFaults == {"reply", "update", "crash"}

ASSUME Kinds == Requests \subseteq AllRequests /\ FaultKinds \subseteq AllFaults

ASSUME Numbers ==
  /\ MaxDay \in Nat /\ Retention \in Nat /\ DedupWindow \in Nat /\ MaxFaults \in Nat
  /\ MaxAttempts \in Nat \ {0}

Day == 0..MaxDay
NotSettled == -1

Status   == {"pending", "failed_write", "written", "discarded"}
Open     == {"pending", "failed_write"}
Settled  == {"written", "discarded"}

\* A row.  ContentHash is the triple user, text, day; "live" says the column
\* holds it and not the tombstone Discard puts there.  "kept" says the raw
\* original has not been purged.
Row == [user: User, text: Text, day: Day, live: BOOLEAN, status: Status,
        created: Day, settled: Day \cup {NotSettled}, kept: BOOLEAN,
        msg: MsgId \cup {NoMsg}]

\* A request: who sent it, the submission in its path, its lead material, the
\* day it arrived, and the destination attempts it has made.
Job == [user: User, id: SubId \cup {NoId}, text: Text, msg: MsgId \cup {NoMsg},
        day: Day, tries: 0..MaxAttempts]

ASSUME AbsentValues ==
  /\ NoHandler \notin Handler
  /\ NoId \notin SubId
  /\ NoMsg \notin MsgId
  /\ NoRow \notin Row
  /\ NoJob \notin Job

VARIABLES
  subs,       \* the submissions table
  landed,     \* rows each submission has at its destination
  lost,       \* history: landings of a submission the table never recorded
  confirmMu,  \* Server.confirmMu: the handler inside handleConfirm
  pc, job,    \* what each handler does next, and its local variables
  day,        \* the UTC day
  faults      \* faults injected so far

vars == <<subs, landed, lost, confirmMu, pc, job, day, faults>>

\* The steps of handleConfirm under confirmMu.
Confirming == {"checked", "writing", "settling", "failing"}
\* The steps of ingestLead.
Ingesting  == {"dedup_msg", "dedup_hash", "extracting", "inserting", "rereading"}
PC == {"idle", "waiting", "discarding", "replacing"} \cup Confirming \cup Ingesting

\* Rows, handlers and jobs are what they are declared to be, and no write is tried more
\* than MaxAttempts times.
TypeOK ==
  /\ subs \in [SubId -> Row \cup {NoRow}]
  /\ landed \in [SubId -> Nat]
  /\ lost \in [SubId -> Nat]
  /\ confirmMu \in Handler \cup {NoHandler}
  /\ pc \in [Handler -> PC]
  /\ job \in [Handler -> Job \cup {NoJob}]
  /\ \A h \in Handler : pc[h] # "idle" => job[h] \in Job
  /\ day \in Day
  /\ faults \in 0..MaxFaults

Stored == {i \in SubId : subs[i] # NoRow}

------------------------------------------------------------------------------
(* The store: what each query and statement does to the table.             *)

\* Get: another tenant's row reads as absent.
Get(u, i) == i \in Stored /\ subs[i].user = u

\* FindByHash: the rows whose content_hash is this one; Insert keeps it unique.
FindByHash(u, t, d) ==
  {i \in Stored : subs[i].live /\ subs[i].user = u /\ subs[i].text = t /\ subs[i].day = d}

\* FindByMessageID: not discarded, and no older than the window.
FindByMessageID(u, m, since) ==
  {i \in Stored : /\ subs[i].user = u /\ subs[i].msg = m
                  /\ subs[i].created >= since /\ subs[i].status # "discarded"}

\* settled_at = COALESCE(settled_at, now)
Stamp(row) == IF row.settled = NotSettled THEN day ELSE row.settled

\* Insert, its conflict check aside.
NewRow(j) == [user |-> j.user, text |-> j.text, day |-> j.day, live |-> TRUE,
              status |-> "pending", created |-> day, settled |-> NotSettled,
              kept |-> TRUE, msg |-> j.msg]

\* Update: unconditional on the status the row has by now.
Updated(row, s) ==
  [row EXCEPT !.status = s, !.settled = IF s \in Settled THEN Stamp(row) ELSE row.settled]

\* Discard: a soft delete that frees the content hash.
Discarded(row) ==
  IF row.status = "discarded" THEN row
  ELSE [row EXCEPT !.status = "discarded", !.live = FALSE, !.settled = Stamp(row)]

\* PurgeInputs
Purged(row) ==
  IF row.status \in Settled /\ row.settled # NotSettled /\ row.settled < day - Retention
  THEN [row EXCEPT !.kept = FALSE] ELSE row

------------------------------------------------------------------------------
Idle(h) == pc[h] = "idle"

Goto(h, step) == pc' = [pc EXCEPT ![h] = step] /\ UNCHANGED job

\* The reply is sent and the goroutine ends.
Finish(h) == pc' = [pc EXCEPT ![h] = "idle"] /\ job' = [job EXCEPT ![h] = NoJob]

Serve(h, u, i, t, m, step) ==
  /\ pc' = [pc EXCEPT ![h] = step]
  /\ job' = [job EXCEPT ![h] =
               [user |-> u, id |-> i, text |-> t, msg |-> m, day |-> day, tries |-> 0]]

\* Bound: an ingestion starts only if an id is left for every one in progress.
HasRoom ==
  Cardinality({h \in Handler : pc[h] \in Ingesting}) < Cardinality(SubId \ Stored)

Fault(kind) == kind \in FaultKinds /\ faults < MaxFaults /\ faults' = faults + 1

tables == <<subs, landed, lost>>

------------------------------------------------------------------------------
(* Ingestion: handleSubmit, the email webhook, handleRerun, and the         *)
(* ingestLead they share.                                                   *)

SubmitStart(h, u, t) ==
  /\ "submit" \in Requests /\ Idle(h) /\ HasRoom
  /\ Serve(h, u, NoId, t, NoMsg, "dedup_hash")
  /\ UNCHANGED <<tables, confirmMu, day, faults>>

EmailStart(h, u, t, m) ==
  /\ "email" \in Requests /\ Idle(h) /\ HasRoom
  /\ Serve(h, u, NoId, t, m, "dedup_msg")
  /\ UNCHANGED <<tables, confirmMu, day, faults>>

\* handleRerun reads the original, then treats it as open however long the
\* extraction takes.  Provenance is inherited; ReplacesID skips Message-ID dedup.
RerunStart(h, u, i, t) ==
  /\ "rerun" \in Requests /\ Idle(h) /\ HasRoom
  /\ Get(u, i) /\ subs[i].status \in Open
  /\ Serve(h, u, i, t, subs[i].msg, "dedup_hash")
  /\ UNCHANGED <<tables, confirmMu, day, faults>>

\* ingestLead is done and has this submission to show for it: handleRerun
\* discards the original unless that is what came back.
Ingested(h, i) ==
  IF job[h].id \in {NoId, i} THEN Finish(h) ELSE Goto(h, "replacing")

DedupByMessage(h) ==
  /\ pc[h] = "dedup_msg"
  /\ IF FindByMessageID(job[h].user, job[h].msg, job[h].day - DedupWindow) # {}
     THEN Finish(h) ELSE Goto(h, "dedup_hash")
  /\ UNCHANGED <<tables, confirmMu, day, faults>>

DedupByHash(h) ==
  LET prior == FindByHash(job[h].user, job[h].text, job[h].day) IN
  /\ pc[h] = "dedup_hash"
  /\ IF prior = {} THEN Goto(h, "extracting") ELSE \E i \in prior : Ingested(h, i)
  /\ UNCHANGED <<tables, confirmMu, day, faults>>

Extract(h) ==
  /\ pc[h] = "extracting"
  /\ Goto(h, "inserting")
  /\ UNCHANGED <<tables, confirmMu, day, faults>>

\* Any error on the way: the handler answers 500 or 502 and has stored nothing.
IngestFails(h) ==
  /\ pc[h] \in Ingesting
  /\ Finish(h)
  /\ UNCHANGED <<tables, confirmMu, day, faults>>

\* Mutant: the column is not UNIQUE, dedup is the earlier lookup alone.
InsertAlways(h) ==
  /\ pc[h] = "inserting"
  /\ \E i \in SubId \ Stored :
       subs' = [subs EXCEPT ![i] = NewRow(job[h])] /\ Ingested(h, i)
  /\ UNCHANGED <<landed, lost, confirmMu, day, faults>>

\* ON CONFLICT(content_hash) DO NOTHING
Insert(h) ==
  /\ pc[h] = "inserting"
  /\ IF FindByHash(job[h].user, job[h].text, job[h].day) # {}
     THEN Goto(h, "rereading") /\ UNCHANGED subs
     ELSE \E i \in SubId \ Stored :
            /\ subs' = [subs EXCEPT ![i] = NewRow(job[h])]
            /\ Ingested(h, i)
  /\ UNCHANGED <<landed, lost, confirmMu, day, faults>>

\* The row that won the insert race, unless it was discarded since.
Reread(h) ==
  LET prior == FindByHash(job[h].user, job[h].text, job[h].day) IN
  /\ pc[h] = "rereading"
  /\ IF prior = {} THEN Finish(h) ELSE \E i \in prior : Ingested(h, i)
  /\ UNCHANGED <<tables, confirmMu, day, faults>>

\* handleRerun's Discard of the original; it looks at no status of its own.
RerunReplace(h) ==
  /\ pc[h] = "replacing"
  /\ subs' = [subs EXCEPT ![job[h].id] = Discarded(@)]
  /\ Finish(h)
  /\ UNCHANGED <<landed, lost, confirmMu, day, faults>>

------------------------------------------------------------------------------
(* handleConfirm                                                            *)

ConfirmStart(h, u, i) ==
  /\ "confirm" \in Requests /\ Idle(h)
  /\ Get(u, i)
  /\ Serve(h, u, i, subs[i].text, NoMsg, "waiting")
  /\ UNCHANGED <<tables, confirmMu, day, faults>>

\* Mutant: no mutex.
ConfirmUnlocked(h) ==
  /\ pc[h] = "waiting"
  /\ IF Get(job[h].user, job[h].id) /\ subs[job[h].id].status \in Open
     THEN Goto(h, "checked") /\ confirmMu' = h
     ELSE Finish(h) /\ UNCHANGED confirmMu
  /\ UNCHANGED <<tables, day, faults>>

\* Mutant: the status check of an earlier read is trusted inside the lock.
ConfirmStaleCheck(h) ==
  /\ pc[h] = "waiting" /\ confirmMu = NoHandler
  /\ Goto(h, "checked") /\ confirmMu' = h
  /\ UNCHANGED <<tables, day, faults>>

\* confirmMu.Lock and the Get inside it; a settled row answers 409 and unlocks.
ConfirmLock(h) ==
  /\ pc[h] = "waiting" /\ confirmMu = NoHandler
  /\ IF Get(job[h].user, job[h].id) /\ subs[job[h].id].status \in Open
     THEN Goto(h, "checked") /\ confirmMu' = h
     ELSE Finish(h) /\ UNCHANGED confirmMu
  /\ UNCHANGED <<tables, day, faults>>

Unlock(h) == Finish(h) /\ confirmMu' = NoHandler

\* An unreadable extraction, an unknown field, a required field left empty, or
\* no destination to write to: nothing has been written and nothing is stored.
ConfirmRefused(h) ==
  /\ pc[h] = "checked"
  /\ Unlock(h)
  /\ UNCHANGED <<tables, day, faults>>

ConfirmWrite(h) ==
  /\ pc[h] = "checked"
  /\ Goto(h, "writing")
  /\ UNCHANGED <<tables, confirmMu, day, faults>>

\* One attempt of Writer.Write: the destination takes the row and says so.
WriteLands(h) ==
  /\ pc[h] = "writing"
  /\ landed' = [landed EXCEPT ![job[h].id] = @ + 1]
  /\ Goto(h, "settling")
  /\ UNCHANGED <<subs, lost, confirmMu, day, faults>>

\* Mutant: the writer's error is dropped.
RejectedIgnored(h) ==
  /\ pc[h] = "writing"
  /\ Goto(h, "settling")
  /\ UNCHANGED <<tables, confirmMu, day, faults>>

\* A 4xx is final.
WriteRejected(h) ==
  /\ pc[h] = "writing"
  /\ Goto(h, "failing")
  /\ UNCHANGED <<tables, confirmMu, day, faults>>

\* Mutant: the attempt counter is compared too late.
RetryOnceMore(h) ==
  /\ job' = [job EXCEPT ![h].tries = @ + 1]
  /\ pc' = [pc EXCEPT ![h] = IF job[h].tries = MaxAttempts THEN "failing" ELSE "writing"]

\* 429, 5xx and transport errors are tried again, MaxAttempts times in all.
Retry(h) ==
  /\ job' = [job EXCEPT ![h].tries = @ + 1]
  /\ pc' = [pc EXCEPT ![h] = IF job[h].tries + 1 = MaxAttempts THEN "failing" ELSE "writing"]

WriteTransient(h) ==
  /\ pc[h] = "writing"
  /\ Retry(h)
  /\ UNCHANGED <<tables, confirmMu, day, faults>>

\* The row lands but the reply does not arrive, or cannot be read: a transport
\* error is retried; an undecodable reply or a cancelled context is final.
WriteReplyLost(h) ==
  /\ pc[h] = "writing" /\ Fault("reply")
  /\ landed' = [landed EXCEPT ![job[h].id] = @ + 1]
  /\ lost' = [lost EXCEPT ![job[h].id] = @ + 1]
  /\ \/ Retry(h)
     \/ Goto(h, "failing")
  /\ UNCHANGED <<subs, confirmMu, day>>

ConfirmSettle(h) ==
  /\ pc[h] = "settling"
  /\ subs' = [subs EXCEPT ![job[h].id] = Updated(@, "written")]
  /\ Unlock(h)
  /\ UNCHANGED <<landed, lost, day, faults>>

\* "Only local bookkeeping failed": the reply is still a success.
ConfirmSettleFails(h) ==
  /\ pc[h] = "settling" /\ Fault("update")
  /\ lost' = [lost EXCEPT ![job[h].id] = @ + 1]
  /\ Unlock(h)
  /\ UNCHANGED <<subs, landed, day>>

ConfirmFail(h) ==
  /\ pc[h] = "failing"
  /\ subs' = [subs EXCEPT ![job[h].id] = Updated(@, "failed_write")]
  /\ Unlock(h)
  /\ UNCHANGED <<landed, lost, day, faults>>

ConfirmFailFails(h) ==
  /\ pc[h] = "failing" /\ Fault("update")
  /\ Unlock(h)
  /\ UNCHANGED <<tables, day>>

------------------------------------------------------------------------------
(* handleDiscard, which does not take confirmMu                             *)

DiscardStart(h, u, i) ==
  /\ "discard" \in Requests /\ Idle(h)
  /\ Get(u, i) /\ subs[i].status \in Open
  /\ Serve(h, u, i, subs[i].text, NoMsg, "discarding")
  /\ UNCHANGED <<tables, confirmMu, day, faults>>

DiscardUpdate(h) ==
  /\ pc[h] = "discarding"
  /\ subs' = [subs EXCEPT ![job[h].id] = Discarded(@)]
  /\ Finish(h)
  /\ UNCHANGED <<landed, lost, confirmMu, day, faults>>

\* The statement fails: 500, or a line in the log for a re-run.
DiscardFails(h) ==
  /\ pc[h] \in {"discarding", "replacing"} /\ Fault("update")
  /\ Finish(h)
  /\ UNCHANGED <<tables, confirmMu, day>>

------------------------------------------------------------------------------
(* The process and the clock                                                *)

\* The retention sweep, at boot and every 24 hours.
Purge ==
  /\ subs' = [i \in SubId |-> IF i \in Stored THEN Purged(subs[i]) ELSE NoRow]
  /\ subs' # subs
  /\ UNCHANGED <<landed, lost, confirmMu, pc, job, day, faults>>

\* Bound: no request lives to see two midnights.
Midnight ==
  /\ day < MaxDay
  /\ \A h \in Handler : ~Idle(h) => job[h].day = day
  /\ day' = day + 1
  /\ UNCHANGED <<tables, confirmMu, pc, job, faults>>

\* A restart forgets every request.  An append in flight may still land, and one
\* that landed without its Update is now unrecorded.
Crash ==
  /\ Fault("crash")
  /\ \E h \in Handler : ~Idle(h)
  /\ \E hit \in SUBSET {job[h].id : h \in {g \in Handler : pc[g] = "writing"}} :
       LET unrecorded == {job[h].id : h \in {g \in Handler : pc[g] = "settling"}} IN
       /\ landed' = [i \in SubId |-> IF i \in hit THEN landed[i] + 1 ELSE landed[i]]
       /\ lost' = [i \in SubId |-> IF i \in hit \cup unrecorded THEN lost[i] + 1 ELSE lost[i]]
  /\ pc' = [h \in Handler |-> "idle"]
  /\ job' = [h \in Handler |-> NoJob]
  /\ confirmMu' = NoHandler
  /\ UNCHANGED <<subs, day>>

------------------------------------------------------------------------------
Init ==
  /\ subs = [i \in SubId |-> NoRow]
  /\ landed = [i \in SubId |-> 0]
  /\ lost = [i \in SubId |-> 0]
  /\ confirmMu = NoHandler
  /\ pc = [h \in Handler |-> "idle"]
  /\ job = [h \in Handler |-> NoJob]
  /\ day = 0
  /\ faults = 0

IngestStep(h) ==
  \/ DedupByMessage(h) \/ DedupByHash(h) \/ Extract(h) \/ IngestFails(h)
  \/ Insert(h) \/ Reread(h) \/ RerunReplace(h)

ConfirmStep(h) ==
  \/ ConfirmRefused(h) \/ ConfirmWrite(h)
  \/ WriteLands(h) \/ WriteRejected(h) \/ WriteTransient(h) \/ WriteReplyLost(h)
  \/ ConfirmSettle(h) \/ ConfirmSettleFails(h) \/ ConfirmFail(h) \/ ConfirmFailFails(h)

DiscardStep(h) == DiscardUpdate(h) \/ DiscardFails(h)

Request(h) ==
  \E u \in User :
    \/ \E t \in Text :
         \/ SubmitStart(h, u, t)
         \/ \E m \in MsgId : EmailStart(h, u, t, m)
         \/ \E i \in SubId : RerunStart(h, u, i, t)
    \/ \E i \in SubId : ConfirmStart(h, u, i) \/ DiscardStart(h, u, i)

Next ==
  \/ \E h \in Handler : Request(h) \/ IngestStep(h) \/ ConfirmLock(h) \/ ConfirmStep(h)
                        \/ DiscardStep(h)
  \/ Purge \/ Midnight \/ Crash

Spec == Init /\ [][Next]_vars

------------------------------------------------------------------------------
(* Safety                                                                   *)

\* handleConfirm, confirm.go:46: between the status check and the Update there is
\* at most one confirm, and it is the one that holds confirmMu.
OneConfirmAtATime ==
  \A h \in Handler : pc[h] \in Confirming <=> confirmMu = h

\* handleConfirm, confirm.go:46: repeated confirms and retries leave one row at the
\* destination, plus at most one for every landing the table was never told of.
EveryCopyIsAccounted ==
  \A i \in SubId : landed[i] <= lost[i] + 1

\* confirm.go:119-146: history never lists as written a lead its destination
\* does not hold, whatever was discarded, retried or restarted on the way.
WrittenIsAtDestination ==
  \A i \in Stored : subs[i].status = "written" => landed[i] > 0

\* lead.go:94-104 and the UNIQUE content_hash: however many submissions, deliveries
\* and re-runs of one content race, one row of that user and day answers for it.
OneLiveRowPerContent ==
  \A i, j \in Stored :
    /\ i # j /\ subs[i].live /\ subs[j].live
    => <<subs[i].user, subs[i].text, subs[i].day>> # <<subs[j].user, subs[j].text, subs[j].day>>

\* store.go:503-555: a row nobody has settled still answers for its content, its
\* retention clock has not started and its original is there to review.
PendingIsWhole ==
  \A i \in Stored : subs[i].status = "pending" =>
    subs[i].live /\ subs[i].settled = NotSettled /\ subs[i].kept

\* README "every request is scoped to the signed-in user": no request is ever past
\* its lookup with another account's submission in hand.
WorksOnOwnRows ==
  \A h \in Handler : ~Idle(h) /\ job[h].id # NoId =>
    job[h].id \in Stored /\ subs[job[h].id].user = job[h].user

\* confirm.go:46: a written row never re-opens for another write, and nothing makes a
\* row pending again.  It takes the lock: a second confirm that fails late would
\* turn written back into failed_write.
WrittenNeverReopens ==
  [][\A i \in Stored :
       /\ subs[i].status = "written" => subs'[i].status \in Settled
       /\ subs'[i].status = "pending" => subs[i].status = "pending"]_vars

\* store.go:500: settled_at is stamped once, so no later write moves the clock the
\* retention sweep runs on.
SettledStampIsFixed ==
  [][\A i \in Stored : subs[i].settled # NotSettled => subs'[i].settled = subs[i].settled]_vars

------------------------------------------------------------------------------
(* Leads implements LeadDelivery.  A delivery is recorded when its row is     *)
(* settled, unless the confirm that made it has yet to say so.                *)

Recorded ==
  {i \in Stored : /\ subs[i].status \in Settled /\ landed[i] > lost[i]
                  /\ \A h \in Handler : ~(pc[h] = "settling" /\ job[h].id = i)}

Promise == INSTANCE LeadDelivery WITH Lead <- SubId, captured <- Stored, recorded <- Recorded

\* confirm.go:49-150: whatever interleaves, every step of every handler is a step
\* of LeadDelivery or invisible to it.
KeepsPromise == Promise!Spec

------------------------------------------------------------------------------
(* What the documentation says and the code does not keep                   *)

\* README:64: discarded submissions "can no longer be confirmed" and never appear
\* in the queue or history.
DiscardedIsFinal ==
  [][\A i \in Stored : subs[i].status = "discarded" => subs'[i].status = "discarded"]_vars
==============================================================================
