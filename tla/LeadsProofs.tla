----------------------------- MODULE LeadsProofs -----------------------------
(***************************************************************************)
(* What is proved of Leads, for every number of accounts, handlers,          *)
(* submissions, days, attempts and faults: its types, the safety properties   *)
(* of the runs, and that Leads implements LeadDelivery.                       *)
(***************************************************************************)
EXTENDS Leads, TLAPS

\* The submission in a request's path is stored; a review request has one.
OnARow ==
  \A h \in Handler : pc[h] # "idle" =>
    /\ job[h].id # NoId => job[h].id \in Stored
    /\ pc[h] \notin Ingesting => job[h].id # NoId

TriesLeft ==
  \A h \in Handler : pc[h] \in {"waiting", "checked", "writing"} => job[h].tries < MaxAttempts

------------------------------------------------------------------------------
(* What the store's operators return                                        *)

LEMMA StampType ==
  ASSUME NEW r \in Row, day \in Day PROVE Stamp(r) \in Day
BY DEF Stamp, Row

\* Update, Discard and the sweep turn a row into a row.
LEMMA UpdatedType ==
  ASSUME NEW r \in Row, NEW s \in Status, day \in Day PROVE Updated(r, s) \in Row
BY StampType DEF Updated, Row

LEMMA DiscardedType ==
  ASSUME NEW r \in Row, day \in Day PROVE Discarded(r) \in Row
BY StampType DEF Discarded, Row, Status

LEMMA PurgedType ==
  ASSUME NEW r \in Row PROVE Purged(r) \in Row
BY DEF Purged, Row

LEMMA NewRowType ==
  ASSUME NEW j \in Job, day \in Day PROVE NewRow(j) \in Row
BY DEF NewRow, Row, Job, Status

LEMMA StoredRow ==
  ASSUME TypeOK, NEW i \in Stored PROVE i \in SubId /\ subs[i] \in Row
BY DEF TypeOK, Stored

\* What each operator does to the status; none turns a row into no row.
LEMMA StatusAfter ==
  ASSUME NEW r \in Row, NEW s \in Status
  PROVE  /\ Updated(r, s).status = s
         /\ Discarded(r).status = "discarded"
         /\ Purged(r).status = r.status
BY DEF Updated, Discarded, Purged, Row

LEMMA NoRowIsNoRow ==
  ASSUME NEW r \in Row PROVE r # NoRow
BY AbsentValues

------------------------------------------------------------------------------
(* Type correctness                                                         *)

TypeInv == TypeOK /\ OnARow /\ TriesLeft

\* A handler moves on: the table may have gained rows and rows may have changed,
\* but none is gone.
TableGrows == subs' \in [SubId -> Row \cup {NoRow}] /\ Stored \subseteq Stored'

LEMMA RewriteGrows ==
  ASSUME TypeOK, NEW i \in Stored, NEW r \in Row, subs' = [subs EXCEPT ![i] = r]
  PROVE  TableGrows
BY NoRowIsNoRow, StoredRow DEF TableGrows, TypeOK, Stored

LEMMA SameGrows ==
  ASSUME TypeOK, subs' = subs PROVE TableGrows
BY DEF TableGrows, TypeOK, Stored

Rest == <<landed, lost, confirmMu, day, faults>>

LEMMA ServeKeepsTypes ==
  ASSUME TypeInv, UNCHANGED <<subs, Rest>>,
         NEW h \in Handler, NEW u \in User, NEW i \in SubId \cup {NoId}, NEW t \in Text,
         NEW m \in MsgId \cup {NoMsg}, NEW step \in PC \ (Confirming \cup {"replacing"}),
         i # NoId => i \in Stored, step \notin Ingesting => i # NoId, step # "idle",
         Serve(h, u, i, t, m, step)
  PROVE  TypeInv'
BY Numbers
   DEF TypeInv, TypeOK, OnARow, TriesLeft, Serve, Rest, Stored, Job, PC, Confirming, Ingesting

\* The part of TypeInv that speaks of the handlers.
HandlerTypes ==
  /\ pc \in [Handler -> PC]
  /\ job \in [Handler -> Job \cup {NoJob}]
  /\ \A h \in Handler : pc[h] # "idle" => job[h] \in Job
  /\ OnARow /\ TriesLeft

LEMMA FinishKeepsTypes ==
  ASSUME TypeInv, TableGrows, NEW h \in Handler, Finish(h)
  PROVE  HandlerTypes'
BY DEF TypeInv, TypeOK, OnARow, TriesLeft, Finish, TableGrows, HandlerTypes, PC, Confirming

LEMMA GotoKeepsTypes ==
  ASSUME TypeInv, TableGrows, NEW h \in Handler, pc[h] # "idle", NEW step \in PC, Goto(h, step),
         step \notin Ingesting => job[h].id # NoId,
         step \in {"waiting", "checked", "writing"} => job[h].tries < MaxAttempts
  PROVE  HandlerTypes'
BY DEF TypeInv, TypeOK, OnARow, TriesLeft, Goto, TableGrows, HandlerTypes

\* A step that ends with the table grown, the counters natural and the handlers
\* well typed preserves TypeInv.
LEMMA Assemble ==
  ASSUME TableGrows, HandlerTypes', landed' \in [SubId -> Nat], lost' \in [SubId -> Nat],
         confirmMu' \in Handler \cup {NoHandler}, day' \in Day, faults' \in 0..MaxFaults
  PROVE  TypeInv'
BY DEF TypeInv, TypeOK, HandlerTypes, TableGrows

LEMMA IngestedTypes ==
  ASSUME TypeInv, TableGrows, NEW h \in Handler, pc[h] \in Ingesting, NEW i, Ingested(h, i)
  PROVE  HandlerTypes'
<1>1. CASE Finish(h)
  BY <1>1, FinishKeepsTypes
<1>2. CASE job[h].id # NoId /\ Goto(h, "replacing")
  <2>1. pc[h] # "idle" /\ "replacing" \in PC
    BY DEF Ingesting, PC
  <2>2. QED
    BY <1>2, <2>1, GotoKeepsTypes
<1>3. QED
  BY <1>1, <1>2 DEF Ingested

LEMMA FindByHashStored ==
  ASSUME NEW u, NEW t, NEW d, NEW i \in FindByHash(u, t, d) PROVE i \in Stored
BY DEF FindByHash

LEMMA IngestKeepsTypes ==
  ASSUME TypeInv, NEW h \in Handler, IngestStep(h)
  PROVE  TypeInv'
<1> USE DEF TypeInv
<1>1. CASE DedupByMessage(h)
  <2>1. TableGrows
    BY <1>1, SameGrows DEF DedupByMessage, tables
  <2>2. HandlerTypes'
    BY <1>1, <2>1, FinishKeepsTypes, GotoKeepsTypes DEF DedupByMessage, PC, Ingesting
  <2>3. QED
    BY <1>1, <2>1, <2>2, Assemble DEF DedupByMessage, tables, TypeOK
<1>2. CASE DedupByHash(h)
  <2>1. TableGrows
    BY <1>2, SameGrows DEF DedupByHash, tables
  <2>2. HandlerTypes'
    BY <1>2, <2>1, IngestedTypes, GotoKeepsTypes DEF DedupByHash, PC, Ingesting
  <2>3. QED
    BY <1>2, <2>1, <2>2, Assemble DEF DedupByHash, tables, TypeOK
<1>3. CASE Extract(h)
  <2>1. TableGrows
    BY <1>3, SameGrows DEF Extract, tables
  <2>2. HandlerTypes'
    BY <1>3, <2>1, GotoKeepsTypes DEF Extract, PC, Ingesting
  <2>3. QED
    BY <1>3, <2>1, <2>2, Assemble DEF Extract, tables, TypeOK
<1>4. CASE IngestFails(h)
  <2>1. TableGrows
    BY <1>4, SameGrows DEF IngestFails, tables
  <2>2. QED
    BY <1>4, <2>1, FinishKeepsTypes, Assemble DEF IngestFails, tables, TypeOK
<1>5. CASE Insert(h)
  <2>1. pc[h] \in Ingesting /\ job[h] \in Job /\ pc[h] # "idle"
    BY <1>5 DEF Insert, Ingesting, TypeOK
  <2>2. CASE UNCHANGED subs /\ Goto(h, "rereading")
    BY <1>5, <2>1, <2>2, SameGrows, GotoKeepsTypes, Assemble DEF Insert, TypeOK, PC, Ingesting
  <2>3. CASE \E i \in SubId \ Stored :
               subs' = [subs EXCEPT ![i] = NewRow(job[h])] /\ Ingested(h, i)
    <3>1. PICK i \in SubId \ Stored :
               subs' = [subs EXCEPT ![i] = NewRow(job[h])] /\ Ingested(h, i)
      BY <2>3
    <3>2. NewRow(job[h]) \in Row
      BY <2>1, NewRowType DEF TypeOK
    <3>3. TableGrows
      BY <3>1, <3>2, NoRowIsNoRow DEF TableGrows, TypeOK, Stored
    <3>4. QED
      BY <1>5, <2>1, <3>1, <3>3, IngestedTypes, Assemble DEF Insert, TypeOK
  <2>4. QED
    BY <1>5, <2>2, <2>3 DEF Insert
<1>6. CASE Reread(h)
  <2>1. TableGrows
    BY <1>6, SameGrows DEF Reread, tables
  <2>2. HandlerTypes'
    BY <1>6, <2>1, IngestedTypes, FinishKeepsTypes DEF Reread, PC, Ingesting
  <2>3. QED
    BY <1>6, <2>1, <2>2, Assemble DEF Reread, tables, TypeOK
<1>7. CASE RerunReplace(h)
  <2>1. job[h].id \in Stored
    BY <1>7 DEF RerunReplace, OnARow, Ingesting
  <2>2. Discarded(subs[job[h].id]) \in Row
    BY <2>1, StoredRow, DiscardedType DEF TypeOK
  <2>3. TableGrows
    BY <1>7, <2>1, <2>2, RewriteGrows DEF RerunReplace
  <2>4. QED
    BY <1>7, <2>3, FinishKeepsTypes, Assemble DEF RerunReplace, TypeOK
<1>8. QED
  BY <1>1, <1>2, <1>3, <1>4, <1>5, <1>6, <1>7 DEF IngestStep

LEMMA ConfirmLockKeepsTypes ==
  ASSUME TypeInv, NEW h \in Handler, ConfirmLock(h)
  PROVE  TypeInv'
<1> USE DEF TypeInv
<1>1. TableGrows
  BY SameGrows DEF ConfirmLock, tables
<1>2. pc[h] # "idle" /\ job[h].id # NoId
  BY DEF ConfirmLock, OnARow, Ingesting
<1>3. HandlerTypes'
  BY <1>1, <1>2, FinishKeepsTypes, GotoKeepsTypes DEF ConfirmLock, TriesLeft, PC, Confirming
<1>4. QED
  BY <1>1, <1>3, Assemble DEF ConfirmLock, tables, TypeOK

LEMMA ConfirmKeepsTypes ==
  ASSUME TypeInv, NEW h \in Handler, ConfirmStep(h)
  PROVE  TypeInv'
<1> USE DEF TypeInv
<1>1. pc[h] \in Confirming
  BY DEF ConfirmStep, ConfirmRefused, ConfirmWrite, WriteLands, WriteRejected, WriteTransient,
         WriteReplyLost, ConfirmSettle, ConfirmSettleFails, ConfirmFail, ConfirmFailFails, Confirming
<1>2. /\ job[h] \in Job /\ job[h].id \in Stored /\ job[h].id # NoId
      /\ pc[h] # "idle" /\ pc[h] \notin Ingesting
  BY <1>1 DEF TypeOK, OnARow, Confirming, Ingesting
<1>3. job[h].id \in SubId /\ subs[job[h].id] \in Row /\ day \in Day
  BY <1>2, StoredRow DEF TypeOK
\* Steps that do not touch the table.
<1>4. ASSUME UNCHANGED subs, Finish(h) PROVE HandlerTypes' /\ TableGrows
  BY <1>4, SameGrows, FinishKeepsTypes
<1>5. ASSUME UNCHANGED subs, NEW s \in Confirming, Goto(h, s), s \in {"checked", "writing"} => pc[h] = "checked"
      PROVE HandlerTypes' /\ TableGrows
  <2>1. TableGrows
    BY <1>5, SameGrows
  <2>2. QED
    BY <1>2, <1>5, <2>1, GotoKeepsTypes DEF PC, TriesLeft, Confirming
<1>6. ASSUME UNCHANGED subs, pc[h] = "writing", Retry(h) PROVE HandlerTypes' /\ TableGrows
  <2>1. TableGrows
    BY <1>6, SameGrows
  <2>2. job[h].tries \in Nat /\ job[h].tries < MaxAttempts /\ job[h].tries + 1 \in 0..MaxAttempts
    BY <1>2, <1>6, Numbers DEF TriesLeft, Job
  <2>3. job'[h] = [job[h] EXCEPT !.tries = @ + 1] /\ job'[h] \in Job /\ job'[h].id = job[h].id
    BY <1>2, <1>6, <2>2 DEF Retry, TypeOK, Job
  <2>4. job'[h].tries = job[h].tries + 1
    BY <1>2, <2>3 DEF Job
  <2>5. /\ pc' \in [Handler -> PC]
        /\ job' \in [Handler -> Job \cup {NoJob}]
        /\ \A g \in Handler : g # h => pc'[g] = pc[g] /\ job'[g] = job[g]
        /\ pc'[h] \in {"writing", "failing"}
        /\ pc'[h] = "writing" => job[h].tries + 1 # MaxAttempts
    BY <1>6, <2>3 DEF Retry, TypeOK, PC, Confirming
  <2>6. TriesLeft'
    <3>1. ASSUME NEW g \in Handler, pc'[g] \in {"waiting", "checked", "writing"}
          PROVE job'[g].tries < MaxAttempts
      <4>1. CASE g = h
        BY <2>2, <2>4, <2>5, <3>1, <4>1, Numbers
      <4>2. CASE g # h
        BY <2>5, <3>1, <4>2 DEF TriesLeft
      <4>3. QED
        BY <4>1, <4>2
    <3>2. QED
      BY <3>1 DEF TriesLeft
  <2>7. OnARow'
    BY <1>2, <2>1, <2>3, <2>5 DEF OnARow, TableGrows, Ingesting
  <2>8. QED
    BY <2>1, <2>3, <2>5, <2>6, <2>7 DEF HandlerTypes, TypeOK
<1>7. ASSUME NEW r \in Row, subs' = [subs EXCEPT ![job[h].id] = r], Finish(h)
      PROVE HandlerTypes' /\ TableGrows
  BY <1>2, <1>7, RewriteGrows, FinishKeepsTypes
<1>8. \A i \in SubId : /\ [landed EXCEPT ![i] = @ + 1] \in [SubId -> Nat]
                      /\ [lost EXCEPT ![i] = @ + 1] \in [SubId -> Nat]
  BY DEF TypeOK
<1>9. ASSUME NEW k, Fault(k) PROVE faults' \in 0..MaxFaults
  BY <1>9, Numbers DEF Fault, TypeOK
<1>10. CASE ConfirmRefused(h)
  BY <1>4, <1>10, Assemble DEF ConfirmRefused, Unlock, tables, TypeOK
<1>11. CASE ConfirmWrite(h)
  BY <1>5, <1>11, Assemble DEF ConfirmWrite, tables, TypeOK, Confirming
<1>12. CASE WriteLands(h)
  BY <1>3, <1>5, <1>8, <1>12, Assemble DEF WriteLands, TypeOK, Confirming
<1>13. CASE WriteRejected(h)
  BY <1>5, <1>13, Assemble DEF WriteRejected, tables, TypeOK, Confirming
<1>14. CASE WriteTransient(h)
  BY <1>6, <1>14, Assemble DEF WriteTransient, tables, TypeOK
<1>15. CASE WriteReplyLost(h)
  <2>1. HandlerTypes' /\ TableGrows
    BY <1>5, <1>6, <1>15 DEF WriteReplyLost, Confirming
  <2>2. QED
    BY <1>3, <1>8, <1>9, <1>15, <2>1, Assemble DEF WriteReplyLost, TypeOK
<1>16. CASE ConfirmSettle(h)
  <2>1. Updated(subs[job[h].id], "written") \in Row
    BY <1>3, UpdatedType DEF Status
  <2>2. QED
    BY <1>7, <1>16, <2>1, Assemble DEF ConfirmSettle, Unlock, TypeOK
<1>17. CASE ConfirmSettleFails(h)
  BY <1>3, <1>4, <1>8, <1>9, <1>17, Assemble DEF ConfirmSettleFails, Unlock, TypeOK
<1>18. CASE ConfirmFail(h)
  <2>1. Updated(subs[job[h].id], "failed_write") \in Row
    BY <1>3, UpdatedType DEF Status
  <2>2. QED
    BY <1>7, <1>18, <2>1, Assemble DEF ConfirmFail, Unlock, TypeOK
<1>19. CASE ConfirmFailFails(h)
  BY <1>4, <1>9, <1>19, Assemble DEF ConfirmFailFails, Unlock, tables, TypeOK
<1>20. QED
  BY <1>10, <1>11, <1>12, <1>13, <1>14, <1>15, <1>16, <1>17, <1>18, <1>19 DEF ConfirmStep

LEMMA DiscardKeepsTypes ==
  ASSUME TypeInv, NEW h \in Handler, DiscardStep(h)
  PROVE  TypeInv'
<1> USE DEF TypeInv
<1>1. CASE DiscardUpdate(h)
  <2>1. job[h].id \in Stored
    BY <1>1 DEF DiscardUpdate, OnARow, Ingesting
  <2>2. Discarded(subs[job[h].id]) \in Row
    BY <2>1, StoredRow, DiscardedType DEF TypeOK
  <2>3. TableGrows
    BY <1>1, <2>1, <2>2, RewriteGrows DEF DiscardUpdate
  <2>4. QED
    BY <1>1, <2>3, FinishKeepsTypes, Assemble DEF DiscardUpdate, TypeOK
<1>2. CASE DiscardFails(h)
  <2>1. TableGrows
    BY <1>2, SameGrows DEF DiscardFails, tables
  <2>2. faults' \in 0..MaxFaults
    BY <1>2, Numbers DEF DiscardFails, Fault, TypeOK
  <2>3. QED
    BY <1>2, <2>1, <2>2, FinishKeepsTypes, Assemble DEF DiscardFails, tables, TypeOK
<1>3. QED
  BY <1>1, <1>2 DEF DiscardStep

LEMMA RequestKeepsTypes ==
  ASSUME TypeInv, NEW h \in Handler, Request(h)
  PROVE  TypeInv'
<1> USE DEF TypeInv
<1>1. PICK u \in User :
        \/ \E t \in Text :
             \/ SubmitStart(h, u, t)
             \/ \E m \in MsgId : EmailStart(h, u, t, m)
             \/ \E i \in SubId : RerunStart(h, u, i, t)
        \/ \E i \in SubId : ConfirmStart(h, u, i) \/ DiscardStart(h, u, i)
  BY DEF Request
<1>2. ASSUME NEW t \in Text, SubmitStart(h, u, t) PROVE TypeInv'
  BY <1>2, ServeKeepsTypes DEF SubmitStart, Rest, tables, PC, Confirming, Ingesting
<1>3. ASSUME NEW t \in Text, NEW m \in MsgId, EmailStart(h, u, t, m) PROVE TypeInv'
  BY <1>3, ServeKeepsTypes DEF EmailStart, Rest, tables, PC, Confirming, Ingesting
<1>4. ASSUME NEW t \in Text, NEW i \in SubId, RerunStart(h, u, i, t) PROVE TypeInv'
  <2>1. i \in Stored /\ subs[i].msg \in MsgId \cup {NoMsg}
    BY <1>4, StoredRow DEF RerunStart, Get, Row
  <2>2. QED
    BY <1>4, <2>1, ServeKeepsTypes DEF RerunStart, Rest, tables, PC, Confirming, Ingesting
<1>5. ASSUME NEW i \in SubId, ConfirmStart(h, u, i) PROVE TypeInv'
  <2>1. i \in Stored /\ subs[i].text \in Text /\ i # NoId
    BY <1>5, StoredRow, AbsentValues DEF ConfirmStart, Get, Row
  <2>2. QED
    BY <1>5, <2>1, ServeKeepsTypes DEF ConfirmStart, Rest, tables, PC, Confirming, Ingesting
<1>6. ASSUME NEW i \in SubId, DiscardStart(h, u, i) PROVE TypeInv'
  <2>1. i \in Stored /\ subs[i].text \in Text /\ i # NoId
    BY <1>6, StoredRow, AbsentValues DEF DiscardStart, Get, Row
  <2>2. QED
    BY <1>6, <2>1, ServeKeepsTypes DEF DiscardStart, Rest, tables, PC, Confirming, Ingesting
<1>7. QED
  BY <1>1, <1>2, <1>3, <1>4, <1>5, <1>6

LEMMA ProcessKeepsTypes ==
  ASSUME TypeInv, Purge \/ Midnight \/ Crash
  PROVE  TypeInv'
<1> USE DEF TypeInv
<1>1. CASE Purge
  <2>1. TableGrows
    BY <1>1, PurgedType, NoRowIsNoRow DEF Purge, TableGrows, TypeOK, Stored
  <2>2. HandlerTypes'
    BY <1>1, <2>1 DEF Purge, HandlerTypes, TableGrows, TypeOK, OnARow, TriesLeft
  <2>3. QED
    BY <1>1, <2>1, <2>2, Assemble DEF Purge, TypeOK
<1>2. CASE Midnight
  <2>1. day' \in Day
    BY <1>2, Numbers DEF Midnight, TypeOK, Day
  <2>2. QED
    BY <1>2, <2>1 DEF Midnight, tables, TypeOK, OnARow, TriesLeft, Stored
<1>3. CASE Crash
  <2>1. TableGrows
    BY <1>3, SameGrows DEF Crash
  <2>2. HandlerTypes'
    BY <1>3 DEF Crash, HandlerTypes, OnARow, TriesLeft, PC
  <2>3. landed' \in [SubId -> Nat] /\ lost' \in [SubId -> Nat]
    BY <1>3 DEF Crash, TypeOK
  <2>4. faults' \in 0..MaxFaults
    BY <1>3, Numbers DEF Crash, Fault, TypeOK
  <2>5. QED
    BY <1>3, <2>1, <2>2, <2>3, <2>4, Assemble DEF Crash, TypeOK
<1>4. QED
  BY <1>1, <1>2, <1>3

LEMMA InitTypes == Init => TypeInv
BY Numbers, AbsentValues
   DEF Init, TypeInv, TypeOK, OnARow, TriesLeft, PC, Day

LEMMA NextKeepsTypes == TypeInv /\ [Next]_vars => TypeInv'
<1> SUFFICES ASSUME TypeInv, [Next]_vars PROVE TypeInv'
  OBVIOUS
<1>1. CASE UNCHANGED vars
  BY <1>1 DEF vars, TypeInv, TypeOK, OnARow, TriesLeft, Stored
<1>2. CASE Next
  BY <1>2, RequestKeepsTypes, IngestKeepsTypes, ConfirmLockKeepsTypes, ConfirmKeepsTypes,
     DiscardKeepsTypes, ProcessKeepsTypes DEF Next
<1>3. QED
  BY <1>1, <1>2

\* Every reachable state is well typed: rows are rows, a handler past its first
\* step has a job, and no write is tried more often than maxAttempts.
THEOREM LeadsTypeOK == Spec => []TypeOK
<1>1. TypeInv => TypeOK
  BY DEF TypeInv
<1>2. QED
  BY <1>1, InitTypes, NextKeepsTypes, PTL DEF Spec

------------------------------------------------------------------------------
\* The write in progress starts from a lead with nothing in doubt, and leaves
\* exactly one row in doubt until its Update.
SettlingOwesOne ==
  \A h \in Handler : pc[h] = "settling" => landed[job[h].id] = lost[job[h].id] + 1

OthersOweNone ==
  \A h \in Handler : pc[h] \in {"checked", "writing", "failing"} =>
    landed[job[h].id] = lost[job[h].id]

\* No confirm past its check works on a lead some other confirm has recorded.
NotYetWritten ==
  \A h \in Handler : pc[h] \in Confirming => subs[job[h].id].status # "written"

\* A row that landed and is not lost is settled in the table or about to be.
Owed(i) ==
  /\ landed[i] = lost[i] + 1
  /\ i \in Stored
  /\ \/ subs[i].status \in Settled
     \/ \E h \in Handler : pc[h] = "settling" /\ job[h].id = i

Balance == \A i \in SubId : landed[i] = lost[i] \/ Owed(i)

Safe == OneConfirmAtATime /\ SettlingOwesOne /\ OthersOweNone /\ NotYetWritten /\ Balance

Inv == TypeInv /\ Safe

------------------------------------------------------------------------------
(* What a step can do to the table                                          *)

\* The steps that rewrite the row of the request a handler serves.
Rewrites(h) == RerunReplace(h) \/ DiscardUpdate(h) \/ ConfirmSettle(h) \/ ConfirmFail(h)

Inserts(h) ==
  /\ Insert(h)
  /\ FindByHash(job[h].user, job[h].text, job[h].day) = {}
  /\ \E i \in SubId \ Stored : subs' = [subs EXCEPT ![i] = NewRow(job[h])]

\* The table changes by an insert, a rewrite of one request's row, or the sweep.
LEMMA TableStep ==
  ASSUME [Next]_vars
  PROVE  UNCHANGED subs \/ Purge \/ \E h \in Handler : Rewrites(h) \/ Inserts(h)
<1>1. CASE UNCHANGED vars
  BY <1>1 DEF vars
<1>2. CASE Purge \/ Midnight \/ Crash
  BY <1>2 DEF Midnight, Crash, tables
<1>3. ASSUME NEW h \in Handler, Request(h) PROVE UNCHANGED subs
  BY <1>3 DEF Request, SubmitStart, EmailStart, RerunStart, ConfirmStart, DiscardStart, tables
<1>4. ASSUME NEW h \in Handler, IngestStep(h) PROVE UNCHANGED subs \/ Rewrites(h) \/ Inserts(h)
  BY <1>4 DEF IngestStep, DedupByMessage, DedupByHash, Extract, IngestFails, Insert, Reread,
              RerunReplace, tables, Rewrites, Inserts
<1>5. ASSUME NEW h \in Handler, ConfirmLock(h) PROVE UNCHANGED subs
  BY <1>5 DEF ConfirmLock, tables
<1>6. ASSUME NEW h \in Handler, ConfirmStep(h) PROVE UNCHANGED subs \/ Rewrites(h)
  BY <1>6 DEF ConfirmStep, ConfirmRefused, ConfirmWrite, WriteLands, WriteRejected, WriteTransient,
              WriteReplyLost, ConfirmSettle, ConfirmSettleFails, ConfirmFail, ConfirmFailFails,
              tables, Rewrites
<1>7. ASSUME NEW h \in Handler, DiscardStep(h) PROVE UNCHANGED subs \/ Rewrites(h)
  BY <1>7 DEF DiscardStep, DiscardUpdate, DiscardFails, tables, Rewrites
<1>8. QED
  BY <1>1, <1>2, <1>3, <1>4, <1>5, <1>6, <1>7 DEF Next

\* What can have become of a stored row: the same row, discarded, swept, or
\* settled or failed by the confirm that works on it.
Becomes(i) ==
  \/ subs'[i] = subs[i]
  \/ subs'[i] = Discarded(subs[i])
  \/ Purge /\ subs'[i] = Purged(subs[i])
  \/ \E h \in Handler :
       \/ ConfirmSettle(h) /\ job[h].id = i /\ subs'[i] = Updated(subs[i], "written")
       \/ ConfirmFail(h) /\ job[h].id = i /\ subs'[i] = Updated(subs[i], "failed_write")

LEMMA RowStep ==
  ASSUME TypeOK, [Next]_vars, NEW i \in Stored PROVE Becomes(i)
<1>0. i \in SubId /\ subs \in [SubId -> Row \cup {NoRow}]
  BY DEF Stored, TypeOK
<1>1. CASE UNCHANGED subs
  BY <1>1 DEF Becomes
<1>2. CASE Purge
  BY <1>0, <1>2 DEF Purge, Becomes
<1>3. ASSUME NEW h \in Handler, Rewrites(h) PROVE Becomes(i)
  BY <1>0, <1>3 DEF Rewrites, RerunReplace, DiscardUpdate, ConfirmSettle, ConfirmFail, Becomes
<1>4. ASSUME NEW h \in Handler, Inserts(h) PROVE Becomes(i)
  BY <1>0, <1>4 DEF Inserts, Becomes
<1>5. QED
  BY <1>1, <1>2, <1>3, <1>4, TableStep

LEMMA NewRowStep ==
  ASSUME TypeInv, [Next]_vars, NEW i \in Stored' \ Stored
  PROVE  \E h \in Handler :
           /\ Inserts(h) /\ job[h] \in Job /\ subs'[i] = NewRow(job[h])
           /\ Stored' = Stored \cup {i}
<1>0. i \in SubId /\ subs \in [SubId -> Row \cup {NoRow}] /\ subs[i] = NoRow
  BY DEF Stored, TypeInv, TypeOK
<1>1. ~UNCHANGED subs
  BY DEF Stored
<1>2. ~Purge
  BY <1>0 DEF Purge, Stored
<1>3. ASSUME NEW h \in Handler, Rewrites(h) PROVE FALSE
  <2>1. pc[h] # "idle" /\ pc[h] \notin Ingesting
    BY <1>3 DEF Rewrites, RerunReplace, DiscardUpdate, ConfirmSettle, ConfirmFail, Ingesting
  <2>2. job[h].id \in Stored
    BY <2>1 DEF TypeInv, OnARow
  <2>3. QED
    BY <1>0, <1>3, <2>2
       DEF Rewrites, RerunReplace, DiscardUpdate, ConfirmSettle, ConfirmFail, Stored
<1>4. PICK h \in Handler : Inserts(h)
  BY <1>1, <1>2, <1>3, TableStep
<1>5. PICK k \in SubId \ Stored : subs' = [subs EXCEPT ![k] = NewRow(job[h])]
  BY <1>4 DEF Inserts
<1>6. job[h] \in Job
  BY <1>4 DEF Inserts, Insert, TypeInv, TypeOK
<1>7. NewRow(job[h]) # NoRow
  BY <1>6, NewRowType, NoRowIsNoRow DEF TypeInv, TypeOK
<1>8. k = i
  BY <1>0, <1>5 DEF Stored
<1>9. Stored' = Stored \cup {i}
  BY <1>0, <1>5, <1>7, <1>8 DEF Stored
<1>10. QED
  BY <1>0, <1>4, <1>5, <1>6, <1>8, <1>9

\* Nothing deletes a row, and no row turns back into an absent one.
LEMMA StoredGrows ==
  ASSUME TypeInv, [Next]_vars, NEW i \in Stored PROVE i \in Stored' /\ subs'[i] \in Row
<1>1. i \in SubId /\ subs[i] \in Row /\ day \in Day
  BY StoredRow DEF TypeInv, TypeOK
<1>2. Becomes(i)
  BY RowStep DEF TypeInv
<1>3. subs'[i] \in Row
  BY <1>1, <1>2, UpdatedType, DiscardedType, PurgedType DEF Becomes, Status
<1>4. QED
  BY <1>1, <1>3, NoRowIsNoRow DEF Stored

------------------------------------------------------------------------------
(* Properties of the table alone                                            *)

\* What every rewrite of a row keeps.
LEMMA RowKeeps ==
  ASSUME TypeInv, [Next]_vars, NEW i \in Stored
  PROVE  /\ subs'[i].user = subs[i].user /\ subs'[i].text = subs[i].text
         /\ subs'[i].day = subs[i].day
         /\ subs'[i].live => subs[i].live
         /\ subs[i].settled # NotSettled => subs'[i].settled = subs[i].settled
         /\ subs'[i].status = "pending" =>
              /\ subs[i].status = "pending" /\ subs'[i].live = subs[i].live
              /\ subs'[i].settled = subs[i].settled /\ subs'[i].kept = subs[i].kept
<1>1. subs[i] \in Row /\ Becomes(i)
  BY StoredRow, RowStep DEF TypeInv
<1>2. CASE subs'[i] = subs[i]
  BY <1>2
<1>3. CASE subs'[i] = Discarded(subs[i])
  BY <1>1, <1>3 DEF Discarded, Stamp, Row
<1>4. CASE subs'[i] = Purged(subs[i])
  BY <1>1, <1>4 DEF Purged, Row, Settled
<1>5. ASSUME NEW s \in {"written", "failed_write"}, subs'[i] = Updated(subs[i], s)
      PROVE  /\ subs'[i].user = subs[i].user /\ subs'[i].text = subs[i].text
             /\ subs'[i].day = subs[i].day
             /\ subs'[i].live = subs[i].live
             /\ subs[i].settled # NotSettled => subs'[i].settled = subs[i].settled
             /\ subs'[i].status # "pending"
  BY <1>1, <1>5 DEF Updated, Stamp, Row
<1>6. QED
  BY <1>1, <1>2, <1>3, <1>4, <1>5 DEF Becomes

\* The retention clock of a settled row never moves.
THEOREM SettledStampStays == Spec => SettledStampIsFixed
<1>1. TypeInv /\ [Next]_vars =>
        [\A i \in Stored : subs[i].settled # NotSettled => subs'[i].settled = subs[i].settled]_vars
  BY RowKeeps
<1>2. QED
  BY <1>1, InitTypes, NextKeepsTypes, PTL DEF Spec, SettledStampIsFixed

\* A row that arrives has no live row of the same content beside it.
LEMMA OneLiveRowStep == TypeInv /\ OneLiveRowPerContent /\ [Next]_vars => OneLiveRowPerContent'
<1> SUFFICES ASSUME TypeInv, OneLiveRowPerContent, [Next]_vars,
                    NEW i \in Stored', NEW j \in Stored', i # j, subs'[i].live, subs'[j].live,
                    <<subs'[i].user, subs'[i].text, subs'[i].day>> =
                      <<subs'[j].user, subs'[j].text, subs'[j].day>>
             PROVE  FALSE
  BY DEF OneLiveRowPerContent
<1>1. ~(i \in Stored /\ j \in Stored)
  BY RowKeeps DEF OneLiveRowPerContent
<1>2. ASSUME NEW k \in Stored' \ Stored, NEW l \in Stored', k # l, subs'[l].live,
             <<subs'[k].user, subs'[k].text, subs'[k].day>> =
               <<subs'[l].user, subs'[l].text, subs'[l].day>>
      PROVE  FALSE
  <2>1. PICK h \in Handler : /\ Inserts(h) /\ job[h] \in Job /\ subs'[k] = NewRow(job[h])
                             /\ Stored' = Stored \cup {k}
    BY NewRowStep
  <2>2. l \in Stored
    BY <1>2, <2>1
  <2>3. /\ subs'[k].user = job[h].user /\ subs'[k].text = job[h].text
        /\ subs'[k].day = job[h].day
    BY <2>1 DEF NewRow
  <2>4. l \in FindByHash(job[h].user, job[h].text, job[h].day)
    BY <1>2, <2>2, <2>3, RowKeeps DEF FindByHash
  <2>5. QED
    BY <2>1, <2>4 DEF Inserts
<1>3. QED
  BY <1>1, <1>2

\* However many ingestions of one content race, one live row answers for it.
THEOREM OneLiveRow == Spec => []OneLiveRowPerContent
<1>1. Init => OneLiveRowPerContent
  BY DEF Init, OneLiveRowPerContent, Stored
<1>2. QED
  BY <1>1, InitTypes, NextKeepsTypes, OneLiveRowStep, PTL DEF Spec

\* A row nobody settled keeps its hash, its original and an unset clock.
THEOREM PendingStaysWhole == Spec => []PendingIsWhole
<1>1. Init => PendingIsWhole
  BY DEF Init, PendingIsWhole, Stored
<1>2. TypeInv /\ PendingIsWhole /\ [Next]_vars => PendingIsWhole'
  <2> SUFFICES ASSUME TypeInv, PendingIsWhole, [Next]_vars,
                      NEW i \in Stored', subs'[i].status = "pending"
               PROVE  subs'[i].live /\ subs'[i].settled = NotSettled /\ subs'[i].kept
    BY DEF PendingIsWhole
  <2>1. CASE i \in Stored
    BY <2>1, RowKeeps DEF PendingIsWhole
  <2>2. CASE i \notin Stored
    <3>1. PICK h \in Handler : subs'[i] = NewRow(job[h])
      BY <2>2, NewRowStep
    <3>2. QED
      BY <3>1 DEF NewRow
  <2>3. QED
    BY <2>1, <2>2
<1>3. QED
  BY <1>1, <1>2, InitTypes, NextKeepsTypes, PTL DEF Spec

------------------------------------------------------------------------------
(* Tenancy                                                                  *)

\* A handler past its first step holds on to the submission it looked up.
LEMMA JobStep ==
  ASSUME TypeOK, [Next]_vars, NEW g \in Handler, pc'[g] # "idle"
  PROVE  \/ pc[g] # "idle" /\ job'[g].id = job[g].id /\ job'[g].user = job[g].user
         \/ job'[g].id = NoId
         \/ Get(job'[g].user, job'[g].id)
<1>0. pc \in [Handler -> PC] /\ job \in [Handler -> Job \cup {NoJob}]
      /\ \A h \in Handler : pc[h] # "idle" => job[h] \in Job
  BY DEF TypeOK
<1>1. CASE UNCHANGED <<pc, job>>
  BY <1>1
<1>2. CASE Crash
  BY <1>2 DEF Crash
<1>3. ASSUME NEW h \in Handler, Finish(h) PROVE pc'[g] = pc[g] /\ job'[g] = job[g]
  BY <1>0, <1>3 DEF Finish
<1>4. ASSUME NEW h \in Handler, pc[h] # "idle", NEW s, Goto(h, s) \/ Retry(h)
      PROVE  pc[g] # "idle" /\ job'[g].id = job[g].id /\ job'[g].user = job[g].user
  BY <1>0, <1>4 DEF Goto, Retry, Job
<1>5. ASSUME NEW h \in Handler, NEW u, NEW i, NEW t, NEW m, NEW s, Serve(h, u, i, t, m, s)
      PROVE  \/ pc'[g] = pc[g] /\ job'[g] = job[g]
             \/ job'[g].id = i /\ job'[g].user = u
  BY <1>0, <1>5 DEF Serve
<1>6. ASSUME NEW h \in Handler, Request(h)
      PROVE  \/ pc'[g] = pc[g] /\ job'[g] = job[g]
             \/ job'[g].id = NoId
             \/ Get(job'[g].user, job'[g].id)
  BY <1>5, <1>6 DEF Request, SubmitStart, EmailStart, RerunStart, ConfirmStart, DiscardStart
<1>7. ASSUME NEW h \in Handler,
             IngestStep(h) \/ ConfirmLock(h) \/ ConfirmStep(h) \/ DiscardStep(h)
      PROVE  \E s \in PC : pc[h] # "idle" /\ (Finish(h) \/ Goto(h, s) \/ Retry(h))
  <2>1. CASE IngestStep(h)
    BY <2>1 DEF IngestStep, DedupByMessage, DedupByHash, Extract, IngestFails, Insert, Reread,
                RerunReplace, Ingested, PC, Ingesting
  <2>2. CASE ConfirmLock(h)
    BY <2>2 DEF ConfirmLock, PC, Confirming
  <2>3. CASE ConfirmStep(h)
    BY <2>3 DEF ConfirmStep, ConfirmRefused, ConfirmWrite, WriteLands, WriteRejected,
                WriteTransient, WriteReplyLost, ConfirmSettle, ConfirmSettleFails, ConfirmFail,
                ConfirmFailFails, Unlock, PC, Confirming
  <2>4. CASE DiscardStep(h)
    BY <2>4 DEF DiscardStep, DiscardUpdate, DiscardFails, PC
  <2>5. QED
    BY <1>7, <2>1, <2>2, <2>3, <2>4
<1>8. CASE Purge \/ Midnight
  BY <1>1, <1>8 DEF Purge, Midnight
<1>9. QED
  BY <1>1, <1>2, <1>3, <1>4, <1>6, <1>7, <1>8 DEF Next, vars

\* No request is past its lookup with another account's submission in hand.
THEOREM OwnRows == Spec => []WorksOnOwnRows
<1>1. Init => WorksOnOwnRows
  BY DEF Init, WorksOnOwnRows, Idle
<1>2. TypeInv /\ WorksOnOwnRows /\ [Next]_vars => WorksOnOwnRows'
  <2> SUFFICES ASSUME TypeInv, WorksOnOwnRows, [Next]_vars,
                      NEW h \in Handler, pc'[h] # "idle", job'[h].id # NoId
               PROVE  job'[h].id \in Stored' /\ subs'[job'[h].id].user = job'[h].user
    BY DEF WorksOnOwnRows, Idle
  <2>1. job'[h].id \in Stored /\ subs[job'[h].id].user = job'[h].user
    BY JobStep DEF TypeInv, Get, WorksOnOwnRows, Idle
  <2>2. QED
    BY <2>1, StoredGrows, RowKeeps
<1>3. QED
  BY <1>1, <1>2, InitTypes, NextKeepsTypes, PTL DEF Spec

------------------------------------------------------------------------------
(* One confirm at a time, and what the destination holds                    *)

\* A step outside handleConfirm's lock keeps Safe: it moves no handler in or out
\* of the lock, touches no counter, and unsettles no row.
LEMMA OutsideTheLock ==
  ASSUME Inv, [Next]_vars, UNCHANGED <<landed, lost, confirmMu>>,
         \A g \in Handler : pc[g] \in Confirming \/ pc'[g] \in Confirming =>
           pc'[g] = pc[g] /\ job'[g] = job[g]
  PROVE  Safe'
<1>1. ASSUME NEW i \in Stored
      PROVE  /\ i \in Stored'
             /\ subs[i].status \in Settled => subs'[i].status \in Settled
             /\ subs'[i].status = "written" => subs[i].status = "written"
  <2>1. subs[i] \in Row /\ Becomes(i) /\ i \in Stored'
    BY StoredRow, RowStep, StoredGrows DEF Inv, TypeInv
  <2>2. ASSUME NEW h \in Handler, ConfirmSettle(h) \/ ConfirmFail(h) PROVE FALSE
    BY <2>2, AbsentValues
       DEF ConfirmSettle, ConfirmFail, Unlock, Inv, Safe, OneConfirmAtATime, Confirming
  <2>3. \/ subs'[i] = subs[i] \/ subs'[i] = Discarded(subs[i]) \/ subs'[i] = Purged(subs[i])
    BY <2>1, <2>2 DEF Becomes
  <2>4. QED
    BY <2>1, <2>3, StatusAfter DEF Settled, Status
<1>2. \A g \in Handler : pc[g] \in Confirming => job[g].id \in Stored
  BY DEF Inv, TypeInv, OnARow, Confirming, Ingesting
<1>3. OneConfirmAtATime'
  BY DEF Inv, Safe, OneConfirmAtATime
<1>4. SettlingOwesOne'
  BY DEF Inv, Safe, SettlingOwesOne, Confirming
<1>5. OthersOweNone'
  BY DEF Inv, Safe, OthersOweNone, Confirming
<1>6. NotYetWritten'
  BY <1>1, <1>2 DEF Inv, Safe, NotYetWritten
<1>7. Balance'
  <2> SUFFICES ASSUME NEW i \in SubId, landed[i] # lost[i] PROVE Owed(i)'
    BY DEF Balance
  <2>1. Owed(i)
    BY DEF Inv, Safe, Balance
  <2>2. QED
    BY <1>1, <2>1 DEF Owed, Confirming
<1>8. QED
  BY <1>3, <1>4, <1>5, <1>6, <1>7 DEF Safe

\* Taking the lock: an open lead nobody else confirms has nothing in doubt.
LEMMA ConfirmLockKeepsSafe ==
  ASSUME Inv, NEW h \in Handler, ConfirmLock(h) PROVE Safe'
<1>0. /\ pc \in [Handler -> PC] /\ job \in [Handler -> Job \cup {NoJob}]
      /\ UNCHANGED <<subs, landed, lost>> /\ pc[h] = "waiting" /\ Stored' = Stored
      /\ \A g \in Handler : pc[g] \notin Confirming
  BY AbsentValues DEF ConfirmLock, Inv, TypeInv, TypeOK, tables, Safe, OneConfirmAtATime, Stored
<1>1. CASE Finish(h) /\ UNCHANGED confirmMu
  <2>1. [Next]_vars
    BY DEF Next
  <2>2. \A g \in Handler : pc'[g] \in Confirming => pc'[g] = pc[g] /\ job'[g] = job[g]
    BY <1>0, <1>1 DEF Finish, Confirming
  <2>3. QED
    BY <1>0, <1>1, <2>1, <2>2, OutsideTheLock
<1>2. CASE /\ Get(job[h].user, job[h].id) /\ subs[job[h].id].status \in Open
           /\ Goto(h, "checked") /\ confirmMu' = h
  <2>1. /\ job' = job /\ pc'[h] = "checked" /\ confirmMu' = h
        /\ \A g \in Handler : g # h => pc'[g] \notin Confirming
    BY <1>0, <1>2 DEF Goto
  <2>2. job[h].id \in SubId /\ subs[job[h].id].status \notin Settled
    BY <1>2 DEF Get, Stored, Open, Settled
  <2>3. landed[job[h].id] = lost[job[h].id]
    BY <1>0, <2>2 DEF Inv, Safe, Balance, Owed, Confirming
  <2>4. OneConfirmAtATime'
    BY <2>1 DEF OneConfirmAtATime, Confirming
  <2>5. SettlingOwesOne' /\ OthersOweNone' /\ NotYetWritten'
    BY <1>0, <2>1, <2>2, <2>3 DEF SettlingOwesOne, OthersOweNone, NotYetWritten, Confirming, Settled
  <2>6. Balance'
    BY <1>0, <2>1 DEF Inv, Safe, Balance, Owed, Confirming
  <2>7. QED
    BY <2>4, <2>5, <2>6 DEF Safe
<1>3. QED
  BY <1>1, <1>2 DEF ConfirmLock

\* Inside the lock: the handler that holds it is the only one past its check.
LEMMA Alone ==
  ASSUME Inv, NEW h \in Handler, ConfirmStep(h)
  PROVE  /\ pc[h] \in Confirming /\ confirmMu = h /\ job[h] \in Job
         /\ job[h].id \in SubId /\ job[h].id \in Stored
         /\ \A g \in Handler : g # h => pc[g] \notin Confirming
<1>1. pc[h] \in Confirming
  BY DEF ConfirmStep, ConfirmRefused, ConfirmWrite, WriteLands, WriteRejected, WriteTransient,
         WriteReplyLost, ConfirmSettle, ConfirmSettleFails, ConfirmFail, ConfirmFailFails, Confirming
<1>2. confirmMu = h /\ \A g \in Handler : g # h => pc[g] \notin Confirming
  BY <1>1 DEF Inv, Safe, OneConfirmAtATime
<1>3. pc[h] # "idle" /\ job[h].id \in Stored
  BY <1>1 DEF Inv, TypeInv, OnARow, Confirming, Ingesting
<1>4. QED
  BY <1>1, <1>2, <1>3 DEF Inv, TypeInv, TypeOK, Stored

\* The lock is released: only what the counters say is left to keep.
LEMMA UnlockKeepsSafe ==
  ASSUME Inv, NEW h \in Handler, ConfirmStep(h), Unlock(h), Balance' PROVE Safe'
<1>1. pc \in [Handler -> PC] /\ pc' = [pc EXCEPT ![h] = "idle"] /\ confirmMu' = NoHandler
  BY DEF Unlock, Finish, Inv, TypeInv, TypeOK
<1>2. \A g \in Handler : pc'[g] \notin Confirming
  BY <1>1, Alone DEF Confirming
<1>3. QED
  BY <1>1, <1>2, AbsentValues
     DEF Safe, OneConfirmAtATime, SettlingOwesOne, OthersOweNone, NotYetWritten, Confirming

\* The handler keeps the lock, and its submission's counters fit its next step.
LEMMA HoldKeepsSafe ==
  ASSUME Inv, NEW h \in Handler, ConfirmStep(h), UNCHANGED <<subs, confirmMu>>,
         job'[h].id = job[h].id, NEW s \in Confirming, pc' = [pc EXCEPT ![h] = s],
         s = "settling" => landed'[job[h].id] = lost'[job[h].id] + 1,
         s # "settling" => landed'[job[h].id] = lost'[job[h].id],
         Balance'
  PROVE  Safe'
<1>1. /\ pc'[h] = s /\ confirmMu' = h
      /\ \A g \in Handler : g # h => pc'[g] \notin Confirming
  BY Alone DEF Inv, TypeInv, TypeOK
<1>2. OneConfirmAtATime'
  BY <1>1 DEF OneConfirmAtATime
<1>3. SettlingOwesOne' /\ OthersOweNone'
  BY <1>1 DEF SettlingOwesOne, OthersOweNone, Confirming
<1>4. NotYetWritten'
  BY <1>1, Alone DEF Inv, Safe, NotYetWritten
<1>5. QED
  BY <1>2, <1>3, <1>4 DEF Safe

\* A confirm's step touches one submission; the others stay balanced.
LEMMA BalanceStep ==
  ASSUME Inv, [Next]_vars, NEW h \in Handler, ConfirmStep(h), NEW id \in SubId, id = job[h].id,
         \A i \in SubId \ {id} :
           landed'[i] = landed[i] /\ lost'[i] = lost[i] /\ subs'[i] = subs[i],
         landed'[id] = lost'[id] \/ Owed(id)'
  PROVE  Balance'
<1>1. ASSUME NEW i \in SubId, i # id, landed'[i] # lost'[i] PROVE Owed(i)'
  <2>1. Owed(i)
    BY <1>1 DEF Inv, Safe, Balance
  <2>2. i \in Stored /\ subs[i].status \in Settled
    BY <1>1, <2>1, Alone DEF Owed, Confirming
  <2>3. i \in Stored'
    BY <2>2, StoredGrows DEF Inv
  <2>4. QED
    BY <1>1, <2>1, <2>2, <2>3 DEF Owed
<1>2. QED
  BY <1>1 DEF Balance

LEMMA ConfirmKeepsSafe ==
  ASSUME Inv, NEW h \in Handler, ConfirmStep(h) PROVE Safe'
<1> PICK id \in SubId : id = job[h].id
  BY Alone
<1>0. [Next]_vars
  BY DEF Next
<1>1. /\ pc \in [Handler -> PC] /\ job \in [Handler -> Job \cup {NoJob}]
      /\ subs \in [SubId -> Row \cup {NoRow}]
      /\ landed \in [SubId -> Nat] /\ lost \in [SubId -> Nat]
      /\ landed[id] \in Nat /\ lost[id] \in Nat /\ subs[id] \in Row
      /\ id \in SubId /\ id \in Stored /\ job[h] \in Job
  BY Alone, StoredRow DEF Inv, TypeInv, TypeOK
<1>2. /\ pc[h] = "settling" => landed[id] = lost[id] + 1
      /\ pc[h] \in {"checked", "writing", "failing"} => landed[id] = lost[id]
  BY DEF Inv, Safe, SettlingOwesOne, OthersOweNone
\* Nothing lands: the counters stay equal.
<1>3. ASSUME pc[h] \in {"checked", "writing", "failing"}, UNCHANGED <<landed, lost>>,
             \A i \in SubId \ {id} : subs'[i] = subs[i]
      PROVE  Balance'
  BY <1>0, <1>2, <1>3, BalanceStep
<1>4. ASSUME Retry(h)
      PROVE  /\ job'[h].id = id
             /\ \E s \in {"writing", "failing"} : pc' = [pc EXCEPT ![h] = s]
  BY <1>1, <1>4 DEF Retry, Job
<1>5. CASE ConfirmRefused(h)
  BY <1>3, <1>5, UnlockKeepsSafe DEF ConfirmRefused, tables
<1>6. CASE ConfirmWrite(h)
  BY <1>2, <1>3, <1>6, HoldKeepsSafe DEF ConfirmWrite, tables, Goto, Confirming
<1>7. CASE WriteLands(h)
  <2>1. /\ landed'[id] = lost'[id] + 1 /\ lost' = lost /\ subs' = subs
        /\ \A i \in SubId \ {id} : landed'[i] = landed[i]
        /\ pc' = [pc EXCEPT ![h] = "settling"] /\ job' = job /\ confirmMu' = confirmMu
    BY <1>1, <1>2, <1>7 DEF WriteLands, Goto
  <2>2. Owed(id)'
    BY <1>1, <2>1 DEF Owed, Stored
  <2>3. Balance'
    BY <1>0, <2>1, <2>2, BalanceStep
  <2>4. QED
    BY <2>1, <2>3, HoldKeepsSafe DEF Confirming
<1>8. CASE WriteRejected(h)
  BY <1>2, <1>3, <1>8, HoldKeepsSafe DEF WriteRejected, tables, Goto, Confirming
<1>9. CASE WriteTransient(h)
  <2>1. PICK s \in {"writing", "failing"} : pc' = [pc EXCEPT ![h] = s]
    BY <1>4, <1>9 DEF WriteTransient
  <2>2. QED
    BY <1>2, <1>3, <1>4, <1>9, <2>1, HoldKeepsSafe DEF WriteTransient, tables, Confirming
<1>10. CASE WriteReplyLost(h)
  <2>1. /\ landed'[id] = lost'[id] /\ subs' = subs /\ confirmMu' = confirmMu
        /\ \A i \in SubId \ {id} : landed'[i] = landed[i] /\ lost'[i] = lost[i]
    BY <1>1, <1>2, <1>10 DEF WriteReplyLost
  <2>2. /\ job'[h].id = id
        /\ \E s \in {"writing", "failing"} : pc' = [pc EXCEPT ![h] = s]
    BY <1>4, <1>10 DEF WriteReplyLost, Goto
  <2>3. Balance'
    BY <1>0, <2>1, BalanceStep
  <2>4. QED
    BY <2>1, <2>2, <2>3, HoldKeepsSafe DEF Confirming
<1>11. CASE ConfirmSettle(h)
  <2>1. /\ subs'[id] = Updated(subs[id], "written") /\ landed' = landed /\ lost' = lost
        /\ \A i \in SubId \ {id} : subs'[i] = subs[i]
        /\ Unlock(h) /\ landed[id] = lost[id] + 1
    BY <1>1, <1>2, <1>11 DEF ConfirmSettle
  <2>2. subs'[id].status \in Settled
    BY <1>1, <2>1, StatusAfter DEF Settled, Status
  <2>3. Owed(id)'
    BY <1>0, <1>1, <2>1, <2>2, StoredGrows DEF Owed, Inv
  <2>4. QED
    BY <1>0, <2>1, <2>3, BalanceStep, UnlockKeepsSafe
<1>12. CASE ConfirmSettleFails(h)
  <2>1. /\ landed'[id] = lost'[id] /\ subs' = subs /\ Unlock(h)
        /\ \A i \in SubId \ {id} : landed'[i] = landed[i] /\ lost'[i] = lost[i]
    BY <1>1, <1>2, <1>12 DEF ConfirmSettleFails
  <2>2. QED
    BY <1>0, <2>1, BalanceStep, UnlockKeepsSafe
<1>13. CASE ConfirmFail(h)
  BY <1>1, <1>3, <1>13, UnlockKeepsSafe DEF ConfirmFail
<1>14. CASE ConfirmFailFails(h)
  BY <1>3, <1>14, UnlockKeepsSafe DEF ConfirmFailFails, tables
<1>15. QED
  BY <1>5, <1>6, <1>7, <1>8, <1>9, <1>10, <1>11, <1>12, <1>13, <1>14 DEF ConfirmStep

\* A restart loses the row that was between landing and its Update, and counts
\* the append that may still land: both stay balanced.
LEMMA CrashKeepsSafe ==
  ASSUME Inv, Crash PROVE Safe'
<1>1. /\ \A h \in Handler : pc'[h] = "idle"
      /\ confirmMu' = NoHandler /\ subs' = subs /\ Stored' = Stored
  BY DEF Crash, Stored
<1>2. OneConfirmAtATime' /\ SettlingOwesOne' /\ OthersOweNone' /\ NotYetWritten'
  BY <1>1, AbsentValues
     DEF OneConfirmAtATime, SettlingOwesOne, OthersOweNone, NotYetWritten, Confirming
<1>3. PICK hit \in SUBSET {job[h].id : h \in {g \in Handler : pc[g] = "writing"}} :
        LET unrecorded == {job[h].id : h \in {g \in Handler : pc[g] = "settling"}} IN
        /\ landed' = [i \in SubId |-> IF i \in hit THEN landed[i] + 1 ELSE landed[i]]
        /\ lost' = [i \in SubId |-> IF i \in hit \cup unrecorded THEN lost[i] + 1 ELSE lost[i]]
  BY DEF Crash
<1>4. ASSUME NEW i \in SubId, landed'[i] # lost'[i] PROVE Owed(i)'
  <2>0. landed[i] \in Nat /\ lost[i] \in Nat
    BY DEF Inv, TypeInv, TypeOK
  <2>1. CASE i \in hit
    <3>1. PICK h \in Handler : pc[h] = "writing" /\ job[h].id = i
      BY <1>3, <2>1
    <3>2. landed[i] = lost[i]
      BY <3>1 DEF Inv, Safe, OthersOweNone
    <3>3. QED
      BY <1>3, <1>4, <2>0, <2>1, <3>2
  <2>2. CASE i \notin hit /\ \E h \in Handler : pc[h] = "settling" /\ job[h].id = i
    <3>1. landed[i] = lost[i] + 1
      BY <2>2 DEF Inv, Safe, SettlingOwesOne
    <3>2. QED
      BY <1>3, <1>4, <2>0, <2>2, <3>1
  <2>3. CASE i \notin hit /\ ~\E h \in Handler : pc[h] = "settling" /\ job[h].id = i
    <3>1. landed'[i] = landed[i] /\ lost'[i] = lost[i]
      BY <1>3, <2>3
    <3>2. Owed(i)
      BY <1>4, <3>1 DEF Inv, Safe, Balance
    <3>3. QED
      BY <1>1, <2>3, <3>1, <3>2 DEF Owed
  <2>4. QED
    BY <2>1, <2>2, <2>3
<1>5. QED
  BY <1>2, <1>4 DEF Safe, Balance

\* The handlers outside the lock: requests, ingestion and discards.
LEMMA OthersKeepSafe ==
  ASSUME Inv, NEW h \in Handler, Request(h) \/ IngestStep(h) \/ DiscardStep(h)
  PROVE  Safe'
<1>1. pc \in [Handler -> PC] /\ job \in [Handler -> Job \cup {NoJob}]
  BY DEF Inv, TypeInv, TypeOK
<1>2. [Next]_vars
  BY DEF Next
<1>3. ASSUME pc[h] \notin Confirming, NEW s, s \notin Confirming,
             \/ Finish(h)
             \/ Goto(h, s)
             \/ \E u, i, t, m : Serve(h, u, i, t, m, s)
      PROVE  \A g \in Handler : pc[g] \in Confirming \/ pc'[g] \in Confirming =>
               pc'[g] = pc[g] /\ job'[g] = job[g]
  BY <1>1, <1>3 DEF Finish, Goto, Serve, Confirming
<1>4. CASE Request(h)
  BY <1>2, <1>3, <1>4, OutsideTheLock
     DEF Request, SubmitStart, EmailStart, RerunStart, ConfirmStart, DiscardStart, Idle, tables,
         Confirming
<1>5. CASE IngestStep(h)
  <2>1. /\ pc[h] \notin Confirming
        /\ UNCHANGED <<landed, lost, confirmMu>>
        /\ Finish(h) \/ \E s \in Ingesting \cup {"replacing"} : Goto(h, s)
    BY <1>5 DEF IngestStep, DedupByMessage, DedupByHash, Extract, IngestFails, Insert, Reread,
                RerunReplace, Ingested, tables, Ingesting, Confirming
  <2>2. \A s \in Ingesting \cup {"replacing"} : s \notin Confirming
    BY DEF Ingesting, Confirming
  <2>3. CASE Finish(h)
    BY <1>2, <1>3, <2>1, <2>3, OutsideTheLock DEF Confirming
  <2>4. CASE \E s \in Ingesting \cup {"replacing"} : Goto(h, s)
    BY <1>2, <1>3, <2>1, <2>2, <2>4, OutsideTheLock
  <2>5. QED
    BY <2>1, <2>3, <2>4
<1>6. CASE DiscardStep(h)
  BY <1>2, <1>3, <1>6, OutsideTheLock
     DEF DiscardStep, DiscardUpdate, DiscardFails, tables, Confirming
<1>7. QED
  BY <1>4, <1>5, <1>6

LEMMA InitSafe == Init => Inv
<1> SUFFICES ASSUME Init PROVE Inv
  OBVIOUS
<1>1. TypeInv
  BY InitTypes
<1>2. Safe
  BY AbsentValues
     DEF Init, Safe, OneConfirmAtATime, SettlingOwesOne, OthersOweNone, NotYetWritten, Balance,
         Confirming
<1>3. QED
  BY <1>1, <1>2 DEF Inv

LEMMA NextKeepsInv == Inv /\ [Next]_vars => Inv'
<1> SUFFICES ASSUME Inv, [Next]_vars PROVE Inv'
  OBVIOUS
<1>1. TypeInv'
  BY NextKeepsTypes DEF Inv
<1>2. Safe'
  <2>1. CASE UNCHANGED vars \/ Purge \/ Midnight
    BY <2>1, OutsideTheLock DEF vars, Purge, Midnight, tables
  <2>2. CASE Crash
    BY <2>2, CrashKeepsSafe
  <2>3. CASE \E h \in Handler : Request(h) \/ IngestStep(h) \/ ConfirmLock(h) \/ ConfirmStep(h)
                                \/ DiscardStep(h)
    BY <2>3, OthersKeepSafe, ConfirmLockKeepsSafe, ConfirmKeepsSafe
  <2>4. QED
    BY <2>1, <2>2, <2>3 DEF Next
<1>3. QED
  BY <1>1, <1>2 DEF Inv

LEMMA Invariant == Spec => []Inv
BY InitSafe, NextKeepsInv, PTL DEF Spec

\* Between the status check and the Update there is one confirm, the holder of
\* confirmMu: no two handlers ever write for a lead at once.
THEOREM OneConfirm == Spec => []OneConfirmAtATime
<1>1. Inv => OneConfirmAtATime
  BY DEF Inv, Safe
<1>2. QED
  BY <1>1, Invariant, PTL

\* Retries, repeated confirms and restarts leave one row per lead at the
\* destination, plus one at most for every landing the table was never told of.
THEOREM CopiesAccounted == Spec => []EveryCopyIsAccounted
<1>1. Inv => EveryCopyIsAccounted
  BY DEF Inv, TypeInv, TypeOK, Safe, Balance, Owed, EveryCopyIsAccounted
<1>2. QED
  BY <1>1, Invariant, PTL

\* A lead listed as written is at its destination.
THEOREM WrittenHasLanded == Spec => []WrittenIsAtDestination
<1>1. Init => WrittenIsAtDestination
  BY DEF Init, WrittenIsAtDestination, Stored
<1>2. Inv /\ WrittenIsAtDestination /\ [Next]_vars => WrittenIsAtDestination'
  <2> SUFFICES ASSUME Inv, WrittenIsAtDestination, [Next]_vars,
                      NEW i \in Stored', subs'[i].status = "written"
               PROVE  landed'[i] > 0
    BY DEF WrittenIsAtDestination
  <2>0. /\ i \in SubId /\ landed \in [SubId -> Nat] /\ lost \in [SubId -> Nat]
        /\ landed' \in [SubId -> Nat]
    BY NextKeepsInv DEF Stored, Inv, TypeInv, TypeOK
  <2>1. i \in Stored
    <3> SUFFICES ASSUME i \notin Stored PROVE FALSE
      OBVIOUS
    <3>1. PICK h \in Handler : subs'[i] = NewRow(job[h])
      BY NewRowStep DEF Inv
    <3>2. QED
      BY <3>1 DEF NewRow
  <2>2. subs[i] \in Row /\ Becomes(i)
    BY <2>1, StoredRow, RowStep DEF Inv, TypeInv
  <2>3. CASE \E h \in Handler : ConfirmSettle(h) /\ job[h].id = i
    <3>1. PICK h \in Handler : ConfirmSettle(h) /\ job[h].id = i
      BY <2>3
    <3>2. landed'[i] = lost[i] + 1
      BY <3>1 DEF ConfirmSettle, Inv, Safe, SettlingOwesOne
    <3>3. QED
      BY <2>0, <3>2
  <2>4. CASE subs[i].status = "written"
    <3>1. landed[i] > 0
      BY <2>1, <2>4 DEF WrittenIsAtDestination
    <3>2. landed'[i] = landed[i] \/ landed'[i] = landed[i] + 1
      BY <2>0 DEF Next, vars, Request, SubmitStart, EmailStart, RerunStart, ConfirmStart,
         DiscardStart, IngestStep, DedupByMessage, DedupByHash, Extract, IngestFails, Insert,
         Reread, RerunReplace, ConfirmLock, ConfirmStep, ConfirmRefused, ConfirmWrite, WriteLands,
         WriteRejected, WriteTransient, WriteReplyLost, ConfirmSettle, ConfirmSettleFails,
         ConfirmFail, ConfirmFailFails, DiscardStep, DiscardUpdate, DiscardFails, Purge, Midnight,
         Crash, tables
    <3>3. QED
      BY <2>0, <3>1, <3>2
  <2>5. QED
    BY <2>2, <2>3, <2>4, StatusAfter DEF Becomes, Status
<1>3. QED
  BY <1>1, <1>2, InitSafe, NextKeepsInv, PTL DEF Spec

\* A written row never re-opens, and nothing makes a row pending again.
THEOREM WrittenStaysSettled == Spec => WrittenNeverReopens
<1>1. Inv /\ [Next]_vars =>
        [\A i \in Stored :
           /\ subs[i].status = "written" => subs'[i].status \in Settled
           /\ subs'[i].status = "pending" => subs[i].status = "pending"]_vars
  <2> SUFFICES ASSUME Inv, [Next]_vars, NEW i \in Stored
               PROVE  /\ subs[i].status = "written" => subs'[i].status \in Settled
                      /\ subs'[i].status = "pending" => subs[i].status = "pending"
    OBVIOUS
  <2>1. subs[i] \in Row /\ Becomes(i)
    BY StoredRow, RowStep DEF Inv, TypeInv
  <2>2. ASSUME NEW h \in Handler, ConfirmFail(h), job[h].id = i PROVE subs[i].status # "written"
    BY <2>2 DEF ConfirmFail, Confirming, Inv, Safe, NotYetWritten
  <2>3. subs[i].status = "written" => subs'[i].status \in Settled
    BY <2>1, <2>2, StatusAfter DEF Becomes, Status, Settled
  <2>4. QED
    BY <2>3, RowKeeps DEF Inv
<1>2. QED
  BY <1>1, Invariant, PTL DEF Spec, WrittenNeverReopens

------------------------------------------------------------------------------
(* Leads implements LeadDelivery                                            *)

\* By Balance, a stored lead with a row to its credit is settled or about to be.
LandedAndHeard ==
  {i \in Stored : /\ landed[i] # lost[i]
                  /\ \A h \in Handler : ~(pc[h] = "settling" /\ job[h].id = i)}

LEMMA RecordedIs == Inv => Recorded = LandedAndHeard
<1> SUFFICES ASSUME Inv PROVE Recorded = LandedAndHeard
  OBVIOUS
<1>1. ASSUME NEW i \in Stored PROVE landed[i] \in Nat /\ lost[i] \in Nat
  BY DEF Inv, TypeInv, TypeOK, Stored
<1>2. ASSUME NEW i \in Stored, landed[i] # lost[i]
      PROVE  /\ landed[i] > lost[i]
             /\ \/ subs[i].status \in Settled
                \/ \E h \in Handler : pc[h] = "settling" /\ job[h].id = i
  BY <1>1, <1>2 DEF Inv, Safe, Balance, Owed, Stored
<1>3. QED
  BY <1>1, <1>2 DEF Recorded, LandedAndHeard

\* The same of the state after a step.
LEMMA RecordedIsNext == (Inv => Recorded = LandedAndHeard)'
BY RecordedIs, PTL

\* A step that moves no counter and starts or ends no settling records nothing.
LEMMA RecordsNothing ==
  ASSUME Inv, [Next]_vars, UNCHANGED <<landed, lost>>,
         \A g \in Handler : pc[g] = "settling" \/ pc'[g] = "settling" =>
           pc'[g] = pc[g] /\ job'[g] = job[g]
  PROVE  Recorded' = Recorded
<1>1. Inv'
  BY NextKeepsInv
<1>2. ASSUME NEW i \in SubId, landed[i] # lost[i] PROVE i \in Stored
  BY <1>2 DEF Inv, Safe, Balance, Owed
<1>3. \A i \in Stored : i \in Stored'
  BY StoredGrows DEF Inv
<1>4. Recorded' = {i \in Stored' :
        /\ landed'[i] # lost'[i]
        /\ \A h \in Handler : ~(pc'[h] = "settling" /\ job'[h].id = i)}
  BY <1>1, RecordedIsNext DEF LandedAndHeard
<1>5. QED
  BY <1>2, <1>3, <1>4, RecordedIs DEF Stored, LandedAndHeard

\* Inside the lock: what a confirm's step means for its own submission.
LEMMA ConfirmKeepsPromise ==
  ASSUME Inv, NEW h \in Handler, ConfirmStep(h)
  PROVE  [Promise!Next]_Promise!vars
<1> PICK id \in SubId : id = job[h].id
  BY Alone
<1>0. [Next]_vars
  BY DEF Next
<1>1. Inv'
  BY <1>0, NextKeepsInv
<1>2. /\ pc \in [Handler -> PC] /\ job \in [Handler -> Job \cup {NoJob}]
      /\ landed \in [SubId -> Nat] /\ lost \in [SubId -> Nat]
      /\ landed[id] \in Nat /\ lost[id] \in Nat /\ id \in Stored /\ job[h] \in Job
  BY Alone DEF Inv, TypeInv, TypeOK
<1>3. /\ pc[h] = "settling" => landed[id] = lost[id] + 1
      /\ pc[h] \in {"checked", "writing", "failing"} => landed[id] = lost[id]
  BY DEF Inv, Safe, SettlingOwesOne, OthersOweNone
<1>4. Stored' = Stored
  <2>1. \A g \in Handler : ~Inserts(g)
    BY Alone DEF Inserts, Insert, Confirming, ConfirmStep, ConfirmRefused, ConfirmWrite,
       WriteLands, WriteRejected, WriteTransient, WriteReplyLost, ConfirmSettle,
       ConfirmSettleFails, ConfirmFail, ConfirmFailFails, Unlock, Finish, Goto, Retry, Ingested,
       Inv, TypeInv, TypeOK
  <2>2. Stored' \subseteq Stored
    BY <1>0, <2>1, NewRowStep DEF Inv
  <2>3. QED
    BY <1>0, <2>2, StoredGrows DEF Inv
\* Only this handler can be settling, and only its submission's record can change.
<1>5. \A g \in Handler : g # h => pc[g] # "settling" /\ pc'[g] # "settling"
  <2>1. \A g \in Handler : g # h => pc'[g] = pc[g]
    BY <1>2 DEF ConfirmStep, ConfirmRefused, ConfirmWrite,
       WriteLands, WriteRejected, WriteTransient, WriteReplyLost, ConfirmSettle,
       ConfirmSettleFails, ConfirmFail, ConfirmFailFails, Unlock, Finish, Goto, Retry
  <2>2. QED
    BY <2>1, Alone DEF Confirming
<1>6. Recorded = {i \in Stored : landed[i] # lost[i] /\ ~(pc[h] = "settling" /\ i = id)}
  BY <1>5, RecordedIs DEF LandedAndHeard
<1>7. Recorded' = {i \in Stored : landed'[i] # lost'[i] /\ ~(pc'[h] = "settling" /\ job'[h].id = i)}
  <2>1. Recorded' = {i \in Stored' :
          /\ landed'[i] # lost'[i]
          /\ \A g \in Handler : ~(pc'[g] = "settling" /\ job'[g].id = i)}
    BY <1>1, RecordedIsNext DEF LandedAndHeard
  <2>2. QED
    BY <1>4, <1>5, <2>1
<1>8. ASSUME UNCHANGED <<landed, lost>>, pc[h] # "settling", pc'[h] # "settling"
      PROVE  [Promise!Next]_Promise!vars
  BY <1>4, <1>6, <1>7, <1>8 DEF Promise!vars
<1>9. CASE ConfirmRefused(h) \/ ConfirmWrite(h) \/ WriteRejected(h) \/ WriteTransient(h)
           \/ ConfirmFail(h) \/ ConfirmFailFails(h)
  BY <1>2, <1>8, <1>9 DEF ConfirmRefused, ConfirmWrite, WriteRejected, WriteTransient, ConfirmFail,
     ConfirmFailFails, Unlock, Finish, Goto, Retry, tables
<1>10. CASE WriteLands(h)
  <2>1. /\ landed' = [landed EXCEPT ![id] = @ + 1] /\ lost' = lost
        /\ pc[h] = "writing" /\ pc'[h] = "settling" /\ job' = job
    BY <1>2, <1>10 DEF WriteLands, Goto
  <2>2. landed[id] = lost[id] /\ id \notin Recorded
    BY <1>3, <1>6, <2>1
  <2>3. Recorded' = Recorded
    BY <1>2, <1>6, <1>7, <2>1, <2>2 DEF Stored
  <2>4. Promise!Deliver(id)
    BY <1>2, <1>4, <2>1, <2>2, <2>3 DEF Promise!Deliver, Promise!Due
  <2>5. QED
    BY <2>4 DEF Promise!Next
<1>11. CASE WriteReplyLost(h)
  <2>1. /\ landed' = [landed EXCEPT ![id] = @ + 1] /\ lost' = [lost EXCEPT ![id] = @ + 1]
        /\ pc[h] = "writing" /\ pc'[h] # "settling"
    BY <1>2, <1>11 DEF WriteReplyLost, Goto, Retry
  <2>2. landed[id] = lost[id] /\ id \notin Recorded
    BY <1>3, <1>6, <2>1
  <2>3. Recorded' = Recorded
    BY <1>2, <1>6, <1>7, <2>1, <2>2 DEF Stored
  <2>4. Promise!DeliverUnheard(id)
    BY <1>2, <1>4, <2>1, <2>2, <2>3 DEF Promise!DeliverUnheard, Promise!Due
  <2>5. QED
    BY <2>4 DEF Promise!Next
<1>12. CASE ConfirmSettle(h)
  <2>1. /\ landed' = landed /\ lost' = lost /\ pc[h] = "settling" /\ pc'[h] # "settling"
    BY <1>2, <1>12 DEF ConfirmSettle, Unlock, Finish
  <2>2. landed[id] = lost[id] + 1 /\ id \notin Recorded
    BY <1>3, <1>6, <2>1
  <2>3. Recorded' = Recorded \cup {id}
    BY <1>2, <1>6, <1>7, <2>1, <2>2
  <2>4. Promise!Record(id)
    BY <1>2, <1>4, <2>1, <2>2, <2>3 DEF Promise!Record, Promise!InDoubt
  <2>5. QED
    BY <2>4 DEF Promise!Next
<1>13. CASE ConfirmSettleFails(h)
  <2>1. /\ landed' = landed /\ lost' = [lost EXCEPT ![id] = @ + 1]
        /\ pc[h] = "settling" /\ pc'[h] # "settling"
    BY <1>2, <1>13 DEF ConfirmSettleFails, Unlock, Finish
  <2>2. landed[id] = lost[id] + 1 /\ id \notin Recorded
    BY <1>3, <1>6, <2>1
  <2>3. Recorded' = Recorded
    BY <1>2, <1>6, <1>7, <2>1, <2>2 DEF Stored
  <2>4. Promise!Forget(id)
    BY <1>2, <1>4, <2>1, <2>2, <2>3 DEF Promise!Forget, Promise!InDoubt
  <2>5. QED
    BY <2>4 DEF Promise!Next
<1>14. QED
  BY <1>9, <1>10, <1>11, <1>12, <1>13 DEF ConfirmStep

\* A restart loses track of the one write in progress, if there is one.
LEMMA CrashKeepsPromise ==
  ASSUME Inv, Crash PROVE [Promise!Next]_Promise!vars
<1>1. /\ \A h \in Handler : pc'[h] = "idle"
      /\ subs' = subs /\ Stored' = Stored
      /\ landed \in [SubId -> Nat] /\ lost \in [SubId -> Nat]
  BY DEF Crash, Stored, Inv, TypeInv, TypeOK
<1>2. Recorded' = {i \in Stored : landed'[i] # lost'[i]}
  <2>1. Inv'
    BY NextKeepsInv DEF Next
  <2>2. QED
    BY <1>1, <2>1, RecordedIsNext DEF LandedAndHeard
<1>3. PICK hit \in SUBSET {job[h].id : h \in {g \in Handler : pc[g] = "writing"}} :
        LET unrecorded == {job[h].id : h \in {g \in Handler : pc[g] = "settling"}} IN
        /\ landed' = [i \in SubId |-> IF i \in hit THEN landed[i] + 1 ELSE landed[i]]
        /\ lost' = [i \in SubId |-> IF i \in hit \cup unrecorded THEN lost[i] + 1 ELSE lost[i]]
  BY DEF Crash
<1>4. \A g, h \in Handler : pc[g] \in Confirming /\ pc[h] \in Confirming => g = h
  BY DEF Inv, Safe, OneConfirmAtATime
<1>5. \A h \in Handler : pc[h] \in Confirming => job[h].id \in SubId /\ job[h].id \in Stored
  BY DEF Inv, TypeInv, OnARow, Stored, Confirming, Ingesting
<1>6. CASE hit # {}
  <2>1. PICK h \in Handler : pc[h] = "writing" /\ job[h].id \in hit
    BY <1>3, <1>6
  <2> PICK id \in SubId : id = job[h].id /\ id \in Stored
    BY <1>5, <2>1 DEF Confirming
  <2>2. /\ hit = {id} /\ landed[id] = lost[id]
        /\ \A g \in Handler : pc[g] # "settling"
    BY <1>3, <1>4, <2>1 DEF Confirming, Inv, Safe, OthersOweNone
  <2>3. /\ landed' = [landed EXCEPT ![id] = @ + 1]
        /\ lost' = [lost EXCEPT ![id] = @ + 1]
    BY <1>1, <1>3, <2>2
  <2>4. Recorded = {i \in Stored : landed[i] # lost[i]}
    BY <2>2, RecordedIs DEF LandedAndHeard
  <2>5. Recorded' = Recorded
    BY <1>1, <1>2, <2>2, <2>3, <2>4 DEF Stored
  <2>6. id \notin Recorded
    BY <2>2, <2>4
  <2>7. Promise!DeliverUnheard(id)
    BY <1>1, <2>2, <2>3, <2>5, <2>6 DEF Promise!DeliverUnheard, Promise!Due
  <2>8. QED
    BY <2>7 DEF Promise!Next
<1>7. CASE hit = {} /\ \E h \in Handler : pc[h] = "settling"
  <2>1. PICK h \in Handler : pc[h] = "settling"
    BY <1>7
  <2> PICK id \in SubId : id = job[h].id /\ id \in Stored
    BY <1>5, <2>1 DEF Confirming
  <2>2. landed[id] = lost[id] + 1 /\ landed[id] \in Nat /\ lost[id] \in Nat
    BY <1>1, <2>1 DEF Inv, Safe, SettlingOwesOne
  <2>3. \A g \in Handler : pc[g] = "settling" => g = h
    BY <1>4, <2>1 DEF Confirming
  <2>4. {job[g].id : g \in {k \in Handler : pc[k] = "settling"}} = {id}
    BY <2>1, <2>3
  <2>5. landed' = landed /\ lost' = [lost EXCEPT ![id] = @ + 1]
    BY <1>1, <1>3, <1>7, <2>4
  <2>6. Recorded = {i \in Stored : landed[i] # lost[i] /\ i # id}
    BY <2>1, <2>3, RecordedIs DEF LandedAndHeard
  <2>7. Recorded' = Recorded
    BY <1>1, <1>2, <2>2, <2>5, <2>6 DEF Stored
  <2>8. Promise!Forget(id)
    BY <1>1, <2>2, <2>5, <2>6, <2>7 DEF Promise!Forget, Promise!InDoubt
  <2>9. QED
    BY <2>8 DEF Promise!Next
<1>8. CASE hit = {} /\ ~\E h \in Handler : pc[h] = "settling"
  <2>1. landed' = landed /\ lost' = lost
    BY <1>1, <1>3, <1>8
  <2>2. Recorded' = Recorded
    BY <1>1, <1>2, <1>8, <2>1, RecordedIs DEF LandedAndHeard
  <2>3. QED
    BY <1>1, <2>1, <2>2 DEF Promise!vars
<1>9. QED
  BY <1>6, <1>7, <1>8

\* Outside the lock: a lead is captured, or nothing the promise speaks of moves.
LEMMA OutsideKeepsPromise ==
  ASSUME Inv, [Next]_vars, UNCHANGED <<landed, lost>>,
         \A g \in Handler : pc[g] = "settling" \/ pc'[g] = "settling" =>
           pc'[g] = pc[g] /\ job'[g] = job[g]
  PROVE  [Promise!Next]_Promise!vars
<1>1. Recorded' = Recorded
  BY RecordsNothing
<1>2. CASE Stored' = Stored
  BY <1>1, <1>2 DEF Promise!vars
<1>3. CASE Stored' # Stored
  <2>1. PICK i \in Stored' : i \notin Stored
    BY <1>3, StoredGrows DEF Inv
  <2>2. Stored' = Stored \cup {i} /\ i \in SubId
    BY <2>1, NewRowStep DEF Inv, Stored
  <2>3. Promise!Capture(i)
    BY <1>1, <2>1, <2>2 DEF Promise!Capture
  <2>4. QED
    BY <2>2, <2>3 DEF Promise!Next
<1>4. QED
  BY <1>2, <1>3

LEMMA StepKeepsPromise == Inv /\ [Next]_vars => [Promise!Next]_Promise!vars
<1> SUFFICES ASSUME Inv, [Next]_vars PROVE [Promise!Next]_Promise!vars
  OBVIOUS
<1>1. pc \in [Handler -> PC] /\ job \in [Handler -> Job \cup {NoJob}]
  BY DEF Inv, TypeInv, TypeOK
<1>2. CASE UNCHANGED vars \/ Purge \/ Midnight
  BY <1>2, OutsideKeepsPromise DEF vars, Purge, Midnight, tables
<1>3. CASE Crash
  BY <1>3, CrashKeepsPromise
<1>4. ASSUME NEW h \in Handler, ConfirmStep(h) PROVE [Promise!Next]_Promise!vars
  BY <1>4, ConfirmKeepsPromise
<1>5. ASSUME NEW h \in Handler, pc[h] # "settling", NEW s, s # "settling",
             \/ Finish(h)
             \/ Goto(h, s)
             \/ \E u, i, t, m : Serve(h, u, i, t, m, s)
      PROVE  \A g \in Handler : pc[g] = "settling" \/ pc'[g] = "settling" =>
               pc'[g] = pc[g] /\ job'[g] = job[g]
  BY <1>1, <1>5 DEF Finish, Goto, Serve
<1>6. ASSUME NEW h \in Handler, Request(h) PROVE [Promise!Next]_Promise!vars
  BY <1>5, <1>6, OutsideKeepsPromise
     DEF Request, SubmitStart, EmailStart, RerunStart, ConfirmStart, DiscardStart, Idle, tables
<1>7. ASSUME NEW h \in Handler, IngestStep(h) \/ ConfirmLock(h) \/ DiscardStep(h)
      PROVE  [Promise!Next]_Promise!vars
  <2>1. /\ pc[h] # "settling"
        /\ UNCHANGED <<landed, lost>>
        /\ Finish(h) \/ \E s \in (PC \ {"settling"}) : Goto(h, s)
    BY <1>7 DEF IngestStep, DedupByMessage, DedupByHash, Extract, IngestFails, Insert, Reread,
                RerunReplace, Ingested, ConfirmLock, DiscardStep, DiscardUpdate, DiscardFails,
                tables, PC, Ingesting, Confirming
  <2>2. CASE Finish(h)
    <3>1. "idle" # "settling"
      OBVIOUS
    <3>2. QED
      BY <1>5, <2>1, <2>2, <3>1, OutsideKeepsPromise
  <2>3. CASE \E s \in (PC \ {"settling"}) : Goto(h, s)
    BY <1>5, <2>1, <2>3, OutsideKeepsPromise
  <2>4. QED
    BY <2>1, <2>2, <2>3
<1>8. QED
  BY <1>2, <1>3, <1>4, <1>6, <1>7 DEF Next

\* Every handler's step is a step of LeadDelivery or invisible to it: a lead is
\* delivered only while nothing is in doubt, and never after it was recorded.
THEOREM PromiseKept == Spec => KeepsPromise
<1>1. Init => Promise!Init
  BY DEF Init, Promise!Init, Stored, Recorded
<1>2. QED
  BY <1>1, Invariant, StepKeepsPromise, PTL DEF Spec, Promise!Spec, KeepsPromise

==============================================================================
