------------------------------ MODULE EmailProofs ------------------------------
(***************************************************************************)
(* What is proved of EmailIngest, for every mail, cap, schedule, number of    *)
(* deliveries, attempts and handlers and any faults: what it keeps of a mail   *)
(* and of its events, how far the daily cap of a capture address is ever       *)
(* overshot, that mail the worker was told is delivered has a row, that what   *)
(* the filters hold back stays held back, and whose lead a thread is.          *)
(***************************************************************************)
EXTENDS EmailIngest, SequenceTheorems, FiniteSetTheorems, TLAPS

(* What the rules make of the mail of the instances is all that rows and     *)
(* handlers hold; that it is text is of no matter here.                       *)
Carried == UNION {{i.mails[d] : d \in Delivery} : i \in Instances}
Origins == {OriginOf(m, own) : m \in Carried, own \in {Own, {}}}
Bodies  == {EventBody(m, why) : m \in Carried, why \in Reason} \cup {NoText}
Texts   == {o.text : o \in Origins} \cup Bodies
Authors == {o.sender : o \in Origins} \cup {m.from : m \in Carried} \cup {Nobody}

EventRow == [mail: Delivery, status: {"quarantined", "verification", "rescued", "dismissed"},
             reason: Reason, body: Bodies, settled: Day \cup {NotSettled}]
LeadRow  == [text: Texts, day: Day, created: Day, id: {m.id : m \in Carried}, author: Authors,
             flagged: BOOLEAN, rescued: BOOLEAN, mail: Delivery]
JobRow   == [mail: Delivery, attempt: Nat, event: Nat, text: Texts, author: Authors,
             flagged: BOOLEAN, day: Day, why: Reason \cup {"none"}]

Worker  == {"new", "posting", "undelivered", "delivered", "forwarded", "lost"}

\* A handler at a step has a job; one that rescues has its event, one that filters its reason.
AtStep(step, j, n) ==
  /\ step \in PC /\ j \in JobRow \cup {NoJob}
  /\ step # "idle" => /\ j \in JobRow
                      /\ j.attempt = 0 => j.event \in 1..n
                      /\ step = "recording" => j.why \in Reason

\* TypeOK, as far as the proofs need it.
TablesShape   == leads \subseteq LeadRow /\ events \in Seq(EventRow) /\ day \in Day
HandlersShape == /\ pc \in [Handler -> PC] /\ job \in [Handler -> JobRow \cup {NoJob}]
                 /\ \A h \in Handler : AtStep(pc[h], job[h], Len(events))
Shape == instance \in Instances /\ worker \in [Delivery -> Worker] /\ TablesShape /\ HandlersShape

------------------------------------------------------------------------------
LEMMA InstanceParts ==
  ASSUME Shape
  PROVE  /\ \A d \in Delivery : MailOf(d) \in Carried
         /\ instance.attempts \in Nat /\ instance.handlers \subseteq Handler /\ instance.handlers # {}
BY EveryInstance DEF Shape, Instance, MailOf, Carried

LEMMA FirstShape == Init => Shape
BY DEF Init, Shape, TablesShape, HandlersShape, AtStep, PC, Day, Worker

\* One handler goes on to a step, with a job that fits it, while no event is removed.
LEMMA HandlerMoves ==
  ASSUME HandlersShape, NEW h \in Handler, NEW step, NEW j,
         pc' = [pc EXCEPT ![h] = step], job' = [job EXCEPT ![h] = j],
         events \in Seq(EventRow), events' \in Seq(EventRow), Len(events) =< Len(events'),
         AtStep(step, j, Len(events'))
  PROVE  HandlersShape'
<1>1. pc' \in [Handler -> PC] /\ job' \in [Handler -> JobRow \cup {NoJob}]
  BY DEF HandlersShape, AtStep
<1>2. Len(events) \in Nat /\ Len(events') \in Nat /\ 1..Len(events) \subseteq 1..Len(events')
  OBVIOUS
<1>3. ASSUME NEW g \in Handler PROVE AtStep(pc'[g], job'[g], Len(events'))
  <2>1. CASE g = h BY <2>1 DEF HandlersShape
  <2>2. CASE g # h
    <3>1. pc'[g] = pc[g] /\ job'[g] = job[g] BY <2>2 DEF HandlersShape
    <3>2. AtStep(pc[g], job[g], Len(events)) BY DEF HandlersShape
    <3> QED BY <3>1, <3>2, <1>2 DEF AtStep
  <2> QED BY <2>1, <2>2
<1> QED BY <1>1, <1>3 DEF HandlersShape

LEMMA HearsShape ==
  ASSUME worker \in [Delivery -> Worker], NEW d \in Delivery, NEW k, NEW class, NEW what, Hears(d, k, class, what)
  PROVE  worker' \in [Delivery -> Worker]
BY DEF Hears, TryAgain, Sent, mailbox, Worker

\* What a reply leaves of the handler and of the worker.
LEMMA ReplyEnds ==
  ASSUME Shape, NEW h \in Handler, pc[h] # "idle", NEW class, NEW what, Reply(h, class, what)
  PROVE  /\ worker' \in [Delivery -> Worker]
         /\ pc' = [pc EXCEPT ![h] = "idle"] /\ job' = [job EXCEPT ![h] = NoJob]
<1>1. job[h].mail \in Delivery BY DEF Shape, HandlersShape, AtStep, JobRow
<1>2. CASE Rescuing(h) BY <1>2 DEF Reply, Finish, mailbox, Shape
<1>3. CASE ~Rescuing(h)
  <2>1. Hears(job[h].mail, job[h].attempt, class, what) BY <1>3 DEF Reply
  <2> QED BY <1>1, <2>1, HearsShape DEF Reply, Finish, Shape
<1> QED BY <1>2, <1>3

\* A handler that replies, whatever it has written.
LEMMA ReplyShape ==
  ASSUME Shape, instance' = instance, NEW h \in Handler, pc[h] # "idle",
         NEW class, NEW what, Reply(h, class, what), TablesShape', Len(events) =< Len(events')
  PROVE  Shape'
<1>1. AtStep("idle", NoJob, Len(events')) BY DEF AtStep, PC
<1>2. HandlersShape' BY ReplyEnds, HandlerMoves, <1>1 DEF Shape, TablesShape
<1> QED BY ReplyEnds, <1>2 DEF Shape

\* A handler that goes on, and writes nothing.
LEMMA GoesOnShape ==
  ASSUME Shape, instance' = instance, worker' = worker, leads' = leads, events' = events, day' = day,
         NEW h \in Handler, NEW step, NEW j, pc' = [pc EXCEPT ![h] = step], job' = [job EXCEPT ![h] = j],
         AtStep(step, j, Len(events))
  PROVE  Shape'
<1>1. TablesShape' BY DEF Shape, TablesShape
<1>2. events \in Seq(EventRow) /\ Len(events) =< Len(events) BY DEF Shape, TablesShape
<1>3. HandlersShape' BY <1>1, <1>2, HandlerMoves DEF Shape, TablesShape
<1> QED BY <1>1, <1>3 DEF Shape

\* Goto keeps the job.
LEMMA GotoShape ==
  ASSUME Shape, instance' = instance, worker' = worker, leads' = leads, events' = events, day' = day,
         NEW h \in Handler, pc[h] # "idle", NEW step \in PC \ {"recording"}, Goto(h, step)
  PROVE  Shape'
<1>1. AtStep(pc[h], job[h], Len(events)) BY DEF Shape, HandlersShape
<1>2. AtStep(step, job[h], Len(events)) BY <1>1 DEF AtStep
<1>3. job' = [job EXCEPT ![h] = job[h]] BY DEF Goto, Shape, HandlersShape
<1> QED BY <1>2, <1>3, GoesOnShape DEF Goto

LEMMA FilterShape ==
  ASSUME Shape, instance' = instance, worker' = worker, leads' = leads, events' = events, day' = day,
         NEW h \in Handler, pc[h] # "idle", NEW why \in Reason, Filter(h, why)
  PROVE  Shape'
<1> DEFINE j == [job[h] EXCEPT !.why = why]
<1>1. AtStep(pc[h], job[h], Len(events)) BY DEF Shape, HandlersShape
<1>2. job[h] \in JobRow BY <1>1 DEF AtStep
<1>3. j \in JobRow /\ j.attempt = job[h].attempt /\ j.event = job[h].event /\ j.why = why BY <1>2 DEF JobRow
<1>4. AtStep("recording", j, Len(events)) BY <1>1, <1>3 DEF AtStep, PC
<1>5. job' = [job EXCEPT ![h] = j] BY DEF Filter
<1> HIDE DEF j
<1> QED BY <1>4, <1>5, GoesOnShape DEF Filter

LEMMA OverCapShape ==
  ASSUME Shape, instance' = instance, worker' = worker, leads' = leads, events' = events, day' = day,
         NEW h \in Handler, pc[h] # "idle", OverCap(h)
  PROVE  Shape'
<1>1. AtStep("idle", NoJob, Len(events)) BY DEF AtStep, PC
<1>2. "rate_limited" \in Reason BY DEF Reason
<1> QED BY <1>1, <1>2, GoesOnShape, FilterShape DEF OverCap, Finish

LEMMA AcceptShape ==
  ASSUME Shape, instance' = instance, worker' = worker, leads' = leads, events' = events, day' = day,
         NEW h \in Handler, pc[h] # "idle", NEW own \in {Own, {}}, Accept(h, MailOf(job[h].mail), own)
  PROVE  Shape'
<1> DEFINE origin == OriginOf(MailOf(job[h].mail), own)
           guess == origin.confidence # "high"
           j == [job[h] EXCEPT !.text = origin.text, !.author = origin.sender, !.flagged = guess]
<1>1. AtStep(pc[h], job[h], Len(events)) BY DEF Shape, HandlersShape
<1>2. job[h] \in JobRow BY <1>1 DEF AtStep
<1>3. MailOf(job[h].mail) \in Carried BY <1>2, InstanceParts DEF JobRow
<1>4. origin.text \in Texts /\ origin.sender \in Authors
  <2>1. origin \in Origins BY <1>3 DEF Origins
  <2> HIDE DEF origin
  <2> QED BY <2>1 DEF Texts, Authors
<1>5. job' = [job EXCEPT ![h] = j] /\ pc' = [pc EXCEPT ![h] = "prior"] BY DEF Accept
<1>6. guess \in BOOLEAN OBVIOUS
<1>7. j \in JobRow /\ j.attempt = job[h].attempt /\ j.event = job[h].event
  <2> HIDE DEF origin, guess
  <2> QED BY <1>2, <1>4, <1>6 DEF JobRow
<1> HIDE DEF j
<1>8. AtStep("prior", j, Len(events)) BY <1>1, <1>7 DEF AtStep, PC, Ingesting
<1> QED BY <1>5, <1>8, GoesOnShape

\* What settling and purging leave of a row.
LEMMA SettledRow ==
  ASSUME NEW e \in EventRow, NEW s \in {"rescued", "dismissed"}, day \in Day
  PROVE  /\ SettledEvent(e, s) \in EventRow
         /\ SettledEvent(e, s).mail = e.mail /\ SettledEvent(e, s).reason = e.reason
         /\ SettledEvent(e, s).body = e.body
         /\ e.status \notin Unsettled => SettledEvent(e, s) = e
         /\ e.status \in Unsettled => SettledEvent(e, s).status = s
<1> DEFINE stamp == IF e.settled = NotSettled THEN day ELSE e.settled
           f == [e EXCEPT !.status = s, !.settled = stamp]
<1>1. stamp \in Day \cup {NotSettled} BY DEF EventRow
<1>2. /\ f \in EventRow /\ f.mail = e.mail /\ f.reason = e.reason /\ f.body = e.body /\ f.status = s
  <2> HIDE DEF stamp
  <2> QED BY <1>1 DEF EventRow
<1>3. SettledEvent(e, s) = IF e.status \in Unsettled THEN f ELSE e
  BY DEF SettledEvent, EventRow
<1> HIDE DEF f
<1> QED BY <1>2, <1>3

LEMMA PurgedRow ==
  ASSUME NEW e \in EventRow
  PROVE  /\ PurgedEvent(e) \in EventRow
         /\ PurgedEvent(e).mail = e.mail /\ PurgedEvent(e).reason = e.reason
         /\ PurgedEvent(e).status = e.status /\ PurgedEvent(e).settled = e.settled
         /\ e.settled = NotSettled => PurgedEvent(e) = e
BY DEF PurgedEvent, EventRow, Bodies

LEMMA NewRow ==
  ASSUME NEW d \in Delivery, NEW why \in Reason, day \in Day, MailOf(d) \in Carried
  PROVE  LET e == NewEvent(d, why, EventBody(MailOf(d), why)) IN
         /\ e \in EventRow /\ e.mail = d /\ e.reason = why /\ e.body = EventBody(MailOf(d), why)
         /\ e.status \in Unsettled /\ e.settled = NotSettled
<1>1. EventBody(MailOf(d), why) \in Bodies BY DEF Bodies
<1> QED BY <1>1 DEF NewEvent, EventRow, Unsettled

------------------------------------------------------------------------------
(* All that a step may do to the events: append one of a mail, settle one, purge them. *)
AppendsEvent(d, why) == events' = Append(events, NewEvent(d, why, EventBody(MailOf(d), why)))
SettlesEvent(e, s)    == events' = [events EXCEPT ![e] = SettledEvent(events[e], s)]
PurgesAll         == events' = [e \in DOMAIN events |-> PurgedEvent(events[e])]
EventsEvolve ==
  \/ events' = events
  \/ \E d \in Delivery, why \in Reason : AppendsEvent(d, why)
  \/ \E e \in DOMAIN events, s \in {"rescued", "dismissed"} : SettlesEvent(e, s)
  \/ PurgesAll

\* An event of a mail is one of it for good, and a settled one stays as it was settled.
RowsLast ==
  \A e \in DOMAIN events :
    /\ e \in DOMAIN events' /\ events'[e].mail = events[e].mail
    /\ events[e].status \notin Unsettled =>
         events'[e].status = events[e].status /\ events'[e].settled = events[e].settled

\* An event nobody settled has the body it was recorded with: the purge goes by settlement.
BodiesAreKept ==
  \A e \in DOMAIN events : events[e].status \in Unsettled =>
    /\ events[e].settled = NotSettled
    /\ events[e].body = EventBody(MailOf(events[e].mail), events[e].reason)

LEMMA EventsLast ==
  ASSUME events \in Seq(EventRow), day \in Day, instance' = instance,
         \A d \in Delivery : MailOf(d) \in Carried, EventsEvolve
  PROVE  /\ events' \in Seq(EventRow) /\ Len(events) =< Len(events')
         /\ RowsLast
         /\ BodiesAreKept => BodiesAreKept'
<1>0. Len(events) \in Nat /\ DOMAIN events = 1..Len(events) /\ \A e \in DOMAIN events : events[e] \in EventRow
  OBVIOUS
<1>m. \A d : MailOf(d)' = MailOf(d) BY DEF MailOf
<1>1. CASE events' = events BY <1>0, <1>1, <1>m DEF RowsLast, BodiesAreKept
<1>2. CASE \E d \in Delivery, why \in Reason : AppendsEvent(d, why)
  <2>1. PICK d \in Delivery, why \in Reason : AppendsEvent(d, why) BY <1>2
  <2> DEFINE row == NewEvent(d, why, EventBody(MailOf(d), why))
  <2>2. /\ row \in EventRow /\ row.mail = d /\ row.reason = why /\ row.body = EventBody(MailOf(d), why)
        /\ row.settled = NotSettled
    BY NewRow
  <2>3. events' = Append(events, row) BY <2>1 DEF AppendsEvent
  <2> HIDE DEF row
  <2>4. /\ events' \in Seq(EventRow) /\ DOMAIN events' = 1..Len(events) + 1 /\ Len(events') = Len(events) + 1
        /\ events'[Len(events) + 1] = row /\ \A e \in DOMAIN events : events'[e] = events[e]
    BY <2>2, <2>3, <1>0
  <2>5. RowsLast BY <1>0, <2>4 DEF RowsLast
  <2>6. ASSUME BodiesAreKept, NEW e \in DOMAIN events', events'[e].status \in Unsettled
        PROVE  /\ events'[e].settled = NotSettled
               /\ events'[e].body = EventBody(MailOf(events'[e].mail), events'[e].reason)
    <3>1. CASE e = Len(events) + 1 BY <3>1, <2>2, <2>4
    <3>2. CASE e # Len(events) + 1
      <4>1. e \in DOMAIN events BY <3>2, <2>4, <1>0
      <4> QED BY <4>1, <2>4, <2>6 DEF BodiesAreKept
    <3> QED BY <3>1, <3>2
  <2> QED BY <2>4, <2>5, <2>6, <1>0, <1>m DEF BodiesAreKept
<1>3. CASE \E e \in DOMAIN events, s \in {"rescued", "dismissed"} : SettlesEvent(e, s)
  <2>1. PICK i \in DOMAIN events, s \in {"rescued", "dismissed"} : SettlesEvent(i, s) BY <1>3
  <2> DEFINE row == SettledEvent(events[i], s)
  <2>2. /\ row \in EventRow /\ row.mail = events[i].mail
        /\ events[i].status \notin Unsettled => row = events[i]
        /\ events[i].status \in Unsettled => row.status = s
    BY SettledRow, <1>0
  <2>3. s \notin Unsettled BY DEF Unsettled
  <2>4. events' = [events EXCEPT ![i] = row] BY <2>1 DEF SettlesEvent
  <2> HIDE DEF row
  <2>5. /\ events' \in Seq(EventRow) /\ DOMAIN events' = DOMAIN events /\ Len(events') = Len(events)
        /\ events'[i] = row /\ \A e \in DOMAIN events : e # i => events'[e] = events[e]
    BY <2>2, <2>4, <1>0
  <2>6. RowsLast BY <2>2, <2>5 DEF RowsLast
  <2>7. \A e \in DOMAIN events' : events'[e].status \in Unsettled => events'[e] = events[e] /\ events[e].status \in Unsettled
    BY <2>2, <2>3, <2>5
  <2>8. BodiesAreKept => BodiesAreKept' BY <2>5, <2>7, <1>m DEF BodiesAreKept
  <2> QED BY <2>5, <2>6, <2>8, <1>0
<1>4. CASE PurgesAll
  <2>1. /\ DOMAIN events' = DOMAIN events
        /\ \A e \in DOMAIN events : events'[e] = PurgedEvent(events[e])
    BY <1>4 DEF PurgesAll
  <2>2. \A e \in DOMAIN events :
          /\ events'[e] \in EventRow
          /\ events'[e].mail = events[e].mail /\ events'[e].status = events[e].status
          /\ events'[e].settled = events[e].settled
          /\ events[e].settled = NotSettled => events'[e] = events[e]
    BY <2>1, <1>0, PurgedRow
  <2>3. events' \in Seq(EventRow) /\ Len(events') = Len(events)
    <3>1. events' = [e \in 1..Len(events) |-> PurgedEvent(events[e])] BY <1>4, <1>0 DEF PurgesAll
    <3>2. \A e \in 1..Len(events) : PurgedEvent(events[e]) \in EventRow BY <1>0, PurgedRow
    <3> QED BY <1>0, <3>1, <3>2
  <2>4. RowsLast BY <2>1, <2>2 DEF RowsLast
  <2>5. BodiesAreKept => BodiesAreKept' BY <2>1, <2>2, <1>m DEF BodiesAreKept
  <2> QED BY <2>3, <2>4, <2>5, <1>0
<1> QED BY <1>1, <1>2, <1>3, <1>4 DEF EventsEvolve

------------------------------------------------------------------------------
(* Each action, on the tables' and the handlers' shape.                     *)

\* Most actions write no table.
LEMMA Untouched ==
  ASSUME Shape, leads' = leads, events' = events, day' = day
  PROVE  TablesShape' /\ Len(events) =< Len(events') /\ EventsEvolve
BY DEF Shape, TablesShape, EventsEvolve

LEMMA WorkerShape ==
  ASSUME Shape, instance' = instance, NEW d \in Delivery,
         WorkerStep(d) \/ \E k \in 1..instance.attempts : ArriveLimited(d, k)
  PROVE  Shape' /\ EventsEvolve
<1>1. pc' = pc /\ job' = job /\ leads' = leads /\ events' = events /\ day' = day
  BY DEF WorkerStep, Post, AttemptFails, Fallback, FallbackFails, ArriveLimited, tables, clock
<1>2. worker' \in [Delivery -> Worker]
  <2>1. worker \in [Delivery -> Worker] BY DEF Shape
  <2>2. CASE Post(d) BY <2>1, <2>2 DEF Post, Worker
  <2>3. CASE AttemptFails(d) BY <2>1, <2>3 DEF AttemptFails, TryAgain, Sent, Worker
  <2>4. CASE Fallback(d) BY <2>1, <2>4 DEF Fallback, Worker
  <2>5. CASE FallbackFails(d) BY <2>1, <2>5 DEF FallbackFails, Worker
  <2>6. CASE \E k \in 1..instance.attempts : ArriveLimited(d, k) BY <2>1, <2>6 DEF ArriveLimited, Worker
  <2> QED BY <2>2, <2>3, <2>4, <2>5, <2>6 DEF WorkerStep
<1> QED BY <1>1, <1>2, Untouched DEF Shape, HandlersShape

LEMMA ArriveShape ==
  ASSUME Shape, instance' = instance, NEW h \in Handler, NEW d \in Delivery, NEW k \in 1..instance.attempts,
         Arrive(h, d, k)
  PROVE  Shape' /\ EventsEvolve
<1> DEFINE j == [mail |-> d, attempt |-> k, event |-> 0, text |-> NoText, author |-> Nobody,
                 flagged |-> FALSE, day |-> day, why |-> "none"]
<1>1. k \in Nat /\ k # 0 BY InstanceParts
<1>2. NoText \in Texts /\ Nobody \in Authors BY DEF Texts, Bodies, Authors
<1>3. day \in Day BY DEF Shape, TablesShape
<1>4. j \in JobRow /\ j.attempt # 0 BY <1>1, <1>2, <1>3 DEF JobRow
<1>5. /\ leads' = leads /\ events' = events /\ day' = day /\ worker' = worker
      /\ pc' = [pc EXCEPT ![h] = "resolving"] /\ job' = [job EXCEPT ![h] = j]
  BY DEF Arrive, tables, clock
<1> HIDE DEF j
<1>6. AtStep("resolving", j, Len(events)) BY <1>4 DEF AtStep, PC
<1> QED BY <1>5, <1>6, GoesOnShape, Untouched

LEMMA RescueStartShape ==
  ASSUME Shape, instance' = instance, NEW h \in Handler, NEW e \in DOMAIN events, RescueStart(h, e)
  PROVE  Shape' /\ EventsEvolve
<1> DEFINE j == [mail |-> events[e].mail, attempt |-> 0, event |-> e, text |-> events[e].body,
                 author |-> MailOf(events[e].mail).from, flagged |-> FALSE, day |-> day, why |-> "none"]
<1>1. e \in 1..Len(events) /\ e \in Nat /\ events[e] \in EventRow /\ day \in Day BY DEF Shape, TablesShape
<1>2. events[e].mail \in Delivery /\ events[e].body \in Texts BY <1>1 DEF EventRow, Texts
<1>3. MailOf(events[e].mail).from \in Authors BY <1>2, InstanceParts DEF Authors
<1>4. j \in JobRow /\ j.event = e BY <1>1, <1>2, <1>3 DEF JobRow
<1>5. /\ leads' = leads /\ events' = events /\ day' = day /\ worker' = worker
      /\ pc' = [pc EXCEPT ![h] = "capping"] /\ job' = [job EXCEPT ![h] = j]
  BY DEF RescueStart, tables, clock, mailbox
<1> HIDE DEF j
<1>6. AtStep("capping", j, Len(events)) BY <1>1, <1>4 DEF AtStep, PC
<1> QED BY <1>5, <1>6, GoesOnShape, Untouched

LEMMA DismissShape ==
  ASSUME Shape, instance' = instance, NEW e \in DOMAIN events, Dismiss(e)
  PROVE  Shape' /\ EventsEvolve
<1>1. SettlesEvent(e, "dismissed") BY DEF Dismiss, SettlesEvent
<1>2. EventsEvolve BY <1>1 DEF EventsEvolve
<1>3. events' \in Seq(EventRow) /\ Len(events') = Len(events)
  <2>1. SettledEvent(events[e], "dismissed") \in EventRow BY SettledRow DEF Shape, TablesShape
  <2> HIDE DEF SettlesEvent
  <2> QED BY <1>1, <2>1 DEF SettlesEvent, Shape, TablesShape
<1> QED BY <1>2, <1>3 DEF Dismiss, Shape, TablesShape, HandlersShape, mailbox, clock

LEMMA PurgeShape ==
  ASSUME Shape, instance' = instance, Purge
  PROVE  Shape' /\ EventsEvolve
<1>1. EventsEvolve BY DEF Purge, EventsEvolve, PurgesAll
<1>2. events' \in Seq(EventRow) /\ Len(events') = Len(events)
  <2>1. \A e \in 1..Len(events) : PurgedEvent(events[e]) \in EventRow BY PurgedRow DEF Shape, TablesShape
  <2>2. events' = [e \in 1..Len(events) |-> PurgedEvent(events[e])] BY DEF Purge, Shape, TablesShape
  <2> QED BY <2>1, <2>2 DEF Shape, TablesShape
<1> QED BY <1>1, <1>2 DEF Purge, Shape, TablesShape, HandlersShape, mailbox, clock

\* A handler's reply, where it writes no table.
LEMMA OnlyReplies ==
  ASSUME Shape, instance' = instance, leads' = leads, events' = events, day' = day,
         NEW h \in Handler, pc[h] # "idle", NEW class, NEW what, Reply(h, class, what)
  PROVE  Shape' /\ EventsEvolve
<1>1. TablesShape' /\ Len(events) =< Len(events') /\ EventsEvolve BY Untouched
<1> QED BY <1>1, ReplyShape

LEMMA OnlyLands ==
  ASSUME Shape, instance' = instance, leads' = leads, events' = events, day' = day,
         NEW h \in Handler, pc[h] # "idle", NEW what, Landed(h, what)
  PROVE  Shape' /\ EventsEvolve
<1>1. CASE Rescuing(h)
  <2>1. Goto(h, "settling") /\ worker' = worker BY <1>1 DEF Landed, mailbox
  <2>2. "settling" \in PC \ {"recording"} BY DEF PC
  <2> QED BY <2>1, <2>2, GotoShape, Untouched
<1>2. CASE ~Rescuing(h) BY <1>2, OnlyReplies DEF Landed
<1> QED BY <1>1, <1>2

LEMMA RecordEventShape ==
  ASSUME Shape, instance' = instance, NEW h \in Handler, RecordEvent(h)
  PROVE  Shape' /\ EventsEvolve
<1> DEFINE d == job[h].mail
           why == job[h].why
           row == NewEvent(d, why, EventBody(MailOf(d), why))
<1>1. pc[h] = "recording" /\ AtStep(pc[h], job[h], Len(events)) BY DEF RecordEvent, Shape, HandlersShape
<1>2. d \in Delivery /\ why \in Reason BY <1>1 DEF AtStep, JobRow
<1>3. day \in Day /\ events \in Seq(EventRow) /\ leads \subseteq LeadRow BY DEF Shape, TablesShape
<1>4. row \in EventRow BY <1>2, <1>3, InstanceParts, NewRow
<1>5. events' = Append(events, row) /\ leads' = leads /\ day' = day BY DEF RecordEvent, clock
<1>6. EventsEvolve BY <1>2, <1>5 DEF EventsEvolve, AppendsEvent
<1>7. events' \in Seq(EventRow) /\ Len(events) =< Len(events')
  <2> HIDE DEF row
  <2> QED BY <1>3, <1>4, <1>5
<1>8. TablesShape' BY <1>3, <1>5, <1>7 DEF TablesShape
<1>9. \E what : Reply(h, "ok", what) BY DEF RecordEvent, Recorded
<1> QED BY <1>1, <1>6, <1>7, <1>8, <1>9, ReplyShape

LEMMA InsertShape ==
  ASSUME Shape, instance' = instance, NEW h \in Handler, Insert(h)
  PROVE  Shape' /\ EventsEvolve
<1>1. pc[h] = "extracting" /\ AtStep(pc[h], job[h], Len(events)) BY DEF Insert, Shape, HandlersShape
<1>2. events' = events /\ day' = day BY DEF Insert, clock
<1>3. CASE leads' = leads
  <2>1. \E what : Landed(h, what) BY DEF Insert
  <2> QED BY <1>1, <1>2, <1>3, <2>1, OnlyLands
<1>4. CASE leads' # leads
  <2> DEFINE row == [text |-> job[h].text, day |-> job[h].day, created |-> day,
                     id |-> MailOf(job[h].mail).id, author |-> job[h].author,
                     flagged |-> job[h].flagged, rescued |-> Rescuing(h), mail |-> job[h].mail]
  <2>1. leads' = leads \cup {row} /\ Landed(h, "accepted") BY <1>4 DEF Insert
  <2>2. job[h] \in JobRow BY <1>1 DEF AtStep
  <2>3. MailOf(job[h].mail) \in Carried BY <2>2, InstanceParts DEF JobRow
  <2>4. Rescuing(h) \in BOOLEAN BY DEF Rescuing
  <2>5. row \in LeadRow BY <2>2, <2>3, <2>4 DEF JobRow, LeadRow, Shape, TablesShape
  <2> HIDE DEF row
  <2>6. TablesShape' /\ Len(events) =< Len(events') /\ EventsEvolve
    BY <2>1, <2>5, <1>2 DEF Shape, TablesShape, EventsEvolve
  <2>7. CASE Rescuing(h)
    <3>1. pc' = [pc EXCEPT ![h] = "settling"] /\ job' = job /\ worker' = worker
      BY <2>1, <2>7 DEF Landed, Goto, mailbox
    <3>2. job' = [job EXCEPT ![h] = job[h]] BY <3>1 DEF Shape, HandlersShape
    <3>3. AtStep("settling", job[h], Len(events')) BY <1>1, <1>2 DEF AtStep, PC
    <3>4. HandlersShape' BY <2>6, <3>1, <3>2, <3>3, HandlerMoves DEF Shape, TablesShape
    <3> QED BY <2>6, <3>1, <3>4 DEF Shape
  <2>8. CASE ~Rescuing(h)
    <3>1. Reply(h, "ok", "accepted") BY <2>1, <2>8 DEF Landed
    <3> QED BY <1>1, <2>6, <3>1, ReplyShape
  <2> QED BY <2>7, <2>8
<1> QED BY <1>3, <1>4

LEMMA RescueSettleShape ==
  ASSUME Shape, instance' = instance, NEW h \in Handler, RescueSettle(h)
  PROVE  Shape' /\ EventsEvolve
<1>1. pc[h] = "settling" /\ AtStep(pc[h], job[h], Len(events)) BY DEF RescueSettle, Shape, HandlersShape
<1> DEFINE i == job[h].event
<1>3. events \in Seq(EventRow) /\ day \in Day BY DEF Shape, TablesShape
<1>4. events' = [events EXCEPT ![i] = SettledEvent(events[i], "rescued")] /\ day' = day /\ leads' = leads
  BY DEF RescueSettle, clock
<1>5. events' \in Seq(EventRow) /\ Len(events') = Len(events) /\ EventsEvolve
  <2>1. CASE i \in DOMAIN events
    <3>1. SettledEvent(events[i], "rescued") \in EventRow BY <2>1, <1>3, SettledRow
    <3>2. SettlesEvent(i, "rescued") BY <1>4 DEF SettlesEvent
    <3> QED BY <1>3, <1>4, <2>1, <3>1, <3>2 DEF EventsEvolve
  <2>2. CASE i \notin DOMAIN events
    <3> DEFINE row == SettledEvent(events[i], "rescued")
    <3>1. events' = [events EXCEPT ![i] = row] BY <1>4
    <3> HIDE DEF i, row
    <3>2. events' = [e \in DOMAIN events |-> IF e = i THEN row ELSE events[e]] BY <3>1
    <3>3. events' = [e \in DOMAIN events |-> events[e]] BY <3>2, <2>2
    <3>4. events' = events BY <3>3, <1>3
    <3> QED BY <3>4, <1>3 DEF EventsEvolve
  <2> QED BY <2>1, <2>2
<1>6. TablesShape' BY <1>4, <1>5 DEF Shape, TablesShape
<1>7. AtStep("idle", NoJob, Len(events')) BY DEF AtStep, PC
<1>8. HandlersShape'
  <2>1. pc' = [pc EXCEPT ![h] = "idle"] /\ job' = [job EXCEPT ![h] = NoJob] BY DEF RescueSettle, Finish
  <2>2. Len(events) =< Len(events') BY <1>3, <1>5
  <2> QED BY <1>3, <1>5, <1>7, <2>1, <2>2, HandlerMoves DEF Shape
<1> QED BY <1>5, <1>6, <1>8 DEF RescueSettle, mailbox, Shape

\* The other steps of a handler write no table at all.
LEMMA HandlerShape ==
  ASSUME Shape, instance' = instance, NEW h \in Handler, HandlerStep(h)
  PROVE  Shape' /\ EventsEvolve
<1>0. AtStep(pc[h], job[h], Len(events)) BY DEF Shape, HandlersShape
<1>1. ASSUME leads' = leads, events' = events, day' = day, pc[h] # "idle",
             \E class, what : Reply(h, class, what)
      PROVE  Shape' /\ EventsEvolve
  BY <1>1, OnlyReplies
<1>2. ASSUME leads' = leads, events' = events, day' = day, worker' = worker, pc[h] # "idle",
             NEW step \in {"screening", "capping", "dedup", "extracting"}, Goto(h, step)
      PROVE  Shape' /\ EventsEvolve
  <2>1. step \in PC \ {"recording"} BY DEF PC, Ingesting
  <2> QED BY <1>2, <2>1, GotoShape, Untouched
<1>3. CASE Resolve(h)
  BY <1>1, <1>2, <1>3 DEF Resolve, tables, clock, mailbox
<1>4. CASE ResolveFails(h) BY <1>1, <1>4 DEF ResolveFails, tables
<1>5. CASE Screen(h)
  <2>1. leads' = leads /\ events' = events /\ day' = day /\ worker' = worker /\ pc[h] # "idle"
    BY <1>5 DEF Screen, tables, mailbox
  <2>2. \A why : why \in Verdicts /\ why # "accept" => why \in Reason BY DEF Reason
  <2>3. ASSUME NEW why \in Reason, Filter(h, why) PROVE Shape' BY <2>1, <2>3, FilterShape
  <2>4. ASSUME NEW own \in {Own, {}}, Accept(h, MailOf(job[h].mail), own) PROVE Shape'
    BY <2>1, <2>4, AcceptShape
  <2>5. Verdict(MailOf(job[h].mail), blocked) \in Verdicts BY DEF Verdict, Verdicts
  <2>6. Shape' BY <1>5, <2>2, <2>3, <2>4, <2>5 DEF Screen
  <2> QED BY <2>1, <2>6, Untouched
<1>6. CASE RecordEvent(h) BY <1>6, RecordEventShape
<1>7. CASE RecordFails(h) BY <1>1, <1>7 DEF RecordFails, Recorded, tables
<1>8. CASE Prior(h) BY <1>1, <1>2, <1>8 DEF Prior, tables, clock, mailbox
<1>9. CASE Cap(h) \/ CapBurst(h)
  <2>1. leads' = leads /\ events' = events /\ day' = day /\ worker' = worker /\ pc[h] # "idle"
    BY <1>9 DEF Cap, CapBurst, tables, clock, mailbox
  <2>2. CASE OverCap(h) BY <2>1, <2>2, OverCapShape, Untouched
  <2>3. CASE Goto(h, "dedup") BY <2>1, <2>3, <1>2
  <2> QED BY <1>9, <2>2, <2>3 DEF Cap, CapBurst
<1>10. CASE Dedup(h)
  <2>1. leads' = leads /\ events' = events /\ day' = day /\ pc[h] # "idle"
    BY <1>10 DEF Dedup, tables, clock
  <2>2. CASE Landed(h, "duplicate") BY <2>1, <2>2, OnlyLands
  <2>3. CASE Goto(h, "extracting") /\ UNCHANGED mailbox BY <2>1, <2>3, <1>2 DEF mailbox
  <2> QED BY <1>10, <2>2, <2>3 DEF Dedup
<1>11. CASE Insert(h) BY <1>11, InsertShape
<1>12. CASE IngestFails(h) BY <1>1, <1>12 DEF IngestFails, Ingesting, tables, clock
<1>13. CASE RescueSettle(h) BY <1>13, RescueSettleShape
<1>14. CASE RescueSettleFails(h)
  <2>1. /\ leads' = leads /\ events' = events /\ day' = day /\ worker' = worker
        /\ pc' = [pc EXCEPT ![h] = "idle"] /\ job' = [job EXCEPT ![h] = NoJob]
    BY <1>14 DEF RescueSettleFails, tables, mailbox, Finish
  <2>2. AtStep("idle", NoJob, Len(events)) BY DEF AtStep, PC
  <2> QED BY <2>1, <2>2, GoesOnShape, Untouched
<1> QED BY <1>3, <1>4, <1>5, <1>6, <1>7, <1>8, <1>9, <1>10, <1>11, <1>12, <1>13, <1>14 DEF HandlerStep

LEMMA StepShape ==
  ASSUME Shape, [Next]_vars
  PROVE  Shape' /\ EventsEvolve /\ instance' = instance
<1>1. CASE UNCHANGED vars
  BY <1>1, Untouched DEF vars, Shape, TablesShape, HandlersShape
<1>2. ASSUME Step, instance' = instance PROVE Shape' /\ EventsEvolve
  <2>1. CASE \E d \in Delivery : WorkerStep(d) \/ \E k \in 1..instance.attempts : ArriveLimited(d, k)
    BY <1>2, <2>1, WorkerShape
  <2>2. CASE \E h \in instance.handlers :
               HandlerStep(h) \/ \E d \in Delivery, k \in 1..instance.attempts : Arrive(h, d, k)
    BY <1>2, <2>2, InstanceParts, HandlerShape, ArriveShape
  <2>3. CASE UserStep
    <3>1. CASE \E e \in DOMAIN events : Dismiss(e) \/ \E h \in instance.handlers : RescueStart(h, e)
      BY <1>2, <3>1, InstanceParts, DismissShape, RescueStartShape
    <3>2. CASE \/ \E s \in Pattern : BlockSender(s) \/ UnblockSender(s)
               \/ Rotate
      <4>1. worker' = worker /\ pc' = pc /\ job' = job /\ leads' = leads /\ events' = events /\ day' = day
        BY <3>2 DEF BlockSender, UnblockSender, Rotate, mailbox, clock
      <4> QED BY <1>2, <4>1, Untouched DEF Shape, HandlersShape
    <3> QED BY <2>3, <3>1, <3>2 DEF UserStep
  <2>4. CASE Purge BY <1>2, <2>4, PurgeShape
  <2>5. CASE Midnight
    <3>1. /\ worker' = worker /\ pc' = pc /\ job' = job /\ leads' = leads /\ events' = events
          /\ day' \in Day
      BY <2>5 DEF Midnight, mailbox, tables
    <3> QED BY <1>2, <3>1 DEF Shape, TablesShape, HandlersShape, EventsEvolve
  <2>6. CASE Crash
    <3>1. /\ worker' = worker /\ leads' = leads /\ events' = events /\ day' = day
          /\ pc' = [h \in Handler |-> "idle"] /\ job' = [h \in Handler |-> NoJob]
      BY <2>6 DEF Crash, mailbox, tables
    <3> QED BY <1>2, <3>1, Untouched DEF Shape, HandlersShape, AtStep, PC
  <2> QED BY <1>2, <2>1, <2>2, <2>3, <2>4, <2>5, <2>6 DEF Step
<1> QED BY <1>1, <1>2 DEF Next

\* Every run keeps the shape.
THEOREM ShapeHolds == Spec => []Shape
<1>1. Shape /\ [Next]_vars => Shape' BY StepShape
<1> QED BY FirstShape, <1>1, PTL DEF Spec

\* store/ingest.go:368 for every mail and schedule: a settled event is not settled again.
THEOREM SettlingIsFinal == Spec => SettledEventIsFinal
<1>1. Shape /\ [Next]_vars =>
        [\A e \in DOMAIN events : events[e].status \notin Unsettled =>
           /\ events'[e].status = events[e].status
           /\ events'[e].settled = events[e].settled]_vars
  <2> SUFFICES ASSUME Shape, [Next]_vars PROVE RowsLast BY DEF RowsLast
  <2> QED BY StepShape, InstanceParts, EventsLast DEF Shape, TablesShape
<1> QED BY <1>1, ShapeHolds, PTL DEF Spec, SettledEventIsFinal

------------------------------------------------------------------------------
\* Requests past the cap's check that may still store a lead.
PastCap == {"dedup", "extracting"}
Past    == {h \in instance.handlers : pc[h] \in PastCap}
Of(n)   == {l \in leads : l.created = n}

Passes(h) ==
  /\ pc[h] = "capping" /\ ~(EmailsToday >= DailyCap)
  /\ Goto(h, "dedup") /\ leads' = leads /\ day' = day

\* Nobody gets past the check, and nothing is stored.
Quiet ==
  /\ leads' = leads /\ day' = day
  /\ \A h \in Handler : pc'[h] \in PastCap => pc[h] \in PastCap

LEMMA Quieter ==
  ASSUME pc \in [Handler -> PC], leads' = leads, day' = day, NEW h \in Handler, NEW step,
         pc' = [pc EXCEPT ![h] = step], step \in PastCap => pc[h] \in PastCap
  PROVE  Quiet
BY DEF Quiet

LEMMA HandlerCapMoves ==
  ASSUME Shape, NEW h \in instance.handlers, HandlerStep(h)
  PROVE  Quiet \/ Passes(h) \/ Insert(h)
<1>0. h \in Handler /\ pc \in [Handler -> PC] BY InstanceParts DEF Shape, HandlersShape
<1>1. ASSUME leads' = leads, day' = day, \E class, what : Reply(h, class, what) PROVE Quiet
  BY <1>0, <1>1, Quieter DEF Reply, Finish, PastCap
<1>2. ASSUME leads' = leads, day' = day, \E what : Landed(h, what) PROVE Quiet
  <2>1. CASE Rescuing(h) BY <1>0, <1>2, <2>1, Quieter DEF Landed, Goto, PastCap
  <2>2. CASE ~Rescuing(h) BY <1>1, <1>2, <2>2 DEF Landed
  <2> QED BY <2>1, <2>2
<1>3. ASSUME leads' = leads, day' = day, OverCap(h) PROVE Quiet
  BY <1>0, <1>3, Quieter DEF OverCap, Finish, Filter, PastCap
<1>4. CASE Resolve(h)
  <2>1. leads' = leads /\ day' = day BY <1>4 DEF Resolve, tables, clock
  <2>2. CASE Goto(h, "screening") BY <1>0, <2>1, <2>2, Quieter DEF Goto, PastCap
  <2>3. CASE Reply(h, "ok", "discarded") BY <1>1, <2>1, <2>3
  <2> QED BY <1>4, <2>2, <2>3 DEF Resolve
<1>5. CASE ResolveFails(h) BY <1>1, <1>5 DEF ResolveFails, tables
<1>6. CASE Screen(h)
  <2>1. leads' = leads /\ day' = day BY <1>6 DEF Screen, tables
  <2>2. pc' = [pc EXCEPT ![h] = "recording"] \/ pc' = [pc EXCEPT ![h] = "prior"]
    BY <1>6 DEF Screen, Filter, Accept
  <2> QED BY <1>0, <2>1, <2>2, Quieter DEF PastCap
<1>7. CASE RecordEvent(h) BY <1>1, <1>7 DEF RecordEvent, Recorded, clock
<1>8. CASE RecordFails(h) BY <1>1, <1>8 DEF RecordFails, Recorded, tables
<1>9. CASE Prior(h)
  <2>1. leads' = leads /\ day' = day BY <1>9 DEF Prior, tables, clock
  <2>2. CASE Goto(h, "capping") BY <1>0, <2>1, <2>2, Quieter DEF Goto, PastCap
  <2>3. CASE Reply(h, "ok", "duplicate") BY <1>1, <2>1, <2>3
  <2> QED BY <1>9, <2>2, <2>3 DEF Prior
<1>10. CASE Cap(h)
  <2>1. leads' = leads /\ day' = day /\ pc[h] = "capping" BY <1>10 DEF Cap, tables, clock
  <2>2. CASE OverCap(h) BY <1>3, <2>1, <2>2
  <2>3. CASE ~(EmailsToday >= DailyCap) /\ Goto(h, "dedup") BY <2>1, <2>3 DEF Passes
  <2> QED BY <1>10, <2>2, <2>3 DEF Cap
<1>11. CASE CapBurst(h) BY <1>3, <1>11 DEF CapBurst, tables, clock
<1>12. CASE Dedup(h)
  <2>1. leads' = leads /\ day' = day /\ pc[h] = "dedup" BY <1>12 DEF Dedup, tables, clock
  <2>2. CASE Landed(h, "duplicate") BY <1>2, <2>1, <2>2
  <2>3. CASE Goto(h, "extracting") BY <1>0, <2>1, <2>3, Quieter DEF Goto, PastCap
  <2> QED BY <1>12, <2>2, <2>3 DEF Dedup
<1>13. CASE IngestFails(h) BY <1>1, <1>13 DEF IngestFails, tables, clock
<1>14. CASE RescueSettle(h) \/ RescueSettleFails(h)
  BY <1>0, <1>14, Quieter DEF RescueSettle, RescueSettleFails, Finish, tables, clock, PastCap
<1> QED BY <1>4, <1>5, <1>6, <1>7, <1>8, <1>9, <1>10, <1>11, <1>12, <1>13, <1>14 DEF HandlerStep

LEMMA CapMoves ==
  ASSUME Shape, Next
  PROVE  Quiet \/ (\E h \in instance.handlers : Passes(h) \/ Insert(h)) \/ Midnight
<1>0. pc \in [Handler -> PC] BY DEF Shape, HandlersShape
<1>1. CASE \E d \in Delivery : WorkerStep(d) \/ \E k \in 1..instance.attempts : ArriveLimited(d, k)
  <2>1. pc' = pc /\ leads' = leads /\ day' = day
    BY <1>1 DEF WorkerStep, Post, AttemptFails, Fallback, FallbackFails, ArriveLimited, tables, clock
  <2> QED BY <2>1 DEF Quiet
<1>2. CASE \E h \in instance.handlers : HandlerStep(h) BY <1>2, HandlerCapMoves
<1>3. CASE \E h \in instance.handlers, d \in Delivery, k \in 1..instance.attempts : Arrive(h, d, k)
  BY <1>0, <1>3, InstanceParts, Quieter DEF Arrive, tables, clock, PastCap
<1>4. CASE UserStep
  <2>1. CASE \E e \in DOMAIN events, h \in instance.handlers : RescueStart(h, e)
    BY <1>0, <2>1, InstanceParts, Quieter DEF RescueStart, tables, clock, PastCap
  <2>2. CASE \/ \E e \in DOMAIN events : Dismiss(e)
             \/ \E s \in Pattern : BlockSender(s) \/ UnblockSender(s)
             \/ Rotate
    BY <2>2 DEF Dismiss, BlockSender, UnblockSender, Rotate, clock, Quiet
  <2> QED BY <1>4, <2>1, <2>2 DEF UserStep
<1>5. CASE Purge BY <1>5 DEF Purge, clock, Quiet
<1>6. CASE Crash
  <2>1. leads' = leads /\ day' = day /\ pc' = [h \in Handler |-> "idle"] BY <1>6 DEF Crash, tables
  <2> QED BY <2>1 DEF Quiet, PastCap
<1> QED BY <1>1, <1>2, <1>3, <1>4, <1>5, <1>6 DEF Next, Step

------------------------------------------------------------------------------
(* The cap.  RowsWithinCap is not inductive: it says nothing of the requests that  *)
(* have passed the check and will store.  Each of them counts as a lead of today.  *)

Room == Cardinality(Of(day)) + Cardinality(Past) < DailyCap + Cardinality(instance.handlers)

CapInv ==
  /\ IsFiniteSet(leads) /\ \A l \in leads : l.created =< day
  /\ \A n \in Day : Cardinality(Of(n)) < DailyCap + Cardinality(instance.handlers)
  /\ Past # {} => Room

LEMMA HandlerCount ==
  ASSUME Shape
  PROVE  /\ IsFiniteSet(instance.handlers) /\ Cardinality(instance.handlers) \in Nat \ {0}
         /\ IsFiniteSet(Past) /\ Cardinality(Past) \in Nat
         /\ Cardinality(Past) =< Cardinality(instance.handlers)
<1>1. IsFiniteSet(instance.handlers) /\ instance.handlers # {}
  BY InstanceParts, FewHandlers, FS_Subset
<1>2. Past \subseteq instance.handlers BY DEF Past
<1>3. Cardinality(instance.handlers) \in Nat /\ Cardinality(instance.handlers) # 0
  BY <1>1, FS_CardinalityType, FS_EmptySet
<1> QED BY <1>1, <1>2, <1>3, FS_Subset, FS_CardinalityType

LEMMA RowCount ==
  ASSUME IsFiniteSet(leads), NEW n
  PROVE  IsFiniteSet(Of(n)) /\ Cardinality(Of(n)) \in Nat
<1>1. Of(n) \subseteq leads BY DEF Of
<1> QED BY <1>1, FS_Subset, FS_CardinalityType

LEMMA QuietKeepsCap ==
  ASSUME Shape, CapInv, instance' = instance, Quiet
  PROVE  CapInv'
<1>1. \A n : Of(n)' = Of(n) BY DEF Of, Quiet
<1>2. Past' \subseteq Past BY InstanceParts DEF Past, Quiet
<1>3. Cardinality(Past') \in Nat /\ Cardinality(Past') =< Cardinality(Past)
  BY <1>2, HandlerCount, FS_Subset, FS_CardinalityType
<1>4. Past' # {} => Room'
  BY <1>1, <1>2, <1>3, HandlerCount, RowCount, Numbers DEF CapInv, Room, Quiet
<1> QED BY <1>1, <1>4 DEF CapInv, Quiet

LEMMA PassKeepsCap ==
  ASSUME Shape, CapInv, instance' = instance, NEW h \in instance.handlers, Passes(h), Shape'
  PROVE  CapInv'
<1>1. \A n : Of(n)' = Of(n) BY DEF Of, Passes
<1>2. Cardinality(Past)' =< Cardinality(instance.handlers) /\ Cardinality(Past)' \in Nat
  <2>1. Past' \subseteq instance.handlers BY DEF Past
  <2> QED BY <2>1, HandlerCount, FS_Subset, FS_CardinalityType
<1>3. Cardinality(Of(day)) < DailyCap
  <2>1. EmailsToday = Cardinality(Of(day)) BY DEF EmailsToday, Of
  <2> QED BY <2>1, RowCount, Numbers DEF Passes, CapInv
<1>4. Room'
  <2>1. Cardinality(Of(day))' = Cardinality(Of(day)) BY <1>1 DEF Passes
  <2> QED BY <1>2, <1>3, <2>1, HandlerCount, RowCount, Numbers DEF Room, CapInv
<1> QED BY <1>1, <1>4 DEF CapInv, Passes

LEMMA InsertKeepsCap ==
  ASSUME Shape, CapInv, instance' = instance, NEW h \in instance.handlers, Insert(h)
  PROVE  CapInv'
<1>0. /\ h \in Handler /\ h \in Past /\ pc \in [Handler -> PC] /\ day' = day
  BY InstanceParts DEF Insert, Past, PastCap, clock, Shape, HandlersShape
<1>1. Past' = Past \ {h}
  <2>1. \E step \in {"idle", "settling"} : pc' = [pc EXCEPT ![h] = step]
    BY DEF Insert, Landed, Goto, Reply, Finish
  <2> QED BY <1>0, <2>1, InstanceParts DEF Past, PastCap
<1>2. Cardinality(Past') = Cardinality(Past) - 1 /\ Past # {}
  BY <1>0, <1>1, HandlerCount, FS_RemoveElement
<1>3. \E row : (leads' = leads \/ leads' = leads \cup {row}) /\ row.created = day
  <2> DEFINE row == [text |-> job[h].text, day |-> job[h].day, created |-> day,
                     id |-> MailOf(job[h].mail).id, author |-> job[h].author,
                     flagged |-> job[h].flagged, rescued |-> Rescuing(h), mail |-> job[h].mail]
  <2>1. leads' = leads \/ leads' = leads \cup {row} BY DEF Insert
  <2>2. row.created = day OBVIOUS
  <2> HIDE DEF row
  <2> QED BY <2>1, <2>2
<1>4. PICK row : (leads' = leads \/ leads' = leads \cup {row}) /\ row.created = day BY <1>3
<1>5. IsFiniteSet(leads') /\ \A l \in leads' : l.created =< day'
  <2>1. IsFiniteSet(leads \cup {row}) BY FS_AddElement DEF CapInv
  <2>2. day =< day BY DEF Shape, TablesShape, Day
  <2> QED BY <1>0, <1>4, <2>1, <2>2 DEF CapInv
<1>6. Cardinality(Of(day))' =< Cardinality(Of(day)) + 1 /\ Cardinality(Of(day))' \in Nat
  <2>1. Of(day)' \in {Of(day), Of(day) \cup {row}} BY <1>0, <1>4 DEF Of
  <2>2. IsFiniteSet(Of(day)) /\ Cardinality(Of(day)) \in Nat BY RowCount DEF CapInv
  <2>3. /\ Cardinality(Of(day) \cup {row}) \in Nat
        /\ Cardinality(Of(day) \cup {row}) =< Cardinality(Of(day)) + 1
    <3>1. Cardinality(Of(day) \cup {row}) =
            IF row \in Of(day) THEN Cardinality(Of(day)) ELSE Cardinality(Of(day)) + 1
      BY <2>2, FS_AddElement
    <3> QED BY <2>2, <3>1
  <2>4. CASE Of(day)' = Of(day) BY <2>2, <2>4
  <2>5. CASE Of(day)' = Of(day) \cup {row} BY <2>3, <2>5
  <2> QED BY <2>1, <2>4, <2>5
<1>7. \A n : n # day => Of(n)' = Of(n) BY <1>4 DEF Of
<1>8. Room' BY <1>2, <1>6, HandlerCount, RowCount, Numbers DEF CapInv, Room
<1>9. ASSUME NEW n \in Day PROVE Cardinality(Of(n))' < DailyCap + Cardinality(instance.handlers)
  <2>1. CASE n = day
    <3>1. Cardinality(Of(day)) + Cardinality(Past) < DailyCap + Cardinality(instance.handlers)
      BY <1>2 DEF CapInv, Room
    <3>2. Cardinality(Past) >= 1
      <4>1. Cardinality(Past') \in Nat
        <5>1. Past' \subseteq Past BY <1>1
        <5> QED BY <5>1, HandlerCount, FS_Subset, FS_CardinalityType
      <4> QED BY <1>2, <4>1, HandlerCount
    <3>3. Cardinality(Of(n))' =< Cardinality(Of(day)) + 1 /\ Cardinality(Of(n))' \in Nat
      BY <1>0, <1>6, <2>1
    <3> QED BY <3>1, <3>2, <3>3, HandlerCount, RowCount, Numbers DEF CapInv
  <2>2. CASE n # day BY <2>2, <1>7 DEF CapInv
  <2> QED BY <2>1, <2>2
<1> QED BY <1>5, <1>8, <1>9 DEF CapInv

LEMMA MidnightKeepsCap ==
  ASSUME Shape, CapInv, instance' = instance, Midnight
  PROVE  CapInv'
<1>1. leads' = leads /\ pc' = pc /\ day' = day + 1 /\ day \in Nat
  BY DEF Midnight, tables, Shape, TablesShape, Day
<1>2. \A n : Of(n)' = Of(n) BY <1>1 DEF Of
<1>3. Past' = Past BY <1>1 DEF Past
<1>4. \A l \in leads : l.created =< day /\ l.created \in Int
  BY DEF CapInv, Shape, TablesShape, LeadRow, Day
<1>5. Of(day + 1) = {} BY <1>1, <1>4 DEF Of
<1>6. Cardinality(Of(day))' = 0
  <2>1. Of(day)' = Of(day + 1) BY <1>1 DEF Of
  <2> QED BY <1>5, <2>1, FS_EmptySet
<1>7. Past' # {} => Room'
  BY <1>3, <1>6, HandlerCount, RowCount, Numbers DEF CapInv, Room
<1>8. \A l \in leads' : l.created =< day' BY <1>1, <1>4
<1> QED BY <1>1, <1>2, <1>7, <1>8 DEF CapInv

\* overIngestCap, ingest.go:259, for every cap, retention, mail and number of requests served.
THEOREM CapIsNearlyKept == Spec => []RowsWithinCap
<1>1. Init => CapInv
  <2> SUFFICES ASSUME Init PROVE CapInv OBVIOUS
  <2>1. leads = {} /\ Past = {} BY InstanceParts, FirstShape DEF Init, Past, PastCap
  <2>2. \A n : Of(n) = {} BY <2>1 DEF Of
  <2>3. IsFiniteSet({}) /\ Cardinality({}) = 0 BY FS_EmptySet
  <2>4. \A n : Cardinality(Of(n)) < DailyCap + Cardinality(instance.handlers)
    <3>1. 0 < DailyCap + Cardinality(instance.handlers) BY FirstShape, HandlerCount, Numbers
    <3> QED BY <2>2, <2>3, <3>1
  <2>5. IsFiniteSet(leads) /\ \A l \in leads : l.created =< day BY <2>1, <2>3
  <2> QED BY <2>1, <2>4, <2>5 DEF CapInv
<1>2. Shape /\ CapInv /\ [Next]_vars => CapInv'
  <2> SUFFICES ASSUME Shape, CapInv, [Next]_vars PROVE CapInv' OBVIOUS
  <2>0. instance' = instance /\ Shape' BY StepShape
  <2>1. CASE UNCHANGED vars
    <3>1. Quiet BY <2>1 DEF vars, Quiet
    <3> QED BY <2>0, <3>1, QuietKeepsCap
  <2>2. CASE Next BY <2>0, <2>2, CapMoves, QuietKeepsCap, PassKeepsCap, InsertKeepsCap, MidnightKeepsCap
  <2> QED BY <2>1, <2>2
<1>3. CapInv => RowsWithinCap BY DEF CapInv, RowsWithinCap, Of
<1> QED BY <1>1, <1>2, <1>3, ShapeHolds, PTL DEF Spec

------------------------------------------------------------------------------
(* Delivered mail has a row.  What ingestLead hashes has to be known when a lead is *)
(* matched, so a handler that ingests holds the text of its mail's origin.          *)

Fine == address = "live" /\ faults \cap {"lookup", "record", "owner"} = {}

LeadSteps == {"prior", "capping", "dedup", "extracting"}
OwnText(step, j) == step \in LeadSteps /\ j.attempt # 0 => j.text = OriginOf(MailOf(j.mail), Own).text
TextsAreOwn == Fine => \A h \in Handler : OwnText(pc[h], job[h])

LEMMA FineWas ==
  ASSUME [Next]_vars, Fine'
  PROVE  Fine
<1>1. ASSUME address' = address, faults' = faults \/ \E kind : Fault(kind) PROVE Fine
  BY <1>1 DEF Fine, Fault
<1>2. CASE UNCHANGED vars BY <1>2 DEF vars, Fine
<1>3. ASSUME NEW d \in Delivery, WorkerStep(d) \/ \E k \in 1..instance.attempts : ArriveLimited(d, k)
      PROVE  Fine
  BY <1>1, <1>3 DEF WorkerStep, Post, AttemptFails, Fallback, FallbackFails, ArriveLimited, tables, clock
<1>4. ASSUME NEW h \in instance.handlers, HandlerStep(h) PROVE Fine
  <2>1. address' = address
    BY <1>4 DEF HandlerStep, Resolve, ResolveFails, Screen, RecordEvent, RecordFails, Prior, Cap, CapBurst,
                Dedup, Insert, IngestFails, RescueSettle, RescueSettleFails, tables
  <2>2. faults' = faults \/ \E kind : Fault(kind)
    BY <1>4 DEF HandlerStep, Resolve, ResolveFails, Screen, RecordEvent, RecordFails, Prior, Cap, CapBurst,
                Dedup, Insert, IngestFails, RescueSettle, RescueSettleFails, clock
  <2> QED BY <1>1, <2>1, <2>2
<1>5. ASSUME NEW h, NEW d, NEW k, Arrive(h, d, k) PROVE Fine
  BY <1>1, <1>5 DEF Arrive, tables, clock
<1>6. CASE UserStep
  <2>1. faults' = faults /\ (address' = address \/ address = "live")
    BY <1>6 DEF UserStep, Dismiss, RescueStart, BlockSender, UnblockSender, Rotate, tables, clock
  <2> QED BY <2>1 DEF Fine
<1>7. CASE Purge \/ Midnight \/ Crash BY <1>1, <1>7 DEF Purge, Midnight, Crash, tables, clock
<1> QED BY <1>2, <1>3, <1>4, <1>5, <1>6, <1>7 DEF Next, Step

LEMMA LeadsGrow == ASSUME Shape, [Next]_vars PROVE leads \subseteq leads'
<1>1. CASE UNCHANGED vars BY <1>1 DEF vars
<1>2. CASE Next BY <1>2, CapMoves DEF Quiet, Passes, Insert, Midnight, tables
<1> QED BY <1>1, <1>2

LEMMA KeptLasts ==
  ASSUME Shape, [Next]_vars, NEW d \in Delivery, Kept(d)
  PROVE  Kept(d)'
<1>1. RowsLast /\ leads \subseteq leads' /\ instance' = instance
  BY StepShape, InstanceParts, EventsLast, LeadsGrow DEF Shape, TablesShape
<1> QED BY <1>1 DEF Kept, RowsLast, MailOf

\* Only a reply that says so tells the worker its mail is delivered.
LEMMA ReplyTells ==
  ASSUME Shape, NEW h \in Handler, NEW class, NEW what, Reply(h, class, what),
         NEW d \in Delivery, worker'[d] = "delivered"
  PROVE  worker[d] = "delivered" \/ (class = "ok" /\ ~Rescuing(h) /\ d = job[h].mail)
<1>1. CASE Rescuing(h) BY <1>1 DEF Reply, mailbox
<1>2. CASE ~Rescuing(h)
  <2>1. Hears(job[h].mail, job[h].attempt, class, what) BY <1>2 DEF Reply
  <2> QED BY <1>2, <2>1 DEF Hears, TryAgain, Sent, mailbox, Shape
<1> QED BY <1>1, <1>2

LEMMA LandedTells ==
  ASSUME Shape, NEW h \in Handler, NEW what, Landed(h, what), NEW d \in Delivery, worker'[d] = "delivered"
  PROVE  worker[d] = "delivered" \/ (~Rescuing(h) /\ d = job[h].mail)
<1>1. CASE Rescuing(h) BY <1>1 DEF Landed, mailbox
<1>2. CASE ~Rescuing(h) BY <1>2, ReplyTells DEF Landed
<1> QED BY <1>1, <1>2

LEMMA HandlerDelivers ==
  ASSUME Shape, TextsAreOwn, Fine', [Next]_vars, NEW h \in Handler, HandlerStep(h),
         NEW d \in Delivery, worker'[d] = "delivered", worker[d] # "delivered"
  PROVE  Kept(d)'
<1>0. /\ Fine /\ instance' = instance /\ AtStep(pc[h], job[h], Len(events))
      /\ \A e \in Delivery : MailOf(e)' = MailOf(e)
  BY FineWas, StepShape DEF Shape, HandlersShape, MailOf
<1>1. CASE Resolve(h)
  <2>1. address = "live" BY <1>0 DEF Fine
  <2> QED BY <1>1, <2>1 DEF Resolve, mailbox
<1>2. CASE ResolveFails(h) \/ RecordFails(h)
  BY <1>2 DEF ResolveFails, RecordFails, Fault, Fine
<1>3. CASE RecordEvent(h)
  <2> DEFINE row == NewEvent(job[h].mail, job[h].why, EventBody(MailOf(job[h].mail), job[h].why))
  <2>1. job[h].mail = d BY <1>3, ReplyTells DEF RecordEvent, Recorded
  <2>2. events' = Append(events, row) BY <1>3 DEF RecordEvent
  <2>3. row.mail = d BY <2>1 DEF NewEvent
  <2> HIDE DEF row
  <2>4. Len(events) + 1 \in DOMAIN events' /\ events'[Len(events) + 1] = row
    BY <2>2 DEF Shape, TablesShape
  <2> QED BY <2>3, <2>4 DEF Kept
<1>4. CASE Prior(h)
  <2>1. Reply(h, "ok", "duplicate") BY <1>4 DEF Prior, mailbox
  <2>2. job[h].mail = d BY <2>1, ReplyTells
  <2>3. HasId(MailOf(d).id) \/ FindByHash(Trim(MailOf(d).text), job[h].day) # {}
    BY <1>4, <2>2 DEF Prior, mailbox
  <2>4. Kept(d) BY <2>3 DEF HasId, FindByHash, Kept
  <2> QED BY <2>4, KeptLasts
<1>5. CASE Dedup(h) \/ (Insert(h) /\ FindByHash(job[h].text, job[h].day) # {})
  <2>2. pc[h] \in LeadSteps BY <1>5 DEF Dedup, Insert, LeadSteps
  <2>3. \E what : Landed(h, what) BY <1>5 DEF Dedup, Insert, mailbox
  <2>4. job[h].mail = d /\ job[h].attempt # 0 BY <2>3, LandedTells DEF Rescuing
  <2>5. job[h].text = OriginOf(MailOf(d), Own).text BY <1>0, <2>2, <2>4 DEF TextsAreOwn, OwnText
  <2>6. HasId(MailOf(d).id) \/ FindByHash(job[h].text, job[h].day) # {}
    BY <1>5, <2>4 DEF Dedup, Insert, mailbox
  <2>7. Kept(d) BY <2>5, <2>6 DEF HasId, FindByHash, Kept
  <2> QED BY <2>7, KeptLasts
<1>6. CASE Insert(h) /\ FindByHash(job[h].text, job[h].day) = {}
  <2>1. \E row : leads' = leads \cup {row} /\ row.mail = job[h].mail
    <3> DEFINE row == [text |-> job[h].text, day |-> job[h].day, created |-> day,
                       id |-> MailOf(job[h].mail).id, author |-> job[h].author,
                       flagged |-> job[h].flagged, rescued |-> Rescuing(h), mail |-> job[h].mail]
    <3>1. leads' = leads \cup {row} BY <1>6 DEF Insert
    <3>2. row.mail = job[h].mail OBVIOUS
    <3> HIDE DEF row
    <3> QED BY <3>1, <3>2
  <2>2. job[h].mail = d BY <1>6, LandedTells DEF Insert
  <2> QED BY <2>1, <2>2 DEF Kept
<1>7. CASE IngestFails(h) BY <1>7, ReplyTells DEF IngestFails
<1>8. CASE Screen(h) \/ Cap(h) \/ CapBurst(h) \/ RescueSettle(h) \/ RescueSettleFails(h)
  BY <1>8 DEF Screen, Cap, CapBurst, RescueSettle, RescueSettleFails, mailbox
<1> QED BY <1>1, <1>2, <1>3, <1>4, <1>5, <1>6, <1>7, <1>8 DEF HandlerStep

\* One handler moves on, with a text that fits.
LEMMA OneMoves ==
  ASSUME Shape, TextsAreOwn, Fine, instance' = instance, NEW h \in Handler, NEW step, NEW j,
         pc' = [pc EXCEPT ![h] = step], job' = [job EXCEPT ![h] = j], OwnText(step, j)
  PROVE  TextsAreOwn'
<1>1. \A d : MailOf(d)' = MailOf(d) BY DEF MailOf
<1>2. ASSUME NEW g \in Handler PROVE OwnText(pc'[g], job'[g])
  <2>1. CASE g = h BY <2>1 DEF Shape, HandlersShape
  <2>2. CASE g # h BY <2>2 DEF Shape, HandlersShape, TextsAreOwn
  <2> QED BY <2>1, <2>2
<1> QED BY <1>1, <1>2 DEF TextsAreOwn, OwnText

LEMMA HandlerTexts ==
  ASSUME Shape, TextsAreOwn, Fine, Fine', instance' = instance, NEW h \in Handler, HandlerStep(h)
  PROVE  TextsAreOwn'
<1>0. /\ OwnText(pc[h], job[h]) /\ job \in [Handler -> JobRow \cup {NoJob}]
      /\ AtStep(pc[h], job[h], Len(events))
  BY DEF TextsAreOwn, Shape, HandlersShape
<1>1. ASSUME \E class, what : Reply(h, class, what) PROVE TextsAreOwn'
  <2>1. pc' = [pc EXCEPT ![h] = "idle"] /\ job' = [job EXCEPT ![h] = NoJob] BY <1>1 DEF Reply, Finish
  <2>2. OwnText("idle", NoJob) BY DEF OwnText, LeadSteps
  <2> QED BY <2>1, <2>2, OneMoves
<1>2. ASSUME NEW step, Goto(h, step), pc[h] \in LeadSteps \/ step \notin LeadSteps PROVE TextsAreOwn'
  <2>1. pc' = [pc EXCEPT ![h] = step] /\ job' = [job EXCEPT ![h] = job[h]] BY <1>0, <1>2 DEF Goto
  <2>2. OwnText(step, job[h]) BY <1>0, <1>2 DEF OwnText
  <2> QED BY <2>1, <2>2, OneMoves
<1>3. ASSUME \E what : Landed(h, what) PROVE TextsAreOwn'
  <2>1. "settling" \notin LeadSteps BY DEF LeadSteps
  <2> QED BY <1>1, <1>2, <1>3, <2>1 DEF Landed
<1>4. ASSUME NEW why, Filter(h, why) PROVE TextsAreOwn'
  <2> DEFINE j == [job[h] EXCEPT !.why = why]
  <2>1. pc' = [pc EXCEPT ![h] = "recording"] /\ job' = [job EXCEPT ![h] = j] BY <1>4 DEF Filter
  <2>2. OwnText("recording", j) BY DEF OwnText, LeadSteps
  <2> HIDE DEF j
  <2> QED BY <2>1, <2>2, OneMoves
<1>5. ASSUME Accept(h, MailOf(job[h].mail), Own), pc[h] # "idle" PROVE TextsAreOwn'
  <2> DEFINE origin == OriginOf(MailOf(job[h].mail), Own)
             guess == origin.confidence # "high"
             j == [job[h] EXCEPT !.text = origin.text, !.author = origin.sender, !.flagged = guess]
  <2>1. pc' = [pc EXCEPT ![h] = "prior"] /\ job' = [job EXCEPT ![h] = j] BY <1>5 DEF Accept
  <2>2. job[h] \in JobRow BY <1>0, <1>5 DEF AtStep
  <2>3. j.text = origin.text /\ j.mail = job[h].mail
    <3> HIDE DEF origin, guess
    <3> QED BY <2>2 DEF JobRow
  <2>4. OwnText("prior", j)
    <3> HIDE DEF j
    <3> QED BY <2>3 DEF OwnText
  <2> HIDE DEF j
  <2> QED BY <2>1, <2>4, OneMoves
<1>6. CASE Resolve(h)
  <2>1. "screening" \notin LeadSteps BY DEF LeadSteps
  <2> QED BY <1>1, <1>2, <1>6, <2>1 DEF Resolve
<1>7. CASE ResolveFails(h) \/ RecordEvent(h) \/ RecordFails(h) \/ IngestFails(h)
  BY <1>1, <1>7 DEF ResolveFails, RecordEvent, RecordFails, Recorded, IngestFails
<1>8. CASE Screen(h)
  <2>1. ~Fault("owner") BY DEF Fault, Fine
  <2> QED BY <1>4, <1>5, <1>8, <2>1 DEF Screen
<1>9. CASE Prior(h) \/ Cap(h) \/ CapBurst(h) \/ Dedup(h)
  <2>1. pc[h] \in LeadSteps BY <1>9 DEF Prior, Cap, CapBurst, Dedup, LeadSteps
  <2>2. CASE OverCap(h)
    <3>1. CASE Finish(h)
      <4>1. pc' = [pc EXCEPT ![h] = "idle"] /\ job' = [job EXCEPT ![h] = NoJob] BY <3>1 DEF Finish
      <4>2. OwnText("idle", NoJob) BY DEF OwnText, LeadSteps
      <4> QED BY <4>1, <4>2, OneMoves
    <3> QED BY <1>4, <2>2, <3>1 DEF OverCap
  <2>3. \/ OverCap(h) \/ \E step : Goto(h, step)
        \/ (\E what : Landed(h, what)) \/ \E class, what : Reply(h, class, what)
    BY <1>9 DEF Prior, Cap, CapBurst, Dedup
  <2> QED BY <1>1, <1>2, <1>3, <2>1, <2>2, <2>3
<1>10. CASE Insert(h) BY <1>3, <1>10 DEF Insert
<1>11. CASE RescueSettle(h) \/ RescueSettleFails(h)
  <2>1. pc' = [pc EXCEPT ![h] = "idle"] /\ job' = [job EXCEPT ![h] = NoJob]
    BY <1>11 DEF RescueSettle, RescueSettleFails, Finish
  <2>2. OwnText("idle", NoJob) BY DEF OwnText, LeadSteps
  <2> QED BY <2>1, <2>2, OneMoves
<1> QED BY <1>6, <1>7, <1>8, <1>9, <1>10, <1>11 DEF HandlerStep

LEMMA StepTexts ==
  ASSUME Shape, TextsAreOwn, [Next]_vars
  PROVE  TextsAreOwn'
<1> SUFFICES ASSUME Fine' PROVE TextsAreOwn' BY DEF TextsAreOwn
<1>0. Fine /\ instance' = instance BY FineWas, StepShape
<1>1. ASSUME pc' = pc, job' = job PROVE TextsAreOwn'
  BY <1>0, <1>1 DEF TextsAreOwn, OwnText, MailOf
<1>2. CASE UNCHANGED vars BY <1>1, <1>2 DEF vars
<1>3. CASE \E d \in Delivery : WorkerStep(d) \/ \E k \in 1..instance.attempts : ArriveLimited(d, k)
  BY <1>1, <1>3 DEF WorkerStep, Post, AttemptFails, Fallback, FallbackFails, ArriveLimited
<1>4. CASE \E h \in instance.handlers : HandlerStep(h) BY <1>0, <1>4, InstanceParts, HandlerTexts
<1>5. ASSUME NEW h \in Handler, NEW d \in Delivery, NEW k \in 1..instance.attempts, Arrive(h, d, k) PROVE TextsAreOwn'
  <2>1. \E j : pc' = [pc EXCEPT ![h] = "resolving"] /\ job' = [job EXCEPT ![h] = j] BY <1>5 DEF Arrive
  <2>2. \A j : OwnText("resolving", j) BY DEF OwnText, LeadSteps
  <2> QED BY <1>0, <2>1, <2>2, OneMoves
<1>6. ASSUME NEW h \in Handler, NEW e \in DOMAIN events, RescueStart(h, e) PROVE TextsAreOwn'
  <2>1. \E j : /\ pc' = [pc EXCEPT ![h] = "capping"] /\ job' = [job EXCEPT ![h] = j] /\ j.attempt = 0
    <3> DEFINE j == [mail |-> events[e].mail, attempt |-> 0, event |-> e, text |-> events[e].body,
                     author |-> MailOf(events[e].mail).from, flagged |-> FALSE, day |-> day, why |-> "none"]
    <3>1. pc' = [pc EXCEPT ![h] = "capping"] /\ job' = [job EXCEPT ![h] = j] BY <1>6 DEF RescueStart
    <3>2. j.attempt = 0 OBVIOUS
    <3> HIDE DEF j
    <3> QED BY <3>1, <3>2
  <2>2. \A j : j.attempt = 0 => OwnText("capping", j) BY DEF OwnText
  <2> QED BY <1>0, <2>1, <2>2, OneMoves
<1>7. CASE UserStep
  BY <1>1, <1>6, <1>7, InstanceParts DEF UserStep, Dismiss, BlockSender, UnblockSender, Rotate
<1>8. CASE Purge \/ Midnight BY <1>1, <1>8 DEF Purge, Midnight
<1>9. CASE Crash BY <1>9 DEF Crash, TextsAreOwn, OwnText, LeadSteps
<1> QED BY <1>2, <1>3, <1>4, <1>5, <1>7, <1>8, <1>9, InstanceParts DEF Next, Step

\* README "Never silently lost", for every mail, account, number of attempts, deliveries and
\* requests: mail the worker was told is delivered is a lead or an event.
THEOREM DeliveredMailIsKept == Spec => []DeliveredIsKept
<1>1. Init => TextsAreOwn /\ DeliveredIsKept
  BY DEF Init, TextsAreOwn, OwnText, LeadSteps, DeliveredIsKept
<1>2. Shape /\ TextsAreOwn /\ DeliveredIsKept /\ [Next]_vars => DeliveredIsKept'
  <2> SUFFICES ASSUME Shape, TextsAreOwn, DeliveredIsKept, [Next]_vars, Fine',
                      NEW d \in Delivery, worker'[d] = "delivered"
               PROVE  Kept(d)'
    BY DEF DeliveredIsKept, Fine
  <2>1. CASE worker[d] = "delivered"
    <3>1. Kept(d) BY <2>1, FineWas DEF DeliveredIsKept, Fine
    <3> QED BY <3>1, KeptLasts
  <2>2. CASE worker[d] # "delivered"
    <3>1. worker \in [Delivery -> Worker] BY DEF Shape
    <3>2. CASE \E h \in instance.handlers : HandlerStep(h)
      BY <2>2, <3>2, InstanceParts, HandlerDelivers
    <3>3. ASSUME NEW g \in Delivery, WorkerStep(g) \/ \E k \in 1..instance.attempts : ArriveLimited(g, k)
          PROVE  FALSE
      BY <2>2, <3>1, <3>3 DEF WorkerStep, Post, AttemptFails, Fallback, FallbackFails, ArriveLimited, TryAgain, Sent
    <3>4. ASSUME worker' = worker PROVE FALSE BY <2>2, <3>4
    <3>5. ~UserStep
      BY <3>4 DEF UserStep, Dismiss, RescueStart, BlockSender, UnblockSender, Rotate, mailbox
    <3>6. ~(\/ \E h \in instance.handlers, e \in Delivery, k \in 1..instance.attempts : Arrive(h, e, k)
            \/ Purge \/ Midnight \/ Crash \/ UNCHANGED vars)
      BY <3>4 DEF Arrive, Purge, Midnight, Crash, vars, mailbox
    <3> QED BY <3>2, <3>3, <3>5, <3>6 DEF Next, Step
  <2> QED BY <2>1, <2>2
<1> QED BY <1>1, <1>2, StepTexts, ShapeHolds, PTL DEF Spec

------------------------------------------------------------------------------
(* Whose words reach the model, and what an event is shown as.  A row is as the    *)
(* rules made it: what a handler found out when it screened its mail lasts, and a    *)
(* rescue's handler has the event of the mail.                                       *)

Real(d) == MailOf(d) # NoMail /\ worker[d] # "new"
Accepted(m) == Verdict(m, {}) = "accept"
OfItsOrigin(r, m) ==
  LET origin == OriginOf(m, Own) IN
  r.text = origin.text /\ r.author = origin.sender /\ r.flagged = (origin.confidence # "high")
AsRead(r, m) == Accepted(m) /\ ("owner" \notin faults => OfItsOrigin(r, m))
HasEvent(d) == \E e \in DOMAIN events : events[e].mail = d

Allowed == {s \in Pattern : ~IsVerificationSender(s)}
Reasoned(why, m) ==
  IF why = "rate_limited" THEN Accepted(m)
  ELSE \E patterns \in SUBSET Allowed : why = Verdict(m, patterns)

\* What a handler knows of its mail at a step.
Knows(step, j) ==
  step # "idle" =>
    /\ Real(j.mail)
    /\ step \in {"resolving", "screening"} => j.attempt # 0
    /\ step \in LeadSteps => IF j.attempt = 0 THEN HasEvent(j.mail) ELSE AsRead(j, MailOf(j.mail))
    /\ step = "recording" => Reasoned(j.why, MailOf(j.mail))

PostedIsReal  == /\ \A d \in Delivery : worker[d] # "new" => Real(d)
                 /\ \A d \in Delivery : \A k \in 1..instance.attempts : <<d, k>> \in net => Real(d)
HandlersKnow  == \A h \in Handler : Knows(pc[h], job[h])
BlocksAllowed == blocked \subseteq Allowed
LeadsAreRead  == \A l \in leads : Real(l.mail) /\ IF l.rescued THEN HasEvent(l.mail) ELSE AsRead(l, MailOf(l.mail))
EventsReasoned == \A e \in DOMAIN events : Real(events[e].mail) /\ Reasoned(events[e].reason, MailOf(events[e].mail))
Known == PostedIsReal /\ HandlersKnow /\ BlocksAllowed /\ LeadsAreRead /\ EventsReasoned

LEMMA OwnerWas ==
  ASSUME [Next]_vars, "owner" \notin faults'
  PROVE  "owner" \notin faults
<1>1. ASSUME faults' = faults \/ \E kind : Fault(kind) PROVE "owner" \notin faults
  BY <1>1 DEF Fault
<1>2. CASE UNCHANGED vars BY <1>2 DEF vars
<1>3. ASSUME NEW d \in Delivery, WorkerStep(d) \/ \E k \in 1..instance.attempts : ArriveLimited(d, k)
      PROVE  "owner" \notin faults
  BY <1>1, <1>3 DEF WorkerStep, Post, AttemptFails, Fallback, FallbackFails, ArriveLimited, clock
<1>4. ASSUME NEW h \in instance.handlers, HandlerStep(h) PROVE "owner" \notin faults
  BY <1>1, <1>4 DEF HandlerStep, Resolve, ResolveFails, Screen, RecordEvent, RecordFails, Prior, Cap, CapBurst,
                Dedup, Insert, IngestFails, RescueSettle, RescueSettleFails, clock
<1>5. ASSUME NEW h, NEW d, NEW k, Arrive(h, d, k) PROVE "owner" \notin faults
  BY <1>1, <1>5 DEF Arrive, clock
<1>6. CASE UserStep
  BY <1>1, <1>6 DEF UserStep, Dismiss, RescueStart, BlockSender, UnblockSender, Rotate, clock
<1>7. CASE Purge \/ Midnight \/ Crash BY <1>1, <1>7 DEF Purge, Midnight, Crash, clock
<1> QED BY <1>2, <1>3, <1>4, <1>5, <1>6, <1>7 DEF Next, Step

\* Nothing unsends a mail.
LEMMA HeardStaysSent ==
  ASSUME Shape, NEW h \in Handler, NEW class, NEW what, Reply(h, class, what),
         NEW d \in Delivery, worker[d] # "new"
  PROVE  worker'[d] # "new"
<1>1. CASE UNCHANGED mailbox BY <1>1 DEF mailbox
<1>2. CASE Hears(job[h].mail, job[h].attempt, class, what)
  BY <1>2 DEF Hears, TryAgain, Sent, mailbox, Shape
<1> QED BY <1>1, <1>2 DEF Reply

LEMMA SentStaysSent ==
  ASSUME Shape, [Next]_vars, NEW d \in Delivery, worker[d] # "new"
  PROVE  worker'[d] # "new"
<1>1. ASSUME worker' = worker PROVE worker'[d] # "new" BY <1>1
<1>2. ASSUME NEW e \in Delivery, WorkerStep(e) \/ \E k \in 1..instance.attempts : ArriveLimited(e, k)
      PROVE  worker'[d] # "new"
  <2>1. worker \in [Delivery -> Worker] BY DEF Shape
  <2>2. CASE Post(e) BY <2>1, <2>2 DEF Post
  <2>3. CASE AttemptFails(e) BY <2>1, <2>3 DEF AttemptFails, TryAgain, Sent
  <2>4. CASE Fallback(e) \/ FallbackFails(e) BY <2>1, <2>4 DEF Fallback, FallbackFails
  <2>5. CASE \E k \in 1..instance.attempts : ArriveLimited(e, k) BY <2>1, <2>5 DEF ArriveLimited
  <2> QED BY <1>2, <2>2, <2>3, <2>4, <2>5 DEF WorkerStep
<1>3. ASSUME NEW h \in Handler, HandlerStep(h) PROVE worker'[d] # "new"
  <2>1. UNCHANGED mailbox \/ \E class, what : Reply(h, class, what)
    BY <1>3 DEF HandlerStep, Resolve, ResolveFails, Screen, RecordEvent, RecordFails, Recorded, Prior, Cap,
                CapBurst, Dedup, Insert, Landed, IngestFails, RescueSettle, RescueSettleFails
  <2> QED BY <1>1, <2>1, HeardStaysSent DEF mailbox
<1>4. CASE UserStep
  BY <1>1, <1>4 DEF UserStep, Dismiss, RescueStart, BlockSender, UnblockSender, Rotate, mailbox
<1>5. CASE \/ \E h \in instance.handlers, e \in Delivery, k \in 1..instance.attempts : Arrive(h, e, k)
           \/ Purge \/ Midnight \/ Crash \/ UNCHANGED vars
  BY <1>1, <1>5 DEF Arrive, Purge, Midnight, Crash, vars, mailbox
<1> QED BY <1>2, <1>3, <1>4, <1>5, InstanceParts DEF Next, Step

\* No step takes from anybody what he knows.
LEMMA KnowledgeLasts ==
  ASSUME Shape, [Next]_vars
  PROVE  /\ \A d \in Delivery : (Real(d) => Real(d)') /\ MailOf(d)' = MailOf(d)
         /\ \A d : HasEvent(d) => HasEvent(d)'
         /\ \A r, m : AsRead(r, m) => AsRead(r, m)'
         /\ \A step : \A j \in JobRow : Knows(step, j) => Knows(step, j)'
<1>1. RowsLast /\ instance' = instance BY StepShape, InstanceParts, EventsLast DEF Shape, TablesShape
<1>2. \A d \in Delivery : (Real(d) => Real(d)') /\ MailOf(d)' = MailOf(d)
  BY <1>1, SentStaysSent DEF Real, MailOf
<1>3. \A d : HasEvent(d) => HasEvent(d)' BY <1>1 DEF RowsLast, HasEvent
<1>4. \A r, m : AsRead(r, m) => AsRead(r, m)' BY OwnerWas DEF AsRead
<1>5. ASSUME NEW step, NEW j \in JobRow, Knows(step, j) PROVE Knows(step, j)'
  <2>1. j.mail \in Delivery BY DEF JobRow
  <2> QED BY <1>2, <1>3, <1>4, <1>5, <2>1 DEF Knows
<1> QED BY <1>2, <1>3, <1>4, <1>5

LEMMA FirstKnown == Init => Known
BY DEF Init, Known, PostedIsReal, HandlersKnow, Knows, BlocksAllowed, LeadsAreRead, EventsReasoned

\* A handler moves on, with a job whose mail it knows.
LEMMA OneLearns ==
  ASSUME Shape, HandlersKnow, [Next]_vars, NEW h \in Handler, NEW step, NEW j,
         pc' = [pc EXCEPT ![h] = step], job' = [job EXCEPT ![h] = j], Knows(step, j)'
  PROVE  HandlersKnow'
<1>1. ASSUME NEW g \in Handler PROVE Knows(pc[g], job[g])' 
  <2>1. CASE g = h
    <3>1. pc'[g] = step /\ job'[g] = j BY <2>1 DEF Shape, HandlersShape
    <3> QED BY <3>1 DEF Knows, AsRead, HasEvent, Real, MailOf
  <2>2. CASE g # h
    <3>1. pc'[g] = pc[g] /\ job'[g] = job[g] BY <2>2 DEF Shape, HandlersShape
    <3>2. Knows(pc[g], job[g]) /\ AtStep(pc[g], job[g], Len(events)) BY DEF HandlersKnow, Shape, HandlersShape
    <3>3. PICK s, k : s = pc[g] /\ k = job[g] OBVIOUS
    <3>4. s # "idle" => k \in JobRow BY <3>2, <3>3 DEF AtStep
    <3>5. Knows(s, k) BY <3>2, <3>3
    <3>6. Knows(s, k)' BY <3>4, <3>5, KnowledgeLasts DEF Knows
    <3> QED BY <3>1, <3>3, <3>6 DEF Knows, AsRead, HasEvent, Real, MailOf
  <2> QED BY <2>1, <2>2
<1> QED BY <1>1 DEF HandlersKnow

\* Only what was given to the worker is posted.
LEMMA HearsReal ==
  ASSUME Shape, PostedIsReal, instance' = instance, NEW d \in Delivery, NEW k, NEW class, NEW what,
         Hears(d, k, class, what)
  PROVE  PostedIsReal'
<1>1. \A e \in Delivery : Real(e) /\ worker'[e] # "new" => Real(e)' BY DEF Real, MailOf
<1>2. CASE UNCHANGED mailbox BY <1>1, <1>2 DEF mailbox, PostedIsReal, Real
<1>3. CASE ~UNCHANGED mailbox
  <2>1. worker[d] = "posting" /\ Real(d) BY <1>3 DEF Hears, PostedIsReal
  <2>2. \A e \in Delivery : /\ worker'[e] # "new" => Real(e)
                            /\ worker[e] # "new" => worker'[e] # "new"
    BY <1>3, <2>1 DEF Hears, TryAgain, Sent, PostedIsReal, Shape
  <2>3. \A e \in Delivery : \A n : <<e, n>> \in net' => <<e, n>> \in net \/ e = d
    BY <1>3 DEF Hears, TryAgain, Sent
  <2>4. \A e \in Delivery : Real(e) => Real(e)' BY <1>1, <2>2 DEF Real
  <2>5. \A e \in Delivery : \A n \in 1..instance.attempts : <<e, n>> \in net' => Real(e)
    BY <2>1, <2>3 DEF PostedIsReal
  <2> QED BY <2>2, <2>4, <2>5 DEF PostedIsReal
<1> QED BY <1>2, <1>3

LEMMA ReplyReal ==
  ASSUME Shape, PostedIsReal, instance' = instance, NEW h \in Handler, pc[h] # "idle",
         NEW class, NEW what, Reply(h, class, what)
  PROVE  PostedIsReal'
<1>1. job[h].mail \in Delivery BY DEF Shape, HandlersShape, AtStep, JobRow
<1>2. CASE UNCHANGED mailbox BY <1>2 DEF mailbox, PostedIsReal, Real, MailOf
<1>3. CASE Hears(job[h].mail, job[h].attempt, class, what) BY <1>1, <1>3, HearsReal
<1> QED BY <1>2, <1>3 DEF Reply

LEMMA PostedStep ==
  ASSUME Shape, PostedIsReal, [Next]_vars
  PROVE  PostedIsReal'
<1>0. instance' = instance /\ \A d \in Delivery : Real(d) => Real(d)'
  BY StepShape, KnowledgeLasts
<1>1. ASSUME worker' = worker, net' \subseteq net PROVE PostedIsReal'
  BY <1>0, <1>1 DEF PostedIsReal
<1>2. CASE UNCHANGED vars BY <1>1, <1>2 DEF vars
<1>3. ASSUME NEW d \in Delivery, WorkerStep(d) \/ \E k \in 1..instance.attempts : ArriveLimited(d, k)
      PROVE  PostedIsReal'
  <2>1. Real(d)'
    <3>1. CASE Post(d) BY <1>0, <3>1 DEF Post, Real, MailOf, Shape
    <3>2. CASE ~Post(d)
      <4>1. Real(d) BY <1>3, <3>2 DEF WorkerStep, AttemptFails, Fallback, FallbackFails, ArriveLimited, PostedIsReal
      <4> QED BY <1>0, <4>1
    <3> QED BY <3>1, <3>2
  <2>2. \A e \in Delivery : e # d => worker'[e] = worker[e]
    BY <1>3 DEF WorkerStep, Post, AttemptFails, Fallback, FallbackFails, ArriveLimited, TryAgain, Sent, Shape
  <2>3. \A e \in Delivery : \A n : <<e, n>> \in net' => <<e, n>> \in net \/ e = d
    <3>1. \E n : net' \subseteq net \cup {<<d, n>>}
      <4>1. CASE Post(d) BY <4>1 DEF Post, Sent
      <4>2. CASE AttemptFails(d) BY <4>2 DEF AttemptFails, TryAgain, Sent
      <4>3. CASE Fallback(d) \/ FallbackFails(d) BY <4>3 DEF Fallback, FallbackFails
      <4>4. CASE \E k \in 1..instance.attempts : ArriveLimited(d, k) BY <4>4 DEF ArriveLimited
      <4> QED BY <1>3, <4>1, <4>2, <4>3, <4>4 DEF WorkerStep
    <3> QED BY <3>1
  <2> QED BY <1>0, <2>1, <2>2, <2>3 DEF PostedIsReal
<1>4. ASSUME NEW h \in Handler, HandlerStep(h) PROVE PostedIsReal'
  <2>1. ASSUME pc[h] # "idle", \E class, what : Reply(h, class, what) PROVE PostedIsReal'
    BY <1>0, <2>1, ReplyReal
  <2>2. ASSUME UNCHANGED mailbox PROVE PostedIsReal' BY <1>1, <2>2 DEF mailbox
  <2>3. pc[h] # "idle" BY <1>4 DEF HandlerStep, Resolve, ResolveFails, Screen, RecordEvent, RecordFails, Prior,
                             Cap, CapBurst, Dedup, Insert, IngestFails, RescueSettle, RescueSettleFails, Ingesting
  <2>4. \/ UNCHANGED mailbox
        \/ \E class, what : Reply(h, class, what)
    BY <1>4 DEF HandlerStep, Resolve, ResolveFails, Screen, RecordEvent, RecordFails, Recorded, Prior, Cap,
                CapBurst, Dedup, Insert, Landed, IngestFails, RescueSettle, RescueSettleFails
  <2> QED BY <2>1, <2>2, <2>3, <2>4
<1>5. ASSUME NEW h, NEW d, NEW k, Arrive(h, d, k) PROVE PostedIsReal'
  BY <1>1, <1>5 DEF Arrive
<1>6. CASE UserStep
  BY <1>1, <1>6 DEF UserStep, Dismiss, RescueStart, BlockSender, UnblockSender, Rotate, mailbox
<1>7. CASE Purge \/ Midnight \/ Crash BY <1>1, <1>7 DEF Purge, Midnight, Crash, mailbox
<1> QED BY <1>2, <1>3, <1>4, <1>5, <1>6, <1>7, InstanceParts DEF Next, Step

\* quarantine.go:205: the account cannot block what the confirmations are from.
LEMMA BlocksStep ==
  ASSUME BlocksAllowed, [Next]_vars
  PROVE  BlocksAllowed'
<1>1. CASE blocked' = blocked BY <1>1 DEF BlocksAllowed
<1>2. CASE \E s \in Pattern : BlockSender(s) \/ UnblockSender(s)
  BY <1>2 DEF BlockSender, UnblockSender, BlocksAllowed, Allowed
<1>3. CASE UNCHANGED vars BY <1>1, <1>3 DEF vars
<1>4. ASSUME NEW d \in Delivery, WorkerStep(d) \/ \E k \in 1..instance.attempts : ArriveLimited(d, k)
      PROVE  blocked' = blocked
  BY <1>4 DEF WorkerStep, Post, AttemptFails, Fallback, FallbackFails, ArriveLimited, tables
<1>5. ASSUME NEW h, HandlerStep(h) PROVE blocked' = blocked
  BY <1>5 DEF HandlerStep, Resolve, ResolveFails, Screen, RecordEvent, RecordFails, Prior, Cap,
              CapBurst, Dedup, Insert, IngestFails, RescueSettle, RescueSettleFails, tables
<1>6. ASSUME NEW h, NEW d, NEW k, Arrive(h, d, k) PROVE blocked' = blocked BY <1>6 DEF Arrive, tables
<1>7. CASE UserStep BY <1>1, <1>2, <1>7 DEF UserStep, Dismiss, RescueStart, Rotate, tables
<1>8. CASE Purge \/ Midnight \/ Crash BY <1>1, <1>8 DEF Purge, Midnight, Crash, tables
<1> QED BY <1>1, <1>3, <1>4, <1>5, <1>6, <1>7, <1>8 DEF Next, Step

LEMMA AcceptedOpenly ==
  ASSUME NEW m, NEW patterns, Verdict(m, patterns) = "accept"
  PROVE  Accepted(m)
BY DEF Verdict, Accepted, IsBlockedSender

LEMMA HandlerLearns ==
  ASSUME Shape, Known, [Next]_vars, NEW h \in Handler, HandlerStep(h)
  PROVE  HandlersKnow'
<1>0. PICK s, k : s = pc[h] /\ k = job[h] OBVIOUS
<1>1. /\ Knows(s, k) /\ AtStep(s, k, Len(events)) /\ HandlersKnow
      /\ job \in [Handler -> JobRow \cup {NoJob}]
  BY <1>0 DEF Known, HandlersKnow, Shape, HandlersShape
<1>2. ASSUME \/ \E class, what : Reply(h, class, what)
             \/ Finish(h)
      PROVE  HandlersKnow'
  <2>1. pc' = [pc EXCEPT ![h] = "idle"] /\ job' = [job EXCEPT ![h] = NoJob] BY <1>2 DEF Reply, Finish
  <2>2. Knows("idle", NoJob)' BY DEF Knows
  <2> QED BY <1>1, <2>1, <2>2, OneLearns
<1>3. ASSUME NEW step, Goto(h, step), s # "idle", step \notin {"resolving", "screening", "recording"} \/ s = "resolving",
             step # "recording", s \in LeadSteps \/ step \notin LeadSteps
      PROVE  HandlersKnow'
  <2>1. pc' = [pc EXCEPT ![h] = step] /\ job' = [job EXCEPT ![h] = k] BY <1>0, <1>1, <1>3 DEF Goto
  <2>2. Knows(step, k) /\ k \in JobRow BY <1>1, <1>3 DEF Knows, AtStep
  <2>3. Knows(step, k)' BY <2>2, KnowledgeLasts
  <2> QED BY <1>1, <2>1, <2>3, OneLearns
<1>4. ASSUME NEW what, Landed(h, what), s # "idle" PROVE HandlersKnow'
  <2>1. "settling" \notin LeadSteps BY DEF LeadSteps
  <2> QED BY <1>2, <1>3, <1>4, <2>1 DEF Landed
<1>5. ASSUME NEW why, Filter(h, why), s # "idle", Reasoned(why, MailOf(k.mail)) PROVE HandlersKnow'
  <2> DEFINE j == [k EXCEPT !.why = why]
  <2>1. pc' = [pc EXCEPT ![h] = "recording"] /\ job' = [job EXCEPT ![h] = j] BY <1>0, <1>5 DEF Filter
  <2>2. k \in JobRow /\ Real(k.mail) BY <1>1, <1>5 DEF AtStep, Knows
  <2>3. j.mail = k.mail /\ j.why = why BY <2>2 DEF JobRow
  <2>4. k.mail \in Delivery BY <2>2 DEF JobRow
  <2> HIDE DEF j
  <2>5. Real(j.mail)' /\ MailOf(j.mail)' = MailOf(k.mail) BY <2>2, <2>3, <2>4, KnowledgeLasts
  <2>6. Knows("recording", j)' BY <1>5, <2>3, <2>5 DEF Knows, LeadSteps
  <2> QED BY <1>1, <2>1, <2>6, OneLearns
<1>6. ASSUME s = "screening", NEW own \in {Own, {}}, Accept(h, MailOf(k.mail), own), Accepted(MailOf(k.mail)),
             own = Own \/ "owner" \in faults'
      PROVE  HandlersKnow'
  <2> DEFINE origin == OriginOf(MailOf(k.mail), own)
             guess == origin.confidence # "high"
             j == [k EXCEPT !.text = origin.text, !.author = origin.sender, !.flagged = guess]
  <2>1. pc' = [pc EXCEPT ![h] = "prior"] /\ job' = [job EXCEPT ![h] = j] BY <1>0, <1>6 DEF Accept
  <2>2. k \in JobRow /\ Real(k.mail) /\ k.attempt # 0 /\ k.mail \in Delivery BY <1>1, <1>6 DEF AtStep, Knows, JobRow
  <2>3. /\ j.mail = k.mail /\ j.attempt = k.attempt /\ j.text = origin.text /\ j.author = origin.sender
        /\ j.flagged = guess
    <3> HIDE DEF origin, guess
    <3> QED BY <2>2 DEF JobRow
  <2>4. own = Own => OfItsOrigin(j, MailOf(k.mail))
    <3> HIDE DEF j
    <3> QED BY <2>3 DEF OfItsOrigin
  <2> HIDE DEF j, origin, guess
  <2>5. PICK r, m : r = j /\ m = MailOf(k.mail) OBVIOUS
  <2>6. Real(r.mail)' /\ MailOf(r.mail)' = m BY <2>2, <2>3, <2>5, KnowledgeLasts
  <2>7. AsRead(r, m)' BY <1>6, <2>4, <2>5 DEF AsRead
  <2>8. Knows("prior", r)' BY <2>2, <2>3, <2>5, <2>6, <2>7 DEF Knows
  <2> QED BY <1>1, <2>1, <2>5, <2>8, OneLearns
<1>7. CASE Resolve(h)
  <2>1. "screening" \notin LeadSteps BY DEF LeadSteps
  <2> QED BY <1>0, <1>2, <1>3, <1>7, <2>1 DEF Resolve
<1>8. CASE ResolveFails(h) \/ RecordEvent(h) \/ RecordFails(h) \/ IngestFails(h) \/ RescueSettle(h) \/ RescueSettleFails(h)
  BY <1>2, <1>8 DEF ResolveFails, RecordEvent, RecordFails, Recorded, IngestFails, RescueSettle, RescueSettleFails
<1>9. CASE Screen(h)
  <2> DEFINE verdict == Verdict(MailOf(k.mail), blocked)
  <2>1. s = "screening" BY <1>0, <1>9 DEF Screen
  <2>2. CASE verdict # "accept"
    <3>1. Filter(h, verdict) BY <1>0, <1>9, <2>2 DEF Screen
    <3>2. verdict # "rate_limited" BY DEF Verdict
    <3>3. Reasoned(verdict, MailOf(k.mail)) BY <3>2 DEF Reasoned, Known, BlocksAllowed
    <3> QED BY <1>5, <2>1, <3>1, <3>3
  <2>3. CASE verdict = "accept"
    <3>1. \/ Accept(h, MailOf(k.mail), Own)
          \/ Accept(h, MailOf(k.mail), {}) /\ "owner" \in faults'
      BY <1>0, <1>9, <2>3 DEF Screen, Fault
    <3> QED BY <1>6, <2>1, <2>3, <3>1, AcceptedOpenly
  <2> QED BY <2>2, <2>3
<1>10. CASE Prior(h) \/ Cap(h) \/ CapBurst(h) \/ Dedup(h)
  <2>1. s \in LeadSteps /\ s # "idle" BY <1>0, <1>10 DEF Prior, Cap, CapBurst, Dedup, LeadSteps
  <2>2. CASE OverCap(h)
    <3>1. CASE Rescuing(h) BY <1>2, <2>2, <3>1 DEF OverCap
    <3>2. CASE ~Rescuing(h)
      <4>1. Accepted(MailOf(k.mail)) BY <1>0, <1>1, <2>1, <3>2 DEF Knows, Rescuing, AsRead
      <4> QED BY <1>5, <2>1, <2>2, <3>2, <4>1 DEF OverCap, Reasoned
    <3> QED BY <3>1, <3>2
  <2>3. \/ OverCap(h)
        \/ \E step \in {"capping", "dedup", "extracting"} : Goto(h, step)
        \/ \E what : Landed(h, what)
        \/ \E class, what : Reply(h, class, what)
    BY <1>10 DEF Prior, Cap, CapBurst, Dedup
  <2> QED BY <1>2, <1>3, <1>4, <2>1, <2>2, <2>3
<1>11. CASE Insert(h)
  <2>1. s # "idle" /\ \E what : Landed(h, what) BY <1>0, <1>11 DEF Insert
  <2> QED BY <1>4, <2>1
<1> QED BY <1>7, <1>8, <1>9, <1>10, <1>11 DEF HandlerStep

LEMMA HandlersStep ==
  ASSUME Shape, Known, [Next]_vars
  PROVE  HandlersKnow'
<1>1. ASSUME pc' = pc, job' = job PROVE HandlersKnow'
  <2>1. ASSUME NEW g \in Handler PROVE Knows(pc[g], job[g])'
    <3>1. PICK s, k : s = pc[g] /\ k = job[g] OBVIOUS
    <3>2. Knows(s, k) /\ (s # "idle" => k \in JobRow) BY <3>1 DEF Known, HandlersKnow, Shape, HandlersShape, AtStep
    <3>3. Knows(s, k)' BY <3>2, KnowledgeLasts DEF Knows
    <3> QED BY <1>1, <3>1, <3>3 DEF Knows, AsRead, HasEvent, Real, MailOf
  <2> QED BY <2>1 DEF HandlersKnow
<1>2. CASE UNCHANGED vars BY <1>1, <1>2 DEF vars
<1>3. CASE \E d \in Delivery : WorkerStep(d) \/ \E k \in 1..instance.attempts : ArriveLimited(d, k)
  BY <1>1, <1>3 DEF WorkerStep, Post, AttemptFails, Fallback, FallbackFails, ArriveLimited
<1>4. CASE \E h \in instance.handlers : HandlerStep(h) BY <1>4, InstanceParts, HandlerLearns
<1>5. ASSUME NEW h \in Handler, NEW d \in Delivery, NEW k \in 1..instance.attempts, Arrive(h, d, k) PROVE HandlersKnow'
  <2>1. \E j : /\ pc' = [pc EXCEPT ![h] = "resolving"] /\ job' = [job EXCEPT ![h] = j]
               /\ j.mail = d /\ j.attempt = k
    <3> DEFINE j == [mail |-> d, attempt |-> k, event |-> 0, text |-> NoText, author |-> Nobody,
                     flagged |-> FALSE, day |-> day, why |-> "none"]
    <3>1. pc' = [pc EXCEPT ![h] = "resolving"] /\ job' = [job EXCEPT ![h] = j] BY <1>5 DEF Arrive
    <3>2. j.mail = d /\ j.attempt = k OBVIOUS
    <3> HIDE DEF j
    <3> QED BY <3>1, <3>2
  <2>2. PICK j : /\ pc' = [pc EXCEPT ![h] = "resolving"] /\ job' = [job EXCEPT ![h] = j]
                 /\ j.mail = d /\ j.attempt = k
    BY <2>1
  <2>3. Real(d) /\ k # 0 BY <1>5, InstanceParts DEF Arrive, Known, PostedIsReal
  <2>4. Real(j.mail)' BY <2>2, <2>3, KnowledgeLasts
  <2>5. Knows("resolving", j)' BY <2>2, <2>3, <2>4 DEF Knows, LeadSteps
  <2> QED BY <2>2, <2>5, OneLearns DEF Known
<1>6. ASSUME NEW h \in Handler, NEW e \in DOMAIN events, RescueStart(h, e) PROVE HandlersKnow'
  <2>1. \E j : /\ pc' = [pc EXCEPT ![h] = "capping"] /\ job' = [job EXCEPT ![h] = j]
               /\ j.mail = events[e].mail /\ j.attempt = 0
    <3> DEFINE j == [mail |-> events[e].mail, attempt |-> 0, event |-> e, text |-> events[e].body,
                     author |-> MailOf(events[e].mail).from, flagged |-> FALSE, day |-> day, why |-> "none"]
    <3>1. pc' = [pc EXCEPT ![h] = "capping"] /\ job' = [job EXCEPT ![h] = j] BY <1>6 DEF RescueStart
    <3>2. j.mail = events[e].mail /\ j.attempt = 0 OBVIOUS
    <3> HIDE DEF j
    <3> QED BY <3>1, <3>2
  <2>2. PICK j : /\ pc' = [pc EXCEPT ![h] = "capping"] /\ job' = [job EXCEPT ![h] = j]
                 /\ j.mail = events[e].mail /\ j.attempt = 0
    BY <2>1
  <2>3. PICK d \in Delivery : d = events[e].mail
    <3>1. events[e] \in EventRow BY DEF Shape, TablesShape
    <3> QED BY <3>1 DEF EventRow
  <2>4. Real(d) /\ HasEvent(d) BY <2>3 DEF Known, EventsReasoned, HasEvent
  <2>5. Real(j.mail)' /\ HasEvent(j.mail)' BY <2>2, <2>3, <2>4, KnowledgeLasts
  <2>6. Knows("capping", j)' BY <2>2, <2>5 DEF Knows
  <2> QED BY <2>2, <2>6, OneLearns DEF Known
<1>7. CASE UserStep
  BY <1>1, <1>6, <1>7, InstanceParts DEF UserStep, Dismiss, BlockSender, UnblockSender, Rotate
<1>8. CASE Purge \/ Midnight BY <1>1, <1>8 DEF Purge, Midnight
<1>9. CASE Crash BY <1>9 DEF Crash, HandlersKnow, Knows
<1> QED BY <1>2, <1>3, <1>4, <1>5, <1>7, <1>8, <1>9, InstanceParts DEF Next, Step

LEMMA LeadsStep ==
  ASSUME Shape, Known, [Next]_vars
  PROVE  LeadsAreRead'
<1> DEFINE IsRead(l) == Real(l.mail) /\ IF l.rescued THEN HasEvent(l.mail) ELSE AsRead(l, MailOf(l.mail))
<1>1. ASSUME NEW l, l.mail \in Delivery, IsRead(l) PROVE IsRead(l)'
  <2>1. PICK m : m = MailOf(l.mail) OBVIOUS
  <2> QED BY <1>1, <2>1, KnowledgeLasts
<1>2. ASSUME NEW l \in leads PROVE IsRead(l)'
  BY <1>1, <1>2 DEF Known, LeadsAreRead, Shape, TablesShape, LeadRow
<1>3. CASE leads' = leads BY <1>2, <1>3 DEF LeadsAreRead
<1>4. ASSUME NEW h \in Handler, Insert(h), leads' # leads PROVE LeadsAreRead'
  <2> DEFINE row == [text |-> job[h].text, day |-> job[h].day, created |-> day,
                     id |-> MailOf(job[h].mail).id, author |-> job[h].author,
                     flagged |-> job[h].flagged, rescued |-> Rescuing(h), mail |-> job[h].mail]
  <2>1. /\ leads' = leads \cup {row} /\ row.mail = job[h].mail /\ row.rescued = Rescuing(h)
        /\ row.text = job[h].text /\ row.author = job[h].author /\ row.flagged = job[h].flagged
    BY <1>4 DEF Insert
  <2>2. Knows("extracting", job[h]) /\ job[h].mail \in Delivery
    BY <1>4 DEF Insert, Known, HandlersKnow, Shape, HandlersShape, AtStep, JobRow
  <2> HIDE DEF row
  <2>3. PICK l : l = row OBVIOUS
  <2>4. IsRead(l)
    BY <2>1, <2>2, <2>3 DEF Knows, LeadSteps, Rescuing, AsRead, OfItsOrigin
  <2>5. IsRead(l)' BY <1>1, <2>1, <2>2, <2>3, <2>4
  <2> QED BY <1>2, <2>1, <2>3, <2>5 DEF LeadsAreRead
<1>5. leads' = leads \/ \E h \in Handler : Insert(h)
  <2>1. CASE UNCHANGED vars BY <2>1 DEF vars
  <2>2. CASE Next BY <2>2, CapMoves, InstanceParts DEF Quiet, Passes, Midnight, tables
  <2> QED BY <2>1, <2>2
<1> QED BY <1>3, <1>4, <1>5

\* Apart from a new one, no event changes its mail or its reason.
SameReasons ==
  /\ DOMAIN events' = DOMAIN events
  /\ \A e \in DOMAIN events : events'[e].mail = events[e].mail /\ events'[e].reason = events[e].reason

LEMMA EventMoves ==
  ASSUME Shape, [Next]_vars
  PROVE  SameReasons \/ \E h \in Handler : RecordEvent(h)
<1>0. /\ day \in Day /\ events \in Seq(EventRow)
      /\ \A e \in DOMAIN events : events[e] \in EventRow
  BY DEF Shape, TablesShape
<1>1. ASSUME events' = events PROVE SameReasons BY <1>1 DEF SameReasons
<1>2. ASSUME NEW i, NEW s \in {"rescued", "dismissed"}, SettlesEvent(i, s) PROVE SameReasons
  <2> DEFINE row == SettledEvent(events[i], s)
  <2>1. i \in DOMAIN events => row.mail = events[i].mail /\ row.reason = events[i].reason BY <1>0, SettledRow
  <2>2. events' = [events EXCEPT ![i] = row] BY <1>2 DEF SettlesEvent
  <2> HIDE DEF row
  <2> QED BY <1>0, <2>1, <2>2 DEF SameReasons
<1>3. CASE Purge BY <1>0, <1>3, PurgedRow DEF Purge, SameReasons
<1>4. CASE UNCHANGED vars BY <1>1, <1>4 DEF vars
<1>5. CASE \E d \in Delivery : WorkerStep(d) \/ \E k \in 1..instance.attempts : ArriveLimited(d, k)
  BY <1>1, <1>5 DEF WorkerStep, Post, AttemptFails, Fallback, FallbackFails, ArriveLimited, tables
<1>6. ASSUME NEW h \in Handler, HandlerStep(h) PROVE SameReasons \/ RecordEvent(h)
  <2>1. CASE RescueSettle(h) BY <1>2, <2>1 DEF RescueSettle, SettlesEvent
  <2>2. \/ events' = events \/ RescueSettle(h) \/ RecordEvent(h)
    BY <1>6 DEF HandlerStep, Resolve, ResolveFails, Screen, RecordFails, Prior, Cap,
                CapBurst, Dedup, Insert, IngestFails, RescueSettleFails, tables
  <2> QED BY <1>1, <2>1, <2>2
<1>7. ASSUME NEW h, NEW d, NEW k, Arrive(h, d, k) PROVE SameReasons BY <1>1, <1>7 DEF Arrive, tables
<1>8. CASE UserStep
  <2>1. ASSUME NEW e \in DOMAIN events, Dismiss(e) PROVE SameReasons BY <1>2, <2>1 DEF Dismiss, SettlesEvent
  <2> QED BY <1>1, <1>8, <2>1 DEF UserStep, RescueStart, BlockSender, UnblockSender, Rotate, tables
<1>9. CASE Midnight \/ Crash BY <1>1, <1>9 DEF Midnight, Crash, tables
<1> QED BY <1>3, <1>4, <1>5, <1>6, <1>7, <1>8, <1>9, InstanceParts DEF Next, Step

LEMMA EventsStep ==
  ASSUME Shape, Known, [Next]_vars
  PROVE  EventsReasoned'
<1>0. \A e \in DOMAIN events : /\ events[e].mail \in Delivery /\ Real(events[e].mail)
                              /\ Reasoned(events[e].reason, MailOf(events[e].mail))
  <2>1. \A e \in DOMAIN events : events[e] \in EventRow BY DEF Shape, TablesShape
  <2>2. \A e \in DOMAIN events : events[e].mail \in Delivery BY <2>1 DEF EventRow
  <2> QED BY <2>2 DEF Known, EventsReasoned
<1>1. CASE SameReasons BY <1>0, <1>1, KnowledgeLasts DEF SameReasons, EventsReasoned
<1>2. ASSUME NEW h \in Handler, RecordEvent(h) PROVE EventsReasoned'
  <2>1. PICK k : k = job[h] OBVIOUS
  <2>2. Knows("recording", k) /\ k \in JobRow /\ k.mail \in Delivery
    BY <1>2, <2>1 DEF RecordEvent, Known, HandlersKnow, Shape, HandlersShape, AtStep, JobRow
  <2> DEFINE row == NewEvent(k.mail, k.why, EventBody(MailOf(k.mail), k.why))
  <2>3. events' = Append(events, row) /\ row.mail = k.mail /\ row.reason = k.why
    BY <1>2, <2>1 DEF RecordEvent, NewEvent
  <2> HIDE DEF row
  <2>4. PICK r : r = row OBVIOUS
  <2>5. /\ DOMAIN events' = 1..Len(events) + 1 /\ events'[Len(events) + 1] = r
        /\ \A e \in DOMAIN events' : e # Len(events) + 1 => e \in DOMAIN events /\ events'[e] = events[e]
    BY <2>3, <2>4 DEF Shape, TablesShape
  <2>6. Real(r.mail)' /\ Reasoned(r.reason, MailOf(r.mail)')
    BY <2>2, <2>3, <2>4, KnowledgeLasts DEF Knows
  <2>7. ASSUME NEW e \in DOMAIN events'
        PROVE  (Real(events[e].mail) /\ Reasoned(events[e].reason, MailOf(events[e].mail)))'
    <3>1. CASE e = Len(events) + 1 BY <2>5, <2>6, <3>1 DEF Real, MailOf
    <3>2. CASE e # Len(events) + 1
      <4>1. PICK f : f = events[e] /\ f = events'[e] BY <2>5, <3>2
      <4>2. f.mail \in Delivery /\ Real(f.mail) /\ Reasoned(f.reason, MailOf(f.mail)) BY <1>0, <2>5, <3>2, <4>1
      <4>3. Real(f.mail)' /\ Reasoned(f.reason, MailOf(f.mail)') BY <4>2, KnowledgeLasts
      <4> QED BY <4>1, <4>3 DEF Real, MailOf
    <3> QED BY <3>1, <3>2
  <2> QED BY <2>7 DEF EventsReasoned
<1> QED BY <1>1, <1>2, EventMoves

LEMMA KnownHolds == Spec => []Known
<1>1. Shape /\ Known /\ [Next]_vars => Known'
  <2> SUFFICES ASSUME Shape, Known, [Next]_vars PROVE Known' OBVIOUS
  <2>1. PostedIsReal' /\ BlocksAllowed' BY PostedStep, BlocksStep DEF Known
  <2> QED BY <2>1, HandlersStep, LeadsStep, EventsStep DEF Known
<1> QED BY FirstKnown, <1>1, ShapeHolds, PTL DEF Spec

LEMMA RealMail ==
  ASSUME Shape, NEW d \in Delivery, Real(d)
  PROVE  MailOf(d) \in Mails /\ MailOf(d) \in Message
<1>1. MailOf(d) \in Carried /\ MailOf(d) # NoMail BY InstanceParts DEF Real
<1>2. MailOf(d) \in Message \cup {NoMail} BY EveryInstance DEF Shape, Instance, MailOf
<1> QED BY <1>1, <1>2 DEF Mails, Carried

LEMMA KnownMail ==
  ASSUME Shape, Known
  PROVE  /\ \A l \in leads : MailOf(l.mail) \in Mails /\ MailOf(l.mail) \in Message
         /\ \A e \in DOMAIN events : MailOf(events[e].mail) \in Mails
<1>1. \A l \in leads : l.mail \in Delivery BY DEF Shape, TablesShape, LeadRow
<1>2. \A e \in DOMAIN events : events[e].mail \in Delivery
  <2>1. \A e \in DOMAIN events : events[e] \in EventRow BY DEF Shape, TablesShape
  <2> QED BY <2>1 DEF EventRow
<1> QED BY <1>1, <1>2, RealMail DEF Known, LeadsAreRead, EventsReasoned

\* screen.go:83 and quarantine.go:90 for every schedule of retries, blocks, rescues and days,
\* where mail no person wrote shows it: it reaches the model only by the account's own hand.
THEOREM FilteredStaysFiltered == Spec => []FilteredNeedsRescue
<1>1. Shape /\ Known => FilteredNeedsRescue
  <2> SUFFICES ASSUME Shape, Known, NEW l \in leads, MailOf(l.mail).story = <<>>
               PROVE  l.rescued /\ HasEvent(l.mail)
    BY DEF FilteredNeedsRescue, HasEvent
  <2>1. ~Accepted(MailOf(l.mail)) BY KnownMail, MachinesSaySo DEF Accepted, Verdict
  <2> QED BY <2>1 DEF Known, LeadsAreRead, AsRead
<1> QED BY <1>1, KnownHolds, ShapeHolds, PTL

\* No pattern the account can block names the confirmations' sender.
LEMMA ConfirmerIsNeverBlocked ==
  ASSUME NEW patterns \in SUBSET Allowed
  PROVE  ~IsBlockedSender(Confirmer, patterns)
BY Senders DEF Allowed, IsBlockedSender, Names, IsVerificationSender

LEMMA ConfirmationsByRule ==
  ASSUME NEW m \in Mails, NEW why, Reasoned(why, m)
  PROVE  why = "verification" <=> Confirms(m)
<1>1. Confirms(m) <=> DetectVerification(m) /\ m.event = "none" BY ConfirmationsSaySo
<1>2. DetectVerification(m) => m.from = Confirmer BY DEF DetectVerification
<1>3. CASE why = "rate_limited"
  <2>1. Verdict(m, {}) = "accept" BY <1>3 DEF Reasoned, Accepted
  <2>2. ~(DetectVerification(m) /\ m.event = "none") BY <2>1 DEF Verdict
  <2> QED BY <1>1, <1>3, <2>2
<1>4. CASE why # "rate_limited"
  <2>1. PICK patterns \in SUBSET Allowed : why = Verdict(m, patterns) BY <1>4 DEF Reasoned
  <2>2. m.from = Confirmer => ~IsBlockedSender(m.from, patterns) BY ConfirmerIsNeverBlocked
  <2>3. why = "verification" <=> m.event = "none" /\ ~IsBlockedSender(m.from, patterns) /\ DetectVerification(m)
    <3> DEFINE v == Verdict(m, patterns)
    <3>1. m.event # "none" => v = "unreadable" BY DEF Verdict
    <3>2. m.event = "none" /\ IsBlockedSender(m.from, patterns) => v = "blocked_sender" BY DEF Verdict
    <3>3. m.event = "none" /\ ~IsBlockedSender(m.from, patterns) /\ DetectVerification(m) => v = "verification"
      BY DEF Verdict
    <3>4. m.event = "none" /\ ~IsBlockedSender(m.from, patterns) /\ ~DetectVerification(m) =>
            v \in {"machine_mail", "calendar_invite", "no_text", "too_short", "accept"}
      BY DEF Verdict
    <3> HIDE DEF v
    <3>5. why = v BY <2>1 DEF v
    <3> QED BY <3>1, <3>2, <3>3, <3>4, <3>5
  <2> QED BY <1>1, <1>2, <2>2, <2>3
<1> QED BY <1>3, <1>4

\* verify.go:41 and quarantine.go:205 for every order of blocks, mail and rescues: whatever is
\* blocked, an event is shown as a confirmation exactly if its mail is one.
THEOREM ConfirmationsStayShown == Spec => []ConfirmationsAreShown
<1>1. Shape /\ Known => ConfirmationsAreShown
  <2> SUFFICES ASSUME Shape, Known, NEW e \in DOMAIN events
               PROVE  events[e].reason = "verification" <=> Confirms(MailOf(events[e].mail))
    BY DEF ConfirmationsAreShown
  <2>1. Reasoned(events[e].reason, MailOf(events[e].mail)) BY DEF Known, EventsReasoned
  <2> QED BY <2>1, KnownMail, ConfirmationsByRule
<1> QED BY <1>1, KnownHolds, ShapeHolds, PTL

------------------------------------------------------------------------------
(* Whose lead a thread of any length is                                      *)

LEMMA LeastNatural ==
  ASSUME NEW S \in SUBSET Nat, S # {}
  PROVE  \E n \in S : \A k \in S : n =< k
<1> DEFINE R == OpToRel(<, Nat)
<1>1. IsWellFoundedOn(R, Nat) BY NatLessThanWellFounded, Zenon
<1>2. ASSUME NEW a \in Nat, NEW b \in Nat, a < b PROVE <<a, b>> \in R BY <1>2, Zenon DEF OpToRel
<1> HIDE DEF R
<1>3. \E n \in S : \A k \in S : ~(<<k, n>> \in R) BY <1>1, WFMin, Zenon
<1>4. PICK n \in S : \A k \in S : ~(<<k, n>> \in R) BY <1>3, Zenon
<1>5. ASSUME NEW k \in S PROVE n =< k
  <2>1. ~(k < n) BY <1>2, <1>4, Zenon
  <2> QED BY <2>1
<1> QED BY <1>5

\* Of messages whose dates can all be read, one comes first.
LEMMA SomeBlockIsFirst ==
  ASSUME NEW blocks \in Seq(Block), DatesUsable(blocks), NEW S \in SUBSET DOMAIN blocks, S # {}
  PROVE  \E i \in S : \A j \in S \ {i} : Before(blocks, i, j)
<1>1. \A i \in S : i \in Nat /\ blocks[i].at \in Nat
  <2>1. \A i \in S : i \in Nat /\ blocks[i] \in Block OBVIOUS
  <2> QED BY <2>1 DEF Block
<1> DEFINE Dates == {blocks[i].at : i \in S}
<1>2. PICK t \in Dates : \A u \in Dates : t =< u
  <2>1. Dates \in SUBSET Nat /\ Dates # {} BY <1>1
  <2> HIDE DEF Dates
  <2> QED BY <2>1, LeastNatural
<1> DEFINE First == {k \in S : blocks[k].at = t}
<1>3. PICK i \in First : \A j \in First : i =< j
  <2>1. First \in SUBSET Nat /\ First # {} BY <1>1, <1>2
  <2> HIDE DEF First
  <2> QED BY <2>1, LeastNatural
<1>4. ASSUME NEW j \in S \ {i} PROVE Before(blocks, i, j)
  <2>1. i \in S /\ i \in Nat /\ j \in Nat /\ blocks[i].at = t /\ t \in Nat /\ blocks[j].at \in Nat /\ t =< blocks[j].at
    BY <1>1, <1>2, <1>3
  <2>2. blocks[j].at = t => i =< j BY <1>3
  <2> QED BY <2>1, <2>2 DEF Before
<1> QED BY <1>3, <1>4

\* What is taken of a thread, if somebody else wrote in it and the rule is sure of it.
LEMMA FirstOfBlocks ==
  ASSUME NEW m, NEW own, NEW blocks \in Seq(Block),
         \E i \in DOMAIN blocks : blocks[i].from \notin own,
         FromBlocks(m, blocks, own).confidence = "high"
  PROVE  \E i \in DOMAIN blocks :
           LET b == blocks[i] IN
           /\ b.from \notin own
           /\ b.from # Nobody => FromBlocks(m, blocks, own).sender = b.from
           /\ Clean(b.body) # <<>> => FromBlocks(m, blocks, own).text = Clean(b.body)
           /\ \A j \in DOMAIN blocks \ {i} :
                blocks[j].from \notin own => DatesUsable(blocks) /\ Before(blocks, i, j)
<1> DEFINE others == {i \in DOMAIN blocks : blocks[i].from \notin own}
           pick == IF others # {} THEN CHOOSE i \in others : \A j \in others \ {i} : Before(blocks, i, j)
                   ELSE CHOOSE i \in DOMAIN blocks : \A j \in DOMAIN blocks \ {i} : Before(blocks, j, i)
           sender == IF blocks[pick].from = Nobody THEN m.from ELSE blocks[pick].from
           text == IF Clean(blocks[pick].body) = <<>> THEN Clean(m.text) ELSE Clean(blocks[pick].body)
           confidence == IF Len(blocks) = 1 THEN (IF blocks[pick].from = Nobody THEN "low" ELSE "high")
                         ELSE IF others = {} THEN "low" ELSE IF DatesUsable(blocks) THEN "high" ELSE "medium"
<1>1. FromBlocks(m, blocks, own) = [sender |-> sender, text |-> text, confidence |-> confidence] BY DEF FromBlocks
<1>2. others # {} OBVIOUS
<1>3. Len(blocks) = 1 \/ DatesUsable(blocks)
  <2>1. confidence = "high" BY <1>1
  <2> QED BY <2>1
<1>4. \E i \in others : \A j \in others \ {i} : Before(blocks, i, j)
  <2>1. CASE DatesUsable(blocks) BY <1>2, <2>1, SomeBlockIsFirst
  <2>2. CASE Len(blocks) = 1
    <3>1. \A i, j \in DOMAIN blocks : i = j BY <2>2
    <3> QED BY <1>2, <3>1
  <2> QED BY <1>3, <2>1, <2>2
<1>5. pick \in others /\ \A j \in others \ {pick} : Before(blocks, pick, j) BY <1>2, <1>4
<1>6. \A j \in others \ {pick} : DatesUsable(blocks)
  <2>1. Len(blocks) = 1 => \A j \in others : j = pick BY <1>5
  <2> QED BY <1>3, <2>1
<1>7. FromBlocks(m, blocks, own).sender = sender /\ FromBlocks(m, blocks, own).text = text BY <1>1
<1> HIDE DEF pick
<1>8. blocks[pick].from # Nobody => FromBlocks(m, blocks, own).sender = blocks[pick].from BY <1>7
<1>9. Clean(blocks[pick].body) # <<>> => FromBlocks(m, blocks, own).text = Clean(blocks[pick].body) BY <1>7
<1>10. \A j \in DOMAIN blocks \ {pick} : blocks[j].from \notin own => DatesUsable(blocks) /\ Before(blocks, pick, j)
  BY <1>5, <1>6
<1> QED BY <1>5, <1>8, <1>9, <1>10

\* What the rules make of a mail, in the words ToldPlainly uses.
LEMMA OriginRules ==
  ASSUME NEW m \in Message
  PROVE  LET origin == OriginOf(m, Own)
             blocks == BlocksOf(m)
             read   == [m EXCEPT !.text = Trim(Body(m))]
         IN /\ ByHeaders(m) \/ blocks = <<>> =>
                 /\ origin.sender = m.from /\ origin.text = Clean(Trim(Body(m)))
                 /\ ~ByHeaders(m) /\ m.from \in Own => origin.confidence = "low"
            /\ ~ByHeaders(m) /\ blocks # <<>> => origin = FromBlocks(read, blocks, Own)
<1> DEFINE t == Trim(Body(m))
           read == [m EXCEPT !.text = t]
<1>1. read.text = t /\ read.headers = m.headers /\ read.from = m.from BY DEF Message
<1> DEFINE direct == [sender |-> m.from, text |-> Clean(t), confidence |-> "high"]
<1>2. OriginOf(m, Own) = ResolveOrigin(read, Own) BY DEF OriginOf
<1>3. BlocksOf(m) = ParseForwardBlocks(t) BY DEF BlocksOf
<1> HIDE DEF read, t
<1>4. ResolveOrigin(read, Own) =
        IF ByHeaders(m) THEN direct
        ELSE IF BlocksOf(m) # <<>> THEN FromBlocks(read, BlocksOf(m), Own)
        ELSE IF m.from \in Own THEN [direct EXCEPT !.confidence = "low"] ELSE direct
  BY <1>1, <1>3 DEF ResolveOrigin, ByHeaders
<1>5. direct.sender = m.from /\ direct.text = Clean(t) OBVIOUS
<1>6. LET low == [direct EXCEPT !.confidence = "low"] IN
      low.sender = m.from /\ low.text = Clean(t) /\ low.confidence = "low" OBVIOUS
<1> HIDE DEF direct
<1>7. ByHeaders(m) \/ BlocksOf(m) = <<>> =>
        /\ OriginOf(m, Own).sender = m.from /\ OriginOf(m, Own).text = Clean(t)
        /\ ~ByHeaders(m) /\ m.from \in Own => OriginOf(m, Own).confidence = "low"
  BY <1>2, <1>4, <1>5, <1>6
<1>8. ~ByHeaders(m) /\ BlocksOf(m) # <<>> => OriginOf(m, Own) = FromBlocks(read, BlocksOf(m), Own) BY <1>2, <1>4
<1> QED BY <1>7, <1>8 DEF read, t

Others(m) == {i \in DOMAIN m.story : m.story[i].who \notin Own}
IsOpener(k, m) == k \in Others(m) /\ \A j \in Others(m) : k <= j
IsHers(origin, told) == origin.sender = told.who /\ Tells(origin.text, told)

\* Tells needs words to find.
LEMMA NothingTells == \A told : ~Tells(<<>>, told)
BY DEF Tells

\* Of a thread, the block that is taken brings the opener: the opener's own block would come
\* before the block of anybody who wrote later.
LEMMA ThreadIsItsOpeners ==
  ASSUME NEW m, Thread(m), NEW read, NEW k, IsOpener(k, m), m.story \in Seq([who: Person \cup {Nobody}, at: Nat, says: Words]),
         FromBlocks(read, BlocksOf(m), Own).confidence = "high"
  PROVE  IsHers(FromBlocks(read, BlocksOf(m), Own), m.story[k])
<1> DEFINE blocks == BlocksOf(m)
           origin == FromBlocks(read, blocks, Own)
<1>1. blocks \in Seq(Block) BY DEF Thread
<1>2. PICK j \in DOMAIN blocks : Brings(blocks[j], m.story[k]) BY DEF Thread, IsOpener, Others
<1>3. blocks[j].from \notin Own BY <1>2 DEF Brings, IsOpener, Others
<1> HIDE DEF blocks
<1>4. PICK i \in DOMAIN blocks :
        /\ blocks[i].from \notin Own
        /\ blocks[i].from # Nobody => origin.sender = blocks[i].from
        /\ Clean(blocks[i].body) # <<>> => origin.text = Clean(blocks[i].body)
        /\ \A n \in DOMAIN blocks \ {i} : blocks[n].from \notin Own => DatesUsable(blocks) /\ Before(blocks, i, n)
  <2>1. origin.confidence = "high" BY DEF blocks
  <2> HIDE DEF origin
  <2> QED BY <1>1, <1>3, <2>1, FirstOfBlocks DEF origin
<1> HIDE DEF origin
<1>5. \A told : Brings(blocks[i], told) => IsHers(origin, told) BY <1>4, NothingTells DEF Brings, IsHers
<1>6. PICK n \in DOMAIN m.story : Brings(blocks[i], m.story[n]) BY DEF Thread, blocks
<1>7. n \in Others(m) /\ k <= n /\ k \in Nat /\ n \in Nat /\ k \in DOMAIN m.story
  BY <1>4, <1>6 DEF Others, Brings, IsOpener
<1>8. CASE n = k BY <1>5, <1>6, <1>8 DEF origin, blocks
<1>9. CASE i = j BY <1>2, <1>5, <1>9 DEF origin, blocks
<1>10. CASE i # j /\ n # k
  <2>1. DatesUsable(blocks) /\ Before(blocks, i, j) BY <1>3, <1>4, <1>10
  <2>2. m.story[k].at = blocks[j].at /\ m.story[n].at = blocks[i].at BY <1>2, <1>6 DEF Brings
  <2>3. blocks[i].at # NoDate /\ blocks[j].at # NoDate BY <2>1 DEF DatesUsable
  <2>4. m.story[k].at < m.story[n].at
    <3>1. \A a, b \in DOMAIN m.story :
            a < b /\ m.story[a].at # NoDate /\ m.story[b].at # NoDate => m.story[a].at < m.story[b].at
      BY Zenon DEF Thread
    <3>2. k < n BY <1>7, <1>10
    <3>3. m.story[k].at # NoDate /\ m.story[n].at # NoDate BY <2>2, <2>3
    <3> QED BY <1>6, <1>7, <3>1, <3>2, <3>3, Zenon
  <2>5. blocks[i].at <= blocks[j].at
    <3>1. blocks[i].at \in Nat /\ blocks[j].at \in Nat
      <4>1. blocks[i] \in Block /\ blocks[j] \in Block BY <1>1
      <4> QED BY <4>1 DEF Block
    <3> QED BY <2>1, <3>1 DEF Before
  <2>6. blocks[i].at \in Nat /\ blocks[j].at \in Nat
    <3>1. blocks[i] \in Block /\ blocks[j] \in Block BY <1>1
    <3> QED BY <3>1 DEF Block
  <2> QED BY <2>2, <2>4, <2>5, <2>6
<1> QED BY <1>8, <1>9, <1>10

LEMMA OriginIsTheOpener ==
  ASSUME NEW m \in Message, Direct(m) \/ Unmarked(m) \/ Thread(m), NEW k, IsOpener(k, m),
         OriginOf(m, Own).confidence = "high"
  PROVE  IsHers(OriginOf(m, Own), m.story[k])
<1> DEFINE origin == OriginOf(m, Own)
           read == [m EXCEPT !.text = Trim(Body(m))]
<1>1. /\ ByHeaders(m) \/ BlocksOf(m) = <<>> =>
           /\ origin.sender = m.from /\ origin.text = Clean(Trim(Body(m)))
           /\ ~ByHeaders(m) /\ m.from \in Own => origin.confidence = "low"
      /\ ~ByHeaders(m) /\ BlocksOf(m) # <<>> => origin = FromBlocks(read, BlocksOf(m), Own)
  BY OriginRules
<1>2. m.story \in Seq([who: Person \cup {Nobody}, at: Nat, says: Words]) BY DEF Message
<1>3. origin.confidence = "high" OBVIOUS
<1> HIDE DEF origin, read
<1>4. CASE Direct(m)
  <2>1. k = 1 BY <1>2, <1>4 DEF Direct, IsOpener, Others
  <2> QED BY <1>1, <1>4, <2>1 DEF Direct, IsHers, origin
<1>5. CASE Unmarked(m) BY <1>1, <1>3, <1>5 DEF Unmarked
<1>6. CASE Thread(m)
  <2>1. origin = FromBlocks(read, BlocksOf(m), Own) BY <1>1, <1>6 DEF Thread
  <2> QED BY <1>2, <1>3, <1>6, <2>1, ThreadIsItsOpeners DEF origin
<1> QED BY <1>4, <1>5, <1>6

\* forwarded.go:138 for threads of every length, in every order of the document, and every
\* schedule: of mail that is told plainly, a lead no one flagged is its opener's.
THEOREM LeadIsItsOpeners ==
  ASSUME \A m \in Mails : ToldPlainly(m)
  PROVE  Spec => []LeadIsFirstToWrite
<1>1. Shape /\ Known => LeadIsFirstToWrite
  <2> SUFFICES ASSUME Shape, Known, NEW l \in leads,
                      Others(MailOf(l.mail)) # {} /\ ~l.rescued /\ "owner" \notin faults /\ ~l.flagged
               PROVE  LET m == MailOf(l.mail)
                          opener == CHOOSE i \in Others(m) : \A j \in Others(m) : i <= j
                      IN l.author = m.story[opener].who /\ Tells(l.text, m.story[opener])
    BY DEF LeadIsFirstToWrite, Others
  <2>1. PICK m : m = MailOf(l.mail) OBVIOUS
  <2>2. m \in Mails /\ m \in Message BY <2>1, KnownMail
  <2>3. Accepted(m) /\ OfItsOrigin(l, m) BY <2>1 DEF Known, LeadsAreRead, AsRead
  <2>4. Others(m) \in SUBSET Nat /\ Others(m) # {} /\ m.story # <<>>
    <3>1. m.story \in Seq([who: Person \cup {Nobody}, at: Nat, says: Words]) BY <2>2 DEF Message
    <3> QED BY <2>1, <3>1 DEF Others
  <2>5. Direct(m) \/ Unmarked(m) \/ Thread(m) BY <2>2, <2>3, <2>4 DEF ToldPlainly, Accepted
  <2> DEFINE opener == CHOOSE i \in Others(m) : \A j \in Others(m) : i <= j
  <2>6. IsOpener(opener, m) BY <2>4, LeastNatural DEF IsOpener
  <2> HIDE DEF opener
  <2>7. IsHers(OriginOf(m, Own), m.story[opener])
    <3>1. OriginOf(m, Own).confidence = "high"
      BY <2>3 DEF OfItsOrigin
    <3> QED BY <2>2, <2>5, <2>6, <3>1, OriginIsTheOpener
  <2>8. l.author = m.story[opener].who /\ Tells(l.text, m.story[opener]) BY <2>3, <2>7 DEF OfItsOrigin, IsHers
  <2> QED BY <2>1, <2>8 DEF opener
<1> QED BY <1>1, KnownHolds, ShapeHolds, PTL


------------------------------------------------------------------------------
(* Retries.  Attempts of one delivery may be in service together, and each may find *)
(* no row before the other's; they ask for the same text and the same day.           *)

OneRowPerText == \A l, k \in leads : l.text = k.text /\ l.day = k.day => l = k

\* With no discard in between, the attempts of a delivery leave one row for a day at most, unless the
\* account's own addresses could not be read for one of them.
RetriesMakeOneLead ==
  \A l, k \in leads :
    l.mail = k.mail /\ l.day = k.day /\ ~l.rescued /\ ~k.rescued /\ "owner" \notin faults => l = k

LEMMA OneRowLasts ==
  ASSUME Shape, OneRowPerText, [Next]_vars
  PROVE  OneRowPerText'
<1>1. leads' = leads \/ \E h \in Handler : Insert(h)
  <2>1. CASE UNCHANGED vars BY <2>1 DEF vars
  <2>2. CASE Next BY <2>2, CapMoves, InstanceParts DEF Quiet, Passes, Midnight, tables
  <2> QED BY <2>1, <2>2
<1>2. CASE leads' = leads BY <1>2 DEF OneRowPerText
<1>3. ASSUME NEW h \in Handler, Insert(h), leads' # leads PROVE OneRowPerText'
  <2> DEFINE row == [text |-> job[h].text, day |-> job[h].day, created |-> day,
                     id |-> MailOf(job[h].mail).id, author |-> job[h].author,
                     flagged |-> job[h].flagged, rescued |-> Rescuing(h), mail |-> job[h].mail]
  <2>1. /\ leads' = leads \cup {row} /\ row.text = job[h].text /\ row.day = job[h].day
        /\ FindByHash(job[h].text, job[h].day) = {}
    BY <1>3 DEF Insert
  <2> HIDE DEF row
  <2>2. \A l \in leads : ~(l.text = row.text /\ l.day = row.day) BY <2>1 DEF FindByHash
  <2> QED BY <2>1, <2>2 DEF OneRowPerText
<1> QED BY <1>1, <1>2, <1>3

\* ingest_test.go:399 and store.go:84, for every mail, worker and schedule of its attempts.
THEOREM RetriesAreHarmless == Spec => []RetriesMakeOneLead
<1>1. Init => OneRowPerText BY DEF Init, OneRowPerText
<1>2. Shape /\ OneRowPerText /\ [Next]_vars => OneRowPerText' BY OneRowLasts
<1>3. Known /\ OneRowPerText => RetriesMakeOneLead
  <2> SUFFICES ASSUME Known, OneRowPerText, "owner" \notin faults, NEW l \in leads, NEW k \in leads,
                      l.mail = k.mail, l.day = k.day, ~l.rescued, ~k.rescued
               PROVE  l = k
    BY DEF RetriesMakeOneLead
  <2>1. OfItsOrigin(l, MailOf(l.mail)) /\ OfItsOrigin(k, MailOf(l.mail)) BY DEF Known, LeadsAreRead, AsRead
  <2>2. l.text = k.text BY <2>1 DEF OfItsOrigin
  <2> QED BY <2>2 DEF OneRowPerText
<1> QED BY <1>1, <1>2, <1>3, KnownHolds, ShapeHolds, PTL DEF Spec

------------------------------------------------------------------------------
(* The refinement of Mailbox.  A rescue settles its event after the row that       *)
(* answers for the mail, and what it took from the event is a text of that mail:    *)
(* without this invariant an entry could be rescued whose mail has no lead.         *)

Backed(step, j) ==
  /\ step # "idle" /\ j.attempt = 0 =>
       events[j.event].mail = j.mail /\ j.text \in TextsOf[MailOf(j.mail)]
  /\ step = "settling" => j.attempt = 0 /\ Led(j.mail)

HandlersBacked == \A h \in Handler : Backed(pc[h], job[h])
TextsAreHeld == \A e \in DOMAIN events :
  events[e].body # NoText => events[e].body \in TextsOf[MailOf(events[e].mail)]

LEMMA MailTexts ==
  ASSUME Shape, NEW d \in Delivery, MailOf(d) # NoMail
  PROVE  LET m == MailOf(d) IN
         /\ m \in Mails
         /\ TextsOf[m] = {m.text, Trim(m.text), Trim(Body(m)), OriginOf(m, Own).text}
<1>1. MailOf(d) \in Mails BY InstanceParts DEF Mails, Carried
<1> QED BY <1>1 DEF TextsOf

LEMMA LedLasts ==
  ASSUME Shape, [Next]_vars
  PROVE  \A d : Led(d) => Led(d)'
BY LeadsGrow, StepShape DEF Led, MailOf

\* What the lookups of priorForMessage and ingestLead find answers for the mail.
LEMMA FoundAnswers ==
  ASSUME Shape, NEW d \in Delivery, MailOf(d) # NoMail,
         HasId(MailOf(d).id) \/ \E t \in TextsOf[MailOf(d)], n \in Day : FindByHash(t, n) # {}
  PROVE  Led(d)
BY DEF HasId, FindByHash, Led

LEMMA BackingLasts ==
  ASSUME Shape, [Next]_vars, NEW step, NEW j, AtStep(step, j, Len(events)), Backed(step, j)
  PROVE  Backed(step, j)'
<1>1. RowsLast /\ instance' = instance /\ DOMAIN events = 1..Len(events)
  BY StepShape, InstanceParts, EventsLast DEF Shape, TablesShape
<1>2. Led(j.mail) => Led(j.mail)' BY LedLasts
<1>3. step # "idle" /\ j.attempt = 0 => j.event \in DOMAIN events BY <1>1 DEF AtStep
<1> QED BY <1>1, <1>2, <1>3 DEF Backed, RowsLast, MailOf

LEMMA OneBacked ==
  ASSUME Shape, HandlersBacked, [Next]_vars, NEW h \in Handler, NEW step, NEW j,
         pc' = [pc EXCEPT ![h] = step], job' = [job EXCEPT ![h] = j], Backed(step, j)'
  PROVE  HandlersBacked'
<1>1. ASSUME NEW g \in Handler PROVE Backed(pc[g], job[g])'
  <2>1. CASE g = h
    <3>1. pc'[g] = step /\ job'[g] = j BY <2>1 DEF Shape, HandlersShape
    <3> QED BY <3>1 DEF Backed, Led, MailOf
  <2>2. CASE g # h
    <3>1. PICK s, k : s = pc[g] /\ k = job[g] OBVIOUS
    <3>2. pc'[g] = s /\ job'[g] = k BY <2>2, <3>1 DEF Shape, HandlersShape
    <3>3. Backed(s, k) /\ AtStep(s, k, Len(events)) BY <3>1 DEF HandlersBacked, Shape, HandlersShape
    <3>4. Backed(s, k)' BY <3>3, BackingLasts
    <3> QED BY <3>2, <3>4 DEF Backed, Led, MailOf
  <2> QED BY <2>1, <2>2
<1> QED BY <1>1 DEF HandlersBacked


\* A row for a request's mail is found or made before its rescue is settled.
LEMMA LandedBacks ==
  ASSUME Shape, Known, HandlersBacked, [Next]_vars, NEW h \in Handler, NEW what, Landed(h, what),
         Dedup(h) \/ Insert(h)
  PROVE  HandlersBacked'
<1>0. PICK s, k : s = pc[h] /\ k = job[h] OBVIOUS
<1>1. /\ Backed(s, k) /\ k \in JobRow /\ s # "idle" /\ s # "recording" /\ Real(k.mail) /\ k.mail \in Delivery
      /\ job \in [Handler -> JobRow \cup {NoJob}]
  BY <1>0 DEF HandlersBacked, Shape, HandlersShape, AtStep, Dedup, Insert, Known, HandlersKnow, Knows, JobRow
<1>2. CASE ~Rescuing(h)
  <2>1. pc' = [pc EXCEPT ![h] = "idle"] /\ job' = [job EXCEPT ![h] = NoJob] BY <1>2 DEF Landed, Reply, Finish
  <2>2. Backed("idle", NoJob)' BY DEF Backed
  <2> QED BY <2>1, <2>2, OneBacked
<1>3. CASE Rescuing(h)
  <2>1. pc' = [pc EXCEPT ![h] = "settling"] /\ job' = [job EXCEPT ![h] = k]
    BY <1>0, <1>1, <1>3 DEF Landed, Goto
  <2>2. k.attempt = 0 /\ k.text \in TextsOf[MailOf(k.mail)] /\ events[k.event].mail = k.mail
    BY <1>0, <1>1, <1>3 DEF Backed, Rescuing
  <2>3. Led(k.mail)'
    <3>1. CASE Insert(h) /\ FindByHash(job[h].text, job[h].day) = {}
      <4> DEFINE row == [text |-> job[h].text, day |-> job[h].day, created |-> day,
                         id |-> MailOf(job[h].mail).id, author |-> job[h].author,
                         flagged |-> job[h].flagged, rescued |-> Rescuing(h), mail |-> job[h].mail]
      <4>1. leads' = leads \cup {row} /\ row.mail = k.mail BY <1>0, <3>1 DEF Insert
      <4> HIDE DEF row
      <4> QED BY <4>1 DEF Led
    <3>2. CASE ~(Insert(h) /\ FindByHash(job[h].text, job[h].day) = {})
      <4>1. HasId(MailOf(k.mail).id) \/ FindByHash(k.text, k.day) # {}
        BY <1>0, <1>1, <2>1, <3>2 DEF Dedup, Insert, Goto, Shape, HandlersShape
      <4>2. k.day \in Day BY <1>1 DEF JobRow
      <4>3. Led(k.mail) BY <1>1, <2>2, <4>1, <4>2, FoundAnswers DEF Real
      <4> QED BY <4>3, LedLasts
    <3> QED BY <3>1, <3>2
  <2>4. Backed("settling", k)'
    <3>1. AtStep("settling", k, Len(events)) BY <1>0, <1>1, <2>2 DEF Shape, HandlersShape, AtStep, PC
    <3>2. RowsLast /\ DOMAIN events = 1..Len(events) /\ instance' = instance
      BY StepShape, InstanceParts, EventsLast DEF Shape, TablesShape
    <3>3. k.event \in DOMAIN events BY <2>2, <3>1, <3>2 DEF AtStep
    <3> QED BY <2>2, <2>3, <3>2, <3>3 DEF Backed, RowsLast, MailOf
  <2> QED BY <2>1, <2>4, OneBacked
<1> QED BY <1>2, <1>3

LEMMA HandlerBacks ==
  ASSUME Shape, Known, HandlersBacked, [Next]_vars, NEW h \in Handler, HandlerStep(h)
  PROVE  HandlersBacked'
<1>0. PICK s, k : s = pc[h] /\ k = job[h] OBVIOUS
<1>1. /\ Backed(s, k) /\ AtStep(s, k, Len(events)) /\ Knows(s, k)
      /\ job \in [Handler -> JobRow \cup {NoJob}]
  BY <1>0 DEF HandlersBacked, Shape, HandlersShape, Known, HandlersKnow
<1>2. ASSUME \/ \E class, what : Reply(h, class, what)
             \/ Finish(h)
      PROVE  HandlersBacked'
  <2>1. pc' = [pc EXCEPT ![h] = "idle"] /\ job' = [job EXCEPT ![h] = NoJob] BY <1>2 DEF Reply, Finish
  <2>2. Backed("idle", NoJob)' BY DEF Backed
  <2> QED BY <2>1, <2>2, OneBacked
<1>3. ASSUME NEW step \in PC \ {"idle", "settling", "recording"}, Goto(h, step), s # "idle" PROVE HandlersBacked'
  <2>1. pc' = [pc EXCEPT ![h] = step] /\ job' = [job EXCEPT ![h] = k] BY <1>0, <1>1, <1>3 DEF Goto
  <2>2. Backed(step, k) /\ AtStep(step, k, Len(events)) BY <1>1, <1>3 DEF Backed, AtStep
  <2>3. Backed(step, k)' BY <2>2, BackingLasts
  <2> QED BY <2>1, <2>3, OneBacked
\* Only what came from the worker is filtered, or read for its origin.
<1>4. ASSUME NEW step \in PC \ {"idle", "settling"}, NEW j, j.attempt # 0,
             pc' = [pc EXCEPT ![h] = step], job' = [job EXCEPT ![h] = j]
      PROVE  HandlersBacked'
  <2>1. Backed(step, j)' BY <1>4 DEF Backed
  <2> QED BY <1>4, <2>1, OneBacked
<1>5. ASSUME NEW why, Filter(h, why), s # "idle", k.attempt # 0 PROVE HandlersBacked'
  <2> DEFINE j == [k EXCEPT !.why = why]
  <2>1. pc' = [pc EXCEPT ![h] = "recording"] /\ job' = [job EXCEPT ![h] = j] BY <1>0, <1>5 DEF Filter
  <2>2. k \in JobRow BY <1>1, <1>5 DEF AtStep
  <2>3. j.attempt # 0 BY <1>5, <2>2 DEF JobRow
  <2> HIDE DEF j
  <2> QED BY <1>4, <2>1, <2>3 DEF PC
<1>6. ASSUME NEW m, NEW own, Accept(h, m, own), s # "idle", k.attempt # 0 PROVE HandlersBacked'
  <2> DEFINE origin == OriginOf(m, own)
             guess == origin.confidence # "high"
             j == [k EXCEPT !.text = origin.text, !.author = origin.sender, !.flagged = guess]
  <2>1. pc' = [pc EXCEPT ![h] = "prior"] /\ job' = [job EXCEPT ![h] = j] BY <1>0, <1>6 DEF Accept
  <2>2. k \in JobRow BY <1>1, <1>6 DEF AtStep
  <2>3. j.attempt # 0
    <3> HIDE DEF origin, guess
    <3> QED BY <1>6, <2>2 DEF JobRow
  <2> HIDE DEF j, origin, guess
  <2> QED BY <1>4, <2>1, <2>3 DEF PC, Ingesting
<1>7. CASE Resolve(h) BY <1>0, <1>2, <1>3, <1>7 DEF Resolve, PC, Ingesting
<1>8. CASE ResolveFails(h) \/ RecordEvent(h) \/ RecordFails(h) \/ IngestFails(h) \/ RescueSettle(h) \/ RescueSettleFails(h)
  BY <1>2, <1>8 DEF ResolveFails, RecordEvent, RecordFails, Recorded, IngestFails, RescueSettle, RescueSettleFails
<1>9. CASE Screen(h)
  <2>1. s = "screening" /\ k.attempt # 0 BY <1>0, <1>1, <1>9 DEF Screen, Knows
  <2> QED BY <1>5, <1>6, <1>9, <2>1 DEF Screen
<1>10. CASE Prior(h) \/ Cap(h) \/ CapBurst(h)
  <2>1. s # "idle" BY <1>0, <1>10 DEF Prior, Cap, CapBurst
  <2>2. CASE OverCap(h) BY <1>0, <1>2, <1>5, <2>1, <2>2 DEF OverCap, Rescuing
  <2>3. \/ OverCap(h) \/ Goto(h, "capping") \/ Goto(h, "dedup")
        \/ \E class, what : Reply(h, class, what)
    BY <1>10 DEF Prior, Cap, CapBurst
  <2> QED BY <1>2, <1>3, <2>1, <2>2, <2>3 DEF PC, Ingesting
<1>11. CASE Dedup(h)
  <2>1. s # "idle" BY <1>0, <1>11 DEF Dedup
  <2>2. Landed(h, "duplicate") \/ Goto(h, "extracting") BY <1>11 DEF Dedup
  <2> QED BY <1>3, <1>11, <2>1, <2>2, LandedBacks DEF PC, Ingesting
<1>12. CASE Insert(h)
  <2>1. \E what : Landed(h, what) BY <1>12 DEF Insert
  <2> QED BY <1>12, <2>1, LandedBacks
<1> QED BY <1>7, <1>8, <1>9, <1>10, <1>11, <1>12 DEF HandlerStep

LEMMA BlankTrims == Trim(NoText) = NoText
BY DEF Trim, NoText

LEMMA BackedStep ==
  ASSUME Shape, Known, HandlersBacked, TextsAreHeld, [Next]_vars
  PROVE  HandlersBacked'
<1>1. ASSUME pc' = pc, job' = job PROVE HandlersBacked'
  <2>1. ASSUME NEW g \in Handler PROVE Backed(pc[g], job[g])'
    <3>1. PICK s, k : s = pc[g] /\ k = job[g] OBVIOUS
    <3>2. Backed(s, k) /\ AtStep(s, k, Len(events)) BY <3>1 DEF HandlersBacked, Shape, HandlersShape
    <3>3. Backed(s, k)' BY <3>2, BackingLasts
    <3> QED BY <1>1, <3>1, <3>3 DEF Backed, Led, MailOf
  <2> QED BY <2>1 DEF HandlersBacked
<1>2. CASE UNCHANGED vars BY <1>1, <1>2 DEF vars
<1>3. CASE \E d \in Delivery : WorkerStep(d) \/ \E k \in 1..instance.attempts : ArriveLimited(d, k)
  BY <1>1, <1>3 DEF WorkerStep, Post, AttemptFails, Fallback, FallbackFails, ArriveLimited
<1>4. CASE \E h \in instance.handlers : HandlerStep(h) BY <1>4, InstanceParts, HandlerBacks
<1>5. ASSUME NEW h \in Handler, NEW d \in Delivery, NEW k \in 1..instance.attempts, Arrive(h, d, k)
      PROVE  HandlersBacked'
  <2>1. \E j : pc' = [pc EXCEPT ![h] = "resolving"] /\ job' = [job EXCEPT ![h] = j] /\ j.attempt = k
    <3> DEFINE j == [mail |-> d, attempt |-> k, event |-> 0, text |-> NoText, author |-> Nobody,
                     flagged |-> FALSE, day |-> day, why |-> "none"]
    <3>1. pc' = [pc EXCEPT ![h] = "resolving"] /\ job' = [job EXCEPT ![h] = j] BY <1>5 DEF Arrive
    <3>2. j.attempt = k OBVIOUS
    <3> HIDE DEF j
    <3> QED BY <3>1, <3>2
  <2>2. PICK j : pc' = [pc EXCEPT ![h] = "resolving"] /\ job' = [job EXCEPT ![h] = j] /\ j.attempt = k BY <2>1
  <2>3. Backed("resolving", j)' BY <2>2, InstanceParts DEF Backed
  <2> QED BY <2>2, <2>3, OneBacked
<1>6. ASSUME NEW h \in Handler, NEW e \in DOMAIN events, RescueStart(h, e) PROVE HandlersBacked'
  <2>1. \E j : /\ pc' = [pc EXCEPT ![h] = "capping"] /\ job' = [job EXCEPT ![h] = j]
               /\ j.mail = events[e].mail /\ j.event = e /\ j.text = events[e].body
    <3> DEFINE j == [mail |-> events[e].mail, attempt |-> 0, event |-> e, text |-> events[e].body,
                     author |-> MailOf(events[e].mail).from, flagged |-> FALSE, day |-> day, why |-> "none"]
    <3>1. pc' = [pc EXCEPT ![h] = "capping"] /\ job' = [job EXCEPT ![h] = j] BY <1>6 DEF RescueStart
    <3>2. j.mail = events[e].mail /\ j.event = e /\ j.text = events[e].body OBVIOUS
    <3> HIDE DEF j
    <3> QED BY <3>1, <3>2
  <2>2. PICK j : /\ pc' = [pc EXCEPT ![h] = "capping"] /\ job' = [job EXCEPT ![h] = j]
                 /\ j.mail = events[e].mail /\ j.event = e /\ j.text = events[e].body
    BY <2>1
  <2>3. events[e].body # NoText BY <1>6, BlankTrims DEF RescueStart
  <2>4. j.text \in TextsOf[MailOf(j.mail)] BY <2>2, <2>3 DEF TextsAreHeld
  <2>5. RowsLast /\ instance' = instance BY StepShape, InstanceParts, EventsLast DEF Shape, TablesShape
  <2>6. Backed("capping", j)' BY <2>2, <2>4, <2>5 DEF Backed, RowsLast, MailOf
  <2> QED BY <2>2, <2>6, OneBacked
<1>7. CASE UserStep
  BY <1>1, <1>6, <1>7, InstanceParts DEF UserStep, Dismiss, BlockSender, UnblockSender, Rotate
<1>8. CASE Purge \/ Midnight BY <1>1, <1>8 DEF Purge, Midnight
<1>9. CASE Crash BY <1>9 DEF Crash, HandlersBacked, Backed
<1> QED BY <1>2, <1>3, <1>4, <1>5, <1>7, <1>8, <1>9, InstanceParts DEF Next, Step


\* Each row of the events after a step is a row there was, perhaps without its body, or a new one.
LEMMA TextsStep ==
  ASSUME Shape, Known', TextsAreHeld, [Next]_vars
  PROVE  TextsAreHeld'
<1>0. /\ day \in Day /\ events \in Seq(EventRow) /\ Shape' /\ EventsEvolve /\ instance' = instance
      /\ \A e \in DOMAIN events : events[e] \in EventRow /\ events[e].mail \in Delivery
  <2>1. day \in Day /\ events \in Seq(EventRow) BY DEF Shape, TablesShape
  <2>2. \A e \in DOMAIN events : events[e] \in EventRow BY <2>1
  <2> QED BY <2>1, <2>2, StepShape DEF EventRow
<1>1. \A d : MailOf(d)' = MailOf(d) BY <1>0 DEF MailOf
<1>2. ASSUME DOMAIN events' = DOMAIN events,
             \A e \in DOMAIN events : /\ events'[e].mail = events[e].mail
                                      /\ events'[e].body \in {events[e].body, NoText}
      PROVE  TextsAreHeld'
  BY <1>1, <1>2 DEF TextsAreHeld
<1>3. CASE events' = events BY <1>2, <1>3
<1>4. ASSUME NEW d \in Delivery, NEW why \in Reason, AppendsEvent(d, why) PROVE TextsAreHeld'
  <2> DEFINE row == NewEvent(d, why, EventBody(MailOf(d), why))
  <2>1. row.mail = d /\ row.body = EventBody(MailOf(d), why) BY DEF NewEvent
  <2>2. events' = Append(events, row) BY <1>4 DEF AppendsEvent
  <2> HIDE DEF row
  <2>3. /\ DOMAIN events' = 1..Len(events) + 1 /\ events'[Len(events) + 1] = row
        /\ \A e \in DOMAIN events' : e # Len(events) + 1 => e \in DOMAIN events /\ events'[e] = events[e]
    BY <1>0, <2>2
  <2>4. MailOf(d) # NoMail
    <3>1. Len(events) + 1 \in DOMAIN events' BY <1>0, <2>3
    <3>2. (Real(d))' BY <2>1, <2>3, <3>1 DEF Known, EventsReasoned, Real, MailOf
    <3> QED BY <1>1, <3>2 DEF Real
  <2>5. EventBody(MailOf(d), why) # NoText => EventBody(MailOf(d), why) \in TextsOf[MailOf(d)]
    BY <2>4, MailTexts DEF EventBody
  <2>6. ASSUME NEW e \in DOMAIN events', events'[e].body # NoText
        PROVE  events'[e].body \in TextsOf[MailOf(events'[e].mail)]
    <3>1. CASE e = Len(events) + 1 BY <2>1, <2>3, <2>5, <2>6, <3>1
    <3>2. CASE e # Len(events) + 1 BY <2>3, <2>6, <3>2 DEF TextsAreHeld
    <3> QED BY <3>1, <3>2
  <2> QED BY <1>1, <2>6 DEF TextsAreHeld
<1>5. ASSUME NEW i \in DOMAIN events, NEW s \in {"rescued", "dismissed"}, SettlesEvent(i, s) PROVE TextsAreHeld'
  <2> DEFINE row == SettledEvent(events[i], s)
  <2>1. row.mail = events[i].mail /\ row.body = events[i].body BY <1>0, SettledRow
  <2>2. events' = [events EXCEPT ![i] = row] BY <1>5 DEF SettlesEvent
  <2> HIDE DEF row
  <2>3. DOMAIN events' = DOMAIN events /\ \A e \in DOMAIN events : events'[e] = IF e = i THEN row ELSE events[e]
    BY <1>0, <2>2
  <2> QED BY <1>2, <2>1, <2>3
<1>6. CASE PurgesAll
  <2>1. DOMAIN events' = DOMAIN events /\ \A e \in DOMAIN events : events'[e] = PurgedEvent(events[e])
    BY <1>6 DEF PurgesAll
  <2>2. ASSUME NEW r \in EventRow PROVE PurgedEvent(r).mail = r.mail /\ PurgedEvent(r).body \in {r.body, NoText}
    BY DEF PurgedEvent, EventRow
  <2> QED BY <1>0, <1>2, <2>1, <2>2
<1> QED BY <1>0, <1>3, <1>4, <1>5, <1>6 DEF EventsEvolve

Sourced == TextsAreOwn /\ BodiesAreKept /\ HandlersBacked /\ TextsAreHeld

LEMMA SourcesHold == Spec => []Sourced
<1>1. Init => Sourced
  BY DEF Init, Sourced, TextsAreOwn, OwnText, LeadSteps, BodiesAreKept, HandlersBacked, Backed, TextsAreHeld
<1>2. Shape /\ Known /\ Known' /\ Sourced /\ [Next]_vars => Sourced'
  <2> SUFFICES ASSUME Shape, Known, Known', Sourced, [Next]_vars PROVE Sourced' OBVIOUS
  <2>1. BodiesAreKept' BY StepShape, InstanceParts, EventsLast DEF Shape, TablesShape, Sourced
  <2> QED BY <2>1, StepTexts, BackedStep, TextsStep DEF Sourced
<1> QED BY <1>1, <1>2, ShapeHolds, KnownHolds, PTL DEF Spec


\* What no step takes back.
LEMMA BoxLasts ==
  ASSUME Shape, [Next]_vars
  PROVE  /\ Letters' = Letters /\ Answered \subseteq Answered' /\ InTrouble' \in {InTrouble, TRUE}
         /\ leads' = leads => Answered' = Answered
         /\ events' = events => Entries' = Entries
         /\ address' = address /\ faults' = faults => InTrouble' = InTrouble
<1>1. instance' = instance /\ \A d : MailOf(d)' = MailOf(d) BY StepShape DEF MailOf
<1>2. Answered \subseteq Answered' BY LedLasts DEF Answered
<1>3. ASSUME leads' = leads PROVE Answered' = Answered BY <1>1, <1>3 DEF Answered, Led
<1>4. InTrouble' \in {InTrouble, TRUE}
  <2>1. CASE Fine' BY <2>1, FineWas DEF Fine, InTrouble
  <2>2. CASE ~Fine' BY <2>2 DEF Fine, InTrouble
  <2> QED BY <2>1, <2>2, Zenon
<1>5. Letters' = Letters BY <1>1 DEF Letters
<1> QED BY <1>2, <1>3, <1>4, <1>5 DEF Entries, InTrouble

\* Where no table and no mail moves, Mailbox does not, or trouble begins.
LEMMA QuietBox ==
  ASSUME Shape, [Next]_vars, UNCHANGED <<worker, leads, events>>
  PROVE  [Box!Next]_Box!vars
<1>1. CASE InTrouble' = InTrouble BY <1>1, BoxLasts DEF Box!vars
<1>2. CASE InTrouble' = TRUE
  <2>1. Box!Strike BY <1>2, BoxLasts DEF Box!Strike
  <2> QED BY <2>1 DEF Box!Next
<1> QED BY <1>1, <1>2, BoxLasts

\* What a reply does to the mail it is about.
LEMMA ReplyGoes ==
  ASSUME Shape, NEW h \in Handler, NEW class, NEW what, Reply(h, class, what)
  PROVE  \/ worker' = worker
         \/ /\ worker[job[h].mail] = "posting"
            /\ worker' = [worker EXCEPT ![job[h].mail] = IF class = "ok" THEN "delivered" ELSE "undelivered"]
<1>1. CASE Rescuing(h) BY <1>1 DEF Reply, mailbox
<1>2. CASE ~Rescuing(h) BY <1>2 DEF Reply, Hears, TryAgain, Sent, mailbox
<1> QED BY <1>1, <1>2

LEMMA ReplyBox ==
  ASSUME Shape, [Next]_vars, UNCHANGED <<leads, events>>,
         NEW h \in Handler, pc[h] # "idle", NEW class, NEW what, Reply(h, class, what),
         class = "ok" => InTrouble' \/ job[h].mail \in Answered,
         class # "ok" => InTrouble' = InTrouble
  PROVE  [Box!Next]_Box!vars
<1>1. PICK d \in Delivery : d = job[h].mail BY DEF Shape, HandlersShape, AtStep, JobRow
<1>2. CASE worker' = worker BY <1>2, QuietBox
<1>3. CASE worker[d] = "posting" /\ class = "ok" /\ worker' = [worker EXCEPT ![d] = "delivered"]
  <2>1. Box!Deliver(d) BY <1>1, <1>3, BoxLasts DEF Box!Deliver, Box!Goes
  <2> QED BY <2>1 DEF Box!Next
<1>4. CASE worker[d] = "posting" /\ class # "ok" /\ worker' = [worker EXCEPT ![d] = "undelivered"]
  <2>1. Box!Send(d) BY <1>4, BoxLasts DEF Box!Send, Box!Goes
  <2> QED BY <2>1 DEF Box!Next
<1> QED BY <1>1, <1>2, <1>3, <1>4, ReplyGoes

LEMMA WorkerBox ==
  ASSUME Shape, [Next]_vars, NEW d \in Delivery,
         WorkerStep(d) \/ \E k \in 1..instance.attempts : ArriveLimited(d, k)
  PROVE  [Box!Next]_Box!vars
<1>1. UNCHANGED <<leads, events, address>>
  BY DEF WorkerStep, Post, AttemptFails, Fallback, FallbackFails, ArriveLimited, tables
<1>2. InTrouble' = InTrouble
  <2>1. faults' = faults \/ (faults = {} /\ faults' = {"forward"})
    BY DEF WorkerStep, Post, AttemptFails, Fallback, FallbackFails, ArriveLimited, clock, Fault
  <2> QED BY <1>1, <2>1 DEF InTrouble
<1>3. CASE worker' = worker BY <1>1, <1>3, QuietBox
<1>4. CASE worker' # worker
  <2>1. \/ Box!Goes(d, "new", "posting") \/ Box!Goes(d, "posting", "undelivered")
        \/ Box!Goes(d, "undelivered", "forwarded") \/ Box!Goes(d, "undelivered", "lost")
    <3>1. CASE Post(d) BY <3>1 DEF Post, Box!Goes
    <3>2. CASE AttemptFails(d) BY <1>4, <3>2 DEF AttemptFails, TryAgain, Box!Goes
    <3>3. CASE Fallback(d) \/ FallbackFails(d) BY <3>3 DEF Fallback, FallbackFails, Box!Goes
    <3>4. CASE \E k \in 1..instance.attempts : ArriveLimited(d, k) BY <1>4, <3>4 DEF ArriveLimited, Box!Goes
    <3> QED BY <3>1, <3>2, <3>3, <3>4 DEF WorkerStep
  <2>2. Box!Send(d) BY <1>1, <1>2, <2>1, BoxLasts DEF Box!Send
  <2> QED BY <2>2 DEF Box!Next
<1> QED BY <1>3, <1>4

\* recordEvent holds the mail of the request.
LEMMA RecordBox ==
  ASSUME Shape, Known, [Next]_vars, NEW h \in Handler, RecordEvent(h)
  PROVE  [Box!Next]_Box!vars
<1>1. PICK d, why : d \in Delivery /\ d = job[h].mail /\ why = job[h].why
  BY DEF RecordEvent, Shape, HandlersShape, AtStep, JobRow
<1>2. worker[d] # "new" BY <1>1 DEF RecordEvent, Known, HandlersKnow, Knows, Real
<1> DEFINE row == NewEvent(d, why, EventBody(MailOf(d), why))
           new == EntryOf(row)
<1>3. events' = Append(events, row) BY <1>1 DEF RecordEvent
<1>4. \E body \in BOOLEAN : new = [mail |-> d, state |-> "held", since |-> NotSettled, body |-> body]
  <2>1. row.mail = d /\ row.status \in Unsettled /\ row.settled = NotSettled BY DEF NewEvent, Unsettled
  <2> HIDE DEF row
  <2>2. new = [mail |-> d, state |-> "held", since |-> NotSettled, body |-> row.body # NoText]
    BY <2>1 DEF EntryOf
  <2> QED BY <2>2
<1> HIDE DEF row
<1>5. Entries' = Append(Entries, new)
  <2>1. events \in Seq(EventRow) BY DEF Shape, TablesShape
  <2>2. Len(events) \in Nat /\ DOMAIN events = 1..Len(events) BY <2>1
  <2>3. /\ DOMAIN events' = 1..Len(events) + 1 /\ events'[Len(events) + 1] = row
        /\ \A e \in DOMAIN events : events'[e] = events[e]
    BY <1>3, <2>1, <2>2
  <2>4. Entries = [e \in 1..Len(events) |-> EntryOf(events[e])] BY <2>2 DEF Entries
  <2>5. Entries' = [e \in 1..Len(events) + 1 |-> EntryOf(events'[e])] BY <2>3 DEF Entries
  <2>6. Len(Entries) = Len(events) BY <2>2, <2>4
  <2> HIDE DEF new
  <2>7. Append(Entries, new) = [e \in 1..Len(events) + 1 |-> IF e = Len(events) + 1 THEN new ELSE Entries[e]]
    BY <2>2, <2>4, <2>6
  <2>8. EntryOf(events'[Len(events) + 1]) = new BY <2>3 DEF new
  <2>9. \A e \in 1..Len(events) : EntryOf(events'[e]) = Entries[e] BY <2>2, <2>3, <2>4
  <2> QED BY <2>2, <2>5, <2>7, <2>8, <2>9
<1>6. UNCHANGED <<Letters, Answered, InTrouble>>
  <2>1. UNCHANGED <<leads, address, faults>> BY DEF RecordEvent, clock
  <2> QED BY <2>1, BoxLasts
<1>7. Box!Goes(d, "posting", "delivered") \/ worker' = worker
  BY <1>1, ReplyGoes DEF RecordEvent, Recorded, Box!Goes
<1> HIDE DEF new
<1>8. Box!Hold(d) BY <1>2, <1>4, <1>5, <1>6, <1>7 DEF Box!Hold, Box!Heard
<1> QED BY <1>1, <1>8 DEF Box!Next


\* Settling an event that is not settled yet settles its entry; another is left as it is.
LEMMA SettleBox ==
  ASSUME Shape, BodiesAreKept, [Next]_vars, UNCHANGED <<worker, leads, address, faults>>,
         NEW i \in DOMAIN events, NEW s \in {"rescued", "dismissed"}, SettlesEvent(i, s),
         s = "rescued" => events[i].mail \in Answered
  PROVE  [Box!Next]_Box!vars
<1> DEFINE row == SettledEvent(events[i], s)
           old == Entries[i]
           new == [mail |-> old.mail, state |-> s, since |-> day, body |-> old.body]
<1>0. events \in Seq(EventRow) /\ events[i] \in EventRow /\ day \in Day BY DEF Shape, TablesShape
<1>1. events' = [events EXCEPT ![i] = row] BY DEF SettlesEvent
<1>2. CASE events[i].status \notin Unsettled
  <2>1. row = events[i] BY <1>0, <1>2, SettledRow
  <2> HIDE DEF row
  <2>2. events' = events BY <1>0, <1>1, <2>1
  <2> QED BY <2>2, QuietBox
<1>3. CASE events[i].status \in Unsettled
  <2>1. row.mail = events[i].mail /\ row.body = events[i].body /\ row.status = s BY <1>0, <1>3, SettledRow
  <2>2. row.settled = day
    <3>1. events[i].settled = NotSettled BY <1>3 DEF BodiesAreKept
    <3> QED BY <1>0, <1>3, <3>1 DEF SettledEvent, EventRow
  <2>3. old = [mail |-> events[i].mail, state |-> "held", since |-> events[i].settled, body |-> events[i].body # NoText]
    BY <1>3 DEF Entries, EntryOf
  <2>4. EntryOf(row) = new
    <3> HIDE DEF row
    <3>1. row.status \notin Unsettled BY <2>1 DEF Unsettled
    <3>2. EntryOf(row) = [mail |-> row.mail, state |-> row.status, since |-> row.settled, body |-> row.body # NoText]
      BY <3>1 DEF EntryOf
    <3>3. old.mail = row.mail /\ old.body = (row.body # NoText) BY <2>1, <2>3
    <3> HIDE DEF old
    <3> QED BY <2>1, <2>2, <3>2, <3>3
  <2>5. old.state = "held" /\ old.mail = events[i].mail BY <2>3
  <2> HIDE DEF row
  <2>6. DOMAIN events' = DOMAIN events /\ \A e \in DOMAIN events : events'[e] = IF e = i THEN row ELSE events[e]
    BY <1>0, <1>1
  <2>7. Entries' = [Entries EXCEPT ![i] = new]
    <3>1. Entries' = [e \in DOMAIN events |-> EntryOf(events'[e])] BY <2>6 DEF Entries
    <3>2. EntryOf(events'[i]) = new BY <2>4, <2>6
    <3> HIDE DEF new
    <3>3. [Entries EXCEPT ![i] = new] = [e \in DOMAIN events |-> IF e = i THEN new ELSE Entries[e]] BY DEF Entries
    <3>4. \A e \in DOMAIN events : e # i => EntryOf(events'[e]) = Entries[e] BY <2>6 DEF Entries
    <3> QED BY <3>1, <3>2, <3>3, <3>4
  <2>8. UNCHANGED <<Letters, worker, Answered, InTrouble>> BY BoxLasts
  <2>9. i \in DOMAIN Entries BY DEF Entries
  <2> HIDE DEF old
  <2>10. /\ Entries[i].state = "held"
         /\ s = "rescued" => Entries[i].mail \in Answered
         /\ Entries' = [Entries EXCEPT ![i] = [mail |-> @.mail, state |-> s, since |-> day, body |-> @.body]]
    BY <2>5, <2>7 DEF old
  <2>11. Box!Settle(i) BY <1>0, <2>8, <2>10 DEF Box!Settle
  <2> QED BY <2>9, <2>11 DEF Box!Next
<1> QED BY <1>2, <1>3

\* PurgeIngestionBodies takes nothing from an entry that is held.
LEMMA PurgeBox ==
  ASSUME Shape, BodiesAreKept, [Next]_vars, Purge
  PROVE  [Box!Next]_Box!vars
<1>0. \A e \in DOMAIN events : events[e] \in EventRow BY DEF Shape, TablesShape
<1>1. DOMAIN events' = DOMAIN events /\ \A e \in DOMAIN events : events'[e] = PurgedEvent(events[e]) BY DEF Purge
<1>2. UNCHANGED <<Letters, worker, Answered, InTrouble>>
  <2>1. UNCHANGED <<worker, leads, address, faults>> BY DEF Purge, mailbox, clock
  <2> QED BY <2>1, BoxLasts
<1>3. DOMAIN Entries = DOMAIN events /\ DOMAIN Entries' = DOMAIN events BY <1>1 DEF Entries
<1>4. ASSUME NEW e \in DOMAIN events
      PROVE  \/ Entries'[e] = Entries[e]
             \/ Entries[e].state # "held" /\ Entries'[e] = [Entries[e] EXCEPT !.body = FALSE]
  <2>1. PICK r \in EventRow : r = events[e] BY <1>0
  <2>2. Entries[e] = EntryOf(r) /\ Entries'[e] = EntryOf(PurgedEvent(r)) BY <1>1, <2>1 DEF Entries
  <2>3. CASE PurgedEvent(r) = r BY <2>2, <2>3
  <2>4. CASE PurgedEvent(r) # r
    <3>1. PurgedEvent(r) = [r EXCEPT !.body = NoText] /\ r.settled # NotSettled BY <2>4 DEF PurgedEvent
    <3>2. r.status \notin Unsettled BY <2>1, <3>1 DEF BodiesAreKept
    <3>3. r.status # "held" BY DEF EventRow
    <3>4. EntryOf(r) = [mail |-> r.mail, state |-> r.status, since |-> r.settled, body |-> r.body # NoText]
      BY <3>2 DEF EntryOf
    <3>5. PICK q : q = PurgedEvent(r) OBVIOUS
    <3>6. q.mail = r.mail /\ q.status = r.status /\ q.settled = r.settled /\ q.body = NoText
      BY <3>1, <3>5 DEF EventRow
    <3>7. EntryOf(q) = [mail |-> r.mail, state |-> r.status, since |-> r.settled, body |-> FALSE]
      BY <3>2, <3>6 DEF EntryOf
    <3>8. \E old, b : old = EntryOf(r) /\ old = [mail |-> r.mail, state |-> r.status, since |-> r.settled, body |-> b]
      BY <3>4
    <3>9. PICK old, b : old = EntryOf(r) /\ old = [mail |-> r.mail, state |-> r.status, since |-> r.settled, body |-> b]
      BY <3>8
    <3>10. old.state = r.status BY <3>9
    <3>11. [old EXCEPT !.body = FALSE] = [mail |-> r.mail, state |-> r.status, since |-> r.settled, body |-> FALSE]
      <4>1. \A no : [old EXCEPT !.body = no] = [mail |-> r.mail, state |-> r.status, since |-> r.settled, body |-> no]
        BY <3>9
      <4> QED BY <4>1, Zenon
    <3> QED BY <2>2, <3>3, <3>5, <3>7, <3>9, <3>10, <3>11
  <2> QED BY <2>3, <2>4
<1>5. Box!Purge BY <1>2, <1>3, <1>4 DEF Box!Purge
<1> QED BY <1>5 DEF Box!Next


\* A mail that a lead is made of was written by a person, or is in the quarantine.
LEMMA LeadIsMeant ==
  ASSUME Shape, Known, NEW d \in Delivery, NEW j, j.mail = d, Knows("extracting", j)
  PROVE  d \in Letters \/ Box!IsHeld(d)
<1>1. Real(d) /\ IF j.attempt = 0 THEN HasEvent(d) ELSE AsRead(j, MailOf(d)) BY DEF Knows, LeadSteps
<1>2. CASE j.attempt = 0
  <2>1. PICK e \in DOMAIN events : events[e].mail = d BY <1>1, <1>2 DEF HasEvent
  <2>2. e \in DOMAIN Entries /\ Entries[e].mail = d BY <2>1 DEF Entries, EntryOf
  <2> QED BY <2>2 DEF Box!IsHeld
<1>3. CASE j.attempt # 0
  <2>1. Accepted(MailOf(d)) /\ MailOf(d) \in Mails BY <1>1, <1>3, RealMail DEF AsRead
  <2>2. MailOf(d).story # <<>> BY <2>1, MachinesSaySo DEF Accepted, Verdict
  <2> QED BY <1>1, <2>2 DEF Letters, Real
<1> QED BY <1>2, <1>3

\* A new row is a lead; one that is found answers for the mail already.
LEMMA IngestBox ==
  ASSUME Shape, Known, Sourced, [Next]_vars, NEW h \in Handler, Prior(h) \/ Dedup(h) \/ Insert(h)
  PROVE  [Box!Next]_Box!vars
<1>0. PICK s, k : s = pc[h] /\ k = job[h] OBVIOUS
<1>1. PICK d \in Delivery : d = k.mail
  BY <1>0 DEF Prior, Dedup, Insert, Shape, HandlersShape, AtStep, JobRow
<1>2. /\ k \in JobRow /\ s \in LeadSteps /\ s # "idle" /\ Real(d) /\ Knows(s, k) /\ k.day \in Day
      /\ UNCHANGED <<events, address, faults>>
  BY <1>0, <1>1 DEF Prior, Dedup, Insert, LeadSteps, Shape, HandlersShape, AtStep, JobRow,
                    Known, HandlersKnow, Knows, tables, clock
<1>3. UNCHANGED <<Letters, Entries, InTrouble>> BY <1>2, BoxLasts
<1>4. TextsOf[MailOf(d)] = {MailOf(d).text, Trim(MailOf(d).text), Trim(Body(MailOf(d))), OriginOf(MailOf(d), Own).text}
  BY <1>2, MailTexts DEF Real
<1>5. InTrouble \/ k.text \in TextsOf[MailOf(d)]
  <2>1. CASE k.attempt = 0 BY <1>0, <1>1, <1>2, <2>1 DEF Sourced, HandlersBacked, Backed
  <2>2. CASE k.attempt # 0 /\ Fine
    <3>1. k.text = OriginOf(MailOf(d), Own).text BY <1>0, <1>1, <1>2, <2>2 DEF Sourced, TextsAreOwn, OwnText
    <3> QED BY <1>4, <3>1
  <2>3. CASE ~Fine BY <2>3 DEF Fine, InTrouble
  <2> QED BY <2>1, <2>2, <2>3
<1>6. ASSUME Reply(h, "ok", "duplicate"), leads' = leads, InTrouble \/ Led(d) PROVE [Box!Next]_Box!vars
  BY <1>0, <1>1, <1>2, <1>3, <1>6, ReplyBox DEF Answered
<1>7. ASSUME worker' = worker, leads' = leads PROVE [Box!Next]_Box!vars BY <1>2, <1>7, QuietBox
<1>8. CASE Prior(h)
  <2>1. leads' = leads BY <1>8 DEF Prior, tables
  <2>2. CASE Goto(h, "capping") /\ UNCHANGED mailbox BY <1>7, <2>1, <2>2 DEF mailbox
  <2>3. CASE /\ HasId(MailOf(d).id) \/ FindByHash(Trim(MailOf(d).text), k.day) # {}
             /\ Reply(h, "ok", "duplicate")
    <3>1. Led(d) BY <1>2, <1>4, <2>3, FoundAnswers DEF Real
    <3> QED BY <1>6, <2>1, <2>3, <3>1
  <2> QED BY <1>0, <1>1, <1>8, <2>2, <2>3 DEF Prior
<1>9. ASSUME Landed(h, "duplicate"), leads' = leads, HasId(MailOf(d).id) \/ FindByHash(k.text, k.day) # {}
      PROVE  [Box!Next]_Box!vars
  <2>1. InTrouble \/ Led(d) BY <1>2, <1>5, <1>9, FoundAnswers DEF Real
  <2> QED BY <1>6, <1>7, <1>9, <2>1 DEF Landed, mailbox
<1>10. CASE Dedup(h)
  <2>1. leads' = leads BY <1>10 DEF Dedup, tables
  <2>2. CASE Goto(h, "extracting") /\ UNCHANGED mailbox BY <1>7, <2>1, <2>2 DEF mailbox
  <2> QED BY <1>0, <1>1, <1>9, <1>10, <2>1, <2>2 DEF Dedup
<1>11. CASE Insert(h) /\ FindByHash(k.text, k.day) # {}
  BY <1>0, <1>9, <1>11 DEF Insert
<1>12. CASE Insert(h) /\ FindByHash(k.text, k.day) = {}
  <2> DEFINE row == [text |-> job[h].text, day |-> job[h].day, created |-> day,
                     id |-> MailOf(job[h].mail).id, author |-> job[h].author,
                     flagged |-> job[h].flagged, rescued |-> Rescuing(h), mail |-> job[h].mail]
  <2>1. leads' = leads \cup {row} /\ row.mail = d BY <1>0, <1>1, <1>12 DEF Insert
  <2> HIDE DEF row
  <2>2. d \in Answered' BY <2>1 DEF Answered, Led
  <2>3. Answered \subseteq Answered' BY BoxLasts
  <2>4. d \in Letters \/ Box!IsHeld(d)
    <3>1. Knows("extracting", k) BY <1>0, <1>2, <1>12 DEF Insert
    <3> QED BY <1>1, <3>1, LeadIsMeant
  <2>5. Landed(h, "accepted") BY <1>0, <1>12 DEF Insert
  <2>6. Box!Goes(d, "posting", "delivered") \/ worker' = worker
    BY <1>0, <1>1, <2>5, ReplyGoes DEF Landed, mailbox, Box!Goes
  <2>7. worker[d] # "new" BY <1>2 DEF Real
  <2>8. Box!Lead(d) BY <1>3, <2>2, <2>3, <2>4, <2>6, <2>7 DEF Box!Lead, Box!Heard
  <2> QED BY <2>8 DEF Box!Next
<1> QED BY <1>8, <1>10, <1>11, <1>12

LEMMA HandlerBox ==
  ASSUME Shape, Known, Sourced, [Next]_vars, NEW h \in Handler, HandlerStep(h)
  PROVE  [Box!Next]_Box!vars
<1>1. CASE Resolve(h)
  <2>1. pc[h] # "idle" /\ UNCHANGED <<leads, events, address, faults>> BY <1>1 DEF Resolve, tables, clock
  <2>2. CASE UNCHANGED mailbox BY <2>1, <2>2, QuietBox DEF mailbox
  <2>3. CASE address # "live" /\ Reply(h, "ok", "discarded")
    <3>1. InTrouble' BY <2>1, <2>3 DEF InTrouble
    <3> QED BY <2>1, <2>3, <3>1, ReplyBox
  <2> QED BY <1>1, <2>2, <2>3 DEF Resolve
\* What a failed lookup or INSERT is answered with is said in trouble.
<1>2. CASE ResolveFails(h) \/ RecordFails(h)
  <2>1. pc[h] # "idle" /\ UNCHANGED <<leads, events>> /\ \E what : Reply(h, "ok", what)
    BY <1>2 DEF ResolveFails, RecordFails, Recorded, tables
  <2>2. InTrouble' BY <1>2 DEF ResolveFails, RecordFails, Fault, InTrouble
  <2> QED BY <2>1, <2>2, ReplyBox
<1>3. CASE RecordEvent(h) BY <1>3, RecordBox
<1>4. CASE Prior(h) \/ Dedup(h) \/ Insert(h) BY <1>4, IngestBox
<1>5. CASE IngestFails(h)
  <2>1. /\ pc[h] # "idle" /\ UNCHANGED <<leads, events, address, faults>>
        /\ Reply(h, "error", "none")
    BY <1>5 DEF IngestFails, Ingesting, tables, clock
  <2> QED BY <2>1, BoxLasts, ReplyBox
<1>6. CASE Screen(h) \/ Cap(h) \/ CapBurst(h) \/ RescueSettleFails(h)
  <2>1. UNCHANGED <<worker, leads, events>>
    BY <1>6 DEF Screen, Cap, CapBurst, RescueSettleFails, mailbox, tables
  <2> QED BY <2>1, QuietBox
<1>7. CASE RescueSettle(h)
  <2>1. PICK i : i = job[h].event OBVIOUS
  <2>d. PICK d \in Delivery : d = job[h].mail BY <1>7 DEF RescueSettle, Shape, HandlersShape, AtStep, JobRow
  <2>2. i \in DOMAIN events /\ events[i].mail = d /\ Led(d)
    <3>1. AtStep(pc[h], job[h], Len(events)) /\ Backed(pc[h], job[h]) /\ pc[h] = "settling"
      BY <1>7 DEF RescueSettle, Shape, HandlersShape, Sourced, HandlersBacked
    <3>2. DOMAIN events = 1..Len(events) BY DEF Shape, TablesShape
    <3> QED BY <2>1, <2>d, <3>1, <3>2 DEF AtStep, Backed
  <2>3. UNCHANGED <<worker, leads, address, faults>> BY <1>7 DEF RescueSettle, mailbox, clock
  <2>4. SettlesEvent(i, "rescued") BY <1>7, <2>1 DEF RescueSettle, SettlesEvent
  <2>5. BodiesAreKept /\ events[i].mail \in Answered BY <2>2 DEF Sourced, Answered
  <2> QED BY <2>2, <2>3, <2>4, <2>5, SettleBox
<1> QED BY <1>1, <1>2, <1>3, <1>4, <1>5, <1>6, <1>7 DEF HandlerStep

LEMMA StepIsOfBox ==
  ASSUME Shape, Known, Sourced, [Next]_vars
  PROVE  [Box!Next]_Box!vars
<1>1. CASE UNCHANGED vars BY <1>1, QuietBox DEF vars
<1>2. CASE \E d \in Delivery : WorkerStep(d) \/ \E k \in 1..instance.attempts : ArriveLimited(d, k)
  BY <1>2, WorkerBox
<1>3. CASE \E h \in instance.handlers : HandlerStep(h) BY <1>3, InstanceParts, HandlerBox
<1>4. CASE \E h \in instance.handlers, d \in Delivery, k \in 1..instance.attempts : Arrive(h, d, k)
  BY <1>4, QuietBox DEF Arrive, tables
<1>5. CASE UserStep
  <2>1. CASE \E e \in DOMAIN events : Dismiss(e)
    <3>1. PICK e \in DOMAIN events : Dismiss(e) BY <2>1
    <3>2. SettlesEvent(e, "dismissed") /\ UNCHANGED <<worker, leads, address, faults>>
      BY <3>1 DEF Dismiss, SettlesEvent, mailbox, clock
    <3>3. "dismissed" # "rescued" /\ BodiesAreKept BY DEF Sourced
    <3> QED BY <3>2, <3>3, SettleBox
  <2>2. CASE ~\E e \in DOMAIN events : Dismiss(e)
    <3>1. UNCHANGED <<worker, leads, events>>
      BY <1>5, <2>2 DEF UserStep, RescueStart, BlockSender, UnblockSender, Rotate, mailbox, tables
    <3> QED BY <3>1, QuietBox
  <2> QED BY <2>1, <2>2
<1>6. CASE Purge BY <1>6, PurgeBox DEF Sourced
<1>7. CASE Midnight \/ Crash BY <1>7, QuietBox DEF Midnight, Crash, mailbox, tables
<1> QED BY <1>1, <1>2, <1>3, <1>4, <1>5, <1>6, <1>7 DEF Next, Step

LEMMA FirstOfBox == Init => Box!Init
<1> SUFFICES ASSUME Init PROVE Box!Init OBVIOUS
<1>1. Letters \subseteq Delivery /\ worker = [d \in Delivery |-> "new"] BY DEF Letters, Init
<1>2. Answered = {} BY DEF Init, Answered, Led
<1>3. Entries = <<>> BY DEF Init, Entries
<1>4. InTrouble = FALSE BY DEF Init, InTrouble
<1> QED BY <1>1, <1>2, <1>3, <1>4 DEF Box!Init

\* ingest.go, quarantine.go and post.ts for every mail, cap, schedule, fault and number of
\* deliveries, attempts and handlers: every step is a step of Mailbox or invisible to it.
THEOREM MailboxIsKept == Spec => ImplementsMailbox
<1>1. Shape /\ Known /\ Sourced /\ [Next]_vars => [Box!Next]_Box!vars BY StepIsOfBox
<1> QED BY <1>1, FirstOfBox, ShapeHolds, KnownHolds, SourcesHold, PTL DEF Spec, Box!Spec, ImplementsMailbox

==============================================================================
