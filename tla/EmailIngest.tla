------------------------------ MODULE EmailIngest ------------------------------
(***************************************************************************)
(* One inbound email, from the mail worker that posts it to the row that    *)
(* answers for it: the worker's retries and its fallback mailbox            *)
(* (worker/email-ingest), the webhook that screens, de-duplicates, caps and  *)
(* ingests it (httpapi/ingest.go), and the quarantine the account rescues    *)
(* filtered mail from (httpapi/quarantine.go), for one account.              *)
(*                                                                          *)
(* A request is served by a Handler whose steps are its SQLite statements    *)
(* and its call to the LLM.  A reply reaches the worker in the step that     *)
(* sends it, unless the worker has given up on that attempt.  ingestLead's   *)
(* two lookups are one step (nothing here removes a lead, so no interleaving *)
(* is lost); Leads has each of them, and the review that follows.            *)
(***************************************************************************)
EXTENDS Screening, Forwarding

CONSTANTS
  Delivery,    \* messages Cloudflare hands to the worker
  NoMail,      \* none
  Instances,   \* bound: what meets in an instance, see Instance
  Handler,     \* request goroutines
  Own,         \* the account's own addresses
  NoJob,       \* absent value
  DailyCap,    \* INGEST_DAILY_CAP
  Retention,   \* RETENTION_DAYS
  HasFallback  \* FALLBACK_ADDRESS is set

\* "lookup": LookupInboundAddress errors; "owner": GetUser or ActiveInboundAddress does, and
\* the account's own addresses are not known; "record": SQLite refuses an event or its
\* settling; "forward": Cloudflare will not forward; "crash": the process restarts.
AllFaults == {"lookup", "owner", "record", "forward", "crash"}

\* What the account does; "burst": other mail keeps the in-memory limiters busy; "midnight":
\* a day passes.
AllActs == {"rescue", "dismiss", "block", "rotate", "burst", "midnight"}

\* UTC days an instance lasts, which are fewer than messageIDDedupWindow
Day == 0..1
NotSettled == -1
NoText == <<>>

\* What the parts of an event row and of a lead hold
Text == Seq(Line)

\* attempts: ATTEMPTS of post.ts, handlers: the requests the process serves at a time, faults:
\* the kinds of fault one of which the instance may meet.
Instance(i) ==
  /\ i.mails \in [Delivery -> Message \cup {NoMail}]
  /\ i.attempts \in Nat \ {0} /\ i.handlers \in (SUBSET Handler) \ {{}}
  /\ i.acts \subseteq AllActs /\ i.faults \subseteq AllFaults

ASSUME EveryInstance == \A i \in Instances : Instance(i)

ASSUME FewHandlers == IsFiniteSet(Handler)

ASSUME AbsentValues == NoMail \notin Message /\ Nobody \notin Person

\* Every mail of the instances
Mails == {m \in UNION {{i.mails[d] : d \in Delivery} : i \in Instances} : m # NoMail}

\* Assumed of what other systems send: mail that no person wrote cannot be read or shows it,
\* and what the confirmations' sender sends is detected exactly if it brings a code or a link.
ASSUME MachinesSaySo == \A m \in Mails :
  m.story = <<>> => m.event # "none" \/ DetectVerification(m) \/ IsMachineMail(m) \/ IsCalendarOnly(m)

Confirms(m) == m.from = Confirmer /\ (Has(m.text \o m.html, "code") \/ Has(m.text \o m.html, "link"))

ASSUME ConfirmationsSaySo == \A m \in Mails :
  Confirms(m) <=> DetectVerification(m) /\ m.event = "none"

ASSUME Numbers ==
  DailyCap \in Nat /\ Retention \in Nat /\ HasFallback \in BOOLEAN /\ Own \subseteq Person

\* An email-sourced submission; day is the bucket its content hash was made in, flagged what
\* ExtraFlags says of its sender, rescued whether an account asked for it.
Lead == [text: Text, day: Day, created: Day, id: MsgId \cup {NoMsg},
         author: Person \cup {Nobody}, flagged: BOOLEAN, rescued: BOOLEAN, mail: Delivery]

Reason == (Verdicts \ {"accept"}) \cup {"rate_limited"}

\* A row of ingestion_events
Event == [mail: Delivery, status: {"quarantined", "verification", "rescued", "dismissed"},
          reason: Reason, body: Text, settled: Day \cup {NotSettled}]

Unsettled == {"quarantined", "verification"}

\* What a handler knows: the delivery and attempt it answers (0 for a rescue, which has an
\* event instead), the lead material, and why it filters.
Job == [mail: Delivery, attempt: Nat, event: Nat, text: Text, author: Person \cup {Nobody},
        flagged: BOOLEAN, day: Day, why: Reason \cup {"none"}]

VARIABLES
  instance,      \* the instance, which no step changes
  worker, tries, \* the worker's invocation for each delivery, and its attempts
  net,           \* requests posted and not served, each with its attempt
  outcome,       \* the outcome the worker was told
  pc, job,       \* what each handler does next, and its local variables
  leads,         \* email-sourced rows of submissions
  events,        \* ingestion_events, by id
  blocked,       \* blocked_senders
  address,       \* the capture address mail is sent to
  day,
  faults         \* the kinds of fault it has met

vars == <<instance, worker, tries, net, outcome, pc, job, leads, events, blocked, address, day, faults>>
mailbox == <<worker, tries, net, outcome>>
MailOf(d) == instance.mails[d]
tables  == <<leads, events, blocked, address>>
clock   == <<day, faults>>

Outcomes == {"none", "accepted", "duplicate", "quarantined", "verification", "discarded"}
Ingesting == {"screening", "prior", "dedup", "extracting"}
PC == {"idle", "resolving", "recording", "capping", "settling"} \cup Ingesting

\* Tables and handlers hold what they are declared to hold, a handler past its first step
\* has a job, and no delivery is tried more than ATTEMPTS times.
TypeOK ==
  /\ worker \in [Delivery -> {"new", "posting", "undelivered", "delivered", "forwarded", "lost"}]
  /\ instance \in Instances
  /\ tries \in [Delivery -> 0..instance.attempts]
  /\ net \subseteq Delivery \X (1..instance.attempts)
  /\ outcome \in [Delivery -> Outcomes]
  /\ pc \in [Handler -> PC]
  /\ job \in [Handler -> Job \cup {NoJob}]
  /\ \A h \in Handler : pc[h] # "idle" => job[h] \in Job
  /\ leads \subseteq Lead
  /\ events \in Seq(Event)
  /\ blocked \subseteq Pattern
  /\ address \in {"live", "retired"}
  /\ day \in Day
  /\ faults \subseteq AllFaults

------------------------------------------------------------------------------
(* The worker                                                               *)

\* Bound: one fault.
Fault(kind) == kind \in instance.faults /\ faults = {} /\ faults' = {kind}

Sent(d, k) ==
  /\ tries' = [tries EXCEPT ![d] = k]
  /\ net' = net \cup {<<d, k>>}

\* email(): an oversized or unparseable message is posted too, without its text.
Post(d) ==
  /\ worker[d] = "new" /\ MailOf(d) # NoMail
  /\ worker' = [worker EXCEPT ![d] = "posting"]
  /\ Sent(d, 1)
  /\ UNCHANGED <<outcome, pc, job, tables, clock>>

\* Mutant: the loop never counts.
TryForever(d) == Sent(d, tries[d]) /\ UNCHANGED worker

\* The next turn of postToZiga's loop, or its end.
TryAgain(d) ==
  IF tries[d] < instance.attempts
  THEN Sent(d, tries[d] + 1) /\ UNCHANGED worker
  ELSE worker' = [worker EXCEPT ![d] = "undelivered"] /\ UNCHANGED <<tries, net>>

\* TIMEOUT_MS, or a connection that breaks: the request may be served all the same.
AttemptFails(d) ==
  /\ worker[d] = "posting"
  /\ TryAgain(d)
  /\ UNCHANGED <<outcome, pc, job, tables, clock>>

\* deliver(), after the last attempt
Fallback(d) ==
  /\ worker[d] = "undelivered"
  /\ worker' = [worker EXCEPT ![d] = IF HasFallback THEN "forwarded" ELSE "lost"]
  /\ UNCHANGED <<tries, net, outcome, pc, job, tables, clock>>

FallbackFails(d) ==
  /\ worker[d] = "undelivered" /\ HasFallback /\ Fault("forward")
  /\ worker' = [worker EXCEPT ![d] = "lost"]
  /\ UNCHANGED <<tries, net, outcome, pc, job, tables, day>>

\* What the worker makes of the reply to attempt k, if it still waits for it: a
\* 2xx ends it, a 4xx stops the retries, a 5xx is another turn of the loop.
Hears(d, k, class, what) ==
  IF worker[d] = "posting" /\ tries[d] = k
  THEN \/ /\ class = "ok"
          /\ worker' = [worker EXCEPT ![d] = "delivered"]
          /\ outcome' = [outcome EXCEPT ![d] = what]
          /\ UNCHANGED <<tries, net>>
       \/ /\ class = "refused"
          /\ worker' = [worker EXCEPT ![d] = "undelivered"]
          /\ UNCHANGED <<tries, net, outcome>>
       \/ class = "error" /\ TryAgain(d) /\ UNCHANGED outcome
  ELSE UNCHANGED mailbox

------------------------------------------------------------------------------
Idle(h) == pc[h] = "idle"
Goto(h, step) == pc' = [pc EXCEPT ![h] = step] /\ UNCHANGED job
Finish(h) == pc' = [pc EXCEPT ![h] = "idle"] /\ job' = [job EXCEPT ![h] = NoJob]
Rescuing(h) == job[h].attempt = 0

\* The handler replies and ends; only the worker acts on a reply.
Reply(h, class, what) ==
  /\ Finish(h)
  /\ IF Rescuing(h) THEN UNCHANGED mailbox
     ELSE Hears(job[h].mail, job[h].attempt, class, what)

(* The store                                                                *)

HasId(id) == id # NoMsg /\ \E l \in leads : l.id = id
FindByHash(t, d) == {l \in leads : l.text = t /\ l.day = d}
EmailsToday == Cardinality({l \in leads : l.created = day})

NewEvent(d, why, body) ==
  [mail |-> d, status |-> IF why = "verification" THEN "verification" ELSE "quarantined",
   reason |-> why, body |-> body, settled |-> NotSettled]

\* SettleEvent: only an unsettled event moves, and it is stamped once.
SettledEvent(e, s) ==
  IF e.status \in Unsettled
  THEN [e EXCEPT !.status = s, !.settled = IF @ = NotSettled THEN day ELSE @]
  ELSE e

\* PurgeIngestionBodies: of settled events only
PurgedEvent(e) ==
  IF e.settled # NotSettled /\ e.settled < day - Retention THEN [e EXCEPT !.body = NoText] ELSE e

------------------------------------------------------------------------------
(* handleEmailIngest                                                        *)

Arrive(h, d, k) ==
  /\ Idle(h) /\ <<d, k>> \in net
  /\ net' = net \ {<<d, k>>}
  /\ pc' = [pc EXCEPT ![h] = "resolving"]
  /\ job' = [job EXCEPT ![h] =
       [mail |-> d, attempt |-> k, event |-> 0, text |-> NoText, author |-> Nobody,
        flagged |-> FALSE, day |-> day, why |-> "none"]]
  /\ UNCHANGED <<worker, tries, outcome, tables, clock>>

\* The burst limit of the address: 429, before anything is looked up.
ArriveLimited(d, k) ==
  /\ "burst" \in instance.acts /\ <<d, k>> \in net
  /\ IF worker[d] = "posting" /\ tries[d] = k
     THEN worker' = [worker EXCEPT ![d] = "undelivered"] ELSE UNCHANGED worker
  /\ net' = net \ {<<d, k>>}
  /\ UNCHANGED <<tries, outcome, pc, job, tables, clock>>

\* resolveInbound: an address that is not live is answered like filtered mail.
Resolve(h) ==
  /\ pc[h] = "resolving"
  /\ IF address = "live" THEN Goto(h, "screening") /\ UNCHANGED mailbox
                         ELSE Reply(h, "ok", "discarded")
  /\ UNCHANGED <<tables, clock>>

\* So is one whose lookup errors.
ResolveFails(h) ==
  /\ pc[h] = "resolving" /\ Fault("lookup")
  /\ Reply(h, "ok", "discarded")
  /\ UNCHANGED <<tables, day>>

Filter(h, why) ==
  /\ pc' = [pc EXCEPT ![h] = "recording"]
  /\ job' = [job EXCEPT ![h].why = why]

\* Whose lead a screened mail is
OriginOf(m, own) == ResolveOrigin([m EXCEPT !.text = Trim(Body(m))], own)

\* ingestLead's input, which nothing up to there changes any more: whose lead it is, what of
\* it the model reads, and whether the choice was a guess.  Bound: no text is longer than
\* MaxLeadRunes, so Truncate leaves it as it is.
Accept(h, m, own) ==
  LET origin == OriginOf(m, own) IN
  /\ pc' = [pc EXCEPT ![h] = "prior"]
  /\ job' = [job EXCEPT ![h] = [@ EXCEPT !.text = origin.text, !.author = origin.sender,
                                         !.flagged = origin.confidence # "high"]]

\* screenOptions goes on without the account's addresses where it cannot read them.
Screen(h) ==
  LET m == MailOf(job[h].mail)
      verdict == Verdict(m, blocked)
  IN /\ pc[h] = "screening"
     /\ IF verdict # "accept" THEN Filter(h, verdict) /\ UNCHANGED faults
        ELSE \/ Accept(h, m, Own) /\ UNCHANGED faults
             \/ Accept(h, m, {}) /\ Fault("owner")
     /\ UNCHANGED <<mailbox, tables, day>>

Recorded(h) == Reply(h, "ok", IF job[h].why = "verification" THEN "verification" ELSE "quarantined")

\* The body an event keeps: Screen hands its text over only with mail it accepts.
EventBody(m, why) ==
  CASE why = "verification" -> NoText
    [] why = "rate_limited" -> Trim(Body(m))
    [] OTHER                -> m.text

\* recordEvent and recordVerification
RecordEvent(h) ==
  /\ pc[h] = "recording"
  /\ events' = Append(events, NewEvent(job[h].mail, job[h].why, EventBody(MailOf(job[h].mail), job[h].why)))
  /\ Recorded(h)
  /\ UNCHANGED <<leads, blocked, address, clock>>

\* A failed INSERT is logged; the reply is the same.
RecordFails(h) ==
  /\ pc[h] = "recording" /\ Fault("record")
  /\ Recorded(h)
  /\ UNCHANGED <<tables, day>>

\* Mutant: a failing lookup is taken for a hit.
PriorOrError(h) ==
  /\ pc[h] = "prior"
  /\ Reply(h, "ok", "duplicate")
  /\ UNCHANGED <<tables, clock>>

\* priorForMessage hashes the text part as it came, not the text ingestLead hashes.
Prior(h) ==
  /\ pc[h] = "prior"
  /\ IF HasId(MailOf(job[h].mail).id) \/ FindByHash(Trim(MailOf(job[h].mail).text), job[h].day) # {}
     THEN Reply(h, "ok", "duplicate")
     ELSE Goto(h, "capping") /\ UNCHANGED mailbox
  /\ UNCHANGED <<tables, clock>>

\* Mutant: a rescue that the cap refuses settles its event all the same.
OverCapSettles(h) ==
  IF Rescuing(h) THEN Goto(h, "settling") ELSE Filter(h, "rate_limited")

OverCap(h) ==
  IF Rescuing(h) THEN Finish(h) ELSE Filter(h, "rate_limited")

\* Mutant: the comparison is off by one.
CapLate(h) ==
  /\ pc[h] = "capping"
  /\ IF EmailsToday > DailyCap THEN OverCap(h) ELSE Goto(h, "dedup")
  /\ UNCHANGED <<mailbox, tables, clock>>

\* overIngestCap's daily count
Cap(h) ==
  /\ pc[h] = "capping"
  /\ IF EmailsToday >= DailyCap THEN OverCap(h) ELSE Goto(h, "dedup")
  /\ UNCHANGED <<mailbox, tables, clock>>

\* Its burst limiter refuses, or the COUNT errors and it fails closed.
CapBurst(h) ==
  /\ pc[h] = "capping" /\ "burst" \in instance.acts
  /\ OverCap(h)
  /\ UNCHANGED <<mailbox, tables, clock>>

\* ingestLead has a row to show: the webhook replies, a rescue settles its event.
Landed(h, what) ==
  IF Rescuing(h) THEN Goto(h, "settling") /\ UNCHANGED mailbox ELSE Reply(h, "ok", what)

Dedup(h) ==
  /\ pc[h] = "dedup"
  /\ IF HasId(MailOf(job[h].mail).id) \/ FindByHash(job[h].text, job[h].day) # {}
     THEN Landed(h, "duplicate")
     ELSE Goto(h, "extracting") /\ UNCHANGED mailbox
  /\ UNCHANGED <<tables, clock>>

\* The extraction is the time a handler spends here before its INSERT.
Insert(h) ==
  /\ pc[h] = "extracting"
  /\ IF FindByHash(job[h].text, job[h].day) # {}
     THEN Landed(h, "duplicate") /\ UNCHANGED leads
     ELSE /\ leads' = leads \cup
               {[text |-> job[h].text, day |-> job[h].day, created |-> day,
                 id |-> MailOf(job[h].mail).id, author |-> job[h].author,
                 flagged |-> job[h].flagged, rescued |-> Rescuing(h), mail |-> job[h].mail]}
          /\ Landed(h, "accepted")
  /\ UNCHANGED <<events, blocked, address, clock>>

\* A store error is a 500, a failed extraction a 502, and a client that hung up
\* cancels the context: nothing is stored and the worker is told to try again.
IngestFails(h) ==
  /\ pc[h] \in Ingesting
  /\ Reply(h, "error", "none")
  /\ UNCHANGED <<tables, clock>>

------------------------------------------------------------------------------
(* The quarantine, the blocklist and the address                            *)

\* handleQuarantineRescue takes an event of any status that has its body left.
RescueStart(h, e) ==
  LET ev == events[e] IN
  /\ "rescue" \in instance.acts /\ Idle(h)
  /\ Trim(ev.body) # NoText
  /\ pc' = [pc EXCEPT ![h] = "capping"]
  /\ job' = [job EXCEPT ![h] =
       [mail |-> ev.mail, attempt |-> 0, event |-> e, text |-> ev.body,
        author |-> MailOf(ev.mail).from, flagged |-> FALSE, day |-> day, why |-> "none"]]
  /\ UNCHANGED <<mailbox, tables, clock>>

RescueSettle(h) ==
  /\ pc[h] = "settling"
  /\ events' = [events EXCEPT ![job[h].event] = SettledEvent(@, "rescued")]
  /\ Finish(h)
  /\ UNCHANGED <<mailbox, leads, blocked, address, clock>>

\* "The lead exists, which is what matters": logged.
RescueSettleFails(h) ==
  /\ pc[h] = "settling" /\ Fault("record")
  /\ Finish(h)
  /\ UNCHANGED <<mailbox, tables, day>>

Dismiss(e) ==
  /\ "dismiss" \in instance.acts /\ events[e].status \in Unsettled
  /\ events' = [events EXCEPT ![e] = SettledEvent(@, "dismissed")]
  /\ UNCHANGED <<mailbox, pc, job, leads, blocked, address, clock>>

\* Bound: one pattern at a time.
BlockSender(s) ==
  /\ "block" \in instance.acts /\ blocked = {}
  /\ ~IsVerificationSender(s)
  /\ blocked' = blocked \cup {s}
  /\ UNCHANGED <<mailbox, pc, job, leads, events, address, clock>>

UnblockSender(s) ==
  /\ "block" \in instance.acts
  /\ blocked' = blocked \ {s}
  /\ UNCHANGED <<mailbox, pc, job, leads, events, address, clock>>

\* handleInboundRotate, seen from the address mail is still sent to
Rotate ==
  /\ "rotate" \in instance.acts /\ address = "live"
  /\ address' = "retired"
  /\ UNCHANGED <<mailbox, pc, job, leads, events, blocked, clock>>

------------------------------------------------------------------------------
(* The process and the clock                                                *)

Purge ==
  /\ events' = [e \in DOMAIN events |-> PurgedEvent(events[e])]
  /\ UNCHANGED <<mailbox, pc, job, leads, blocked, address, clock>>

\* Bound: no request lives to see two midnights.
Midnight ==
  /\ "midnight" \in instance.acts /\ day + 1 \in Day
  /\ \A h \in Handler : ~Idle(h) => job[h].day = day
  /\ day' = day + 1
  /\ UNCHANGED <<mailbox, pc, job, tables, faults>>

\* Requests in service end without a reply; those not yet served may still be.
Crash ==
  /\ \E h \in Handler : ~Idle(h)
  /\ Fault("crash")
  /\ pc' = [h \in Handler |-> "idle"]
  /\ job' = [h \in Handler |-> NoJob]
  /\ UNCHANGED <<mailbox, tables, day>>

------------------------------------------------------------------------------
Init ==
  /\ instance \in Instances
  /\ worker = [d \in Delivery |-> "new"]
  /\ tries = [d \in Delivery |-> 0]
  /\ net = {}
  /\ outcome = [d \in Delivery |-> "none"]
  /\ pc = [h \in Handler |-> "idle"]
  /\ job = [h \in Handler |-> NoJob]
  /\ leads = {} /\ events = <<>> /\ blocked = {}
  /\ address = "live"
  /\ day = 0 /\ faults = {}

WorkerStep(d) == Post(d) \/ AttemptFails(d) \/ Fallback(d) \/ FallbackFails(d)

HandlerStep(h) ==
  \/ Resolve(h) \/ ResolveFails(h) \/ Screen(h) \/ RecordEvent(h) \/ RecordFails(h)
  \/ Prior(h) \/ Cap(h) \/ CapBurst(h) \/ Dedup(h) \/ Insert(h) \/ IngestFails(h)
  \/ RescueSettle(h) \/ RescueSettleFails(h)

UserStep ==
  \/ \E e \in DOMAIN events : Dismiss(e) \/ \E h \in instance.handlers : RescueStart(h, e)
  \/ \E s \in Pattern : BlockSender(s) \/ UnblockSender(s)
  \/ Rotate

Step ==
  \/ \E d \in Delivery : WorkerStep(d) \/ \E k \in 1..instance.attempts : ArriveLimited(d, k)
  \/ \E h \in instance.handlers : HandlerStep(h) \/ \E d \in Delivery, k \in 1..instance.attempts : Arrive(h, d, k)
  \/ UserStep \/ Purge \/ Midnight \/ Crash

Next == Step /\ UNCHANGED instance

Spec == Init /\ [][Next]_vars

\* The worker runs each invocation to its end: every attempt is answered or times out
\* (TIMEOUT_MS), and deliver() goes on to the fallback.  Nothing is asked of the server.
FairSpec ==
  /\ Spec
  /\ \A d \in Delivery : /\ WF_vars(AttemptFails(d) /\ UNCHANGED instance)
                         /\ WF_vars(Fallback(d) /\ UNCHANGED instance)

------------------------------------------------------------------------------
(* Safety                                                                   *)

\* What the rules of Forwarding are made for.  A mail is told plainly if it is its sender's
\* own words, marked by nothing as somebody else's unless a rule forwarded it; or one the account
\* forwarded with no mark of it, which is flagged; or a thread whose messages stand in it one
\* block each, in any order, and whose dates, where they can be read, tell the order.
BlocksOf(m) == ParseForwardBlocks(Trim(Body(m)))
ByHeaders(m) == m.headers \cap {"x-forwarded", "resent-from"} # {}
Tells(text, told) == \E i \in DOMAIN text : text[i] = [is |-> "words", says |-> told.says]

Direct(m) ==
  /\ ByHeaders(m) \/ BlocksOf(m) = <<>>
  /\ Len(m.story) = 1 /\ m.story[1].who = m.from /\ Tells(Clean(Trim(Body(m))), m.story[1])

Unmarked(m) == ~ByHeaders(m) /\ BlocksOf(m) = <<>> /\ m.from \in Own

Brings(b, told) ==
  b.from = told.who /\ told.who # Nobody /\ b.at = told.at /\ Tells(Clean(b.body), told)

Thread(m) ==
  LET blocks == BlocksOf(m) IN
  /\ ~ByHeaders(m) /\ blocks # <<>> /\ blocks \in Seq(Block)
  /\ \A i \in DOMAIN blocks : \E k \in DOMAIN m.story : Brings(blocks[i], m.story[k])
  /\ \A k \in DOMAIN m.story : \E i \in DOMAIN blocks : Brings(blocks[i], m.story[k])
  /\ \A j, k \in DOMAIN m.story :
       j < k /\ m.story[j].at # NoDate /\ m.story[k].at # NoDate => m.story[j].at < m.story[k].at

ToldPlainly(m) ==
  m.story # <<>> /\ Verdict(m, {}) = "accept" => Direct(m) \/ Unmarked(m) \/ Thread(m)

\* A row answers for the mail: a lead it made, one it was matched to, or an event.
Kept(d) ==
  LET m == MailOf(d) IN
  \/ \E e \in DOMAIN events : events[e].mail = d
  \/ \E l \in leads : \/ l.mail = d \/ (m.id # NoMsg /\ l.id = m.id)
                      \/ l.text \in {Trim(m.text), OriginOf(m, Own).text}

\* README "Never silently lost": whatever is retried, timed out, served late or cut
\* off by a restart, mail the worker was told is delivered is a lead or an event, unless
\* the address was rotated away, its lookup failed or the INSERT of an event did: each is
\* answered like filtered mail, with no row.
DeliveredIsKept ==
  address = "live" /\ faults \cap {"lookup", "record", "owner"} = {} =>
    \A d \in Delivery : worker[d] = "delivered" => Kept(d)

\* overIngestCap, ingest.go:259: the check and the insert are apart, so one day holds
\* at most one lead over the cap for every other request being served.
RowsWithinCap ==
  \A n \in Day : Cardinality({l \in leads : l.created = n}) < DailyCap + Cardinality(instance.handlers)

\* screen.go:83 and quarantine.go:90: mail that no person wrote reaches the model only
\* from the event that holds it, by the account's own hand.
FilteredNeedsRescue ==
  \A l \in leads : MailOf(l.mail).story = <<>> =>
    l.rescued /\ \E e \in DOMAIN events : events[e].mail = l.mail

\* verify.go:41 and quarantine.go:205: whatever the account has blocked, a forwarding
\* confirmation is shown as one, and nothing but what its sender sent is.
ConfirmationsAreShown ==
  \A e \in DOMAIN events :
    events[e].reason = "verification" <=> Confirms(MailOf(events[e].mail))

\* forwarded.go:138: of the people whose mail a delivery brings, a lead is the first to have
\* written that is not the account, and what the model reads holds their words; or it is
\* flagged as a guess.
LeadIsFirstToWrite ==
  \A l \in leads :
    LET story  == MailOf(l.mail).story
        others == {i \in DOMAIN story : story[i].who \notin Own}
    IN (others # {} /\ ~l.rescued /\ "owner" \notin faults /\ ~l.flagged) =>
         LET opener == CHOOSE i \in others : \A j \in others : i <= j IN
         l.author = story[opener].who /\ Tells(l.text, story[opener])

\* store/ingest.go:368: a rescue and a dismissal of one event may race; the first to
\* settle it decides, and the retention clock it started is not moved.
SettledEventIsFinal ==
  [][\A e \in DOMAIN events : events[e].status \notin Unsettled =>
       /\ events'[e].status = events[e].status
       /\ events'[e].settled = events[e].settled]_vars

\* index.ts:28: no invocation hangs: every message ends delivered, in the fallback
\* mailbox, or logged as lost.
EveryMailEnds ==
  \A d \in Delivery : worker[d] = "posting" ~> worker[d] \in {"delivered", "forwarded", "lost"}

------------------------------------------------------------------------------
(* Refinement: Mailbox with what the rows hold                              *)

\* The texts a lead of a mail may hold: what came, what the account is shown of it, and what
\* ingestLead reads it as
TextsOf == [m \in Mails |-> {m.text, Trim(m.text), Trim(Body(m)), OriginOf(m, Own).text}]

\* A lead answers for the mail: its own, or one with its id or a text of it.
Led(d) ==
  \E l \in leads :
    LET m == MailOf(d) IN
    \/ l.mail = d
    \/ /\ m # NoMail
       /\ (m.id # NoMsg /\ l.id = m.id) \/ l.text \in TextsOf[m]

EntryOf(e) ==
  [mail |-> e.mail, state |-> IF e.status \in Unsettled THEN "held" ELSE e.status,
   since |-> e.settled, body |-> e.body # NoText]

Letters   == {d \in Delivery : IF MailOf(d) = NoMail THEN FALSE ELSE MailOf(d).story # <<>>}
Answered  == {d \in Delivery : Led(d)}
Entries   == [e \in DOMAIN events |-> EntryOf(events[e])]
InTrouble == address # "live" \/ faults \cap {"lookup", "record", "owner"} # {}

Box == INSTANCE Mailbox WITH
  Mail <- Delivery, Time <- Day, Never <- NotSettled, letters <- Letters, fate <- worker,
  led <- Answered, held <- Entries, trouble <- InTrouble

\* ingest.go, quarantine.go and post.ts together: whatever interleaves, is lost, served late or
\* cut off by a restart, every step is a step of Mailbox or invisible to it.  So a rescue and
\* a dismissal may race, the first to settle an event decides, and none is shown as rescued
\* whose mail made no lead.
ImplementsMailbox == Box!Spec

==============================================================================
