---------------------------- MODULE InboundAddresses ----------------------------
(***************************************************************************)
(* Private capture addresses: a row of inbound_addresses here and a routing  *)
(* rule at Cloudflare there, which no transaction spans.  Accounts enable    *)
(* and rotate their address (httpapi/inbound.go); the daily sweep releases   *)
(* what a rotation left behind.                                              *)
(***************************************************************************)
EXTENDS Integers, FiniteSets

CONSTANTS
  User, Handler,
  Addr,          \* local parts, each the id of its row too
  Rule,          \* identifiers Cloudflare gives its rules, as many as it allows
  NoRow, NoAddr, NoRule, NoJob,
  Requests,      \* the kinds of request the instance issues
  FaultKinds,
  MaxAddresses,  \* INGEST_MAX_ADDRESSES
  Grace,         \* retiredAddressGrace, in days
  Others,        \* bound: how many active addresses idle accounts may have
  MaxFaults, MaxDay   \* bounds

AllRequests == {"enable", "rotate"}

\* "db": SQLite refuses a statement; "cloudflare": a rule is not deleted; "reply": a
\* rule is made and the reply lost; "crash": the process restarts.
AllFaults == {"db", "cloudflare", "reply", "crash"}

ASSUME Kinds == Requests \subseteq AllRequests /\ FaultKinds \subseteq AllFaults
ASSUME Numbers ==
  /\ MaxAddresses \in Nat /\ Grace \in Nat /\ MaxFaults \in Nat /\ MaxDay \in Nat
  /\ Others \subseteq 0..MaxAddresses
ASSUME Bounded == IsFiniteSet(Addr) /\ IsFiniteSet(Handler) /\ Handler # {}

Day == 0..MaxDay
NotRetired == -1

Row == [user: User, active: BOOLEAN, rule: Rule \cup {NoRule}, retired: Day \cup {NotRetired}]
Job == [user: User, act: AllRequests, addr: Addr \cup {NoAddr}, rule: Rule \cup {NoRule}, day: Day]

ASSUME AbsentValues ==
  NoRow \notin Row /\ NoJob \notin Job /\ NoAddr \notin Addr /\ NoRule \notin Rule

VARIABLES
  addrs,     \* inbound_addresses
  rules,     \* Cloudflare's rules: the address each one routes
  others,    \* active addresses of accounts that do nothing meanwhile
  due,       \* the addresses the sweep in progress still has to release
  pc, job, day, faults

vars == <<addrs, rules, others, due, pc, job, day, faults>>

PC == {"idle", "budget", "creating", "routing", "recording", "retiring", "undoing"}

Stored == {a \in Addr : addrs[a] # NoRow}

\* A row is active, or stamped with the day it was retired.
TypeOK ==
  /\ addrs \in [Addr -> Row \cup {NoRow}]
  /\ \A a \in Stored : addrs[a].active <=> addrs[a].retired = NotRetired
  /\ rules \in [Rule -> Addr \cup {NoAddr}]
  /\ others \in Others /\ due \subseteq Addr
  /\ pc \in [Handler -> PC]
  /\ job \in [Handler -> Job \cup {NoJob}]
  /\ \A h \in Handler : pc[h] # "idle" => job[h] \in Job
  /\ day \in Day
  /\ faults \in 0..MaxFaults

------------------------------------------------------------------------------
Active(u) == {a \in Stored : addrs[a].user = u /\ addrs[a].active}
CountActive == others + Cardinality({a \in Stored : addrs[a].active})

\* Mutant: the cutoff is not applied.
RetiredAtAll == {a \in Stored : ~addrs[a].active /\ addrs[a].retired # NotRetired}

\* Mutant: a row that never got its rule is not looked for.
RetiredWithRule ==
  {a \in Stored : /\ ~addrs[a].active /\ addrs[a].rule # NoRule
                  /\ addrs[a].retired < day - Grace}

\* RetiredInboundAddressesBefore
RetiredBefore ==
  {a \in Stored : /\ ~addrs[a].active /\ addrs[a].retired # NotRetired
                  /\ addrs[a].retired < day - Grace}

Busy == {h \in Handler : pc[h] # "idle"}

\* 16 random characters: local parts nothing has used, and the one that is drawn.
Unused ==
  {a \in Addr : /\ addrs[a] = NoRow /\ \A r \in Rule : rules[r] # a
                /\ \A h \in Busy : job[h].addr # a}

NewLocalPart == CHOOSE a \in Unused : TRUE

UnusedIds ==
  {r \in Rule : /\ rules[r] = NoAddr /\ \A a \in Stored : addrs[a].rule # r
                /\ \A h \in Busy : job[h].rule # r}

NewRuleId == CHOOSE r \in UnusedIds : TRUE

Fault(kind) == kind \in FaultKinds /\ faults < MaxFaults /\ faults' = faults + 1

Goto(h, step) == pc' = [pc EXCEPT ![h] = step] /\ UNCHANGED job
Finish(h) == pc' = [pc EXCEPT ![h] = "idle"] /\ job' = [job EXCEPT ![h] = NoJob]

Serve(h, u, act, a, step) ==
  /\ pc' = [pc EXCEPT ![h] = step]
  /\ job' = [job EXCEPT ![h] =
       [user |-> u, act |-> act, addr |-> a, rule |-> NoRule, day |-> day]]

Enabling(h) == job[h].act = "enable"

------------------------------------------------------------------------------
(* handleInboundEnable and handleInboundRotate                              *)

\* A half-provisioned row is taken up again; a provisioned one is simply returned.
\* Of several active rows the newest counts, whichever that is here.
EnableStart(h, u) ==
  /\ "enable" \in Requests /\ pc[h] = "idle"
  /\ \/ Active(u) = {} /\ Serve(h, u, "enable", NoAddr, "budget")
     \/ \E a \in Active(u) : addrs[a].rule = NoRule /\ Serve(h, u, "enable", a, "routing")
  /\ UNCHANGED <<addrs, rules, due, day, faults>>

RotateStart(h, u) ==
  /\ "rotate" \in Requests /\ pc[h] = "idle"
  /\ Serve(h, u, "rotate", NoAddr, "budget")
  /\ UNCHANGED <<addrs, rules, due, day, faults>>

Draw(h) ==
  /\ Unused # {}
  /\ pc' = [pc EXCEPT ![h] = IF Enabling(h) THEN "creating" ELSE "routing"]
  /\ job' = [job EXCEPT ![h].addr = NewLocalPart]

\* Mutant: no budget.
BudgetUnlimited(h) ==
  /\ pc[h] = "budget"
  /\ Draw(h)
  /\ UNCHANGED <<addrs, rules, due, day, faults>>

\* inboundBudgetAvailable: 503 when it is used up.  The local part is drawn next.
Budget(h) ==
  /\ pc[h] = "budget"
  /\ IF CountActive >= MaxAddresses THEN Finish(h)
     ELSE Draw(h)
  /\ UNCHANGED <<addrs, rules, due, day, faults>>

\* CreateInboundAddress: active, and not deliverable yet.
Create(h) ==
  /\ pc[h] = "creating"
  /\ addrs' = [addrs EXCEPT ![job[h].addr] =
       [user |-> job[h].user, active |-> TRUE, rule |-> NoRule, retired |-> NotRetired]]
  /\ Goto(h, IF Enabling(h) THEN "routing" ELSE "recording")
  /\ UNCHANGED <<rules, due, day, faults>>

\* CreateAddressRule
Route(h) ==
  /\ pc[h] = "routing"
  /\ UnusedIds # {}
  /\ rules' = [rules EXCEPT ![NewRuleId] = job[h].addr]
  /\ job' = [job EXCEPT ![h].rule = NewRuleId]
  /\ pc' = [pc EXCEPT ![h] = IF Enabling(h) THEN "recording" ELSE "retiring"]
  /\ UNCHANGED <<addrs, due, day, faults>>

\* Cloudflare refuses, as it does past its own cap, or cannot be reached: 502.
RouteFails(h) ==
  /\ pc[h] = "routing"
  /\ Finish(h)
  /\ UNCHANGED <<addrs, rules, due, day, faults>>

RouteReplyLost(h) ==
  /\ pc[h] = "routing" /\ Fault("reply")
  /\ UnusedIds # {}
  /\ rules' = [rules EXCEPT ![NewRuleId] = job[h].addr]
  /\ Finish(h)
  /\ UNCHANGED <<addrs, due, day>>

\* RetireInboundAddresses: every current address of the account, stamped once.
Retire(h) ==
  /\ pc[h] = "retiring"
  /\ addrs' = [a \in Addr |->
       IF a \in Active(job[h].user)
       THEN [addrs[a] EXCEPT !.active = FALSE, !.retired = IF @ = NotRetired THEN day ELSE @]
       ELSE addrs[a]]
  /\ Goto(h, "creating")
  /\ UNCHANGED <<rules, due, day, faults>>

\* SetInboundRuleID, whatever rule the row had.
Record(h) ==
  /\ pc[h] = "recording"
  /\ IF job[h].addr \in Stored
     THEN addrs' = [addrs EXCEPT ![job[h].addr].rule = job[h].rule] /\ Finish(h)
     ELSE UNCHANGED addrs /\ IF Enabling(h) THEN Goto(h, "undoing") ELSE Finish(h)
  /\ UNCHANGED <<rules, due, day, faults>>

\* A statement fails: an enable that cannot record its rule and a rotation that
\* cannot retire give the rule back; a rotation past that point just answers 500.
StepFails(h) ==
  /\ pc[h] \in {"budget", "creating", "retiring", "recording"} /\ Fault("db")
  /\ IF pc[h] = "retiring" \/ (pc[h] = "recording" /\ Enabling(h))
     THEN Goto(h, "undoing") ELSE Finish(h)
  /\ UNCHANGED <<addrs, rules, due, day>>

\* DeleteRule
Undo(h) ==
  /\ pc[h] = "undoing"
  /\ rules' = [rules EXCEPT ![job[h].rule] = NoAddr]
  /\ Finish(h)
  /\ UNCHANGED <<addrs, due, day, faults>>

\* "orphaned routing rule — release it by hand"
UndoFails(h) ==
  /\ pc[h] = "undoing" /\ Fault("cloudflare")
  /\ Finish(h)
  /\ UNCHANGED <<addrs, rules, due, day>>

------------------------------------------------------------------------------
(* ReleaseRetiredAddresses, at boot and every 24 hours                      *)

Sweep ==
  /\ due = {}
  /\ due' = RetiredBefore
  /\ UNCHANGED <<addrs, rules, pc, job, day, faults>>

Released(a) == addrs[a].rule \notin {r \in Rule : rules[r] # NoAddr}

\* DeleteRule; a rule that is already gone is a success.
Release(a) ==
  /\ a \in due /\ ~Released(a)
  /\ rules' = [rules EXCEPT ![addrs[a].rule] = NoAddr]
  /\ UNCHANGED <<addrs, due, pc, job, day, faults>>

\* Mutant: the row goes though its rule does not.
ReleaseFailsAndForgets(a) ==
  /\ a \in due /\ ~Released(a) /\ Fault("cloudflare")
  /\ addrs' = [addrs EXCEPT ![a] = NoRow]
  /\ due' = due \ {a}
  /\ UNCHANGED <<rules, pc, job, day>>

\* The row stays for the next sweep.
ReleaseFails(a) ==
  /\ a \in due /\ ~Released(a) /\ Fault("cloudflare")
  /\ due' = due \ {a}
  /\ UNCHANGED <<addrs, rules, pc, job, day>>

\* DeleteInboundAddress
Delete(a) ==
  /\ a \in due /\ Released(a)
  /\ addrs' = [addrs EXCEPT ![a] = NoRow]
  /\ due' = due \ {a}
  /\ UNCHANGED <<rules, pc, job, day, faults>>

DeleteFails(a) ==
  /\ a \in due /\ Released(a) /\ Fault("db")
  /\ due' = due \ {a}
  /\ UNCHANGED <<addrs, rules, pc, job, day>>

------------------------------------------------------------------------------
\* Bound: no request lives to see two midnights, nor a sweep one.
Midnight ==
  /\ day < MaxDay /\ due = {}
  /\ \A h \in Busy : job[h].day = day
  /\ day' = day + 1
  /\ UNCHANGED <<addrs, rules, due, pc, job, faults>>

Crash ==
  /\ Busy # {} \/ due # {}
  /\ Fault("crash")
  /\ pc' = [h \in Handler |-> "idle"]
  /\ job' = [h \in Handler |-> NoJob]
  /\ due' = {}
  /\ UNCHANGED <<addrs, rules, day>>

Init ==
  /\ addrs = [a \in Addr |-> NoRow]
  /\ rules = [r \in Rule |-> NoAddr]
  /\ due = {}
  /\ pc = [h \in Handler |-> "idle"]
  /\ job = [h \in Handler |-> NoJob]
  /\ day = 0 /\ faults = 0 /\ others \in Others

HandlerStep(h) ==
  \/ Budget(h) \/ Create(h) \/ Route(h) \/ RouteFails(h) \/ RouteReplyLost(h) \/ Retire(h)
  \/ Record(h) \/ StepFails(h) \/ Undo(h) \/ UndoFails(h)

SweepStep(a) == Release(a) \/ ReleaseFails(a) \/ Delete(a) \/ DeleteFails(a)

Next ==
  /\ \/ \E h \in Handler : HandlerStep(h) \/ \E u \in User : EnableStart(h, u) \/ RotateStart(h, u)
     \/ Sweep \/ \E a \in Addr : SweepStep(a)
     \/ Midnight \/ Crash
  /\ UNCHANGED others

Spec == Init /\ [][Next]_vars

\* The ticker runs the sweep for as long as the process lives, days pass, and the
\* calls of a request and of a sweep return.
FairSpec ==
  /\ Spec
  /\ WF_vars(Sweep /\ UNCHANGED others) /\ WF_vars(Midnight /\ UNCHANGED others)
  /\ WF_vars((\E a \in Addr : SweepStep(a)) /\ UNCHANGED others)
  /\ \A h \in Handler : WF_vars(HandlerStep(h) /\ UNCHANGED others)

------------------------------------------------------------------------------
(* Safety and liveness                                                      *)

\* inbound.go:37: an address the account is shown, or that it rotated away within
\* the grace period, is one Cloudflare really routes, through every failure and race.
ShownAddressRoutes ==
  \A a \in Stored :
    addrs[a].rule # NoRule /\ (addrs[a].active \/ addrs[a].retired >= day - Grace)
    => rules[addrs[a].rule] = a

\* store/ingest.go:237: the budget is checked apart from the insert, so requests in
\* service together can pass it together, and by no more than that.
ActiveWithinBudget == CountActive < MaxAddresses + Cardinality(Handler)

\* A row stays its account's, is never active again, keeps the day its grace counts from, and
\* names a rule for good once it names one.
StaysAsItWas(x) ==
  /\ x \in Stored' /\ addrs'[x].user = addrs[x].user
  /\ addrs'[x].active => addrs[x].active
  /\ ~addrs[x].active => addrs'[x].retired = addrs[x].retired
  /\ addrs[x].rule # NoRule => addrs'[x].rule # NoRule

Expired(x) == ~addrs[x].active /\ addrs[x].retired < day - Grace

\* A row goes after its grace only, and when the rule it names routes nothing to it any more.
GoesWithItsRule(x) == Expired(x) /\ (addrs[x].rule # NoRule => rules'[addrs[x].rule] # x)

\* store/ingest.go:224 and inbound.go:232: whatever requests, sweeps and faults meet, an
\* address is retired once and for good, and its row is not deleted while the rule it names
\* still routes to it, which would strand the rule with nothing pointing at it.
AddressLasts == \A x \in Stored : StaysAsItWas(x) \/ GoesWithItsRule(x)
AddressesLast == [][AddressLasts]_vars

\* A row whose grace the instance sees end
Overdue(a) == ~addrs[a].active /\ addrs[a].retired < MaxDay - Grace

\* inbound.go:212 "an address that is never released is budget permanently lost": every
\* row is released in the end, though a sweep fails at Cloudflare or at its table, or dies.
GraceEnds == (\E a \in Stored : Overdue(a)) ~> (\A a \in Stored : ~Overdue(a))
==============================================================================
