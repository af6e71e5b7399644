----------------------------- MODULE AddressProofs -----------------------------
(***************************************************************************)
(* For every number of accounts, requests and addresses, every budget and      *)
(* grace period and any faults: an address an account is shown, or gave up     *)
(* within the grace period, routes; and how far the budget is overshot.        *)
(*                                                                          *)
(* What is said of one request takes the tables as parameters, a for addrs     *)
(* and r for rules, to follow it from a state to the next.                     *)
(***************************************************************************)
EXTENDS InboundAddresses, FiniteSetTheorems, TLAPS

\* A request that made a rule and has not yet recorded it or given it back
HoldsRule(step, j) == step \in {"recording", "retiring", "undoing"} \/ (step = "creating" /\ j.act = "rotate")

\* A request that has drawn a local part and not yet stored it, with its place in the budget
HoldsAddr(step, j) == step = "creating" \/ (step \in {"routing", "retiring"} /\ j.act = "rotate")

AtStep(step, j, a, r) ==
  /\ step \in PC /\ j \in Job \cup {NoJob}
  /\ step # "idle" => j \in Job
  /\ step \notin {"idle", "budget"} => j.addr \in Addr
  /\ step = "retiring" => j.act = "rotate"
  /\ HoldsRule(step, j) =>
       j.rule \in Rule /\ r[j.rule] = j.addr /\ \A x \in Addr : a[x] # NoRow => a[x].rule # j.rule
  /\ HoldsAddr(step, j) => a[j.addr] = NoRow

Requested ==
  /\ pc \in [Handler -> PC] /\ job \in [Handler -> Job \cup {NoJob}]
  /\ \A h \in Handler : AtStep(pc[h], job[h], addrs, rules)

\* No two requests work on a rule or a local part that one of them holds.
Apart(step, j, other) ==
  /\ HoldsRule(step, j) => other.rule # j.rule
  /\ HoldsAddr(step, j) => other.addr # j.addr

Alone == \A h, g \in Handler : h # g /\ pc[h] # "idle" /\ pc[g] # "idle" => Apart(pc[h], job[h], job[g])

TablesInv ==
  /\ addrs \in [Addr -> Row \cup {NoRow}] /\ rules \in [Rule -> Addr \cup {NoAddr}] /\ day \in Day
  /\ \A x \in Stored : addrs[x].active <=> addrs[x].retired = NotRetired
  /\ due \subseteq Stored /\ \A x \in due : Expired(x)

\* A rule a row names routes the row's address until its grace is over, and is named once.
RulesInv ==
  \A x \in Stored : addrs[x].rule # NoRule =>
    /\ rules[addrs[x].rule] = x \/ Expired(x)
    /\ \A y \in Stored : addrs[y].rule = addrs[x].rule => y = x

RoutesInv == TablesInv /\ RulesInv /\ Requested /\ Alone

\* One request moves on; the tables may change, but not what the others hold.
LEMMA OneMoves ==
  ASSUME Requested, Alone, NEW h \in Handler, NEW step, NEW j,
         pc' = [pc EXCEPT ![h] = step], job' = [job EXCEPT ![h] = j],
         AtStep(step, j, addrs', rules'),
         \A g \in Handler \ {h} : AtStep(pc[g], job[g], addrs', rules'),
         step # "idle" => \A g \in Handler \ {h} : pc[g] # "idle" =>
           Apart(step, j, job[g]) /\ Apart(pc[g], job[g], j)
  PROVE  Requested' /\ Alone'
<1>0. pc \in [Handler -> PC] /\ job \in [Handler -> Job \cup {NoJob}] BY DEF Requested
<1>1. pc' \in [Handler -> PC] /\ job' \in [Handler -> Job \cup {NoJob}] BY <1>0 DEF AtStep
<1>2. /\ pc'[h] = step /\ job'[h] = j
      /\ \A g \in Handler \ {h} : pc'[g] = pc[g] /\ job'[g] = job[g]
  BY <1>0
<1>3. \A g \in Handler : AtStep(pc'[g], job'[g], addrs', rules') BY <1>2
<1>4. Alone' BY <1>2 DEF Alone
<1> QED BY <1>1, <1>3, <1>4 DEF Requested

\* A request that goes on and holds nothing it did not hold before.
LEMMA Narrows ==
  ASSUME Requested, Alone, NEW h \in Handler, NEW step, pc[h] # "idle",
         pc' = [pc EXCEPT ![h] = step], job' = job,
         AtStep(step, job[h], addrs', rules'),
         \A g \in Handler \ {h} : AtStep(pc[g], job[g], addrs', rules'),
         HoldsRule(step, job[h]) => HoldsRule(pc[h], job[h]),
         HoldsAddr(step, job[h]) => HoldsAddr(pc[h], job[h])
  PROVE  Requested' /\ Alone'
<1>1. job' = [job EXCEPT ![h] = job[h]] BY DEF Requested
<1>2. \A g \in Handler \ {h} : pc[g] # "idle" => Apart(step, job[h], job[g]) /\ Apart(pc[g], job[g], job[h])
  BY DEF Alone, Apart
<1> QED BY <1>1, <1>2, OneMoves

LEMMA Finishes ==
  ASSUME Requested, Alone, NEW h \in Handler, Finish(h),
         \A g \in Handler \ {h} : AtStep(pc[g], job[g], addrs', rules')
  PROVE  Requested' /\ Alone'
<1>1. AtStep("idle", NoJob, addrs', rules') BY DEF AtStep, PC, HoldsRule, HoldsAddr
<1> QED BY <1>1, OneMoves DEF Finish

\* Steps that write no table
LEMMA TablesStay ==
  ASSUME TablesInv, RulesInv, Requested, addrs' = addrs, rules' = rules, due' = due, day' = day
  PROVE  TablesInv' /\ RulesInv' /\ \A g \in Handler : AtStep(pc[g], job[g], addrs', rules')
BY DEF TablesInv, RulesInv, Stored, Expired, Requested

LEMMA StartKeeps ==
  ASSUME RoutesInv, NEW h \in Handler, NEW u \in User, EnableStart(h, u) \/ RotateStart(h, u)
  PROVE  RoutesInv'
<1> DEFINE J(act, x) == [user |-> u, act |-> act, addr |-> x, rule |-> NoRule, day |-> day]
<1>1. addrs' = addrs /\ rules' = rules /\ due' = due /\ day' = day BY DEF EnableStart, RotateStart
<1>2. TablesInv' /\ RulesInv' /\ \A g \in Handler : AtStep(pc[g], job[g], addrs', rules')
  BY <1>1, TablesStay DEF RoutesInv
<1>3. ASSUME NEW act \in {"enable", "rotate"}, NEW x \in Addr \cup {NoAddr}, NEW step \in {"budget", "routing"},
             pc' = [pc EXCEPT ![h] = step], job' = [job EXCEPT ![h] = J(act, x)],
             step = "routing" => act = "enable" /\ x \in Stored,
             x # NoAddr => x \in Stored
      PROVE  RoutesInv'
  <2> DEFINE j == J(act, x)
  <2>1. j \in Job /\ j.act = act /\ j.addr = x /\ j.rule = NoRule
    BY <1>3 DEF RoutesInv, TablesInv, Job, AllRequests
  <2> HIDE DEF j
  <2>2. step \in PC /\ step \notin {"recording", "retiring", "undoing", "creating", "idle"} BY DEF PC
  <2>3. ~HoldsRule(step, j) /\ ~HoldsAddr(step, j) BY <1>3, <2>1, <2>2 DEF HoldsRule, HoldsAddr
  <2>4. AtStep(step, j, addrs', rules') BY <1>3, <2>1, <2>2, <2>3 DEF AtStep, Stored
  <2>5. ASSUME NEW g \in Handler \ {h} PROVE Apart(step, j, job[g]) /\ Apart(pc[g], job[g], j)
    <3>1. AtStep(pc[g], job[g], addrs, rules) BY DEF RoutesInv, Requested
    <3>2. HoldsRule(pc[g], job[g]) => job[g].rule # NoRule BY <3>1, AbsentValues DEF AtStep
    <3>3. HoldsAddr(pc[g], job[g]) => job[g].addr \notin Stored /\ job[g].addr \in Addr
      BY <3>1 DEF AtStep, Stored, HoldsAddr
    <3> QED BY <1>3, <2>1, <2>3, <3>2, <3>3, AbsentValues DEF Apart
  <2> QED BY <1>2, <1>3, <2>4, <2>5, OneMoves DEF RoutesInv, j
<1>4. CASE RotateStart(h, u) BY <1>3, <1>4 DEF RotateStart, Serve
<1>5. CASE EnableStart(h, u)
  <2>1. CASE Serve(h, u, "enable", NoAddr, "budget") BY <1>3, <2>1 DEF Serve
  <2>2. ASSUME NEW x \in Active(u), Serve(h, u, "enable", x, "routing") PROVE RoutesInv'
    <3>1. x \in Stored /\ x \in Addr BY DEF Active, Stored
    <3> QED BY <1>3, <2>2, <3>1 DEF Serve
  <2> QED BY <1>5, <2>1, <2>2 DEF EnableStart
<1> QED BY <1>4, <1>5

LEMMA BudgetKeeps ==
  ASSUME RoutesInv, NEW h \in Handler, Budget(h)
  PROVE  RoutesInv'
<1>1. addrs' = addrs /\ rules' = rules /\ due' = due /\ day' = day /\ pc[h] = "budget" BY DEF Budget
<1>2. TablesInv' /\ RulesInv' /\ \A g \in Handler : AtStep(pc[g], job[g], addrs', rules')
  BY <1>1, TablesStay DEF RoutesInv
<1>3. CASE Finish(h) BY <1>2, <1>3, Finishes DEF RoutesInv
<1>4. CASE Draw(h)
  <2> DEFINE j == [job[h] EXCEPT !.addr = NewLocalPart]
             step == IF job[h].act = "enable" THEN "creating" ELSE "routing"
  <2>1. NewLocalPart \in Unused BY <1>4 DEF Draw, NewLocalPart
  <2>2. AtStep(pc[h], job[h], addrs, rules) BY DEF RoutesInv, Requested
  <2>3. job[h] \in Job BY <1>1, <2>2 DEF AtStep
  <2>4. NewLocalPart \in Addr /\ addrs[NewLocalPart] = NoRow BY <2>1 DEF Unused
  <2>5. j \in Job /\ j.act = job[h].act /\ j.addr = NewLocalPart /\ j.rule = job[h].rule
    BY <2>3, <2>4 DEF Job
  <2>6. /\ step \in PC /\ step \in {"creating", "routing"} /\ (step = "creating" => j.act = "enable")
        /\ pc' = [pc EXCEPT ![h] = step] /\ job' = [job EXCEPT ![h] = j]
    BY <1>4, <2>5 DEF Draw, Enabling, PC
  <2> HIDE DEF j, step
  <2>7. ~HoldsRule(step, j) BY <2>6 DEF HoldsRule
  <2>8. AtStep(step, j, addrs', rules') BY <1>1, <2>4, <2>5, <2>6, <2>7 DEF AtStep
  <2>9. ASSUME NEW g \in Handler \ {h}, pc[g] # "idle" PROVE Apart(step, j, job[g]) /\ Apart(pc[g], job[g], j)
    <3>1. job[g].addr # j.addr BY <2>1, <2>5, <2>9 DEF Unused, Busy
    <3>2. HoldsRule(pc[g], job[g]) => job[h].rule # job[g].rule
      BY <1>1, <2>9 DEF RoutesInv, Alone, Apart
    <3> QED BY <2>5, <2>7, <3>1, <3>2 DEF Apart
  <2> QED BY <1>2, <2>6, <2>8, <2>9, OneMoves DEF RoutesInv
<1> QED BY <1>3, <1>4 DEF Budget

\* The row of a local part nobody else holds is added, and routes nothing yet.
LEMMA CreateKeeps ==
  ASSUME RoutesInv, NEW h \in Handler, Create(h)
  PROVE  RoutesInv'
<1> DEFINE x == job[h].addr
           row == [user |-> job[h].user, active |-> TRUE, rule |-> NoRule, retired |-> NotRetired]
           step == IF job[h].act = "enable" THEN "routing" ELSE "recording"
<1>1. /\ pc[h] = "creating" /\ rules' = rules /\ due' = due /\ day' = day
      /\ AtStep(pc[h], job[h], addrs, rules) /\ addrs \in [Addr -> Row \cup {NoRow}]
  BY DEF Create, RoutesInv, Requested, TablesInv
<1>2. x \in Addr /\ addrs[x] = NoRow /\ job[h] \in Job /\ job[h].act \in {"enable", "rotate"}
  BY <1>1 DEF AtStep, HoldsAddr, Job, AllRequests
<1>3. row \in Row /\ row.active /\ row.rule = NoRule /\ row.retired = NotRetired
  <2>1. row \in Row BY <1>2 DEF Row, Job
  <2>2. row.active /\ row.rule = NoRule /\ row.retired = NotRetired BY Zenon
  <2> QED BY <2>1, <2>2
<1>4. addrs' = [addrs EXCEPT ![x] = row] BY DEF Create
<1> HIDE DEF row
<1>5. /\ addrs' \in [Addr -> Row \cup {NoRow}] /\ addrs'[x] = row
      /\ \A y \in Addr \ {x} : addrs'[y] = addrs[y]
  BY <1>1, <1>2, <1>3, <1>4
<1>6. Stored' = Stored \cup {x} /\ x \notin Stored BY <1>2, <1>3, <1>5, AbsentValues DEF Stored
<1>7. TablesInv'
  BY <1>1, <1>2, <1>3, <1>5, <1>6 DEF RoutesInv, TablesInv, Expired, Stored
<1>8. RulesInv'
  BY <1>1, <1>2, <1>3, <1>5, <1>6 DEF RoutesInv, RulesInv, Expired, Stored
<1>9. ASSUME NEW g \in Handler \ {h} PROVE AtStep(pc[g], job[g], addrs', rules')
  <2>1. AtStep(pc[g], job[g], addrs, rules) BY DEF RoutesInv, Requested
  <2>2. HoldsAddr(pc[g], job[g]) => job[g].addr # x /\ job[g].addr \in Addr
    BY <1>1, <2>1 DEF RoutesInv, Alone, Apart, HoldsAddr, AtStep
  <2> QED BY <1>1, <1>3, <1>5, <2>1, <2>2, AbsentValues DEF AtStep
<1>10. step \in {"routing", "recording"} /\ (step = "routing" => job[h].act # "rotate")
       /\ (step = "recording" => job[h].act = "rotate") /\ Goto(h, step)
  BY <1>2 DEF Create, Enabling
<1> HIDE DEF step
<1>11. ~HoldsAddr(step, job[h]) /\ (HoldsRule(step, job[h]) => HoldsRule(pc[h], job[h]))
  BY <1>1, <1>10 DEF HoldsAddr, HoldsRule
<1>12. AtStep(step, job[h], addrs', rules')
  BY <1>1, <1>2, <1>3, <1>5, <1>10, <1>11, AbsentValues DEF AtStep, PC
<1>13. Requested' /\ Alone' BY <1>1, <1>9, <1>10, <1>11, <1>12, Narrows DEF RoutesInv, Goto
<1> QED BY <1>7, <1>8, <1>13 DEF RoutesInv

\* A rule nothing names is made.
LEMMA RouteTables ==
  ASSUME RoutesInv, NEW x \in Addr, NEW i \in UnusedIds, rules' = [rules EXCEPT ![i] = x],
         addrs' = addrs, due' = due, day' = day
  PROVE  /\ TablesInv' /\ RulesInv' /\ i \in Rule /\ rules'[i] = x
         /\ \A g \in Handler : AtStep(pc[g], job[g], addrs', rules')
         /\ \A y \in Addr : addrs[y] # NoRow => addrs[y].rule # i
         /\ \A g \in Handler : pc[g] # "idle" => job[g].rule # i
<1>1. /\ i \in Rule /\ rules[i] = NoAddr
      /\ \A y \in Stored : addrs[y].rule # i
      /\ \A g \in Handler : pc[g] # "idle" => job[g].rule # i
  BY DEF UnusedIds, Busy
<1>2. /\ rules' \in [Rule -> Addr \cup {NoAddr}] /\ rules'[i] = x
      /\ \A k \in Rule \ {i} : rules'[k] = rules[k]
  BY <1>1 DEF RoutesInv, TablesInv
<1>3. TablesInv' BY <1>2 DEF RoutesInv, TablesInv, Stored, Expired
<1>4. RulesInv'
  <2>1. \A y \in Stored : addrs[y].rule # NoRule => addrs[y].rule \in Rule
    BY DEF RoutesInv, TablesInv, Stored, Row
  <2>2. \A y \in Stored : addrs[y].rule # NoRule => rules'[addrs[y].rule] = rules[addrs[y].rule]
    BY <1>1, <1>2, <2>1
  <2>3. Stored' = Stored /\ \A y : Expired(y)' = Expired(y) BY DEF Stored, Expired
  <2> QED BY <2>2, <2>3 DEF RoutesInv, RulesInv
<1>5. ASSUME NEW g \in Handler PROVE AtStep(pc[g], job[g], addrs', rules')
  <2>1. AtStep(pc[g], job[g], addrs, rules) BY DEF RoutesInv, Requested
  <2>2. HoldsRule(pc[g], job[g]) => pc[g] # "idle" BY DEF HoldsRule
  <2> QED BY <1>1, <1>2, <2>1, <2>2 DEF AtStep
<1> QED BY <1>1, <1>2, <1>3, <1>4, <1>5 DEF Stored

LEMMA RouteKeeps ==
  ASSUME RoutesInv, NEW h \in Handler, Route(h) \/ RouteFails(h) \/ RouteReplyLost(h)
  PROVE  RoutesInv'
<1>1. AtStep(pc[h], job[h], addrs, rules) /\ pc[h] = "routing" /\ addrs' = addrs /\ due' = due /\ day' = day
  BY DEF RoutesInv, Requested, Route, RouteFails, RouteReplyLost
<1>2. job[h] \in Job /\ job[h].addr \in Addr BY <1>1 DEF AtStep
<1>3. CASE RouteFails(h)
  <2>1. rules' = rules BY <1>3 DEF RouteFails
  <2> QED BY <1>1, <1>3, <2>1, TablesStay, Finishes DEF RouteFails, RoutesInv
<1>4. ASSUME UnusedIds # {} PROVE NewRuleId \in UnusedIds BY <1>4 DEF NewRuleId
<1>5. CASE RouteReplyLost(h)
  <2>1. NewRuleId \in UnusedIds /\ rules' = [rules EXCEPT ![NewRuleId] = job[h].addr]
    BY <1>4, <1>5 DEF RouteReplyLost
  <2> HIDE DEF NewRuleId
  <2> QED BY <1>1, <1>2, <1>5, <2>1, RouteTables, Finishes DEF RouteReplyLost, RoutesInv
<1>6. CASE Route(h)
  <2> DEFINE j == [job[h] EXCEPT !.rule = NewRuleId]
             step == IF job[h].act = "enable" THEN "recording" ELSE "retiring"
  <2>1. NewRuleId \in UnusedIds /\ rules' = [rules EXCEPT ![NewRuleId] = job[h].addr]
    BY <1>4, <1>6 DEF Route
  <2>2. PICK i \in UnusedIds : i = NewRuleId BY <2>1
  <2>3. /\ TablesInv' /\ RulesInv' /\ i \in Rule /\ rules'[i] = job[h].addr
        /\ \A g \in Handler : AtStep(pc[g], job[g], addrs', rules')
        /\ \A y \in Addr : addrs[y] # NoRow => addrs[y].rule # i
        /\ \A g \in Handler : pc[g] # "idle" => job[g].rule # i
    <3>1. rules' = [rules EXCEPT ![i] = job[h].addr] BY <2>1, <2>2
    <3> HIDE DEF j, step
    <3> QED BY <1>1, <1>2, <3>1, RouteTables
  <2>4. j \in Job /\ j.act = job[h].act /\ j.addr = job[h].addr /\ j.rule = i
    BY <1>2, <2>2, <2>3 DEF Job
  <2>5. /\ step \in {"recording", "retiring"} /\ (step = "retiring" => j.act = "rotate")
        /\ pc' = [pc EXCEPT ![h] = step] /\ job' = [job EXCEPT ![h] = j]
    BY <1>2, <1>6, <2>4 DEF Route, Enabling, Job, AllRequests
  <2> HIDE DEF j, step
  <2>6. HoldsAddr(step, j) => HoldsAddr(pc[h], job[h]) BY <1>1, <2>4, <2>5 DEF HoldsAddr
  <2>7. AtStep(step, j, addrs', rules') BY <1>1, <1>2, <2>3, <2>4, <2>5, <2>6 DEF AtStep, PC
  <2>8. ASSUME NEW g \in Handler \ {h}, pc[g] # "idle" PROVE Apart(step, j, job[g]) /\ Apart(pc[g], job[g], j)
    <3>1. Apart(pc[h], job[h], job[g]) /\ Apart(pc[g], job[g], job[h]) BY <1>1, <2>8 DEF RoutesInv, Alone
    <3> QED BY <2>3, <2>4, <2>6, <2>8, <3>1 DEF Apart
  <2> QED BY <2>3, <2>5, <2>7, <2>8, OneMoves DEF RoutesInv
<1> QED BY <1>3, <1>5, <1>6

LEMMA RetireKeeps ==
  ASSUME RoutesInv, NEW h \in Handler, Retire(h)
  PROVE  RoutesInv'
<1> DEFINE stamp(x) == IF addrs[x].retired = NotRetired THEN day ELSE addrs[x].retired
           row(x) == [addrs[x] EXCEPT !.active = FALSE, !.retired = stamp(x)]
<1>1. /\ pc[h] = "retiring" /\ rules' = rules /\ due' = due /\ day' = day /\ Goto(h, "creating")
      /\ AtStep(pc[h], job[h], addrs, rules) /\ addrs \in [Addr -> Row \cup {NoRow}] /\ day \in Day
  BY DEF Retire, RoutesInv, Requested, TablesInv
<1>2. ASSUME NEW x \in Active(job[h].user)
      PROVE  row(x) \in Row /\ row(x) # NoRow /\ ~row(x).active /\ row(x).rule = addrs[x].rule
             /\ row(x).retired = day /\ x \in Stored /\ addrs[x].active
  <2>1. x \in Stored /\ addrs[x] \in Row /\ addrs[x].active BY <1>1 DEF Active, Stored
  <2>2. stamp(x) = day BY <2>1 DEF RoutesInv, TablesInv
  <2> HIDE DEF stamp
  <2>3. row(x) \in Row BY <1>1, <2>1, <2>2 DEF Row
  <2>4. ~row(x).active /\ row(x).rule = addrs[x].rule /\ row(x).retired = stamp(x) BY <2>1 DEF Row
  <2> HIDE DEF row
  <2> QED BY <2>1, <2>2, <2>3, <2>4, AbsentValues
<1>3. addrs' = [x \in Addr |-> IF x \in Active(job[h].user) THEN row(x) ELSE addrs[x]]
  BY DEF Retire
<1> HIDE DEF row
<1>4. /\ \A x \in Addr : x \in Active(job[h].user) => addrs'[x] = row(x)
      /\ \A x \in Addr : x \notin Active(job[h].user) => addrs'[x] = addrs[x]
  BY <1>3
<1>5. addrs' \in [Addr -> Row \cup {NoRow}] BY <1>1, <1>2, <1>3
<1>6. Stored' = Stored BY <1>2, <1>4 DEF Stored
<1>7. \A x \in Stored : addrs'[x].rule = addrs[x].rule BY <1>2, <1>4 DEF Stored
<1>8. \A x \in Stored : Expired(x) => Expired(x)'
  BY <1>1, <1>2, <1>4 DEF Expired, Stored
<1>9. \A x \in Stored : addrs'[x].active <=> addrs'[x].retired = NotRetired
  <2>1. day # NotRetired BY <1>1, Numbers DEF Day, NotRetired
  <2> QED BY <1>2, <1>4, <2>1 DEF RoutesInv, TablesInv, Stored
<1>10. TablesInv' BY <1>1, <1>5, <1>6, <1>8, <1>9 DEF RoutesInv, TablesInv
<1>11. RulesInv' BY <1>1, <1>6, <1>7, <1>8 DEF RoutesInv, RulesInv
<1>12. \A x \in Addr : (addrs'[x] = NoRow <=> addrs[x] = NoRow) /\ (addrs[x] # NoRow => addrs'[x].rule = addrs[x].rule)
  BY <1>6, <1>7 DEF Stored
<1>13. ASSUME NEW g \in Handler PROVE AtStep(pc[g], job[g], addrs', rules')
  <2>1. AtStep(pc[g], job[g], addrs, rules) BY DEF RoutesInv, Requested
  <2>2. HoldsAddr(pc[g], job[g]) => job[g].addr \in Addr BY <2>1 DEF AtStep, HoldsAddr
  <2> QED BY <1>1, <1>12, <2>1, <2>2 DEF AtStep
<1>14. HoldsRule("creating", job[h]) => HoldsRule(pc[h], job[h]) BY <1>1 DEF HoldsRule
<1>15. AtStep("creating", job[h], addrs', rules')
  <2>1. AtStep(pc[h], job[h], addrs', rules') BY <1>13
  <2>2. pc[h] = "retiring" /\ "creating" \in PC BY <1>1 DEF PC
  <2>3. addrs'[job[h].addr] = NoRow BY <2>1, <2>2 DEF AtStep, HoldsAddr
  <2> QED BY <1>14, <2>1, <2>2, <2>3 DEF AtStep
<1>16. pc[h] # "idle" /\ HoldsAddr(pc[h], job[h]) BY <1>1 DEF AtStep, HoldsAddr
<1>17. Requested' /\ Alone' BY <1>1, <1>13, <1>14, <1>15, <1>16, Narrows DEF RoutesInv, Goto
<1> QED BY <1>10, <1>11, <1>17 DEF RoutesInv

\* The rule goes to its row, and to nobody else's.
LEMMA RecordKeeps ==
  ASSUME RoutesInv, NEW h \in Handler, Record(h)
  PROVE  RoutesInv'
<1> DEFINE x == job[h].addr
           row == [addrs[x] EXCEPT !.rule = job[h].rule]
<1>1. /\ pc[h] = "recording" /\ rules' = rules /\ due' = due /\ day' = day
      /\ AtStep(pc[h], job[h], addrs, rules) /\ addrs \in [Addr -> Row \cup {NoRow}]
  BY DEF Record, RoutesInv, Requested, TablesInv
<1>2. /\ x \in Addr /\ job[h].rule \in Rule /\ rules[job[h].rule] = x
      /\ \A y \in Addr : addrs[y] # NoRow => addrs[y].rule # job[h].rule
  BY <1>1 DEF AtStep, HoldsRule
<1>3. CASE x \notin Stored
  <2>1. addrs' = addrs BY <1>3 DEF Record
  <2>2. TablesInv' /\ RulesInv' /\ \A g \in Handler : AtStep(pc[g], job[g], addrs', rules')
    BY <1>1, <2>1, TablesStay DEF RoutesInv
  <2>3. CASE Goto(h, "undoing")
    <3>1. AtStep("undoing", job[h], addrs', rules') BY <1>1, <1>2, <2>2 DEF AtStep, PC, HoldsRule, HoldsAddr
    <3>2. HoldsRule(pc[h], job[h]) /\ ~HoldsAddr("undoing", job[h]) BY <1>1 DEF HoldsRule, HoldsAddr
    <3> QED BY <1>1, <2>2, <2>3, <3>1, <3>2, Narrows DEF Goto, RoutesInv
  <2>4. CASE Finish(h) BY <2>2, <2>4, Finishes DEF RoutesInv
  <2> QED BY <1>3, <2>3, <2>4 DEF Record
<1>4. CASE x \in Stored
  <2>1. addrs' = [addrs EXCEPT ![x] = row] /\ Finish(h) BY <1>4 DEF Record
  <2>2. addrs[x] \in Row BY <1>1, <1>2, <1>4 DEF Stored
  <2>3. /\ row \in Row /\ row.rule = job[h].rule /\ row.active = addrs[x].active
        /\ row.retired = addrs[x].retired
    BY <1>2, <2>2 DEF Row
  <2> HIDE DEF row
  <2>4. /\ addrs' \in [Addr -> Row \cup {NoRow}] /\ addrs'[x] = row /\ row # NoRow
        /\ \A y \in Addr \ {x} : addrs'[y] = addrs[y]
    BY <1>1, <1>2, <2>1, <2>3, AbsentValues
  <2>5. Stored' = Stored BY <1>2, <1>4, <2>4 DEF Stored
  <2>6. \A y \in Stored : /\ Expired(y)' = Expired(y)
                          /\ addrs'[y].active = addrs[y].active /\ addrs'[y].retired = addrs[y].retired
    BY <1>1, <2>3, <2>4 DEF Expired, Stored
  <2>7. TablesInv' BY <1>1, <2>4, <2>5, <2>6 DEF RoutesInv, TablesInv
  <2>8. RulesInv'
    <3>1. ASSUME NEW y \in Stored', addrs'[y].rule # NoRule
          PROVE  /\ rules'[addrs'[y].rule] = y \/ Expired(y)'
                 /\ \A z \in Stored' : addrs'[z].rule = addrs'[y].rule => z = y
      <4>1. CASE y = x
        BY <1>1, <1>2, <2>3, <2>4, <2>5, <4>1 DEF Stored
      <4>2. CASE y # x
        <5>1. addrs'[y] = addrs[y] /\ addrs[y].rule # job[h].rule /\ y \in Stored
          BY <1>2, <2>4, <2>5, <4>2 DEF Stored
        <5> QED BY <1>1, <2>3, <2>4, <2>5, <2>6, <3>1, <5>1 DEF RoutesInv, RulesInv, Stored
      <4> QED BY <4>1, <4>2
    <3> QED BY <3>1 DEF RulesInv
  <2>9. ASSUME NEW g \in Handler \ {h} PROVE AtStep(pc[g], job[g], addrs', rules')
    <3>1. AtStep(pc[g], job[g], addrs, rules) BY DEF RoutesInv, Requested
    <3>2. HoldsRule(pc[g], job[g]) => job[g].rule # job[h].rule
      BY <1>1 DEF RoutesInv, Alone, Apart, HoldsRule
    <3>3. HoldsAddr(pc[g], job[g]) => job[g].addr # x /\ job[g].addr \in Addr
      BY <1>4, <3>1 DEF AtStep, HoldsAddr, Stored
    <3> QED BY <1>1, <2>3, <2>4, <3>1, <3>2, <3>3 DEF AtStep
  <2> QED BY <2>1, <2>7, <2>8, <2>9, Finishes DEF RoutesInv
<1> QED BY <1>3, <1>4

LEMMA StepFailsKeeps ==
  ASSUME RoutesInv, NEW h \in Handler, StepFails(h) \/ UndoFails(h)
  PROVE  RoutesInv'
<1>1. /\ addrs' = addrs /\ rules' = rules /\ due' = due /\ day' = day
      /\ AtStep(pc[h], job[h], addrs, rules)
  BY DEF StepFails, UndoFails, RoutesInv, Requested
<1>2. TablesInv' /\ RulesInv' /\ \A g \in Handler : AtStep(pc[g], job[g], addrs', rules')
  BY <1>1, TablesStay DEF RoutesInv
<1>3. CASE Finish(h) BY <1>2, <1>3, Finishes DEF RoutesInv
<1>4. CASE pc[h] \in {"retiring", "recording"} /\ Goto(h, "undoing")
  <2>1. HoldsRule(pc[h], job[h]) /\ ~HoldsAddr("undoing", job[h]) BY <1>4 DEF HoldsRule, HoldsAddr
  <2>2. AtStep("undoing", job[h], addrs', rules') BY <1>1, <1>4, <2>1 DEF AtStep, PC
  <2> QED BY <1>2, <1>4, <2>1, <2>2, Narrows DEF Goto, RoutesInv
<1> QED BY <1>3, <1>4 DEF StepFails, UndoFails

\* A rule no row and no other request knows is deleted, and no row loses its route.
LEMMA UndoKeeps ==
  ASSUME RoutesInv, NEW h \in Handler, Undo(h)
  PROVE  RoutesInv'
<1> DEFINE i == job[h].rule
<1>1. /\ pc[h] = "undoing" /\ addrs' = addrs /\ due' = due /\ day' = day /\ Finish(h)
      /\ AtStep(pc[h], job[h], addrs, rules) /\ rules \in [Rule -> Addr \cup {NoAddr}]
      /\ rules' = [rules EXCEPT ![i] = NoAddr]
  BY DEF Undo, RoutesInv, Requested, TablesInv
<1>2. i \in Rule /\ \A y \in Addr : addrs[y] # NoRow => addrs[y].rule # i BY <1>1 DEF AtStep, HoldsRule
<1>3. rules' \in [Rule -> Addr \cup {NoAddr}] /\ \A k \in Rule \ {i} : rules'[k] = rules[k]
  BY <1>1, <1>2
<1>4. Stored' = Stored /\ \A y : Expired(y)' = Expired(y) BY <1>1 DEF Stored, Expired
<1>5. TablesInv' BY <1>1, <1>3, <1>4 DEF RoutesInv, TablesInv
<1>6. \A y \in Stored : addrs[y].rule # NoRule => rules'[addrs[y].rule] = rules[addrs[y].rule]
  <2>1. \A y \in Stored : addrs[y].rule # NoRule => addrs[y].rule \in Rule \ {i}
    BY <1>2 DEF RoutesInv, TablesInv, Stored, Row
  <2> QED BY <1>3, <2>1
<1>7. RulesInv' BY <1>1, <1>4, <1>6 DEF RoutesInv, RulesInv
<1>8. ASSUME NEW g \in Handler \ {h} PROVE AtStep(pc[g], job[g], addrs', rules')
  <2>1. AtStep(pc[g], job[g], addrs, rules) BY DEF RoutesInv, Requested
  <2>2. HoldsRule(pc[g], job[g]) => job[g].rule # i
    BY <1>1 DEF RoutesInv, Alone, Apart, HoldsRule
  <2> QED BY <1>1, <1>3, <2>1, <2>2 DEF AtStep
<1> QED BY <1>1, <1>5, <1>7, <1>8, Finishes DEF RoutesInv

LEMMA SweepKeeps ==
  ASSUME RoutesInv, Sweep \/ \E x \in Addr : SweepStep(x)
  PROVE  RoutesInv'
<1>0. ASSUME pc' = pc, job' = job, \A g \in Handler : AtStep(pc[g], job[g], addrs', rules')
      PROVE  Requested' /\ Alone'
  BY <1>0 DEF RoutesInv, Requested, Alone
<1>1. CASE Sweep \/ \E x \in Addr : ReleaseFails(x) \/ DeleteFails(x)
  <2>1. /\ addrs' = addrs /\ rules' = rules /\ day' = day /\ pc' = pc /\ job' = job
        /\ due' \subseteq due \cup RetiredBefore
    BY <1>1 DEF Sweep, ReleaseFails, DeleteFails
  <2>2. RetiredBefore \subseteq Stored /\ \A x \in RetiredBefore : Expired(x)
    BY DEF RetiredBefore, Expired
  <2>3. Stored' = Stored /\ \A y : Expired(y)' = Expired(y) BY <2>1 DEF Stored, Expired
  <2>4. TablesInv' BY <2>1, <2>2, <2>3 DEF RoutesInv, TablesInv
  <2>5. RulesInv' BY <2>1, <2>3 DEF RoutesInv, RulesInv
  <2> QED BY <1>0, <2>1, <2>4, <2>5 DEF RoutesInv, Requested
<1>2. ASSUME NEW x \in Addr, Release(x) PROVE RoutesInv'
  <2> DEFINE i == addrs[x].rule
  <2>1. /\ addrs' = addrs /\ due' = due /\ day' = day /\ pc' = pc /\ job' = job /\ x \in due
        /\ rules \in [Rule -> Addr \cup {NoAddr}] /\ rules' = [rules EXCEPT ![i] = NoAddr] /\ i \in Rule
    BY <1>2 DEF Release, Released, RoutesInv, TablesInv
  <2>2. x \in Stored /\ Expired(x) BY <2>1 DEF RoutesInv, TablesInv
  <2>3. rules' \in [Rule -> Addr \cup {NoAddr}] /\ \A k \in Rule \ {i} : rules'[k] = rules[k] BY <2>1
  <2>4. Stored' = Stored /\ \A y : Expired(y)' = Expired(y) BY <2>1 DEF Stored, Expired
  <2>5. TablesInv' BY <2>1, <2>3, <2>4 DEF RoutesInv, TablesInv
  <2>6. \A y \in Stored : addrs[y].rule = i => y = x BY <2>1, <2>2, AbsentValues DEF RoutesInv, RulesInv
  <2>7. \A y \in Stored : addrs[y].rule # NoRule => addrs[y].rule \in Rule
    BY DEF RoutesInv, TablesInv, Stored, Row
  <2>8. \A y \in Stored \ {x} : addrs[y].rule # NoRule => rules'[addrs[y].rule] = rules[addrs[y].rule]
    BY <2>3, <2>6, <2>7
  <2>9. RulesInv' BY <2>1, <2>2, <2>4, <2>8 DEF RoutesInv, RulesInv
  <2>10. ASSUME NEW g \in Handler PROVE AtStep(pc[g], job[g], addrs', rules')
    <3>1. AtStep(pc[g], job[g], addrs, rules) BY DEF RoutesInv, Requested
    <3>2. HoldsRule(pc[g], job[g]) => job[g].rule # i BY <2>2, <3>1 DEF AtStep, Stored
    <3> QED BY <2>1, <2>3, <3>1, <3>2 DEF AtStep
  <2> QED BY <1>0, <2>1, <2>5, <2>9, <2>10 DEF RoutesInv
<1>3. ASSUME NEW x \in Addr, Delete(x) PROVE RoutesInv'
  <2>1. /\ rules' = rules /\ day' = day /\ pc' = pc /\ job' = job /\ x \in due
        /\ addrs \in [Addr -> Row \cup {NoRow}] /\ addrs' = [addrs EXCEPT ![x] = NoRow] /\ due' = due \ {x}
    BY <1>3 DEF Delete, RoutesInv, TablesInv
  <2>2. /\ addrs' \in [Addr -> Row \cup {NoRow}] /\ addrs'[x] = NoRow
        /\ \A y \in Addr \ {x} : addrs'[y] = addrs[y]
    BY <2>1
  <2>3. Stored' = Stored \ {x} BY <2>2 DEF Stored
  <2>4. \A y \in Stored' : addrs'[y] = addrs[y] /\ Expired(y)' = Expired(y) BY <2>1, <2>2, <2>3 DEF Stored, Expired
  <2>5. TablesInv' BY <2>1, <2>2, <2>3, <2>4 DEF RoutesInv, TablesInv
  <2>6. RulesInv' BY <2>1, <2>3, <2>4 DEF RoutesInv, RulesInv
  <2>7. ASSUME NEW g \in Handler PROVE AtStep(pc[g], job[g], addrs', rules')
    <3>1. AtStep(pc[g], job[g], addrs, rules) BY DEF RoutesInv, Requested
    <3>2. HoldsAddr(pc[g], job[g]) => job[g].addr \in Addr BY <3>1 DEF AtStep, HoldsAddr
    <3> QED BY <2>1, <2>2, <3>1, <3>2 DEF AtStep
  <2> QED BY <1>0, <2>1, <2>5, <2>6, <2>7 DEF RoutesInv
<1> QED BY <1>1, <1>2, <1>3 DEF SweepStep

LEMMA OthersKeep ==
  ASSUME RoutesInv, Midnight \/ Crash \/ UNCHANGED vars
  PROVE  RoutesInv'
<1>1. CASE Midnight \/ UNCHANGED vars
  <2>1. /\ addrs' = addrs /\ rules' = rules /\ due' = due /\ pc' = pc /\ job' = job
        /\ day' \in Day /\ day =< day'
    BY <1>1, Numbers DEF Midnight, vars, RoutesInv, TablesInv, Day
  <2>2. Stored' = Stored BY <2>1 DEF Stored
  <2>3. \A y \in Stored : Expired(y) => Expired(y)'
    <3>1. \A y \in Stored : addrs[y].retired \in Int BY DEF RoutesInv, TablesInv, Stored, Row, Day, NotRetired
    <3> QED BY <2>1, <3>1, Numbers DEF Expired, RoutesInv, TablesInv, Day
  <2>4. TablesInv' BY <2>1, <2>2, <2>3 DEF RoutesInv, TablesInv
  <2>5. RulesInv' BY <2>1, <2>2, <2>3 DEF RoutesInv, RulesInv
  <2> QED BY <2>1, <2>4, <2>5 DEF RoutesInv, Requested, Alone
<1>2. CASE Crash
  <2>1. /\ addrs' = addrs /\ rules' = rules /\ due' = {} /\ day' = day
        /\ pc' = [h \in Handler |-> "idle"] /\ job' = [h \in Handler |-> NoJob]
    BY <1>2 DEF Crash
  <2>2. Stored' = Stored /\ \A y : Expired(y)' = Expired(y) BY <2>1 DEF Stored, Expired
  <2>3. TablesInv' BY <2>1, <2>2 DEF RoutesInv, TablesInv
  <2>4. RulesInv' BY <2>1, <2>2 DEF RoutesInv, RulesInv
  <2>5. AtStep("idle", NoJob, addrs', rules') BY DEF AtStep, PC, HoldsRule, HoldsAddr
  <2>6. Requested' /\ Alone' BY <2>1, <2>5 DEF Requested, Alone, PC
  <2> QED BY <2>3, <2>4, <2>6 DEF RoutesInv
<1> QED BY <1>1, <1>2

LEMMA RoutesInvHolds == Spec => []RoutesInv
<1>1. Init => RoutesInv
  BY Numbers DEF Init, RoutesInv, TablesInv, RulesInv, Requested, Alone, AtStep, HoldsRule, HoldsAddr, Stored, PC, Day
<1>2. RoutesInv /\ [Next]_vars => RoutesInv'
  BY StartKeeps, BudgetKeeps, CreateKeeps, RouteKeeps, RetireKeeps, RecordKeeps, StepFailsKeeps, UndoKeeps,
     SweepKeeps, OthersKeep DEF Next, HandlerStep
<1> QED BY <1>1, <1>2, PTL DEF Spec

\* inbound.go:37, for every number of accounts, requests, rules and faults: the address on the
\* page is one Cloudflare routes.
THEOREM WhatIsShownRoutes == Spec => []ShownAddressRoutes
<1>1. RoutesInv => ShownAddressRoutes
  <2> SUFFICES ASSUME RoutesInv, NEW x \in Stored, addrs[x].rule # NoRule,
                      addrs[x].active \/ addrs[x].retired >= day - Grace
               PROVE  rules[addrs[x].rule] = x
    BY DEF ShownAddressRoutes
  <2>1. addrs[x].retired \in Int /\ day \in Int BY DEF RoutesInv, TablesInv, Stored, Row, Day, NotRetired
  <2>2. ~Expired(x) BY <2>1, Numbers DEF Expired
  <2> QED BY <2>2 DEF RoutesInv, RulesInv
<1> QED BY <1>1, RoutesInvHolds, PTL

------------------------------------------------------------------------------
(* The life of an address                                                   *)

LEMMA RowsUntouched ==
  ASSUME addrs' = addrs
  PROVE  AddressLasts
BY DEF AddressLasts, StaysAsItWas, Stored

LEMMA CreateLasts ==
  ASSUME RoutesInv, NEW h \in Handler, Create(h)
  PROVE  AddressLasts
<1> DEFINE x == job[h].addr
           row == [user |-> job[h].user, active |-> TRUE, rule |-> NoRule, retired |-> NotRetired]
<1>1. /\ AtStep(pc[h], job[h], addrs, rules) /\ pc[h] = "creating"
      /\ addrs \in [Addr -> Row \cup {NoRow}] /\ addrs' = [addrs EXCEPT ![x] = row]
  BY DEF Create, RoutesInv, Requested, TablesInv
<1>2. addrs[x] = NoRow /\ x \in Addr BY <1>1 DEF AtStep, HoldsAddr
<1> HIDE DEF row
<1>3. \A y \in Stored : addrs'[y] = addrs[y] BY <1>1, <1>2 DEF Stored
<1> QED BY <1>3 DEF AddressLasts, StaysAsItWas, Stored

LEMMA RetireLasts ==
  ASSUME RoutesInv, NEW h \in Handler, Retire(h)
  PROVE  AddressLasts
<1>1. addrs \in [Addr -> Row \cup {NoRow}] BY DEF RoutesInv, TablesInv
<1>2. SUFFICES ASSUME NEW x \in Stored PROVE StaysAsItWas(x) BY DEF AddressLasts
<1> DEFINE stamp == IF addrs[x].retired = NotRetired THEN day ELSE addrs[x].retired
           row == [addrs[x] EXCEPT !.active = FALSE, !.retired = stamp]
<1>3. x \in Addr /\ addrs[x] \in Row BY <1>1 DEF Stored
<1>4. addrs'[x] = IF x \in Active(job[h].user) THEN row ELSE addrs[x] BY <1>3 DEF Retire
<1>5. CASE x \notin Active(job[h].user) BY <1>3, <1>4, <1>5 DEF StaysAsItWas, Stored
<1>6. CASE x \in Active(job[h].user)
  <2>1. addrs[x].active BY <1>6 DEF Active
  <2>2. row.user = addrs[x].user /\ ~row.active /\ row.rule = addrs[x].rule BY <1>3 DEF Row
  <2>3. row # NoRow
    <3>1. day \in Day BY DEF RoutesInv, TablesInv
    <3>2. row \in Row BY <1>3, <3>1 DEF Row
    <3> QED BY <3>2, AbsentValues
  <2> HIDE DEF row
  <2> QED BY <1>3, <1>4, <1>6, <2>1, <2>2, <2>3 DEF StaysAsItWas, Stored
<1> QED BY <1>5, <1>6

LEMMA RecordLasts ==
  ASSUME RoutesInv, NEW h \in Handler, Record(h)
  PROVE  AddressLasts
<1> DEFINE x == job[h].addr
           row == [addrs[x] EXCEPT !.rule = job[h].rule]
<1>1. /\ AtStep(pc[h], job[h], addrs, rules) /\ pc[h] = "recording" /\ addrs \in [Addr -> Row \cup {NoRow}]
  BY DEF Record, RoutesInv, Requested, TablesInv
<1>2. x \in Addr /\ job[h].rule \in Rule BY <1>1 DEF AtStep, HoldsRule
<1>3. CASE x \notin Stored BY <1>3, RowsUntouched DEF Record
<1>4. CASE x \in Stored
  <2>1. addrs' = [addrs EXCEPT ![x] = row] BY <1>4 DEF Record
  <2>2. addrs[x] \in Row BY <1>1, <1>2, <1>4 DEF Stored
  <2>3. /\ row \in Row /\ row.rule = job[h].rule /\ row.active = addrs[x].active
        /\ row.retired = addrs[x].retired /\ row.user = addrs[x].user
    BY <1>2, <2>2 DEF Row
  <2> HIDE DEF row
  <2>4. addrs'[x] = row /\ row # NoRow /\ \A y \in Addr \ {x} : addrs'[y] = addrs[y]
    BY <1>1, <1>2, <2>1, <2>3, AbsentValues
  <2>5. job[h].rule # NoRule BY <1>2, AbsentValues
  <2>6. StaysAsItWas(x) BY <1>2, <2>3, <2>4, <2>5 DEF StaysAsItWas, Stored
  <2>7. \A y \in Stored \ {x} : StaysAsItWas(y) BY <2>4 DEF StaysAsItWas, Stored
  <2> QED BY <2>6, <2>7 DEF AddressLasts
<1> QED BY <1>3, <1>4

LEMMA DeleteLasts ==
  ASSUME RoutesInv, NEW x \in Addr, Delete(x)
  PROVE  AddressLasts
<1>1. /\ addrs \in [Addr -> Row \cup {NoRow}] /\ addrs' = [addrs EXCEPT ![x] = NoRow] /\ rules' = rules
      /\ x \in due /\ Released(x)
  BY DEF Delete, RoutesInv, TablesInv
<1>2. x \in Stored /\ Expired(x) BY <1>1 DEF RoutesInv, TablesInv
<1>3. ASSUME addrs[x].rule # NoRule PROVE rules'[addrs[x].rule] # x
  <2>1. addrs[x].rule \in Rule BY <1>1, <1>2, <1>3 DEF Stored, Row
  <2>2. rules[addrs[x].rule] = NoAddr BY <1>1, <2>1 DEF Released
  <2> QED BY <1>1, <2>2, AbsentValues
<1>4. GoesWithItsRule(x) BY <1>2, <1>3 DEF GoesWithItsRule
<1>5. \A y \in Stored \ {x} : StaysAsItWas(y) BY <1>1 DEF StaysAsItWas, Stored
<1> QED BY <1>4, <1>5 DEF AddressLasts

\* store/ingest.go:224 and inbound.go:211, whatever requests, sweeps and faults: an address is
\* retired once and for good, and forgotten only after its grace and with its rule released.
THEOREM AddressesAreKept == Spec => AddressesLast
<1>1. RoutesInv /\ [Next]_vars => [AddressLasts]_vars
  <2> SUFFICES ASSUME RoutesInv, Next PROVE AddressLasts OBVIOUS
  <2>1. ASSUME NEW h \in Handler, HandlerStep(h) PROVE AddressLasts
    BY <2>1, CreateLasts, RetireLasts, RecordLasts, RowsUntouched
    DEF HandlerStep, Budget, Route, RouteFails, RouteReplyLost, StepFails, Undo, UndoFails
  <2>2. ASSUME NEW h \in Handler, NEW u \in User, EnableStart(h, u) \/ RotateStart(h, u) PROVE AddressLasts
    BY <2>2, RowsUntouched DEF EnableStart, RotateStart
  <2>3. ASSUME NEW x \in Addr, SweepStep(x) PROVE AddressLasts
    BY <2>3, DeleteLasts, RowsUntouched DEF SweepStep, Release, ReleaseFails, DeleteFails
  <2>4. CASE Sweep \/ Midnight \/ Crash BY <2>4, RowsUntouched DEF Sweep, Midnight, Crash
  <2> QED BY <2>1, <2>2, <2>3, <2>4 DEF Next
<1> QED BY <1>1, RoutesInvHolds, PTL DEF Spec, AddressesLast

------------------------------------------------------------------------------
(* The budget                                                               *)

ActiveRows == {a \in Stored : addrs[a].active}

\* Requests the budget let through whose row is still to come
Through == {h \in Handler : HoldsAddr(pc[h], job[h])}

\* The check counts rows; what it let through counts as much.
BudgetInv ==
  /\ others \in 0..MaxAddresses
  /\ CountActive < MaxAddresses + Cardinality(Handler)
  /\ Through # {} => CountActive + Cardinality(Through) < MaxAddresses + Cardinality(Handler)

LEMMA CountIs == CountActive = others + Cardinality(ActiveRows)
BY DEF CountActive, ActiveRows

LEMMA Counts ==
  /\ IsFiniteSet(ActiveRows) /\ Cardinality(ActiveRows) \in Nat
  /\ IsFiniteSet(Through) /\ Cardinality(Through) \in Nat /\ Cardinality(Through) =< Cardinality(Handler)
  /\ Cardinality(Handler) \in Nat /\ Cardinality(Handler) # 0
<1>1. ActiveRows \subseteq Addr /\ Through \subseteq Handler BY DEF ActiveRows, Stored, Through
<1> QED BY <1>1, Bounded, FS_Subset, FS_CardinalityType, FS_EmptySet

\* Rows retired, requests done: neither brings the budget closer.
LEMMA Fewer ==
  ASSUME BudgetInv, UNCHANGED others, ActiveRows' \subseteq ActiveRows, Through' \subseteq Through
  PROVE  BudgetInv'
<1>1. Cardinality(ActiveRows') \in Nat /\ Cardinality(ActiveRows') =< Cardinality(ActiveRows)
  BY Counts, FS_Subset, FS_CardinalityType
<1>2. Cardinality(Through') \in Nat /\ Cardinality(Through') =< Cardinality(Through)
  BY Counts, FS_Subset, FS_CardinalityType
<1>3. Through' # {} => Through # {} OBVIOUS
<1>4. CountActive' = others + Cardinality(ActiveRows') BY DEF CountActive, ActiveRows
<1> QED BY <1>1, <1>2, <1>3, <1>4, Counts, CountIs, Numbers DEF BudgetInv

\* One request moves from a step where it holds no place, or keeps the one it has.
LEMMA OneLess ==
  ASSUME RoutesInv, NEW h \in Handler, NEW step, NEW j,
         pc' = [pc EXCEPT ![h] = step], job' = [job EXCEPT ![h] = j],
         HoldsAddr(step, j) => HoldsAddr(pc[h], job[h])
  PROVE  Through' \subseteq Through
<1>1. /\ pc'[h] = step /\ job'[h] = j
      /\ \A g \in Handler \ {h} : pc'[g] = pc[g] /\ job'[g] = job[g]
  BY DEF RoutesInv, Requested
<1> QED BY <1>1 DEF Through

LEMMA ThroughGone ==
  ASSUME RoutesInv, NEW h \in Handler, NEW step, pc' = [pc EXCEPT ![h] = step],
         job' = job, HoldsAddr(step, job[h]) => HoldsAddr(pc[h], job[h])
  PROVE  Through' \subseteq Through
<1>1. job' = [job EXCEPT ![h] = job[h]] BY DEF RoutesInv, Requested
<1> QED BY <1>1, OneLess

LEMMA BudgetStep ==
  ASSUME RoutesInv, BudgetInv, UNCHANGED others, NEW h \in Handler, Budget(h)
  PROVE  BudgetInv'
<1>1. ActiveRows' = ActiveRows BY DEF Budget, ActiveRows, Stored
<1>2. CASE Finish(h)
  <2>1. ~HoldsAddr("idle", NoJob) BY DEF HoldsAddr
  <2>2. Through' \subseteq Through BY <1>2, <2>1, OneLess DEF Finish
  <2> QED BY <1>1, <2>2, Fewer
<1>3. CASE ~(CountActive >= MaxAddresses)
  <2>1. CountActive' = CountActive BY <1>1 DEF CountActive, ActiveRows
  <2>2. CountActive \in Nat BY Counts, CountIs, Numbers DEF BudgetInv
  <2>3. CountActive' < MaxAddresses BY <1>3, <2>1, <2>2, Numbers
  <2>4. Through' \subseteq Handler BY DEF Through
  <2>5. Cardinality(Through') \in Nat /\ Cardinality(Through') =< Cardinality(Handler)
    BY <2>4, Bounded, FS_Subset, FS_CardinalityType
  <2>6. CountActive' + Cardinality(Through') < MaxAddresses + Cardinality(Handler)
    BY <2>1, <2>2, <2>3, <2>5, Counts, Numbers
  <2>7. CountActive' < MaxAddresses + Cardinality(Handler) BY <2>1, <2>2, <2>3, Counts, Numbers
  <2> QED BY <2>6, <2>7 DEF BudgetInv
<1> QED BY <1>2, <1>3 DEF Budget

LEMMA CreateStep ==
  ASSUME RoutesInv, BudgetInv, UNCHANGED others, NEW h \in Handler, Create(h)
  PROVE  BudgetInv'
<1> DEFINE x == job[h].addr
           row == [user |-> job[h].user, active |-> TRUE, rule |-> NoRule, retired |-> NotRetired]
           step == IF job[h].act = "enable" THEN "routing" ELSE "recording"
<1>1. /\ pc[h] = "creating" /\ AtStep(pc[h], job[h], addrs, rules)
      /\ addrs \in [Addr -> Row \cup {NoRow}] /\ pc \in [Handler -> PC]
      /\ addrs' = [addrs EXCEPT ![x] = row] /\ pc' = [pc EXCEPT ![h] = step] /\ job' = job
  BY DEF Create, RoutesInv, Requested, TablesInv, Goto, Enabling
<1>2. x \in Addr /\ addrs[x] = NoRow BY <1>1 DEF AtStep, HoldsAddr
<1>3. ActiveRows' \subseteq ActiveRows \cup {x}
  <2> HIDE DEF row
  <2>1. \A y \in Addr \ {x} : addrs'[y] = addrs[y] BY <1>1, <1>2
  <2> QED BY <2>1 DEF ActiveRows, Stored
<1>4. x \notin ActiveRows BY <1>2 DEF ActiveRows, Stored
<1>5. h \in Through BY <1>1 DEF Through, HoldsAddr
<1>6. Through' \subseteq Through \ {h}
  <2>1. \A g \in Handler \ {h} : pc'[g] = pc[g] BY <1>1
  <2>2. ~HoldsAddr(step, job[h]) BY DEF HoldsAddr
  <2>3. pc'[h] = step BY <1>1
  <2> QED BY <1>1, <2>1, <2>2, <2>3 DEF Through
<1>7. Cardinality(ActiveRows') \in Nat /\ Cardinality(ActiveRows') =< Cardinality(ActiveRows) + 1
  <2>1. /\ IsFiniteSet(ActiveRows \cup {x})
        /\ Cardinality(ActiveRows \cup {x}) = Cardinality(ActiveRows) + 1
    BY <1>4, Counts, FS_AddElement
  <2> QED BY <1>3, <2>1, FS_Subset, FS_CardinalityType
<1>8. Cardinality(Through') \in Nat /\ Cardinality(Through') =< Cardinality(Through) - 1
  BY <1>5, <1>6, Counts, FS_RemoveElement, FS_Subset, FS_CardinalityType
<1>9. CountActive + Cardinality(Through) < MaxAddresses + Cardinality(Handler)
  BY <1>5 DEF BudgetInv
<1>10. CountActive' = others + Cardinality(ActiveRows') BY DEF CountActive, ActiveRows
<1> QED BY <1>7, <1>8, <1>9, <1>10, Counts, CountIs, Numbers DEF BudgetInv

\* Every other step of a request
LEMMA RequestStep ==
  ASSUME RoutesInv, BudgetInv, UNCHANGED others, NEW h \in Handler,
         \/ Route(h) \/ RouteFails(h) \/ RouteReplyLost(h) \/ Retire(h) \/ Record(h)
         \/ StepFails(h) \/ Undo(h) \/ UndoFails(h)
  PROVE  BudgetInv'
<1>0. /\ AtStep(pc[h], job[h], addrs, rules) /\ addrs \in [Addr -> Row \cup {NoRow}]
      /\ ~HoldsAddr("idle", NoJob) /\ ~HoldsAddr("undoing", job[h])
  BY DEF RoutesInv, Requested, TablesInv, HoldsAddr
<1>1. ActiveRows' \subseteq ActiveRows
  <2>1. CASE Record(h)
    <3>1. CASE addrs' = addrs BY <3>1 DEF ActiveRows, Stored
    <3>2. CASE job[h].addr \in Stored /\ addrs' = [addrs EXCEPT ![job[h].addr].rule = job[h].rule]
      <4> DEFINE x == job[h].addr
      <4>1. x \in Addr /\ addrs[x] # NoRow /\ addrs[x] \in Row BY <1>0, <3>2 DEF Stored
      <4>2. addrs'[x].active = addrs[x].active BY <1>0, <3>2, <4>1 DEF Row
      <4>3. \A y \in Addr \ {x} : addrs'[y] = addrs[y] BY <1>0, <3>2, <4>1
      <4>4. \A y \in ActiveRows' : y \in ActiveRows
        BY <4>1, <4>2, <4>3 DEF ActiveRows, Stored
      <4> QED BY <4>4
    <3> QED BY <2>1, <3>1, <3>2 DEF Record
  <2>2. CASE Retire(h)
    <3>1. \A y \in Addr : y \in Active(job[h].user) \/ addrs'[y] = addrs[y] BY <2>2 DEF Retire
    <3>2. Active(job[h].user) \subseteq ActiveRows BY DEF Active, ActiveRows
    <3> QED BY <3>1, <3>2 DEF ActiveRows, Stored
  <2>3. CASE addrs' = addrs BY <2>3 DEF ActiveRows, Stored
  <2> QED BY <2>1, <2>2, <2>3 DEF Route, RouteFails, RouteReplyLost, StepFails, Undo, UndoFails
<1>2. Through' \subseteq Through
  <2>1. CASE Finish(h) BY <1>0, <2>1, OneLess DEF Finish
  <2>2. CASE Goto(h, "undoing") BY <1>0, <2>2, ThroughGone DEF Goto
  <2>3. CASE Retire(h)
    <3>1. Goto(h, "creating") /\ HoldsAddr(pc[h], job[h]) BY <1>0, <2>3 DEF Retire, HoldsAddr, AtStep
    <3> QED BY <3>1, ThroughGone DEF Goto
  <2>4. CASE Route(h)
    <3> DEFINE j == [job[h] EXCEPT !.rule = NewRuleId]
               step == IF job[h].act = "enable" THEN "recording" ELSE "retiring"
    <3>1. pc[h] = "routing" /\ job[h] \in Job BY <1>0, <2>4 DEF Route, AtStep
    <3>2. pc' = [pc EXCEPT ![h] = step] /\ job' = [job EXCEPT ![h] = j] BY <2>4 DEF Route, Enabling
    <3>3. HoldsAddr(step, j) => HoldsAddr(pc[h], job[h]) BY <3>1 DEF HoldsAddr, Job, AllRequests
    <3> HIDE DEF step, j
    <3> QED BY <3>2, <3>3, OneLess
  <2> QED BY <2>1, <2>2, <2>3, <2>4 DEF RouteFails, RouteReplyLost, Record, StepFails, Undo, UndoFails
<1> QED BY <1>1, <1>2, Fewer

LEMMA StartStep ==
  ASSUME RoutesInv, BudgetInv, UNCHANGED others, NEW h \in Handler, NEW u \in User, EnableStart(h, u) \/ RotateStart(h, u)
  PROVE  BudgetInv'
<1>1. ActiveRows' \subseteq ActiveRows BY DEF EnableStart, RotateStart, ActiveRows, Stored
<1>2. ASSUME NEW act, NEW x, NEW step \in {"budget", "routing"}, Serve(h, u, act, x, step),
             step = "routing" => act = "enable"
      PROVE  Through' \subseteq Through
  <2> DEFINE j == [user |-> u, act |-> act, addr |-> x, rule |-> NoRule, day |-> day]
  <2>1. j.act = act BY Zenon
  <2>2. pc' = [pc EXCEPT ![h] = step] /\ job' = [job EXCEPT ![h] = j] BY <1>2 DEF Serve
  <2> HIDE DEF j
  <2>3. ~HoldsAddr(step, j) BY <1>2, <2>1 DEF HoldsAddr
  <2> QED BY <2>2, <2>3, OneLess
<1>3. Through' \subseteq Through BY <1>2 DEF EnableStart, RotateStart
<1> QED BY <1>1, <1>3, Fewer

LEMMA RestStep ==
  ASSUME RoutesInv, BudgetInv, UNCHANGED others,
         Sweep \/ (\E a \in Addr : SweepStep(a)) \/ Midnight \/ Crash \/ UNCHANGED vars
  PROVE  BudgetInv'
<1>1. ActiveRows' \subseteq ActiveRows
  <2>1. CASE addrs' = addrs BY <2>1 DEF ActiveRows, Stored
  <2>2. ASSUME NEW a \in Addr, addrs' = [addrs EXCEPT ![a] = NoRow] PROVE ActiveRows' \subseteq ActiveRows
    <3>1. addrs'[a] = NoRow /\ \A y \in Addr \ {a} : addrs'[y] = addrs[y] BY <2>2 DEF RoutesInv, TablesInv
    <3> QED BY <3>1 DEF ActiveRows, Stored
  <2> QED BY <2>1, <2>2 DEF Sweep, SweepStep, Release, ReleaseFails, Delete, DeleteFails, Midnight, Crash, vars
<1>2. Through' \subseteq Through
  <2>1. CASE pc' = pc /\ job' = job BY <2>1 DEF Through
  <2>2. CASE Crash BY <2>2 DEF Crash, Through, HoldsAddr
  <2> QED BY <2>1, <2>2 DEF Sweep, SweepStep, Release, ReleaseFails, Delete, DeleteFails, Midnight, vars
<1> QED BY <1>1, <1>2, Fewer

\* store/ingest.go:237, for every budget, number of accounts and requests, and any faults: the
\* active addresses exceed the budget by less than the requests in service.
THEOREM BudgetIsNearlyKept == Spec => []ActiveWithinBudget
<1>1. Init => BudgetInv
  <2> SUFFICES ASSUME Init PROVE BudgetInv OBVIOUS
  <2>1. ActiveRows = {} /\ Through = {} BY DEF Init, ActiveRows, Stored, Through, HoldsAddr
  <2>2. others \in 0..MaxAddresses BY Numbers DEF Init
  <2>3. CountActive = others BY <2>1, <2>2, CountIs, FS_EmptySet, Numbers
  <2> QED BY <2>1, <2>2, <2>3, Counts, Numbers DEF BudgetInv
<1>2. RoutesInv /\ BudgetInv /\ [Next]_vars => BudgetInv'
  BY BudgetStep, CreateStep, RequestStep, StartStep, RestStep DEF Next, HandlerStep, vars
<1>3. BudgetInv => ActiveWithinBudget BY DEF BudgetInv, ActiveWithinBudget
<1> QED BY <1>1, <1>2, <1>3, RoutesInvHolds, PTL DEF Spec

==============================================================================
