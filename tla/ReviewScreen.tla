----------------------------- MODULE ReviewScreen -----------------------------
(***************************************************************************)
(* The review screen of the web app: the reducer's state and the async      *)
(* flows App.tsx runs over it.  JavaScript runs one piece at a time, so a   *)
(* step is a click, or what a flow does between two awaits; while a flow    *)
(* waits for the server, clicks and other flows go on, and replies come in   *)
(* any order.  The phases reviewing and write_failed differ in the line they *)
(* show and are one here; the preview, the badges and the files are left out.*)
(***************************************************************************)
EXTENDS Integers, FiniteSets

CONSTANTS
  MaxLead,      \* bound: submissions an instance may create
  Pictured,     \* those whose original is an image
  None,
  Replies,      \* what confirms may be answered
  Failures,     \* the other requests that may fail
  Elsewhere,    \* leads arrive by mail and are settled in another tab
  MaxFlows      \* bound: flows in flight

Lead == 1..MaxLead
AllReplies == {"written", "failed", "invalid", "no_destination", "reconnect", "unreachable"}
ASSUME Instances ==
  /\ MaxLead \in Nat /\ MaxFlows \in Nat /\ Pictured \subseteq Lead /\ Elsewhere \in BOOLEAN
  /\ Replies \subseteq AllReplies /\ Failures \subseteq {"discard", "extract", "queue"}
  /\ None \notin Lead

Maybe == Lead \cup {None}
Own == 0               \* in draft.text: the user's own words
NoItems == {}

\* One async function between its call and its return.  id is the lead it was called
\* for, fields the lead whose values it sent, text the lead whose input it sent;
\* says and items are what came back.
Flow == [kind: {"confirm", "discard", "extract", "advance", "badge", "image"},
         at: {"pausing", "sent", "answered"}, id: Maybe, fields: Maybe, text: Maybe,
         says: AllReplies \cup {"settled", "ok", "duplicate", "error", "nothing"},
         items: SUBSET Lead]

VARIABLES
  status,     \* the server's row of each lead
  phase, shown, composing, rerunOf, busy,    \* AppState
  fieldsOf,   \* the lead whose extraction the fields were filled from
  typed,      \* they hold edits nobody has sent
  verdictOf,  \* the lead the error line and the field states are about
  draft,      \* composeText and composeFile: the leads they come from, or Own
  list,       \* state.queue
  flows

vars == <<status, phase, shown, composing, rerunOf, busy, fieldsOf, typed, verdictOf, draft,
          list, flows>>
pane == <<fieldsOf, typed, verdictOf>>
box  == <<rerunOf, draft>>

\* The reducer's state is of its type, and the paste box is open over no lead.
TypeOK ==
  /\ status \in [Lead -> {"none", "open", "written", "discarded"}]
  /\ phase \in {"empty", "extracting", "review", "confirming"}
  /\ shown \in Maybe /\ rerunOf \in Maybe /\ fieldsOf \in Maybe /\ verdictOf \in Maybe
  /\ composing \in BOOLEAN /\ busy \in BOOLEAN /\ typed \in BOOLEAN
  /\ draft \in [text: Maybe \cup {Own}, image: Maybe]
  /\ list \subseteq Lead
  /\ flows \subseteq Flow /\ Cardinality(flows) <= MaxFlows
  /\ composing => shown = None

Queue == {i \in Lead : status[i] = "open"}
Oldest(items) == CHOOSE i \in items : \A j \in items : i <= j
NoDraft == [text |-> None, image |-> None]

Call(kind, id) == [kind |-> kind, at |-> "sent", id |-> id, fields |-> None, text |-> None,
                   says |-> "nothing", items |-> NoItems]

\* A click starts a flow, a flow goes on as another one, or returns.
Start(f) == Cardinality(flows) < MaxFlows /\ flows' = flows \cup {f}
GoesOn(f, g) == flows' = (flows \ {f}) \cup {g}
Return(f) == flows' = flows \ {f}

----------------------------------------------------------------------------
(* The reducer: what the actions that move the screen do.                    *)

\* A plausible slip: the fields are kept when the user has typed into them.
EnterReviewKeeping(i) ==
  /\ phase' = "review" /\ shown' = i /\ composing' = FALSE /\ busy' = FALSE
  /\ fieldsOf' = IF typed THEN fieldsOf ELSE i
  /\ UNCHANGED typed /\ verdictOf' = i

EnterReview(i) ==
  /\ phase' = "review" /\ shown' = i /\ composing' = FALSE /\ busy' = FALSE
  /\ fieldsOf' = i /\ typed' = FALSE /\ verdictOf' = i

EnterEmpty ==
  /\ phase' = "empty" /\ shown' = None /\ composing' = FALSE /\ busy' = FALSE
  /\ UNCHANGED pane

StartComposing ==
  /\ composing' = TRUE /\ phase' = "empty" /\ shown' = None
  /\ UNCHANGED <<busy, pane>>

SettleBegin == shown' = None /\ UNCHANGED <<phase, composing, busy, pane>>

\* A plausible slip: a refusal re-opens the lead as the server has it.
RefusedReopening(i) ==
  /\ phase' = "review" /\ busy' = FALSE /\ verdictOf' = i /\ fieldsOf' = shown /\ typed' = FALSE
  /\ UNCHANGED <<shown, composing>>

\* A plausible slip: the buttons stay disabled after a refusal.
RefusedStillBusy(i) ==
  /\ phase' = "review" /\ verdictOf' = i
  /\ UNCHANGED <<shown, composing, busy, fieldsOf, typed>>

\* An error reply: the line and the flags change, the values stay.
Refused(i) ==
  /\ phase' = "review" /\ busy' = FALSE /\ verdictOf' = i
  /\ UNCHANGED <<shown, composing, fieldsOf, typed>>

----------------------------------------------------------------------------
(* Clicks.                                                                  *)

\* startComposing: the New lead button.
NewLead ==
  /\ Start(Call("badge", None)) /\ StartComposing
  /\ rerunOf' = None /\ draft' = NoDraft /\ UNCHANGED <<status, list>>

\* openQueue: the Review tab.
OpenQueue ==
  /\ composing \/ phase = "empty"
  /\ Start(Call("advance", None)) /\ composing' = FALSE
  /\ UNCHANGED <<status, phase, shown, busy, pane, box, list>>

\* cancelCompose.
Cancel ==
  /\ phase = "empty" /\ Start(Call("advance", None))
  /\ composing' = FALSE /\ rerunOf' = None /\ draft' = NoDraft
  /\ UNCHANGED <<status, phase, shown, busy, pane, list>>

\* selectFromQueue: the list is drawn beside a review, when it has two items.
Select(i) ==
  /\ i \in list /\ Cardinality(list) > 1 /\ ~composing /\ phase # "empty"
  /\ EnterReview(i) /\ rerunOf' = None /\ UNCHANGED <<status, draft, list, flows>>

OnScreen == shown # None /\ phase \in {"review", "confirming"}

EditField ==
  /\ OnScreen /\ ~typed /\ typed' = TRUE
  /\ UNCHANGED <<status, phase, shown, composing, busy, fieldsOf, verdictOf, box, list, flows>>

\* confirm: the button and Retry.
Confirm ==
  /\ OnScreen /\ ~busy /\ phase # "confirming"
  /\ Start([Call("confirm", shown) EXCEPT !.fields = fieldsOf])
  /\ phase' = "confirming" /\ busy' = TRUE
  /\ UNCHANGED <<status, shown, composing, pane, box, list>>

Discard ==
  /\ OnScreen /\ ~busy /\ Start(Call("discard", shown)) /\ busy' = TRUE
  /\ UNCHANGED <<status, phase, shown, composing, pane, box, list>>

\* editRerun; the badge it refreshes is left to NewLead, the image is fetched.
EditRerun ==
  /\ OnScreen /\ StartComposing
  /\ rerunOf' = shown /\ draft' = [text |-> shown, image |-> None]
  /\ IF shown \in Pictured THEN Start(Call("image", shown)) ELSE UNCHANGED flows
  /\ UNCHANGED <<status, list>>

TypeDraft ==
  /\ phase = "empty" /\ draft' = [draft EXCEPT !.text = Own]
  /\ UNCHANGED <<status, phase, shown, composing, rerunOf, busy, pane, list, flows>>

\* startExtraction, up to the reply.
Extract ==
  /\ phase = "empty" /\ draft # NoDraft
  /\ Start([Call("extract", rerunOf) EXCEPT !.text = IF draft.text = Own THEN None ELSE draft.text])
  /\ phase' = "extracting" /\ shown' = None /\ composing' = FALSE
  /\ UNCHANGED <<status, busy, pane, box, list>>

UserStep ==
  \/ NewLead \/ OpenQueue \/ Cancel \/ EditField \/ Confirm \/ Discard \/ EditRerun
  \/ TypeDraft \/ Extract
  \/ \E i \in Lead : Select(i)

----------------------------------------------------------------------------
(* The server.                                                              *)

screen == <<phase, shown, composing, rerunOf, busy, pane, draft, list>>
Answer(f, says, items) == GoesOn(f, [f EXCEPT !.at = "answered", !.says = says, !.items = items])

\* handleConfirm.  A write may also land and its reply be lost.
ServeConfirm(f) ==
  /\ f.kind = "confirm"
  /\ \/ /\ status[f.id] # "open" /\ Answer(f, "settled", NoItems) /\ UNCHANGED status
     \/ /\ status[f.id] = "open"
        /\ \E r \in Replies :
             /\ Answer(f, r, NoItems)
             /\ \/ r # "written" /\ UNCHANGED status
                \/ r \in {"written", "unreachable"} /\ status' = [status EXCEPT ![f.id] = "written"]

ServeDiscard(f) ==
  /\ f.kind = "discard"
  /\ \/ "discard" \in Failures /\ Answer(f, "error", NoItems) /\ UNCHANGED status
     \/ /\ Answer(f, "ok", NoItems)
        /\ status' = [status EXCEPT ![f.id] = IF @ = "open" THEN "discarded" ELSE @]

Unused(i) == status[i] = "none" /\ \A j \in 1..(i - 1) : status[j] # "none"

\* handleSubmit and handleRerun: a new row, or the one with the same content; a re-run
\* discards the original unless it is that row.
ServeExtract(f) ==
  /\ f.kind = "extract"
  /\ \/ /\ "extract" \in Failures \/ f.id \in Lead \ Queue
        /\ Answer(f, "error", NoItems) /\ UNCHANGED status
     \/ /\ f.id \in Queue \cup {None}
        /\ \E i \in Lead :
             /\ Unused(i) \/ status[i] \in {"open", "written"}
             /\ Answer(f, IF status[i] = "written" THEN "duplicate" ELSE "ok", {i})
             /\ status' = [j \in Lead |-> IF j = i THEN IF Unused(i) THEN "open" ELSE status[i]
                                          ELSE IF j = f.id THEN "discarded" ELSE status[j]]

ServeRead(f) ==
  /\ f.kind \in {"advance", "badge", "image"}
  /\ \/ Answer(f, "ok", IF f.kind = "image" THEN NoItems ELSE Queue)
     \/ "queue" \in Failures /\ Answer(f, "error", NoItems)
  /\ UNCHANGED status

Serve(f) ==
  /\ f.at = "sent" /\ (ServeConfirm(f) \/ ServeDiscard(f) \/ ServeExtract(f) \/ ServeRead(f))
  /\ UNCHANGED screen

\* Mail is ingested; another tab confirms or discards.
Arrives(i) ==
  /\ Elsewhere /\ Unused(i)
  /\ status' = [status EXCEPT ![i] = "open"] /\ UNCHANGED <<screen, flows>>

SettledElsewhere(i) ==
  /\ Elsewhere /\ status[i] = "open"
  /\ \E s \in {"written", "discarded"} : status' = [status EXCEPT ![i] = s]
  /\ UNCHANGED <<screen, flows>>

----------------------------------------------------------------------------
(* Replies: what a flow does when its await returns.                         *)

TakenAsSettled == {"written", "settled", "no_destination"}

\* confirm, then settle; a 409 is told from a reconnect by its text.
ConfirmReply(f) ==
  /\ f.kind = "confirm"
  /\ \/ /\ f.says \in TakenAsSettled /\ SettleBegin
        /\ GoesOn(f, [Call("advance", None) EXCEPT !.at = "pausing"])
     \/ f.says \notin TakenAsSettled /\ Refused(f.id) /\ Return(f)
  /\ UNCHANGED <<box, list>>

DiscardReply(f) ==
  /\ f.kind = "discard" /\ SettleBegin /\ GoesOn(f, Call("advance", None))
  /\ UNCHANGED <<box, list>>

\* settle: the preview, then 600 ms for the fade.
Paused(f) ==
  /\ f.at = "pausing" /\ GoesOn(f, [f EXCEPT !.at = "sent"])
  /\ UNCHANGED <<status, screen>>

\* advance.
AdvanceReply(f) ==
  /\ f.kind = "advance" /\ Return(f)
  /\ IF f.items = NoItems THEN EnterEmpty ELSE EnterReview(Oldest(f.items))
  /\ list' = IF f.says = "ok" THEN f.items ELSE list
  /\ UNCHANGED box

\* refreshBadge, and the image fetched by editRerun.
BadgeReply(f) ==
  /\ f.kind = "badge" /\ Return(f) /\ list' = IF f.says = "ok" THEN f.items ELSE list
  /\ UNCHANGED <<phase, shown, composing, busy, pane, box>>

ImageReply(f) ==
  /\ f.kind = "image" /\ Return(f)
  /\ draft' = IF f.says = "ok" THEN [draft EXCEPT !.image = f.id] ELSE draft
  /\ UNCHANGED <<phase, shown, composing, rerunOf, busy, pane, list>>

\* startExtraction, from the reply on.
ExtractFailed(f) ==
  /\ f.kind = "extract" /\ f.says = "error" /\ Return(f)
  /\ phase' = "empty" /\ UNCHANGED <<shown, composing, busy, pane, box, list>>

ExtractReply(f) ==
  /\ f.kind = "extract" /\ f.says # "error"
  /\ rerunOf' = IF f.id = None THEN rerunOf ELSE None
  /\ \/ /\ composing /\ GoesOn(f, Call("badge", None))
        /\ UNCHANGED <<phase, shown, composing, busy, pane, draft>>
     \/ /\ ~composing /\ draft' = NoDraft
        /\ \/ /\ f.says = "duplicate" /\ Return(f)
              /\ phase' = "empty" /\ shown' = None /\ UNCHANGED <<composing, busy, pane>>
           \/ /\ f.says = "ok" /\ GoesOn(f, Call("badge", None))
              /\ EnterReview(Oldest(f.items))
  /\ UNCHANGED list

Reply(f) ==
  /\ f.at = "answered" /\ UNCHANGED status
  /\ \/ ConfirmReply(f) \/ DiscardReply(f) \/ AdvanceReply(f) \/ BadgeReply(f)
     \/ ImageReply(f) \/ ExtractFailed(f) \/ ExtractReply(f)

----------------------------------------------------------------------------
\* The screen as the boot effect leaves it.
Init ==
  /\ \E n \in 0..MaxLead : status = [i \in Lead |-> IF i <= n THEN "open" ELSE "none"]
  /\ list = Queue /\ flows = {} /\ draft = NoDraft /\ rerunOf = None
  /\ composing = FALSE /\ busy = FALSE /\ typed = FALSE
  /\ shown = (IF list = {} THEN None ELSE Oldest(list))
  /\ phase = (IF list = {} THEN "empty" ELSE "review")
  /\ fieldsOf = shown /\ verdictOf = shown

FlowStep(f) == Serve(f) \/ Paused(f) \/ Reply(f)

Next ==
  \/ UserStep
  \/ \E f \in flows : FlowStep(f)
  \/ \E i \in Lead : Arrives(i) \/ SettledElsewhere(i)

Spec == Init /\ [][Next]_vars

----------------------------------------------------------------------------
(* Properties.                                                              *)

\* A confirm sends the values of the lead it names, whichever replies landed and
\* whichever lead was opened before the click: the id and the fields of one
\* App.confirm never belong to two leads.
ConfirmsWhatIsShown == \A f \in flows : f.kind = "confirm" => f.fields = f.id

\* state.ts: field values are held for "edit preservation across 422 / failed-write
\* retries".  A refused confirm of the lead on screen leaves it and its edits there.
EditsSurviveRefusal ==
  [][\A f \in flows :
       (f \notin flows' /\ f.kind = "confirm" /\ f.says \in Replies \ TakenAsSettled /\ f.id = shown)
         => shown' = shown /\ fieldsOf' = fieldsOf /\ typed' = typed]_vars

\* The screen is never left waiting for nothing: whatever the server answers and
\* however the user moves meanwhile, what disabled the buttons or shows the spinner
\* is a flow still under way, and every flow ends (fetch settles either way).
WaitsForSomething ==
  /\ busy \/ phase = "confirming" =>
       \E f \in flows : f.kind \in {"confirm", "discard", "advance"}
  /\ phase = "extracting" => \E f \in flows : f.kind = "extract"
===============================================================================
