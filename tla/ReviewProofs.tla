----------------------------- MODULE ReviewProofs -----------------------------
(***************************************************************************)
(* For every number of leads and of flows in flight, and any replies: what a  *)
(* click sends belongs to the lead it is sent for, a refusal leaves the edits  *)
(* alone, and the screen never waits for a flow that is over.                  *)
(***************************************************************************)
EXTENDS ReviewScreen, WellFoundedInduction, TLAPS

Kind == {"confirm", "discard", "extract", "advance", "badge", "image"}

Shape ==
  /\ status \in [Lead -> {"none", "open", "written", "discarded"}]
  /\ phase \in {"empty", "extracting", "review", "confirming"}
  /\ shown \in Maybe /\ rerunOf \in Maybe /\ fieldsOf \in Maybe /\ verdictOf \in Maybe
  /\ composing \in BOOLEAN /\ busy \in BOOLEAN /\ typed \in BOOLEAN
  /\ draft \in [text: Maybe \cup {Own}, image: Maybe]
  /\ list \subseteq Lead /\ flows \subseteq Flow

\* The fields are those of the lead on screen: nothing puts one there without the other.
FieldsAreShown == shown # None => fieldsOf = shown

\* The paste box is not open behind the spinner.
BoxIsAlone == composing => phase # "extracting"

\* An extraction that did not fail names the row it made or found.
ExtractsName ==
  \A f \in flows : f.kind = "extract" /\ f.at = "answered" /\ f.says # "error" => f.items # {}

FlowsAreSound == ConfirmsWhatIsShown /\ ExtractsName

ScreenInv == FieldsAreShown /\ BoxIsAlone /\ FlowsAreSound /\ WaitsForSomething

------------------------------------------------------------------------------
LEMMA OldestIsOne ==
  ASSUME NEW items \in SUBSET Lead, items # {}
  PROVE  Oldest(items) \in items
<1>1. items \subseteq Nat BY Instances DEF Lead
<1> DEFINE R == OpToRel(<, Nat)
<1>2. IsWellFoundedOn(R, Nat) BY NatLessThanWellFounded, Zenon
<1>3. ASSUME NEW a \in Nat, NEW b \in Nat, a < b PROVE <<a, b>> \in R BY <1>3, Zenon DEF OpToRel
<1> HIDE DEF R
<1>4. PICK i \in items : \A j \in items : <<j, i>> \notin R
  <2>1. \E i \in items : \A j \in items : ~(<<j, i>> \in R) BY <1>1, <1>2, WFMin, Zenon
  <2> QED BY <2>1
<1>5. ASSUME NEW j \in items PROVE i <= j
  <2>1. i \in Nat /\ j \in Nat BY <1>1
  <2>2. ~(j < i) BY <2>1, <1>3, <1>4, Zenon
  <2> QED BY <2>1, <2>2
<1> QED BY <1>5 DEF Oldest

LEMMA CallIs ==
  ASSUME NEW kind \in Kind, NEW id \in Maybe
  PROVE  /\ Call(kind, id) \in Flow /\ Call(kind, id).kind = kind
         /\ Call(kind, id).id = id /\ Call(kind, id).at = "sent"
BY DEF Call, Flow, Kind, Maybe, NoItems

LEMMA Adds ==
  ASSUME Shape, FlowsAreSound, NEW f \in Flow, f.kind = "confirm" => f.fields = f.id,
         f.at = "sent", flows' = flows \cup {f}
  PROVE  flows' \subseteq Flow /\ FlowsAreSound' /\ flows \subseteq flows' /\ f \in flows'
BY DEF Shape, FlowsAreSound, ConfirmsWhatIsShown, ExtractsName

\* A click only adds flows: what the screen waited for is still under way.
LEMMA StillWaits ==
  ASSUME WaitsForSomething, flows \subseteq flows',
         (busy \/ phase = "confirming")' => busy \/ phase = "confirming",
         (phase = "extracting")' => phase = "extracting"
  PROVE  WaitsForSomething'
BY DEF WaitsForSomething

LEMMA UserKeeps ==
  ASSUME Shape, ScreenInv, UserStep
  PROVE  Shape' /\ ScreenInv'
<1> USE DEF ScreenInv
<1>1. CASE NewLead
  <2>1. flows' = flows \cup {Call("badge", None)} BY <1>1 DEF NewLead, Start
  <2>2. Call("badge", None) \in Flow /\ Call("badge", None).kind = "badge" /\ Call("badge", None).at = "sent" BY CallIs DEF Kind, Maybe
  <2>3. flows' \subseteq Flow /\ FlowsAreSound' /\ flows \subseteq flows' BY <2>1, <2>2, Adds
  <2>4. FieldsAreShown' /\ BoxIsAlone' BY <1>1 DEF NewLead, StartComposing, FieldsAreShown, BoxIsAlone
  <2>5. WaitsForSomething' BY <1>1, <2>3, StillWaits DEF NewLead, StartComposing
  <2>6. Shape' BY <1>1, <2>3 DEF NewLead, StartComposing, Shape, pane, NoDraft, Maybe
  <2> QED BY <2>3, <2>4, <2>5, <2>6
<1>2. CASE OpenQueue
  <2>1. flows' = flows \cup {Call("advance", None)} BY <1>2 DEF OpenQueue, Start
  <2>2. Call("advance", None) \in Flow /\ Call("advance", None).kind = "advance" /\ Call("advance", None).at = "sent" BY CallIs DEF Kind, Maybe
  <2>3. flows' \subseteq Flow /\ FlowsAreSound' /\ flows \subseteq flows' BY <2>1, <2>2, Adds
  <2>4. FieldsAreShown' /\ BoxIsAlone' BY <1>2 DEF OpenQueue, pane, FieldsAreShown, BoxIsAlone
  <2>5. WaitsForSomething' BY <1>2, <2>3, StillWaits DEF OpenQueue
  <2>6. Shape' BY <1>2, <2>3 DEF OpenQueue, Shape, pane, box
  <2> QED BY <2>3, <2>4, <2>5, <2>6
<1>3. CASE Cancel
  <2>1. flows' = flows \cup {Call("advance", None)} BY <1>3 DEF Cancel, Start
  <2>2. Call("advance", None) \in Flow /\ Call("advance", None).kind = "advance" /\ Call("advance", None).at = "sent" BY CallIs DEF Kind, Maybe
  <2>3. flows' \subseteq Flow /\ FlowsAreSound' /\ flows \subseteq flows' BY <2>1, <2>2, Adds
  <2>4. FieldsAreShown' /\ BoxIsAlone' BY <1>3 DEF Cancel, pane, FieldsAreShown, BoxIsAlone
  <2>5. WaitsForSomething' BY <1>3, <2>3, StillWaits DEF Cancel
  <2>6. Shape' BY <1>3, <2>3 DEF Cancel, Shape, pane, NoDraft, Maybe
  <2> QED BY <2>3, <2>4, <2>5, <2>6
<1>4. ASSUME NEW i \in Lead, Select(i) PROVE Shape' /\ ScreenInv'
  <2>1. FlowsAreSound' /\ FieldsAreShown' /\ BoxIsAlone'
    BY <1>4 DEF Select, EnterReview, FlowsAreSound, ConfirmsWhatIsShown, ExtractsName, FieldsAreShown, BoxIsAlone
  <2>2. WaitsForSomething' BY <1>4, StillWaits DEF Select, EnterReview
  <2>3. Shape' BY <1>4 DEF Select, EnterReview, Shape, Maybe
  <2> QED BY <2>1, <2>2, <2>3
<1>5. CASE EditField
  <2>1. FlowsAreSound' /\ FieldsAreShown' /\ BoxIsAlone'
    BY <1>5 DEF EditField, FlowsAreSound, ConfirmsWhatIsShown, ExtractsName, FieldsAreShown, BoxIsAlone
  <2>2. WaitsForSomething' BY <1>5, StillWaits DEF EditField
  <2>3. Shape' BY <1>5 DEF EditField, Shape, box
  <2> QED BY <2>1, <2>2, <2>3
<1>6. CASE Confirm
  <2> DEFINE f == [Call("confirm", shown) EXCEPT !.fields = fieldsOf]
  <2>1. shown # None /\ shown \in Maybe /\ fieldsOf = shown
    BY <1>6 DEF Confirm, OnScreen, Shape, FieldsAreShown
  <2>2. Call("confirm", shown) \in Flow /\ Call("confirm", shown).kind = "confirm" /\ Call("confirm", shown).at = "sent"
        /\ Call("confirm", shown).id = shown
    BY <2>1, CallIs DEF Kind
  <2>3. f \in Flow /\ f.kind = "confirm" /\ f.fields = f.id /\ f.at = "sent" BY <2>1, <2>2 DEF Flow
  <2>4. flows' = flows \cup {f} BY <1>6 DEF Confirm, Start
  <2> HIDE DEF f
  <2>5. flows' \subseteq Flow /\ FlowsAreSound' /\ f \in flows' BY <2>3, <2>4, Adds
  <2>6. FieldsAreShown' /\ BoxIsAlone' BY <1>6 DEF Confirm, pane, FieldsAreShown, BoxIsAlone
  <2>7. WaitsForSomething' BY <1>6, <2>3, <2>5 DEF Confirm, WaitsForSomething
  <2>8. Shape' BY <1>6, <2>5 DEF Confirm, Shape, pane, box
  <2> QED BY <2>5, <2>6, <2>7, <2>8
<1>7. CASE Discard
  <2> DEFINE f == Call("discard", shown)
  <2>1. f \in Flow /\ f.kind = "discard" /\ f.at = "sent" BY CallIs DEF Kind, Shape
  <2>2. flows' = flows \cup {f} BY <1>7 DEF Discard, Start
  <2> HIDE DEF f
  <2>3. flows' \subseteq Flow /\ FlowsAreSound' /\ f \in flows' /\ flows \subseteq flows'
    BY <2>1, <2>2, Adds
  <2>4. FieldsAreShown' /\ BoxIsAlone' BY <1>7 DEF Discard, pane, FieldsAreShown, BoxIsAlone
  <2>5. WaitsForSomething' BY <1>7, <2>1, <2>3 DEF Discard, WaitsForSomething
  <2>6. Shape' BY <1>7, <2>3 DEF Discard, Shape, pane, box
  <2> QED BY <2>3, <2>4, <2>5, <2>6
<1>8. CASE EditRerun
  <2>1. flows' \subseteq Flow /\ FlowsAreSound' /\ flows \subseteq flows'
    <3>1. CASE shown \in Pictured
      <4> DEFINE f == Call("image", shown)
      <4>1. f \in Flow /\ f.kind = "image" /\ f.at = "sent" BY CallIs DEF Kind, Shape
      <4>2. flows' = flows \cup {f} BY <1>8, <3>1 DEF EditRerun, Start
      <4> HIDE DEF f
      <4> QED BY <4>1, <4>2, Adds
    <3>2. CASE shown \notin Pictured BY <1>8, <3>2 DEF EditRerun, Shape, FlowsAreSound, ConfirmsWhatIsShown, ExtractsName
    <3> QED BY <3>1, <3>2
  <2>2. FieldsAreShown' /\ BoxIsAlone' BY <1>8 DEF EditRerun, StartComposing, FieldsAreShown, BoxIsAlone
  <2>3. WaitsForSomething' BY <1>8, <2>1, StillWaits DEF EditRerun, StartComposing
  <2>4. Shape' BY <1>8, <2>1 DEF EditRerun, StartComposing, Shape, pane, Maybe
  <2> QED BY <2>1, <2>2, <2>3, <2>4
<1>9. CASE TypeDraft
  <2>1. FlowsAreSound' /\ FieldsAreShown' /\ BoxIsAlone'
    BY <1>9 DEF TypeDraft, pane, FlowsAreSound, ConfirmsWhatIsShown, ExtractsName, FieldsAreShown, BoxIsAlone
  <2>2. WaitsForSomething' BY <1>9, StillWaits DEF TypeDraft
  <2>3. draft' \in [text: Maybe \cup {Own}, image: Maybe] BY <1>9 DEF TypeDraft, Shape
  <2>4. Shape' BY <1>9, <2>3 DEF TypeDraft, Shape, pane
  <2> QED BY <2>1, <2>2, <2>4
<1>10. CASE Extract
  <2> DEFINE t == IF draft.text = Own THEN None ELSE draft.text
             f == [Call("extract", rerunOf) EXCEPT !.text = t]
  <2>1. t \in Maybe BY DEF Shape, Maybe
  <2>2. Call("extract", rerunOf) \in Flow /\ Call("extract", rerunOf).kind = "extract" /\ Call("extract", rerunOf).at = "sent"
    BY CallIs DEF Kind, Shape
  <2>3. flows' = flows \cup {f} BY <1>10 DEF Extract, Start
  <2> HIDE DEF t
  <2>4. f \in Flow /\ f.kind = "extract" /\ f.at = "sent" BY <2>1, <2>2 DEF Flow
  <2> HIDE DEF f
  <2>5. flows' \subseteq Flow /\ FlowsAreSound' /\ f \in flows' /\ flows \subseteq flows'
    BY <2>3, <2>4, Adds
  <2>6. FieldsAreShown' /\ BoxIsAlone' BY <1>10 DEF Extract, FieldsAreShown, BoxIsAlone
  <2>7. WaitsForSomething' BY <1>10, <2>4, <2>5 DEF Extract, WaitsForSomething
  <2>8. Shape' BY <1>10, <2>5 DEF Extract, Shape, pane, box, Maybe
  <2> QED BY <2>5, <2>6, <2>7, <2>8
<1> QED BY <1>1, <1>2, <1>3, <1>4, <1>5, <1>6, <1>7, <1>8, <1>9, <1>10 DEF UserStep

------------------------------------------------------------------------------
\* A flow goes on as another of its kind and for its lead, and the screen is as it was.
LEMMA SameKindKeeps ==
  ASSUME Shape, ScreenInv, NEW f \in flows, NEW g \in Flow, GoesOn(f, g),
         g.kind = f.kind, g.id = f.id, g.fields = f.fields,
         f.kind = "extract" /\ g.at = "answered" /\ g.says # "error" => g.items # {}, UNCHANGED screen,
         status' \in [Lead -> {"none", "open", "written", "discarded"}]
  PROVE  Shape' /\ ScreenInv'
<1>1. flows' = (flows \ {f}) \cup {g} BY DEF GoesOn
<1>2. Shape' BY <1>1 DEF Shape, screen, pane
<1>3. FieldsAreShown' /\ BoxIsAlone' BY DEF ScreenInv, FieldsAreShown, BoxIsAlone, screen, pane
<1>4. FlowsAreSound' BY <1>1 DEF ScreenInv, FlowsAreSound, ConfirmsWhatIsShown, ExtractsName
<1>5. WaitsForSomething' BY <1>1 DEF ScreenInv, WaitsForSomething, screen
<1> QED BY <1>2, <1>3, <1>4, <1>5 DEF ScreenInv

LEMMA ServeKeeps ==
  ASSUME Shape, ScreenInv, NEW f \in flows, Serve(f)
  PROVE  Shape' /\ ScreenInv'
<1>1. f \in Flow BY DEF Shape
<1>2. status' \in [Lead -> {"none", "open", "written", "discarded"}]
  BY <1>1 DEF Serve, ServeConfirm, ServeDiscard, ServeExtract, ServeRead, Shape, Flow
<1>3. \E says \in AllReplies \cup {"settled", "ok", "duplicate", "error", "nothing"}, items \in SUBSET Lead :
        Answer(f, says, items) /\ (f.kind = "extract" /\ says # "error" => items # {})
  <2>1. Queue \in SUBSET Lead /\ NoItems \in SUBSET Lead /\ Replies \subseteq AllReplies
    BY Instances DEF Queue, NoItems
  <2>2. CASE ServeConfirm(f) BY <2>1, <2>2 DEF ServeConfirm
  <2>3. CASE ServeDiscard(f) BY <2>1, <2>3 DEF ServeDiscard
  <2>4. CASE ServeExtract(f)
    <3>1. CASE Answer(f, "error", NoItems) BY <2>1, <3>1
    <3>2. ASSUME NEW i \in Lead, NEW what \in {"duplicate", "ok"}, Answer(f, what, {i})
          PROVE \E says \in AllReplies \cup {"settled", "ok", "duplicate", "error", "nothing"}, items \in SUBSET Lead :
                  Answer(f, says, items) /\ (f.kind = "extract" /\ says # "error" => items # {})
      <4>1. {i} \in SUBSET Lead /\ {i} # {} OBVIOUS
      <4> QED BY <3>2, <4>1
    <3> QED BY <2>4, <3>1, <3>2 DEF ServeExtract
  <2>5. CASE ServeRead(f) BY <2>1, <2>5 DEF ServeRead
  <2> QED BY <2>2, <2>3, <2>4, <2>5 DEF Serve
<1>4. PICK says \in AllReplies \cup {"settled", "ok", "duplicate", "error", "nothing"}, items \in SUBSET Lead :
        Answer(f, says, items) /\ (f.kind = "extract" /\ says # "error" => items # {})
  BY <1>3
<1> DEFINE g == [f EXCEPT !.at = "answered", !.says = says, !.items = items]
<1>5. GoesOn(f, g) BY <1>4 DEF Answer
<1>6. g \in Flow /\ g.kind = f.kind /\ g.id = f.id /\ g.fields = f.fields
      /\ g.says = says /\ g.items = items
  BY <1>1 DEF Flow
<1>7. UNCHANGED screen BY DEF Serve
<1> HIDE DEF g
<1> QED BY <1>2, <1>4, <1>5, <1>6, <1>7, SameKindKeeps

LEMMA PausedKeeps ==
  ASSUME Shape, ScreenInv, NEW f \in flows, Paused(f)
  PROVE  Shape' /\ ScreenInv'
<1> DEFINE g == [f EXCEPT !.at = "sent"]
<1>1. f \in Flow BY DEF Shape
<1>2. g \in Flow /\ g.kind = f.kind /\ g.id = f.id /\ g.fields = f.fields /\ g.at = "sent"
  BY <1>1 DEF Flow
<1>3. GoesOn(f, g) /\ UNCHANGED screen /\ status' = status BY DEF Paused
<1> HIDE DEF g
<1> QED BY <1>2, <1>3, SameKindKeeps DEF Shape

\* A flow is over, or goes on as one that is not a confirm.
LEMMA Leaves ==
  ASSUME Shape, FlowsAreSound, NEW f \in flows,
         Return(f) \/ \E g \in Flow : g.kind # "confirm" /\ g.at # "answered" /\ GoesOn(f, g)
  PROVE  flows' \subseteq Flow /\ FlowsAreSound' /\ flows \ {f} \subseteq flows'
BY DEF Return, GoesOn, Shape, FlowsAreSound, ConfirmsWhatIsShown, ExtractsName

LEMMA ReplyKeeps ==
  ASSUME Shape, ScreenInv, NEW f \in flows, Reply(f)
  PROVE  Shape' /\ ScreenInv'
<1> USE DEF ScreenInv
<1>1. f \in Flow /\ status' = status BY DEF Shape, Reply
<1>2. /\ Call("advance", None) \in Flow /\ Call("advance", None).kind = "advance" /\ Call("advance", None).at = "sent"
      /\ Call("badge", None) \in Flow /\ Call("badge", None).kind = "badge" /\ Call("badge", None).at = "sent"
  BY CallIs DEF Kind, Maybe
<1>3. CASE ConfirmReply(f)
  <2> DEFINE g == [Call("advance", None) EXCEPT !.at = "pausing"]
  <2>1. g \in Flow /\ g.kind = "advance" /\ g.at = "pausing" BY <1>2 DEF Flow
  <2> HIDE DEF g
  <2>2. CASE SettleBegin /\ GoesOn(f, g)
    <3>1. flows' \subseteq Flow /\ FlowsAreSound' BY <2>1, <2>2, Leaves
    <3>2. FieldsAreShown' /\ BoxIsAlone' BY <2>2 DEF SettleBegin, FieldsAreShown, BoxIsAlone
    <3>3. WaitsForSomething'
      BY <1>3, <2>1, <2>2 DEF ConfirmReply, SettleBegin, GoesOn, WaitsForSomething
    <3>4. Shape' BY <1>1, <1>3, <2>2, <3>1 DEF ConfirmReply, SettleBegin, Shape, pane, box, Maybe
    <3> QED BY <3>1, <3>2, <3>3, <3>4
  <2>3. CASE Refused(f.id) /\ Return(f)
    <3>1. flows' \subseteq Flow /\ FlowsAreSound' BY <2>3, Leaves
    <3>2. FieldsAreShown' /\ BoxIsAlone' BY <2>3 DEF Refused, FieldsAreShown, BoxIsAlone
    <3>3. WaitsForSomething' BY <2>3 DEF Refused, WaitsForSomething
    <3>4. f.id \in Maybe BY <1>1 DEF Flow
    <3>5. Shape' BY <1>1, <1>3, <2>3, <3>1, <3>4 DEF ConfirmReply, Refused, Shape, box
    <3> QED BY <3>1, <3>2, <3>3, <3>5
  <2> QED BY <1>3, <2>2, <2>3 DEF ConfirmReply, g
<1>4. CASE DiscardReply(f)
  <2>1. GoesOn(f, Call("advance", None)) /\ SettleBegin BY <1>4 DEF DiscardReply
  <2>2. flows' \subseteq Flow /\ FlowsAreSound' BY <1>2, <2>1, Leaves
  <2>3. FieldsAreShown' /\ BoxIsAlone' BY <2>1 DEF SettleBegin, FieldsAreShown, BoxIsAlone
  <2>4. WaitsForSomething'
    BY <1>2, <1>4, <2>1 DEF DiscardReply, SettleBegin, GoesOn, WaitsForSomething
  <2>5. Shape' BY <1>1, <1>4, <2>1, <2>2 DEF DiscardReply, SettleBegin, Shape, pane, box, Maybe
  <2> QED BY <2>2, <2>3, <2>4, <2>5
<1>5. CASE AdvanceReply(f)
  <2>1. flows' \subseteq Flow /\ FlowsAreSound' BY <1>5, Leaves DEF AdvanceReply
  <2>2. FieldsAreShown' /\ BoxIsAlone'
    BY <1>5 DEF AdvanceReply, EnterEmpty, EnterReview, FieldsAreShown, BoxIsAlone
  <2>3. WaitsForSomething' BY <1>5 DEF AdvanceReply, EnterEmpty, EnterReview, WaitsForSomething
  <2>4. f.items \in SUBSET Lead BY <1>1 DEF Flow
  <2>5. f.items # NoItems => Oldest(f.items) \in Maybe BY <2>4, OldestIsOne DEF NoItems, Maybe
  <2>6. Shape'
    BY <1>1, <1>5, <2>1, <2>4, <2>5 DEF AdvanceReply, EnterEmpty, EnterReview, Shape, pane, box, Maybe
  <2> QED BY <2>1, <2>2, <2>3, <2>6
<1>6. CASE BadgeReply(f)
  <2>1. flows' \subseteq Flow /\ FlowsAreSound' BY <1>6, Leaves DEF BadgeReply
  <2>2. FieldsAreShown' /\ BoxIsAlone' BY <1>6 DEF BadgeReply, pane, FieldsAreShown, BoxIsAlone
  <2>3. WaitsForSomething' BY <1>6 DEF BadgeReply, Return, WaitsForSomething
  <2>4. f.items \in SUBSET Lead BY <1>1 DEF Flow
  <2>5. Shape' BY <1>1, <1>6, <2>1, <2>4 DEF BadgeReply, Shape, pane, box
  <2> QED BY <2>1, <2>2, <2>3, <2>5
<1>7. CASE ImageReply(f)
  <2>1. flows' \subseteq Flow /\ FlowsAreSound' BY <1>7, Leaves DEF ImageReply
  <2>2. FieldsAreShown' /\ BoxIsAlone' BY <1>7 DEF ImageReply, pane, FieldsAreShown, BoxIsAlone
  <2>3. WaitsForSomething' BY <1>7 DEF ImageReply, Return, WaitsForSomething
  <2>4. draft' \in [text: Maybe \cup {Own}, image: Maybe] BY <1>1, <1>7 DEF ImageReply, Shape, Flow
  <2>5. Shape' BY <1>1, <1>7, <2>1, <2>4 DEF ImageReply, Shape, pane
  <2> QED BY <2>1, <2>2, <2>3, <2>5
<1>8. CASE ExtractFailed(f)
  <2>1. flows' \subseteq Flow /\ FlowsAreSound' BY <1>8, Leaves DEF ExtractFailed
  <2>2. FieldsAreShown' /\ BoxIsAlone' BY <1>8 DEF ExtractFailed, pane, FieldsAreShown, BoxIsAlone
  <2>3. WaitsForSomething' BY <1>8 DEF ExtractFailed, Return, WaitsForSomething
  <2>4. Shape' BY <1>1, <1>8, <2>1 DEF ExtractFailed, Shape, pane, box
  <2> QED BY <2>1, <2>2, <2>3, <2>4
<1>9. CASE ExtractReply(f)
  <2>1. flows' \subseteq Flow /\ FlowsAreSound'
    BY <1>2, <1>9, Leaves DEF ExtractReply
  <2>2. FieldsAreShown' /\ BoxIsAlone'
    BY <1>9 DEF ExtractReply, EnterReview, pane, FieldsAreShown, BoxIsAlone
  <2>3. \A g \in flows : g # f => g \in flows' BY <1>9 DEF ExtractReply, GoesOn, Return
  <2>4. /\ (busy \/ phase = "confirming")' => busy \/ phase = "confirming"
        /\ phase' # "extracting"
    BY <1>9 DEF ExtractReply, EnterReview, pane, BoxIsAlone
  <2>5. f.kind = "extract" BY <1>9 DEF ExtractReply
  <2>6. WaitsForSomething' BY <2>3, <2>4, <2>5 DEF WaitsForSomething
  <2>7. f.items \in SUBSET Lead BY <1>1 DEF Flow
  <2>8. f.says = "ok" => Oldest(f.items) \in Maybe
    BY <1>9, <2>7, OldestIsOne DEF Reply, ExtractReply, FlowsAreSound, ExtractsName, Maybe
  <2>9. NoDraft \in [text: Maybe \cup {Own}, image: Maybe] /\ None \in Maybe BY DEF NoDraft, Maybe
  <2>10. /\ shown' \in Maybe /\ fieldsOf' \in Maybe /\ verdictOf' \in Maybe /\ rerunOf' \in Maybe
         /\ phase' \in {"empty", "extracting", "review", "confirming"}
    BY <1>9, <2>8, <2>9 DEF ExtractReply, EnterReview, Shape, pane
  <2>11. composing' \in BOOLEAN /\ busy' \in BOOLEAN /\ typed' \in BOOLEAN
    BY <1>9 DEF ExtractReply, EnterReview, Shape, pane
  <2>12. draft' \in [text: Maybe \cup {Own}, image: Maybe] /\ list' \subseteq Lead
    BY <1>9, <2>9 DEF ExtractReply, Shape
  <2>13. Shape' BY <1>1, <2>1, <2>10, <2>11, <2>12 DEF Shape
  <2> QED BY <2>1, <2>2, <2>6, <2>13
<1> QED BY <1>3, <1>4, <1>5, <1>6, <1>7, <1>8, <1>9 DEF Reply
------------------------------------------------------------------------------
LEMMA ElsewhereKeeps ==
  ASSUME Shape, ScreenInv, NEW i \in Lead, Arrives(i) \/ SettledElsewhere(i)
  PROVE  Shape' /\ ScreenInv'
<1>1. UNCHANGED <<screen, flows>> /\ status' \in [Lead -> {"none", "open", "written", "discarded"}]
  BY DEF Arrives, SettledElsewhere, Shape
<1> QED BY <1>1 DEF Shape, ScreenInv, FieldsAreShown, BoxIsAlone, FlowsAreSound, ConfirmsWhatIsShown,
                    ExtractsName, WaitsForSomething, screen, pane

LEMMA FirstScreen == Init => Shape /\ ScreenInv
<1> SUFFICES ASSUME Init PROVE Shape /\ ScreenInv OBVIOUS
<1>1. list \subseteq Lead /\ (list # {} => Oldest(list) \in Lead)
  BY OldestIsOne DEF Init, Queue
<1>2. Shape BY <1>1 DEF Init, Shape, NoDraft, Maybe
<1>3. ScreenInv
  BY DEF Init, ScreenInv, FieldsAreShown, BoxIsAlone, FlowsAreSound, ConfirmsWhatIsShown, ExtractsName,
         WaitsForSomething
<1> QED BY <1>2, <1>3

LEMMA ScreenKept == Shape /\ ScreenInv /\ [Next]_vars => Shape' /\ ScreenInv'
<1> SUFFICES ASSUME Shape, ScreenInv, [Next]_vars PROVE Shape' /\ ScreenInv' OBVIOUS
<1>1. CASE Next BY <1>1, UserKeeps, ServeKeeps, PausedKeeps, ReplyKeeps, ElsewhereKeeps DEF Next, FlowStep
<1>2. CASE UNCHANGED vars
  BY <1>2 DEF vars, pane, Shape, ScreenInv, FieldsAreShown, BoxIsAlone, FlowsAreSound, ConfirmsWhatIsShown,
              ExtractsName, WaitsForSomething
<1> QED BY <1>1, <1>2

LEMMA ScreenHolds == Spec => [](Shape /\ ScreenInv)
BY FirstScreen, ScreenKept, PTL DEF Spec

\* App.tsx:216: whichever replies landed before the click and however many leads there are,
\* the id and the values of one confirm belong to one lead.
THEOREM SendsWhatIsShown == Spec => []ConfirmsWhatIsShown
BY ScreenHolds, PTL DEF ScreenInv, FlowsAreSound

\* App.tsx:85: what disabled the buttons or shows the spinner is a flow still under way.
THEOREM NeverWaitsForNothing == Spec => []WaitsForSomething
BY ScreenHolds, PTL DEF ScreenInv

\* state.ts: a refused confirm of the lead on screen leaves it there, and its edits.
THEOREM RefusalKeepsEdits == Spec => EditsSurviveRefusal
<1> DEFINE Keeps ==
      \A f \in flows :
        (f \notin flows' /\ f.kind = "confirm" /\ f.says \in Replies \ TakenAsSettled /\ f.id = shown)
          => shown' = shown /\ fieldsOf' = fieldsOf /\ typed' = typed
<1>1. [Next]_vars => Keeps
  <2> SUFFICES ASSUME Next, NEW f \in flows, f \notin flows', f.kind = "confirm", f.says \notin TakenAsSettled
               PROVE  shown' = shown /\ fieldsOf' = fieldsOf /\ typed' = typed
    BY DEF vars
  <2>1. ~UserStep
    BY DEF UserStep, NewLead, OpenQueue, Cancel, Select, EditField, Confirm, Discard, EditRerun, TypeDraft,
           Extract, Start
  <2>2. PICK g \in flows : FlowStep(g) BY <2>1 DEF Next, Arrives, SettledElsewhere
  <2>3. CASE Reply(g)
    <3>1. g = f
      BY <2>3 DEF Reply, ConfirmReply, DiscardReply, AdvanceReply, BadgeReply, ImageReply, ExtractFailed,
                  ExtractReply, GoesOn, Return
    <3>2. ConfirmReply(f)
      BY <2>3, <3>1 DEF Reply, DiscardReply, AdvanceReply, BadgeReply, ImageReply, ExtractFailed, ExtractReply
    <3> QED BY <3>2 DEF ConfirmReply, Refused
  <2>4. CASE Serve(g) \/ Paused(g) BY <2>4 DEF Serve, Paused, screen, pane
  <2> QED BY <2>2, <2>3, <2>4 DEF FlowStep
<1> QED BY <1>1, PTL DEF Spec, EditsSurviveRefusal
===============================================================================
