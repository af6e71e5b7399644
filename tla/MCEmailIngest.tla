----------------------------- MODULE MCEmailIngest -----------------------------
(* Instances of EmailIngest: the mail, and what meets.                          *)
EXTENDS EmailIngest, TLC

CONSTANTS
  me, ada, bob, shop, gmail, \* the account's user, three others, the confirmations' sender
  home, work, google,        \* domains
  idA, idB, first, second, third, other, short

Domains == me :> home @@ ada :> work @@ bob :> work @@ shop :> work @@ gmail :> google
LineLengths == [w \in Words |-> IF w = short THEN 1 ELSE 2]

Line1(what) == [is |-> what]
Says(w) == [is |-> "words", says |-> w]
Quotes(w) == [is |-> "quoted", says |-> w]
FromLine(p) == [is |-> "from", who |-> p]
DateLine(t) == [is |-> "date", at |-> t]
Told(p, t, w) == [who |-> p, at |-> t, says |-> w]

\* A mail that p writes.
Plain(p, id, w) ==
  [event |-> "none", from |-> p, bounce |-> FALSE, id |-> id, headers |-> {}, subject |-> "plain",
   text |-> <<Says(w)>>, html |-> <<>>, attached |-> {}, story |-> <<Told(p, 1, w)>>]

\* What nobody wrote.
Newsletter(p) == [Plain(p, NoMsg, other) EXCEPT !.headers = {"list"}, !.story = <<>>]
Bounce == [Plain(Nobody, NoMsg, other) EXCEPT !.bounce = TRUE, !.story = <<>>]
Automatically == [Plain(shop, NoMsg, other) EXCEPT !.story = <<>>]
Away(p) == [Plain(p, NoMsg, other) EXCEPT !.subject = "auto-reply", !.story = <<>>]
Invite(p) == [Plain(p, NoMsg, other) EXCEPT !.attached = {"calendar"}, !.story = <<>>]
Unreadable(p) == [Plain(p, NoMsg, other) EXCEPT !.event = "parse_failed", !.text = <<>>]
Handshake == [Plain(gmail, NoMsg, other) EXCEPT !.subject = "confirmation",
  !.text = <<Says(other), Line1("blank"), Line1("link"), Line1("footer")>>, !.story = <<>>]
FakeHandshake == [Handshake EXCEPT !.from = bob, !.story = <<Told(bob, 1, other)>>]

\* An enquiry with nothing in its text part, one of two words, and one that is signed under a
\* legal notice.
InHtml == [Plain(ada, NoMsg, first) EXCEPT !.text = <<>>, !.html = <<Says(first)>>]
Brief == [Plain(ada, NoMsg, short) EXCEPT !.text = <<Line1("blank"), Says(short)>>]
Empty == [Plain(ada, NoMsg, first) EXCEPT !.text = <<>>, !.attached = {"file"}]
Legal == [Plain(ada, NoMsg, first) EXCEPT !.text = <<Says(first), Line1("blank"), Line1("footer")>>]

\* The block a client makes of a message it forwards.
Forwarded(told) ==
  <<Line1("marker"), FromLine(told.who), DateLine(told.at), Line1("field"), Line1("blank"), Says(told.says)>>
Newest(story) == IF Len(story) = 1 THEN Forwarded(story[1])
  ELSE IF Len(story) = 2 THEN Forwarded(story[2]) \o Forwarded(story[1])
  ELSE Forwarded(story[3]) \o Forwarded(story[2]) \o Forwarded(story[1])
Oldest(story) == IF Len(story) = 1 THEN Forwarded(story[1])
  ELSE IF Len(story) = 2 THEN Forwarded(story[1]) \o Forwarded(story[2])
  ELSE Forwarded(story[1]) \o Forwarded(story[2]) \o Forwarded(story[3])

\* Of threads of up to three messages by the account and two others, with every date that
\* parses and every one that does not, what the account forwards by hand: newest first, or
\* from a client that keeps the order they were written in.
Said == <<first, second, third>>
Story(n) ==
  {[i \in 1..n |-> Told(who[i], IF i \in dated THEN i ELSE NoDate, Said[i])] :
     who \in [1..n -> {me, ada, bob}], dated \in SUBSET (1..n)}
Stories == Story(1) \cup Story(2) \cup Story(3)
ByHand(story, text) ==
  [Plain(me, NoMsg, other) EXCEPT !.text = <<Says(other)>> \o text, !.story = story]
Threads == {ByHand(s, Newest(s)) : s \in Stories} \cup {ByHand(s, Oldest(s)) : s \in Stories}

\* What ada wrote, forwarded by a rule, with a marker of an earlier life in it; resent; and
\* forwarded by a client whose markers are in another language, or that sets a single
\* message off with its header lines only.
ByRule == [Plain(ada, NoMsg, first) EXCEPT !.headers = {"x-forwarded"},
           !.text = <<Says(first)>> \o Forwarded(Told(bob, 1, second))]
Resent == [ByRule EXCEPT !.headers = {"resent-from"}]
Localised == [Plain(me, NoMsg, first) EXCEPT !.story = <<Told(ada, 1, first)>>]
Bare == ByHand(<<Told(ada, 1, first)>>, Tail(Forwarded(Told(ada, 1, first))))
Quoted == ByHand(<<Told(ada, 1, first)>>,
  SubSeq(Forwarded(Told(ada, 1, first)), 1, 5) \o <<Quotes(first), Line1("footer")>>)

\* A client that sets every message of a thread off with its header lines only.
Chain == ByHand(<<Told(ada, 1, first), Told(me, 2, second)>>,
  Tail(Forwarded(Told(me, 2, second))) \o Tail(Forwarded(Told(ada, 1, first))))

ByThemselves == Threads \cup
  {ByRule, Resent, Localised, Bare, Quoted, InHtml, Brief, Empty, Legal, Bounce, Automatically, Away(ada),
   Invite(ada), FakeHandshake, Unreadable(ada)}

Alone(m) == [d \in Delivery |-> IF d = 1 THEN m ELSE NoMail]
Both(m, n) == [d \in Delivery |-> IF d = 1 THEN m ELSE n]

OneByOne == {[mails |-> Alone(m), attempts |-> 1, handlers |-> {1}, acts |-> {}, faults |-> {}] : m \in ByThemselves}

Meeting(m, n, attempts, handlers, acts, breaks) ==
  [mails |-> Both(m, n), attempts |-> attempts, handlers |-> handlers, acts |-> acts, faults |-> breaks]

AtHand == {"rescue", "dismiss", "block", "rotate", "midnight"}

Meetings == OneByOne \cup
  {Meeting(Plain(bob, idB, other), ByHand(<<Told(ada, 1, first)>>, Forwarded(Told(ada, 1, first))), 2, {1, 2},
           {"burst"}, {"crash"}),
   Meeting(Newsletter(bob), NoMail, 2, {1, 2}, {"rescue", "burst"}, {"crash"}),
   Meeting(Plain(ada, idA, first), NoMail, 1, {1}, AtHand, AllFaults),
   Meeting(Newsletter(bob), NoMail, 1, {1}, AtHand, AllFaults),
   Meeting(Handshake, Unreadable(ada), 1, {1}, AtHand, AllFaults)}

\* The thread of MCEmailIngest_chain is not.
ASSUME MeetingsArePlain ==
  \A i \in Meetings : \A d \in Delivery : i.mails[d] # NoMail => ToldPlainly(i.mails[d])

ChainOnly == {[mails |-> Alone(Chain), attempts |-> 1, handlers |-> {1}, acts |-> {}, faults |-> {}]}
==============================================================================
