-------------------------------- MODULE Messages --------------------------------
(***************************************************************************)
(* One parsed email as the mail worker hands it over (ingest/message.go), to  *)
(* the detail the rules for it tell apart: what each line of a part is, which  *)
(* of the whitelisted headers it has, and who it says it is from.             *)
(***************************************************************************)
EXTENDS Integers, SequencesExt

CONSTANTS
  Person,      \* addresses mail is from
  Nobody,      \* no address
  Words,       \* what a line can say
  RunesOf,     \* how long each of them is
  MsgId, NoMsg,\* Message-IDs, and none
  LegalFooterMaxTail, MinLeadRunes

ASSUME Lengths ==
  /\ RunesOf \in [Words -> Nat \ {0}] /\ MinLeadRunes \in Nat /\ LegalFooterMaxTail \in Nat

\* A date nobody can parse.
NoDate == 0

\* A line of a text.  "marker": the line a client begins a forwarded message with; "from",
\* "date", "field": its header lines; "quoted": words behind a ">"; "footer": where a legal
\* notice starts; "code", "link": what a forwarding confirmation carries.
Line ==
  [is: {"words", "quoted"}, says: Words]
  \cup [is: {"from"}, who: Person \cup {Nobody}] \cup [is: {"date"}, at: Nat]
  \cup [is: {"marker", "field", "blank", "footer", "code", "link"}]

Header == {"x-forwarded", "resent-from", "auto-submitted", "precedence", "autoreply", "list", "text/calendar"}
Subject == {"plain", "auto-reply", "confirmation", "confirmation_with_code"}

\* bounce: its envelope has no sender; html: what HTMLToText renders.  story is history, and
\* nothing reads it: who wrote what the mail brings, the first to write first, and none for
\* mail that no person wrote.
Message ==
  [event: {"none", "size_rejected", "parse_failed"}, from: Person \cup {Nobody}, bounce: BOOLEAN,
   id: MsgId \cup {NoMsg}, headers: SUBSET Header, subject: Subject, text: Seq(Line), html: Seq(Line),
   attached: SUBSET {"calendar", "file"}, story: Seq([who: Person \cup {Nobody}, at: Nat, says: Words])]

Has(text, what) == \E i \in DOMAIN text : text[i].is = what

\* A line that is not words is as long as the floor: the shortest header or marker is.
Runes(line) ==
  CASE line.is \in {"words", "quoted"} -> RunesOf[line.says]
    [] line.is = "blank" -> 0
    [] OTHER -> MinLeadRunes

RuneLen(text) == FoldLeft(LAMBDA n, line : n + Runes(line), 0, text)

\* TrimSpace
Trim(text) ==
  LET full == {i \in DOMAIN text : text[i].is # "blank"}
  IN IF full = {} THEN <<>> ELSE SubSeq(text, Min(full), Max(full))

Dequote(text) ==
  [i \in DOMAIN text |-> IF text[i].is = "quoted" THEN [text[i] EXCEPT !.is = "words"] ELSE text[i]]

\* Cut at the first notice, if what follows is short enough for one.
StripLegalFooter(text) ==
  LET notices == {i \in DOMAIN text : text[i].is = "footer"}
      tail == SubSeq(text, Min(notices), Len(text))
  IN IF notices # {} /\ RuneLen(tail) <= LegalFooterMaxTail
     THEN SubSeq(text, 1, Min(notices) - 1) ELSE text

Clean(text) == Trim(StripLegalFooter(Dequote(text)))
================================================================================
