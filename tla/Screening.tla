------------------------------- MODULE Screening -------------------------------
(***************************************************************************)
(* The filters every mail passes before a model reads it (ingest/screen.go,   *)
(* verify.go, machine.go).                                                    *)
(***************************************************************************)
EXTENDS Messages

CONSTANTS
  Domain, DomainOf, \* the domain of each address
  Automatic,        \* addresses whose local part is a machine's
  Confirmer,        \* forwarding-noreply@google.com
  CalendarBodyFloor

ASSUME Senders ==
  /\ DomainOf \in [Person -> Domain] /\ Automatic \subseteq Person
  /\ Confirmer \in Person /\ CalendarBodyFloor \in Nat

\* What the blocklist holds: an address, or "@" and a domain.
Pattern == Person \cup Domain

Names(pattern, p) == p # Nobody /\ pattern \in {p, DomainOf[p]}

IsBlockedSender(p, patterns) == \E pattern \in patterns : Names(pattern, p)

\* Every address of the confirmations' domain is refused, and that domain.
IsVerificationSender(pattern) ==
  pattern = DomainOf[Confirmer] \/ (pattern \in Person /\ DomainOf[pattern] = DomainOf[Confirmer])

\* A code is looked for in the text, or in the HTML where there is no text; a link in both.
DetectVerification(m) ==
  LET body == IF Trim(m.text) = <<>> THEN m.html ELSE m.text IN
  /\ m.from = Confirmer
  /\ m.subject \in {"confirmation", "confirmation_with_code"}
  /\ \/ Has(body, "code") \/ m.subject = "confirmation_with_code"
     \/ Has(body, "link") \/ Has(m.html, "link")

IsMachineMail(m) ==
  \/ m.headers \cap {"auto-submitted", "precedence", "autoreply", "list"} # {}
  \/ m.bounce
  \/ m.from \in Automatic
  \/ m.subject = "auto-reply"

IsCalendarOnly(m) ==
  \/ "text/calendar" \in m.headers
  \/ "calendar" \in m.attached /\ RuneLen(m.text) < CalendarBodyFloor

\* The text part, or the rendered HTML where that is too short and says less.
Body(m) == IF RuneLen(m.text) < MinLeadRunes /\ RuneLen(m.html) > RuneLen(m.text) THEN m.html ELSE m.text

Verdicts == {"accept", "unreadable", "blocked_sender", "verification", "machine_mail",
             "calendar_invite", "no_text", "too_short"}

\* Mutant: the cheap header lookups come first.
MachinesFirst(m, patterns) ==
  IF m.event # "none"                          THEN "unreadable"
  ELSE IF IsBlockedSender(m.from, patterns)    THEN "blocked_sender"
  ELSE IF IsMachineMail(m)                     THEN "machine_mail"
  ELSE IF DetectVerification(m)                THEN "verification"
  ELSE IF IsCalendarOnly(m)                    THEN "calendar_invite"
  ELSE IF RuneLen(Body(m)) = 0                 THEN "no_text"
  ELSE IF RuneLen(Body(m)) < MinLeadRunes      THEN "too_short"
  ELSE "accept"

\* Mutant: the machine-mail filter is gone.
NoMachines(m, patterns) ==
  IF m.event # "none"                          THEN "unreadable"
  ELSE IF IsBlockedSender(m.from, patterns)    THEN "blocked_sender"
  ELSE IF DetectVerification(m)                THEN "verification"
  ELSE IF IsCalendarOnly(m)                    THEN "calendar_invite"
  ELSE IF RuneLen(Body(m)) = 0                 THEN "no_text"
  ELSE IF RuneLen(Body(m)) < MinLeadRunes      THEN "too_short"
  ELSE "accept"

\* Screen: the first rule that holds.
Verdict(m, patterns) ==
  IF m.event # "none"                          THEN "unreadable"
  ELSE IF IsBlockedSender(m.from, patterns)    THEN "blocked_sender"
  ELSE IF DetectVerification(m)                THEN "verification"
  ELSE IF IsMachineMail(m)                     THEN "machine_mail"
  ELSE IF IsCalendarOnly(m)                    THEN "calendar_invite"
  ELSE IF RuneLen(Body(m)) = 0                 THEN "no_text"
  ELSE IF RuneLen(Body(m)) < MinLeadRunes      THEN "too_short"
  ELSE "accept"
================================================================================
