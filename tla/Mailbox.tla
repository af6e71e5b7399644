-------------------------------- MODULE Mailbox --------------------------------
(***************************************************************************)
(* What the ingest promises of the mail sent to an account, with requests,   *)
(* retries, statements and texts left out.  A mail that was delivered is      *)
(* answered for by a lead or an entry of the quarantine, unless the ingest    *)
(* was in trouble; one that was not goes to the fallback or is lost in the    *)
(* open.  Mail that no person wrote becomes a lead from its entry only.       *)
(* An entry is settled once, as rescued only when a lead answers for its       *)
(* mail; its body may be gone before that.                                    *)
(***************************************************************************)
EXTENDS Naturals, Sequences

CONSTANTS Mail, Time, Never

VARIABLES
  letters,  \* the mail a person wrote, which no step changes
  fate,     \* of each mail, at its sender
  led,      \* the mail a lead answers for
  held,     \* the entries of the quarantine, in the order they came
  trouble   \* the address is gone, or a table could not be read or written

vars == <<letters, fate, led, held, trouble>>

Fate == {"new", "posting", "undelivered", "delivered", "forwarded", "lost"}

Entry == [mail: Mail, state: {"held", "rescued", "dismissed"}, since: Time \cup {Never}, body: BOOLEAN]

IsHeld(d) == \E e \in DOMAIN held : held[e].mail = d

Init ==
  /\ letters \subseteq Mail
  /\ fate = [d \in Mail |-> "new"]
  /\ led = {} /\ held = <<>> /\ trouble = FALSE

Goes(d, from, to) ==
  /\ fate[d] = from /\ fate' = [fate EXCEPT ![d] = to]

\* The sender tries a mail, gives it up, and falls back.
Send(d) ==
  /\ \/ Goes(d, "new", "posting")
     \/ Goes(d, "posting", "undelivered")
     \/ Goes(d, "undelivered", "forwarded")
     \/ Goes(d, "undelivered", "lost")
  /\ UNCHANGED <<letters, led, held, trouble>>

\* A new row answers for a mail that is under way, or was; the sender may hear of it.
Heard(d) ==
  /\ fate[d] # "new"
  /\ Goes(d, "posting", "delivered") \/ fate' = fate

\* The lead may answer for other mail too: for the same one, sent again.
Lead(d) ==
  /\ d \in led' /\ led \subseteq led'
  /\ d \in letters \/ IsHeld(d)
  /\ Heard(d)
  /\ UNCHANGED <<letters, held, trouble>>

Hold(d) ==
  /\ \E body \in BOOLEAN :
       held' = Append(held, [mail |-> d, state |-> "held", since |-> Never, body |-> body])
  /\ Heard(d)
  /\ UNCHANGED <<letters, led, trouble>>

\* The sender is told so of mail that is answered for, or of any in trouble.
Deliver(d) ==
  /\ Goes(d, "posting", "delivered")
  /\ trouble' \in {trouble, TRUE}
  /\ trouble' \/ d \in led
  /\ UNCHANGED <<letters, led, held>>

Settle(e) ==
  /\ held[e].state = "held"
  /\ \E s \in {"rescued", "dismissed"}, t \in Time :
       /\ s = "rescued" => held[e].mail \in led
       /\ held' = [held EXCEPT ![e] = [mail |-> @.mail, state |-> s, since |-> t, body |-> @.body]]
  /\ UNCHANGED <<letters, fate, led, trouble>>

Purge ==
  /\ DOMAIN held' = DOMAIN held
  /\ \A e \in DOMAIN held : held'[e] \in {held[e], [held[e] EXCEPT !.body = FALSE]}
  /\ UNCHANGED <<letters, fate, led, trouble>>

Strike ==
  /\ trouble' = TRUE
  /\ UNCHANGED <<letters, fate, led, held>>

Next ==
  \/ \E d \in Mail : Send(d) \/ Hold(d) \/ Deliver(d) \/ Lead(d)
  \/ \E e \in DOMAIN held : Settle(e)
  \/ Purge \/ Strike

Spec == Init /\ [][Next]_vars
================================================================================
