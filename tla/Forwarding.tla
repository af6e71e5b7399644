------------------------------- MODULE Forwarding -------------------------------
(***************************************************************************)
(* Whose lead a forwarded mail is, and what of it the model reads             *)
(* (ingest/forwarded.go, markers.go): the headers of an automatic forward     *)
(* leave From as it was; a person's forward is read out of the body.          *)
(***************************************************************************)
EXTENDS Messages

\* One message inside a forwarded body
Block == [from: Person \cup {Nobody}, at: Nat, body: Seq(Line)]

\* The header lines at the top and the rest.  A field that is there twice is the last one,
\* but a date that does not parse leaves the one before it.
ParseBlock(segment) ==
  LET lines == Trim(segment)
      rest  == {i \in DOMAIN lines : lines[i].is \notin {"from", "date", "field"}}
      heads == 1..(IF rest = {} THEN Len(lines) ELSE Min(rest) - 1)
      froms == {i \in heads : lines[i].is = "from"}
      dates == {i \in heads : lines[i].is = "date" /\ lines[i].at # NoDate}
  IN [from |-> IF froms = {} THEN Nobody ELSE lines[Max(froms)].who,
      at   |-> IF dates = {} THEN NoDate ELSE lines[Max(dates)].at,
      body |-> Trim(SubSeq(lines, Cardinality(heads) + 1, Len(lines)))]

\* A block starts after each marker line; only where there is none, at the first From line
\* that a Date line follows.
ParseForwardBlocks(text) ==
  LET markers == {i \in DOMAIN text : text[i].is = "marker"}
      next(i) == Min({j \in markers : j > i} \cup {Len(text) + 1})
      bare == {i \in 1..Len(text) - 1 : text[i].is = "from" /\ text[i + 1].is = "date"}
  IN IF markers # {}
     THEN [n \in 1..Cardinality(markers) |->
            LET i == CHOOSE i \in markers : Cardinality({j \in markers : j <= i}) = n
            IN ParseBlock(SubSeq(text, i + 1, next(i) - 1))]
     ELSE IF bare # {} THEN <<ParseBlock(SubSeq(text, Min(bare), Len(text)))>> ELSE <<>>

\* Mutant: one date that parses is enough.
OneDateUsable(blocks) == \E i \in DOMAIN blocks : blocks[i].at # NoDate

\* A partial set mixes two orderings.
DatesUsable(blocks) == \A i \in DOMAIN blocks : blocks[i].at # NoDate

\* earliestFirst: by date, a tie in the order of the document, or, where a date does not
\* parse, against the order of the document.
Before(blocks, i, j) ==
  IF DatesUsable(blocks)
  THEN blocks[i].at < blocks[j].at \/ (blocks[i].at = blocks[j].at /\ i < j)
  ELSE i > j

Confidence == {"high", "medium", "low"}
Origin == [sender: Person \cup {Nobody}, text: Seq(Line), confidence: Confidence]

\* fromBlocks and origin: the first to write but the account itself; where there is nobody
\* else, the newest message.
FromBlocks(m, blocks, own) ==
  LET all    == DOMAIN blocks
      others == {i \in all : blocks[i].from \notin own}
      pick   == IF others # {} THEN CHOOSE i \in others : \A j \in others \ {i} : Before(blocks, i, j)
                ELSE CHOOSE i \in all : \A j \in all \ {i} : Before(blocks, j, i)
      b      == blocks[pick]
      said   == Clean(b.body)
  IN [sender |-> IF b.from = Nobody THEN m.from ELSE b.from,
      text   |-> IF said = <<>> THEN Clean(m.text) ELSE said,
      confidence |->
        IF Len(blocks) = 1 THEN (IF b.from = Nobody THEN "low" ELSE "high")
        ELSE IF others = {} THEN "low" ELSE IF DatesUsable(blocks) THEN "high" ELSE "medium"]

ResolveOrigin(m, own) ==
  LET blocks == ParseForwardBlocks(m.text)
      direct == [sender |-> m.from, text |-> Clean(m.text), confidence |-> "high"]
  IN IF m.headers \cap {"x-forwarded", "resent-from"} # {} THEN direct
     ELSE IF blocks # <<>> THEN FromBlocks(m, blocks, own)
     ELSE IF m.from \in own THEN [direct EXCEPT !.confidence = "low"] ELSE direct
================================================================================
