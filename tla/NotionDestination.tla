--------------------------- MODULE NotionDestination ---------------------------
(***************************************************************************)
(* A Notion database as the destination of an account's leads: the mapping   *)
(* the server proposes for it and the account adjusts on the setup page       *)
(* (notion/mapping.go, httpapi/notion_setup.go, NotionSetup.tsx), the save    *)
(* that checks it against the live schema, and the confirm that turns a lead  *)
(* into a page (notion/writer.go), while somebody edits the schema at Notion. *)
(* Access to Notion, which may be lost meanwhile, is in Connections.          *)
(***************************************************************************)
EXTENDS Naturals, SequencesExt

CONSTANTS
  Columns,    \* the schema's fields, in column order
  NameOrder,  \* the property names an instance knows, sorted
  Types,      \* the property types an instance uses
  Leads,      \* confirmed leads
  Nothing,
  MaxEdits,   \* bound: edits somebody makes to a schema at Notion
  MaxChoices, \* bound: changes the account makes to a proposed mapping
  MaxSetups   \* bound: destinations the account sets out to save

Field == {Columns[n] : n \in DOMAIN Columns}

\* A property's name is a word in one of two spellings, and case-sensitive; a field's
\* own name is lower case.
Name == {NameOrder[n] : n \in DOMAIN NameOrder}
Called(f) == <<f, "lower">>
EqualFold(n, f) == n[1] = f

Mappable == {"title", "rich_text", "email", "phone_number", "url", "date", "select",
             "multi_select", "number"}

\* A value is what Notion's types make of it: some words, words with a comma, an email
\* address, an ISO date or a number.
Value == {"", "words", "list", "mail", "day", "number"}

preferredTypes == [name    |-> <<"title">>,
                   contact |-> <<"email", "phone_number", "rich_text">>,
                   source  |-> <<"select", "rich_text">>,
                   need    |-> <<"rich_text", "title">>,
                   date    |-> <<"date", "rich_text">>,
                   notes   |-> <<"rich_text">>,
                   flags   |-> <<"rich_text">>]

ASSUME Instances ==
  /\ Columns \in Seq(DOMAIN preferredTypes) /\ IsInjective(Columns)
  /\ NameOrder \in Seq(STRING \X {"lower", "Title"}) /\ IsInjective(NameOrder)
  /\ Types \subseteq Mappable \cup {"status"} /\ "title" \in Types
  /\ Leads \subseteq [Field -> Value]
  /\ MaxEdits \in Nat /\ MaxChoices \in Nat /\ MaxSetups \in Nat

\* Notion gives a data source exactly one title property.
Schema ==
  {s \in UNION {[N -> Types] : N \in SUBSET Name} :
     Cardinality({n \in DOMAIN s : s[n] = "title"}) = 1}

Target == [name: Name, type: Types]
Mapping == UNION {[F -> Target] : F \in SUBSET Field}
Source == {"theirs", "own"}

VARIABLES
  schema,   \* the properties of each data source, now; the app may make one of its own
  options,  \* the select options they have, by source, name and value
  dest,     \* the saved destination; checked is the schema its mapping was held against
  page,     \* the setup page: the mapping it shows and the properties it offers
  saving,   \* the setup request in service
  confirm,  \* the confirm in service (confirmMu: at most one), or its answer
  edits, setups

vars == <<schema, options, dest, page, saving, confirm, edits, setups>>

Destination == [source: Source, mapping: Mapping, checked: Schema]
Stage == {"creating", "looking", "adding", "again", "refused", "written"}

\* A schema as GetDataSource returns it, with the options of its selects
Read == [schema: Schema, options: SUBSET (Name \X Value)]

\* What Write knows: its lead and mapping, the values it sends by property name, the
\* fields it drops, the schema it read to repair a refusal, the properties that lack an
\* option, and whether it added any.
Confirm == [at: Stage, lead: Leads, source: Source, mapping: Mapping, checked: Schema,
            props: UNION {[N -> Value] : N \in SUBSET Name}, dropped: SUBSET Field,
            read: Read \cup {Nothing}, missing: SUBSET Name, added: BOOLEAN]

\* A data source keeps one title, and options are added only to properties that were read.
TypeOK ==
  /\ schema["theirs"] \in Schema /\ schema["own"] \in Schema \cup {Nothing}
  /\ DOMAIN schema = Source
  /\ options \subseteq Source \X Name \X Value
  /\ dest \in Destination \cup {Nothing}
  /\ page \in [mapping: Mapping, offered: Schema, choices: 0..MaxChoices] \cup {Nothing}
  /\ saving \in Destination \cup {Nothing}
  /\ \/ confirm = Nothing
     \/ /\ confirm \in Confirm
        /\ confirm.missing # {} => confirm.missing \subseteq DOMAIN confirm.read.schema
  /\ edits \in 0..MaxEdits /\ setups \in 0..MaxSetups

------------------------------------------------------------------------------
(* AutoMap                                                                  *)

TitleOf(s) == CHOOSE n \in DOMAIN s : s[n] = "title"

\* sortProperties: the title, then the others by name
Rank(n, s) == IF s[n] = "title" THEN 0 ELSE CHOOSE k \in DOMAIN NameOrder : NameOrder[k] = n
First(P, s) == CHOOSE n \in P : \A p \in P : Rank(n, s) <= Rank(p, s)

Claim(m, f, n, s) == [g \in DOMAIN m \cup {f} |-> IF g = f THEN [name |-> n, type |-> s[n]] ELSE m[g]]

\* Mutant: nothing is claimed.
FreeAlways(m, n) == TRUE

Free(m, n) == \A f \in DOMAIN m : m[f].name # n

NoMapping == [f \in {} |-> Nothing]

Unclaimed(m, s) == {n \in DOMAIN s : Free(m, n)}

\* The free properties of a type the field prefers. Only name takes the title.
OfType(m, f, type, s) == {n \in Unclaimed(m, s) : s[n] = type /\ (type = "title" => f = "name")}

\* What will do for a field, in each pass over the fields
WillDo(pass, m, f, s) ==
  LET named == {n \in Unclaimed(m, s) : s[n] \in Mappable /\ EqualFold(n, f)}
      liked(k) == OfType(m, f, preferredTypes[f][k], s)
  IN CASE pass = "exact" -> named \cap {Called(f)}
       [] pass = "folded" -> named
       [] pass = "affinity" ->
            UNION {liked(k) : k \in {i \in DOMAIN preferredTypes[f] : \A j \in 1..(i - 1) : liked(j) = {}}}

\* A field without a property takes the first one that will do.
Take(pass, m, f, s) ==
  LET will == WillDo(pass, m, f, s) IN
  IF f \in DOMAIN m \/ will = {} THEN m ELSE Claim(m, f, First(will, s), s)

Pass(pass, m, s) ==
  LET upTo[k \in 0..Len(Columns)] == IF k = 0 THEN m ELSE Take(pass, upTo[k - 1], Columns[k], s)
  IN upTo[Len(Columns)]

ByName(s) == Pass("folded", Pass("exact", NoMapping, s), s)

ByAffinity(named, s) == Pass("affinity", named, s)

\* A title nothing claimed goes to the first field left over.
ByDefault(m, s) ==
  LET left == {k \in DOMAIN Columns : Columns[k] \notin DOMAIN m}
      first == CHOOSE k \in left : \A j \in left : k <= j
  IN IF Free(m, TitleOf(s)) /\ left # {} THEN Claim(m, Columns[first], TitleOf(s), s) ELSE m

AutoMap(s) == ByDefault(ByAffinity(ByName(s), s), s)

------------------------------------------------------------------------------
(* Validate and buildValue                                                  *)

\* Mutant: two fields may share a property.
ValidSharing(m, s) ==
  \A f \in DOMAIN m :
    m[f].name \in DOMAIN s /\ s[m[f].name] = m[f].type /\ m[f].type \in Mappable

\* Mapping.Validate
Valid(m, s) ==
  /\ \A f \in DOMAIN m :
       m[f].name \in DOMAIN s /\ s[m[f].name] = m[f].type /\ m[f].type \in Mappable
  /\ \A f, g \in DOMAIN m : m[f].name = m[g].name => f = g

\* buildValue's ok
Fits(type, v) ==
  /\ v # "" /\ type \in Mappable
  /\ type = "email" => v = "mail"
  /\ type = "date" => v = "day"
  /\ type = "number" => v = "number"
  /\ type = "select" => v # "list"

LeadsDatabaseSchema ==
  [n \in {<<f, "Title">> : f \in Field} |->
     CASE n[1] = "name" -> "title" [] n[1] = "contact" -> "email" [] n[1] = "source" -> "select"
       [] n[1] = "date" -> "date" [] OTHER -> "rich_text"]

LeadsDatabaseMapping ==
  [f \in Field |-> [name |-> <<f, "Title">>, type |-> LeadsDatabaseSchema[<<f, "Title">>]]]

------------------------------------------------------------------------------
(* The setup page                                                           *)

SetsUp == setups < MaxSetups /\ setups' = setups + 1

\* handleNotionMapping
ShowMapping ==
  /\ page = Nothing /\ saving = Nothing /\ SetsUp
  /\ page' = [mapping |-> AutoMap(schema["theirs"]), offered |-> schema["theirs"], choices |-> 0]
  /\ UNCHANGED <<schema, options, dest, saving, confirm, edits>>

\* choose: any writable property for any field, or none, a save under way or not
Choose(f) ==
  /\ page # Nothing /\ page.choices < MaxChoices
  /\ \E m \in {Claim(page.mapping, f, n, page.offered) :
                 n \in {p \in DOMAIN page.offered : page.offered[p] \in Mappable}}
             \cup {Restrict(page.mapping, DOMAIN page.mapping \ {f})} :
       page' = [page EXCEPT !.mapping = m, !.choices = @ + 1]
  /\ UNCHANGED <<schema, options, dest, saving, confirm, edits, setups>>

\* onBack
Back ==
  /\ page # Nothing /\ saving = Nothing
  /\ page' = Nothing
  /\ UNCHANGED <<schema, options, dest, saving, confirm, edits, setups>>

Saving(m) ==
  /\ saving' = [source |-> "theirs", mapping |-> m, checked |-> schema["theirs"]]
  /\ UNCHANGED <<schema, options, dest, page, confirm, edits, setups>>

\* Mutant: the mapping is taken as the page sent it.
SaveTrusting ==
  /\ page # Nothing /\ saving = Nothing
  /\ Saving(page.mapping)

\* handleNotionSetDestination, to the check against the schema it has just read. An
\* empty mapping means the suggestion; one that does not fit is a 422, and the page stays.
Save ==
  LET live == schema["theirs"]
      m == IF page.mapping = NoMapping THEN AutoMap(live) ELSE page.mapping IN
  /\ page # Nothing /\ saving = Nothing
  /\ Valid(m, live)
  /\ Saving(m)

\* handleNotionCreateDatabase: the app's own, whose mapping needs no check
CreateDatabase ==
  /\ page = Nothing /\ saving = Nothing /\ schema["own"] = Nothing /\ SetsUp
  /\ schema' = [schema EXCEPT !["own"] = LeadsDatabaseSchema]
  /\ saving' = [source |-> "own", mapping |-> LeadsDatabaseMapping, checked |-> LeadsDatabaseSchema]
  /\ UNCHANGED <<options, dest, page, confirm, edits>>

\* saveNotionDestination, and the page is left; or the store fails and it stays.
Saved ==
  /\ saving # Nothing
  /\ \/ dest' = saving /\ page' = Nothing
     \/ UNCHANGED <<dest, page>>
  /\ saving' = Nothing
  /\ UNCHANGED <<schema, options, confirm, edits, setups>>

------------------------------------------------------------------------------
(* Writer.Write                                                             *)

NoWords == [n \in {} |-> ""]

At(stages) == IF confirm = Nothing THEN FALSE ELSE confirm.at \in stages

Now(c) ==
  /\ confirm' = c
  /\ UNCHANGED <<dest, page, saving, edits, setups>>

\* The cells Write sends, and the type it sends a property with
Writable(c) == {f \in Field \cap DOMAIN c.mapping : Fits(c.mapping[f].type, c.lead[f])}
TypeOf(c, n) == LET f == CHOOSE f \in Writable(c) : c.mapping[f].name = n IN c.mapping[f].type

\* The loop over the cells of a lead, in the order of the columns: where two fields share
\* a property, the last one written to it stays.
Page(c) ==
  LET sent == {k \in DOMAIN Columns : Columns[k] \in Writable(c)}
      goes(k) == c.mapping[Columns[k]].name
      last(n) == CHOOSE k \in sent : goes(k) = n /\ \A j \in sent : goes(j) = n => j <= k
  IN [n \in {goes(k) : k \in sent} |-> c.lead[Columns[last(n)]]]

\* A confirm begins, with the destination as it is; a page with nothing on it is an error.
Begin(l) ==
  LET c == [at |-> "creating", lead |-> l, source |-> dest.source, mapping |-> dest.mapping,
            checked |-> dest.checked, props |-> NoWords, dropped |-> {},
            read |-> Nothing, missing |-> {}, added |-> FALSE] IN
  /\ dest # Nothing /\ (confirm = Nothing \/ At({"refused", "written"}))
  /\ Now([c EXCEPT !.at = IF Writable(c) = {} THEN "refused" ELSE @,
                   !.props = Page(c),
                   !.dropped = {f \in Field : l[f] # "" /\ f \notin Writable(c)}])
  /\ UNCHANGED <<schema, options>>

Selects(c) == {n \in DOMAIN c.props : TypeOf(c, n) \in {"select", "multi_select"}}

\* What Notion asks of a page: that each property is there, of that type, and takes the value.
PageFits(c) ==
  \A n \in DOMAIN c.props :
    /\ n \in DOMAIN schema[c.source] /\ schema[c.source][n] = TypeOf(c, n)
    /\ Fits(schema[c.source][n], c.props[n])

Parts(v) == IF v = "list" THEN {"words"} ELSE {v}

\* CreatePage succeeds: Notion knew the select values, or takes new ones.
Created ==
  LET c == confirm IN
  /\ At({"creating", "again"}) /\ PageFits(c)
  /\ Now([c EXCEPT !.at = "written"])
  /\ options' = options \cup UNION {{<<c.source, n, v>> : v \in Parts(c.props[n])} : n \in Selects(c)}
  /\ UNCHANGED schema

\* CreatePage fails: for validation, where selects of a first attempt may be repaired, or
\* for anything else.
NotCreated ==
  LET c == confirm IN
  /\ At({"creating", "again"})
  /\ \/ Now([c EXCEPT !.at = "refused"])
     \/ c.at = "creating" /\ Selects(c) # {} /\ Now([c EXCEPT !.at = "looking"])
  /\ UNCHANGED <<schema, options>>

Known(source) == {<<o[2], o[3]>> : o \in {p \in options : p[1] = source}}

\* addMissingSelectOptions reads the schema, or fails to.
Look ==
  LET c == confirm
      live == schema[c.source] IN
  /\ At({"looking"})
  /\ Now([c EXCEPT !.at = "adding",
                   !.read = [schema |-> live, options |-> Known(c.source)],
                   !.missing = {n \in Selects(c) \cap DOMAIN live : <<n, c.props[n]>> \notin Known(c.source)}])
  /\ UNCHANGED <<schema, options>>

LookFails ==
  /\ At({"looking"})
  /\ Now([confirm EXCEPT !.at = "refused"])
  /\ UNCHANGED <<schema, options>>

\* AddSelectOption sends the options as they were read and the new one, under the type as
\* it was read. Notion takes no comma in an option and no other type for its title.
Add(n) ==
  LET c == confirm
      type == c.read.schema[n]
      value == c.props[n] IN
  /\ At({"adding"}) /\ n \in c.missing
  /\ value # "list" /\ type \in {"select", "multi_select"}
  /\ n \in DOMAIN schema[c.source] => schema[c.source][n] # "title"
  /\ schema' = [schema EXCEPT ![c.source] =
                  [p \in DOMAIN @ \cup {n} |-> IF p = n THEN type ELSE @[p]]]
  /\ options' = {o \in options : <<o[1], o[2]>> # <<c.source, n>>}
                 \cup {<<c.source, n, v>> : v \in {w \in Value : <<n, w>> \in c.read.options} \cup {value}}
  /\ Now([c EXCEPT !.missing = @ \ {n}, !.added = TRUE])

AddFails(n) ==
  /\ At({"adding"}) /\ n \in confirm.missing
  /\ Now([confirm EXCEPT !.missing = @ \ {n}])
  /\ UNCHANGED <<schema, options>>

\* A second attempt only when a repair went through.
Retry ==
  LET c == confirm IN
  /\ At({"adding"}) /\ c.missing = {}
  /\ Now([c EXCEPT !.at = IF c.added THEN "again" ELSE "refused"])
  /\ UNCHANGED <<schema, options>>

------------------------------------------------------------------------------
(* Somebody at Notion, where the title can be renamed and nothing more      *)

Edited(source, s) ==
  /\ schema[source] # Nothing /\ edits < MaxEdits
  /\ edits' = edits + 1
  /\ schema' = [schema EXCEPT ![source] = s]
  /\ options' = {o \in options : o[1] = source => o[2] \in DOMAIN s /\ s[o[2]] = schema[source][o[2]]}
  /\ UNCHANGED <<dest, page, saving, confirm, setups>>

SetProperty(source, n, type) ==
  LET s == schema[source] IN
  /\ s # Nothing
  /\ n \in DOMAIN s => s[n] \notin {"title", type}
  /\ Edited(source, [p \in DOMAIN s \cup {n} |-> IF p = n THEN type ELSE s[p]])

DeleteProperty(source, n) ==
  LET s == schema[source] IN
  /\ s # Nothing /\ n \in DOMAIN s /\ s[n] # "title"
  /\ Edited(source, Restrict(s, DOMAIN s \ {n}))

RenameProperty(source, n, new) ==
  LET s == schema[source] IN
  /\ s # Nothing /\ n \in DOMAIN s /\ new \notin DOMAIN s
  /\ Edited(source, [p \in (DOMAIN s \ {n}) \cup {new} |-> IF p = new THEN s[n] ELSE s[p]])

Edit(source) ==
  \E n \in Name :
    \/ \E type \in Types \ {"title"} : SetProperty(source, n, type)
    \/ DeleteProperty(source, n)
    \/ \E new \in Name : RenameProperty(source, n, new)

Init ==
  /\ \E s \in Schema : schema = [theirs |-> s, own |-> Nothing]
  /\ options = {} /\ edits = 0 /\ setups = 0
  /\ dest = Nothing /\ page = Nothing /\ saving = Nothing /\ confirm = Nothing

Next ==
  \/ ShowMapping \/ Back \/ Save \/ CreateDatabase \/ Saved
  \/ \E f \in Field : Choose(f)
  \/ \E l \in Leads : Begin(l)
  \/ Created \/ NotCreated \/ Look \/ LookFails \/ Retry
  \/ \E n \in Name : Add(n) \/ AddFails(n)
  \/ \E source \in Source : Edit(source)

Spec == Init /\ [][Next]_vars

------------------------------------------------------------------------------
(* Properties                                                               *)

\* Once a lead is written, every field that carried something is at the property it is
\* mapped to, or named among the dropped: writer.go, "losing a field silently would be
\* worse than the write failing".
NothingIsSilent ==
  At({"written"}) =>
    \A f \in Field :
      \/ confirm.lead[f] = "" \/ f \in confirm.dropped
      \/ /\ f \in DOMAIN confirm.mapping
         /\ confirm.props[confirm.mapping[f].name] = confirm.lead[f]

\* What the setup page first shows passes the check that Save makes, sends a field to the
\* writable property of its own name, and leaves out the title or a property of a type the
\* field prefers only when another field has it (mapping.go, AutoMap).
SuggestionIsSound ==
  page # Nothing /\ page.choices = 0 =>
    LET m == page.mapping
        s == page.offered
    IN
    /\ Valid(m, s)
    /\ \A f \in Field : Called(f) \in DOMAIN s /\ s[Called(f)] \in Mappable =>
         f \in DOMAIN m /\ m[f].name = Called(f)
    /\ DOMAIN m = Field \/ ~Free(m, TitleOf(s))
    /\ \A f \in Field \ DOMAIN m, n \in DOMAIN s :
         s[n] \in Range(preferredTypes[f]) => ~Free(m, n)

\* As long as the database is as it was when its mapping was saved, or is so again, Notion
\* has no quarrel with what a lead's page holds: notion_setup.go, "a mapping that no longer
\* fits would fail on the user's first real lead".
UneditedTakesLeads ==
  At({"creating", "again"}) /\ schema[confirm.source] = confirm.checked => PageFits(confirm)
==============================================================================
