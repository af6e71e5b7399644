# Verification of ziga-data

TLA+ models of ziga-data, checked with TLC and, for the core, proved with TLAPS.
Paths are relative to the repository's root, which is `src/` here; `httpapi/`, `store/`, `notion/` and
the like are packages of `src/internal/`.

Ziga Data turns what people paste, photograph or forward into leads. A lead is extracted by a
language model, waits in a review queue, and is written to the account's own Google Sheet or Notion
database when a person confirms it. Everything hard about it is in what happens between two steps: a
request is a chain of single SQLite statements and of calls to an LLM, to Google, Notion or
Cloudflare that take seconds, nothing spans two of them, and each may fail after the ones before it
took effect.

## 1. Inventory

| Component | State | Operations | What is hard | What makes it correct |
|---|---|---|---|---|
| Submissions and review (`httpapi/{submit,lead,rerun,confirm}.go`, `store/store.go`) | `submissions`, `Server.confirmMu` | ingest with two lookups and a UNIQUE hash, confirm, discard, re-run, daily purge | checks that are stale when used, retries of an append whose reply was lost, a failed update after a write, restarts | one row at the destination per lead; written leads are there and stay written; one live row per content |
| Mail worker (`worker/email-ingest`) | the invocation, its attempts | parse, sign, post, retry, forward to a fallback mailbox | a timeout while the server works on; a fallback that refuses | every invocation ends; mail is never taken for delivered when it is not |
| Email webhook and quarantine (`httpapi/{ingest,quarantine}.go`, `store/ingest.go`) | `submissions`, `ingestion_events`, `blocked_senders` | authenticate, screen, de-duplicate, cap, ingest; rescue, dismiss, block, purge | a redelivery beside its original, a cap read before it is used, a rescue racing a dismissal | mail is a lead or an event, the cap holds up to requests in service, an event is settled once |
| Capture addresses (`httpapi/inbound.go`, `cfroute`) | `inbound_addresses`, rules at Cloudflare | enable, rotate, daily release | two services and no transaction, concurrent enables | an address that is shown routes; a retired one is released |
| Connections (`httpapi/{oauth,notion,sheets,notion_setup}.go`, `store/{auth,destination}.go`) | `oauth_accounts`, `destinations`, what the provider would accept | consent, disconnect, set up, browse, resolve a writer, refresh, flag | access that goes away elsewhere, refreshes that outlive their link, flags in two tables | a destination that lost its link is flagged, a prompt is one the menu shows, a dropped link stays dropped, a revocation is noticed |
| Notion mapping and writer (`notion/{mapping,writer,api}.go`, `NotionSetup.tsx`) | the stored mapping, the schema at Notion | suggest, adjust, validate, create a database, write, repair select options | a schema edited meanwhile, values a type cannot hold, options Notion has not seen | no field is lost in silence; a saved mapping fits |
| Accounts and sessions (`httpapi/{auth,middleware,oauth}.go`, `store/auth.go`) | `users`, `auth_tokens`, `sessions`, Google links | sign up, verify, log in, reset, Google sign-in, unlink, log out | several statements per request, links opened twice | links work once; only proved addresses become active |
| Review screen (`web/src/{App,state}.ts[x]`) | the reducer's state, the async flows | open, edit, confirm, discard, compose, re-run | replies that land after the user has moved on | what is confirmed is what is shown; the screen never waits for nothing |
| Screening and origin (`ingest/*.go`) | none | classify a mail; find whose lead a forwarded one is and what of it the model reads | rules that overlap, threads in either order, dates that do not parse | machine mail never reaches the model; a confirmation is never filtered; the first who wrote is the lead, or the choice is flagged |
| Rate limits (`httpapi/ratelimit.go`) | token buckets in memory | allow, evict | a token taken after the mutex is released; eviction hands out a full bucket | at most a burst and the rate per key, as if nothing were forgotten |
| Extraction (`extract`, `llm`) | none | prompt, call, validate | the model | the answer has the schema's shape |
| Migrations (`store.Open`) | the schema of an older file | CREATE, ALTER, backfill, rebuild at start-up | a process that dies between two statements, statements that need what later ones bring | every start ends on the current schema, with nothing lost and nothing brought back |
| Configuration (`config`, `cmd/server`) | the environment | load, refuse | a variable that is missing or misspelt | a server that starts offers nothing it cannot finish |
| Process (`cmd/server`, `httpapi/server.go`) | the three above; daily sweeps | start, serve, purge, release | no graceful shutdown | sweeps go by cutoffs |
| Other | none | OAuth wire formats, AES-GCM, SMTP, static site | – | – |

Components meet in the tables and at the providers. The worker posts to the webhook, which ends in
`ingestLead`, as a paste and a re-run do; a confirm takes its writer from `writerFor`, which is where
a connection that was lost shows; the setup pages write the `destinations` row the confirm reads; the
two daily loops of `cmd/server/main.go` purge raw inputs and mail bodies and release Cloudflare rules;
the review screen drives the queue through the HTTP handlers. The Go code serves each request on a
goroutine, with one SQLite connection (`SetMaxOpenConns(1)`), so statements are atomic and interleave
freely between requests. The one lock that spans statements is `confirmMu`.

## 2. Modules

| Module | Models | State and steps |
|---|---|---|
| `LeadDelivery` | the abstract promise: a captured lead is delivered to its destination, recorded at most once, and never delivered again while nothing is in doubt | |
| `Leads` | submissions and review | `subs` is the table; `landed` counts rows at the destination; `lost` is history, the landings the table was never told of; `confirmMu` the lock. Each `Handler` is a goroutine: `pc` names its next statement or call, `job` holds its local variables |
| `Messages` | a parsed mail | a mail is a record: its sender, which of the whitelisted headers it has, and the lines of its parts, each of them a marker, a header line, a footer, a blank, or words. `story` is history no rule reads: who really wrote what it brings |
| `Screening` | the filter pipeline, the blocklist's patterns | operators; `Verdict` is `Screen` |
| `Forwarding` | whose lead a mail is | operators: `ParseForwardBlocks`, `Before` (earliestFirst), `FromBlocks`, `ResolveOrigin` |
| `Mailbox` | the abstract ingest: mail that was delivered is answered for by a lead or an entry of the quarantine, unless the ingest was in trouble; mail no person wrote becomes a lead from its entry only; an entry is settled once, as rescued only when a lead answers for its mail | `letters`, `fate`, `led`, `held`, `trouble` |
| `EmailIngest` | worker, webhook, quarantine, over `Messages`, `Screening` and `Forwarding` | `worker`, `tries`, `net` and `outcome` are the invocation; `leads`, `events`, `blocked`, `address` the tables; `instance`, chosen at the start, says which mail comes and what may happen to it |
| `InboundAddresses` | capture addresses | `addrs` is the table and `rules` Cloudflare; `due` the sweep in progress; `others` counts the active rows of accounts that do nothing meanwhile |
| `Connections` | one account's links and destination | `link` and `dest` are the tables; `consents`, `revoked`, `unshared` what the providers would accept. A token is the number of the consent it descends from |
| `NotionDestination` | mapping, setup and one Notion write | `schema` and `options` are at Notion; `page`, `saving`, `dest` the setup; `confirm` the write; AutoMap, Validate and buildValue are operators: a pass of AutoMap is a recursive function over the columns, and the page of a lead a function of the names it uses |
| `Accounts` | accounts, mailed links, sessions | `users`, `google`, `links`, `sessions` |
| `ReviewScreen` | reducer and async flows | the fields of `AppState`; a flow in `flows` is an async function between two awaits |
| `Migrations` | `store.Open` on an older file, and what accounts do to the tables between two starts | `file` is the database; `step` the statement that runs next; `tx` the open transaction of the rebuild; `chosen` is history, what each account last asked for |
| `RateLimit` | the limiter of `ratelimit.go` | `visitors` are the buckets; a request looks its bucket up and takes its token in two steps; `passed` and `mark` are history |
| `TokenBuckets` | the abstract limiter: one bucket per key, never forgotten | `level`, `now`, `passed` |
| `Configuration` | which environments start, and what they offer | `env` |
| `Server` | the process: it composes `Migrations`, `RateLimit` and `Configuration`. Dying loses the limiter and the open transaction and keeps the file | |
| `LeadsProofs` | proofs about `Leads` | types, what a step does to the table, delivery, the refinement |
| `EmailProofs` | proofs about `EmailIngest` and the operators under it | types, events, the cap, what is delivered, what is known of a mail, whose lead a thread is |
| `AddressProofs`, `AccountsProofs`, `ReviewProofs` | proofs about `InboundAddresses`, `Accounts`, `ReviewScreen` | |
| `ConnectionsProofs`, `NotionProofs` | proofs about `Connections`, `NotionDestination` | |
| `ServerProofs` | proofs about `RateLimit` and about `Server`, and through it about `Migrations` and `Configuration` | the limiter, the file, the starts, the settings |
| `MC…` | instances for TLC | |

An action is one SQLite statement or one call together with the Go code around it up to the next one;
early returns that change nothing have no action. Names are the source's where TLA+ allows. The
operators that follow a comment "Mutant:" are wrong on purpose: each stands for a plausible bug, and
the property paired with it in `PROJECT.json` fails when it replaces the real definition.

`KeepsPromise` in `Leads` is the refinement: `Leads` implements `LeadDelivery` with `captured` mapped
to the stored rows and `recorded` to the settled rows with a landing the table was told of, once the
confirm that made it is no longer about to settle it. `EvictionUnseen` in `RateLimit` is the other one:
the limiter implements `TokenBuckets` with `level` mapped to what each bucket, kept or forgotten, would
hold now. `ImplementsMailbox` in `EmailIngest` is the third: it implements `Mailbox` with a mail taken for
led once some lead is its own, has its Message-ID or one of its texts, `trouble` mapped to a retired address
or a failed lookup or INSERT, and requests, statements, texts and the clock left out.

Abstractions that matter:

- A lead's content is a model value, and the content hash is the triple of account, text and day. LLM
  calls succeed or fail. Excerpts, flags and field values are left out except in `NotionDestination`.
- A line of a mail is what the rules' regular expressions make of it; the expressions themselves, MIME
  and the rendering of HTML are left out. A line that is not words counts as long as the floor for text
  (`MinLeadRunes`), which every real header line or marker exceeds. No mail is longer than
  `MaxLeadRunes`, so `Truncate` never cuts.
- `EmailIngest` is about one account. It takes `ingestLead`'s two lookups as one step, and has no
  review: leads are neither confirmed nor discarded there. The link from a rescued event to its
  submission is left out.
- `Migrations` takes the three input columns as one and the four envelope columns as one (no build
  had some and not others), leaves out indexes that only make a lookup faster, and takes time out of
  the purge: any stamp may be past its retention.
- `RateLimit` counts in whole units (`Full` is a burst's worth) where `rate.Limiter` uses floats; one
  clock serves `visitor.last` and the limiter.
- `Connections` is about one account. What a write does at the destination is `Leads`' matter; here a
  call is accepted or not.
- `Accounts` has one address per instance. An account is named by its address and a Google identity
  by the address it asserts; an identity whose address changes is not modelled.
- `ReviewScreen` merges the phases `reviewing` and `write_failed`, two flows that would be equal in
  every respect, and leaves out the preview strip, the badges, the away banner and any file but an
  image that belongs to a lead.
- `NotionDestination` gives each schema name in two spellings and each value as what Notion's types
  make of it. What Notion itself does is external: it takes a page exactly if its properties exist,
  have the sent type and hold the value, it may refuse select values it has not seen, or create them,
  and a schema update sends the options as they were read.

## 3. Runs

Every property of a passing run has a mutant that breaks it. Symmetry is only used where the
properties are safety properties and the permuted constants appear nowhere else.

| Run | Shows | Bounds, and why they are enough |
|---|---|---|
| `leads` | `TypeOK`, `OneConfirmAtATime`, `WrittenIsAtDestination`, `EveryCopyIsAccounted`, `OneLiveRowPerContent`, `WrittenNeverReopens`, and the refinement `KeepsPromise` | two accounts, handlers and submissions, one text, two tries, two days, one fault (reply lost, update refused, crash). Each hazard is a pair of requests and one failure. The same is proved for all values |
| `leads_discard_race` | finding: a discard during a confirm is undone | two handlers, one lead |
| `email` | `DeliveredIsKept`, `RowsWithinCap`, `FilteredNeedsRescue`, `ConfirmationsAreShown`, `LeadIsFirstToWrite`, `EveryMailEnds`, and the refinement `ImplementsMailbox` | 525 mails by themselves, 510 of them every thread of up to three messages by the account and two others, forwarded newest or oldest first, with any of its dates unreadable: three messages are the least with one that is neither first nor last. And five meetings: a retry beside its original and beside other mail on two handlers with a crash, or a newsletter that is rescued meanwhile, at a cap of one; an enquiry, a newsletter, or a confirmation and an unreadable mail, each on one handler, so that long sequences of block, rescue, dismiss, rotate, purge, a midnight and one fault of any kind fit |
| `email_chain` | finding: a thread set off by header lines only is read as its newest message | one mail |
| `addresses` | `ShownAddressRoutes`, `ActiveWithinBudget`, `AddressesLast`, `GraceEnds` | one account with two requests at a time, three addresses and three rules, a budget of two which idle accounts leave free or fill, a midnight, one fault of any kind: a row whose rule two enables record, a rotation beside an enable, and both limits fit. Accounts share nothing but the budget and Cloudflare's; the safety properties are proved for any number of them |
| `connections` | `UnlinkedIsFlagged`, `PromptIsShown`, `DroppedStaysDropped`, `RevocationIsNoticed` | a request of any kind beside one that connects, disconnects or sets up, which are all that change what another one works on; one consent and one target per provider, one fault of any kind. The safety properties are proved for any number of requests, consents, targets and faults |
| `connections_switch` | finding: a flag meant for one provider's destination lands on the other's | the same two requests, no fault |
| `notion` | `NothingIsSilent`, `SuggestionIsSound`, `UneditedTakesLeads` | every schema over four names (two of which differ by case) and five types (one unwritable), three fields, one change to the mapping, one edit at Notion, one setup; a second setup only starts the first one over |
| `accounts` | `LinkWorksOnce`, `ActiveIsProved`, `LinkedIsVerified` | two requests at a time for one address, two passwords, two links, one fault |
| `review` | `ConfirmsWhatIsShown`, `WaitsForSomething`, `EditsSurviveRefusal` | two leads, two flows in flight, a second tab and incoming mail |
| `server` | `ServingIsCurrent`, `StartsAreHarmless`, `IdentityHasOneAccount`, `StartEnds`, `InputsArePurged`; `Metered` and the refinement `EvictionUnseen`; `OffersAreWhole` | a new file and three of earlier builds, up to two deaths at any statement of a start (the second one meets what the first one left half done); then one of the tables, the limiter (two requests at a time, a burst of two, two sweeps, a stall) or the settings (every environment) |
| `server_google` | finding: a file whose subject column is still `google_sub` is never opened | one file |

`Day` stays below `messageIDDedupWindow` in `EmailIngest`, so Message-IDs never age there. `Instances`
names what an instance of `EmailIngest` lets meet and `Activity` what one of `Server` does once it
serves, so that things with nothing to say to each other do not multiply. `Max…`, `Stall` and the one
fault are bounds on faults, days, flows, links, sessions, consents, edits, setups, deaths and requests;
each is a guard, named as a bound in its module. A `TypeOK` that no run lists describes the module's
state, or is a conjunct of an invariant that is proved. `CHECK_DEADLOCK` is off throughout: an instance
that has used up its bounds, or whose account has nothing left to do, may stop.

### Fairness

- `EmailIngest!FairSpec`: weak fairness of an attempt's timeout and of the fallback, which the worker's
  loop gives whatever the server does; nothing of the server is fair.
- `InboundAddresses!FairSpec`: weak fairness of handlers, of the daily sweep and its steps, of midnight.
  `GraceEnds` needs a sweep after the failed one, which the ticker of `main.go:231` gives.
- `Connections!FairSpec`: weak fairness of handlers and of the expiry of an access token, and strong
  fairness of the provider's refusal of a confirm: a provider that has revoked a grant refuses it
  if it is used again and again. `RevocationIsNoticed` is about accounts that keep confirming.
- `Server!FairSpec`: weak fairness of a start's next statement (systemd restarts a process that died,
  `Restart=on-failure` in `ziga.service:28`, and a process that runs goes on) and of the purge, which
  runs at every start and every day (`main.go:121`). Deaths are bounded by `MaxCrash`: a start that is
  killed for ever never ends.

## 4. Proofs

Each theorem is about `Spec` of its module, without fairness, for all constants its module assumes
something of; TLC evaluates those assumptions in the runs. What is proved of properties that a run
checks too is listed below by property; the rest of the runs' properties is at the end.

| Module | Properties | Assumed |
|---|---|---|
| `Leads` | `TypeOK`, `OneConfirmAtATime`, `WrittenIsAtDestination`, `EveryCopyIsAccounted`, `OneLiveRowPerContent`, `WrittenNeverReopens`, `KeepsPromise`; beyond the run, `PendingIsWhole`, `SettledStampIsFixed`, `WorksOnOwnRows` | `Kinds`, `Numbers` (at least one attempt), `AbsentValues` |
| `EmailIngest` | `RowsWithinCap`, `DeliveredIsKept`, `FilteredNeedsRescue`, `ConfirmationsAreShown`, `LeadIsFirstToWrite`, `ImplementsMailbox`; beyond the run, `SettledEventIsFinal`, `RetriesMakeOneLead` | `EveryInstance` (each instance is well-formed), `FewHandlers` (finitely many requests at a time), `Numbers`, `AbsentValues`; of what others send, `MachinesSaySo`, `ConfirmationsSaySo` and, in the last theorem only, that every mail is `ToldPlainly` |
| `InboundAddresses` | `ShownAddressRoutes`, `ActiveWithinBudget`, `AddressesLast` | `Numbers`, `AbsentValues`, `Bounded` (finitely many addresses and requests) |
| `Accounts` | `LinkWorksOnce`, `ActiveIsProved`, `LinkedIsVerified`; beyond the run, `PasswordSessionsAreActive` | `Kinds`, `Numbers`, `AbsentUser` |
| `ReviewScreen` | `ConfirmsWhatIsShown`, `WaitsForSomething`, `EditsSurviveRefusal` | `Instances` |
| `Connections` | `TypeOK`, `DroppedStaysDropped`, `PromptIsShown`, `UnlinkedIsFlagged`, for any number of requests and any faults | `Kinds`, `Numbers`, `Providers`, `AbsentValues` |
| `NotionDestination` | `NothingIsSilent`, `UneditedTakesLeads`, `SuggestionIsSound` | `Instances` (columns and names are finite sequences without repetition) |
| `RateLimit`, `Server` | `Metered`, `EvictionUnseen`, for the limiter alone and for the process | `Limits` (a bucket is full before it is forgotten), `AbsentIsNot` |
| `Server` | `TypeOK`, `ServingIsCurrent`, `StartsAreHarmless`, `IdentityHasOneAccount`, `OffersAreWhole` | `Files` (a file with a unique index holds no rows it rejects), `AbsentRows`, `Instances` |

### Leads

*Types.* `TypeInv` adds two facts to `TypeOK`: a handler past its lookup works on a stored row
(`OnARow`), and one about to write has a try left (`TriesLeft`). Without them `Updated` could be
applied to no row and `tries` could pass its range. `LeadsTypeOK` follows.

*Delivery.* No single property is inductive: that a confirm starts with nothing in doubt depends on
the lock, on the check made under it, and on what every other handler may do to the row meanwhile.
`Inv == TypeInv /\ Safe`, where `Safe` says that the holder of `confirmMu` is the only one between
check and update (`OneConfirmAtATime`), that a handler about to settle owes exactly one landing
(`SettlingOwesOne`) and the others none (`OthersOweNone`), that none of them works on a lead already
written (`NotYetWritten`), and that landings and history balance for each lead unless the table has
settled it or is about to (`Balance`). A crash moves what is owed to `lost`; that is the case the
invariant is shaped for. `OneConfirm`, `CopiesAccounted`, `WrittenHasLanded`, `WrittenStaysSettled` and
the step simulation `PromiseKept` follow from it.

*The table.* `TableStep` and `RowStep` say in what ways a step may change a row; `OneLiveRow`,
`PendingStaysWhole`, `SettledStampStays` and `OwnRows` follow from these without the lock.

### Email

`Shape` is the type invariant; what a mail's text is stays open in it (`Texts` is whatever the rules
make of the instances' mails), so the proofs hold for any rules in `Screening` and `Forwarding`.

- *Events.* Every step leaves the events as they are, appends one, settles an unsettled one, or purges
  (`EventsEvolve`). `SettlingIsFinal` is that.
- *The cap.* A count of rows is not inductive, as several requests may have read it. A request past the
  check of today counts like a lead of today (`Room`): their sum stays below the cap plus the requests
  there can be, and an insert moves one from the one side to the other (`CapInv`).
- *Delivery.* A handler that ingests holds the text of its mail's origin (`TextsAreOwn`), so a row it
  is matched to by text answers for that mail; and a reply that means "delivered" is only sent by a
  handler after a row that answers for the mail exists. Leads are never removed and events never
  change their mail, so what is kept stays kept (`KeptLasts`).
- *What is known of a mail.* `Known` follows a mail through the webhook: only real mail is posted; a
  handler past the filters holds a mail they accept, with the author, text and flag `ResolveOrigin`
  gives it, unless it rescues an event that is there (`Knows`); one about to record an event has the
  reason some blocklist the account can have gives (`Reasoned`); and a row keeps what its handler knew
  (`LeadsAreRead`, `EventsReasoned`). `FilteredStaysFiltered` and `ConfirmationsStayShown` follow, the
  second because no pattern `handleBlockSender` accepts names the confirmations' sender
  (`ConfirmerIsNeverBlocked`).
- *Retries.* Two attempts of one delivery may both find no row and both go on to extract it; the unique
  hash then decides, because they ask for one text and one day (`OneRowPerText` with `LeadsAreRead`). Not
  so if one of them read the account's own addresses and the other could not, hence the hypothesis on
  faults in `RetriesMakeOneLead`; and this model discards no lead (`Leads` does).
- *The refinement.* Each step is related to one of `Mailbox` in `MailboxIsKept`: a new row is `Lead`, a
  reply that means "delivered" is `Deliver`, `Hold` or `Lead`, and what moves no table and no mail
  (`QuietBox`) is nothing, or the beginning of trouble. What has to be known for it beyond `Known` is in
  `Sourced`: a rescue works on a text of the mail its event is of (`Backed`, `TextsAreHeld`), so the row
  that is found by that text answers for the mail, and is there when the event is settled. A rescue that
  lost the race to a dismissal settles nothing (`SettleBox`).
- *Whose lead.* `ThreadIsItsOpeners` is the argument for a thread of any length: the block that is
  taken brings some message of a person who is not the account; the opener's message stands in a block
  of its own; and were they two, the dates would put the opener's first, against the choice. Where the
  dates cannot be read the lead is flagged. `ToldPlainly` says which mail this is about: a mail that is
  its sender's own words, or forwarded without a mark, or a thread whose messages stand in it one block
  each with dates that agree with their order. TLC evaluates it for every mail of the run `email`
  (`MeetingsArePlain`); the mail of `email_chain` is not told plainly, and is the finding.

### Addresses

`ShownAddressRoutes` relates two services, and a request may hold a rule no row names yet, or a local
part no row has yet. `RoutesInv` adds to it what each step of a request knows of both (`AtStep`, with the
two tables as parameters) and that no other request works on what one holds (`Alone`). Then a rule is
only deleted by the request that made it, before a row names it, or by the sweep after the grace.
From `RoutesInv` follows what a step may do to a row (`AddressesAreKept`): an address is retired once and
for good, keeps its account and the day its grace counts from, and is deleted only after the grace, when
the rule it names routes nothing to it. Of a rule whose name another record has overwritten it says
nothing; section 5 does.
The budget is counted like the cap: rows, those of idle accounts included, and requests the budget let
through (`BudgetInv`).

### Accounts

`AccountsInv` says for each step of a request what its earlier statements established, and that this
lasts (`UsersLast`, `LinksLast`): accounts are not removed and an address once verified stays so, a
link is of the account it was mailed for and once used stays used. That is why a request may rely on a
row it read several statements ago, and why two requests with one link cannot both use it.

### Review screen

`ScreenInv` adds to the two invariants that the fields are those of the lead on screen
(`FieldsAreShown`), that a paste box is not open behind the spinner (`BoxIsAlone`), and that an
extraction which did not fail names a row (`ExtractsName`), without which the reducer would open none.

### Connections

`ConnectionsInv` is the types, with what a request holds at each step (`Holds`) and which requests ever
get there (`Does`), for any number of requests. With it only the step that stores a consent's tokens
makes a link where there was none (`LinksAppear`), and only `Delete` of a disconnect takes one away
(`LinksGo`); that request goes on to look at the destination and flags it, or is stopped by a fault, in
which case `faults` changes (`UnlinkedStep`, `FaultShows`). `FoundInv` adds that a confirm that found a
destination still has one, since nothing deletes the row; with it, each step that answers with a
reconnect prompt leaves something the account menu shows, unless a fault kept the flag from being stored
or the account has switched provider meanwhile (`StepTells`). What is not kept with two requests, that a
flag lands on the destination it is meant for, is the finding of `connections_switch`.

### Notion

`NotionInv` says that a mapping about to be saved or saved fits the schema it was held against
(`Checked`), and that a write sends, at its retry too, the page its lead and its mapping make and
remembers the fields the mapping has no place for (`Begun`). `PageHolds` turns the page into
quantifiers: with a mapping that fits, each field that is sent is at the property it is mapped to, and
nothing else is. Two properties are read off that.

`SuggestionIsSound` is about what three loops compute, and what each computes is shown by induction over
the columns. The library's induction theorems cannot be used; `PassKeeps` takes their place: it has the
induction hypothesis as a set of pairs of a mapping and a column, and is proved by the least column that
falls out of it (`LeastNatural`), as is that the recursion has a solution at all (`PassGoesOn`). The first
pass has used no name but a field's own, so a field's own name is free when its turn comes (`ExactPass`);
a later pass takes nothing back (`TakeFits`, `TakenStaysTaken`), and in the last one every field is asked
(`LaterPass`). That the schema on the page has one title is an invariant of the edits (`SuggestionInv`).

### Starts and settings

`FileInv` is an invariant over the 27 statements of a start. `FileIsOnItsWay` says what the statements
before the next one have made of the file, whichever start ran them; `RebuildKeepsRows` that the open
transaction of the rebuild holds the rows of the table at each of its statements; `IndexHolds` that the
unique index never meets two rows it rejects; `LinksAreKept` and `DestinationsAreKept` that the tables
are what accounts last chose, where the backfill is owed or being made too. A death loses `tx` and
`step` and keeps the file, which is why nothing in it may depend on how far an earlier start came.
`OffersAreWhole` needs no history: `StartsWhole` proves it of every environment the process starts
with, by cases on what is offered, and `ServerHolds` that the operator's edits lead to no other kind.

### Limits

`RateInv` is the types, that a bucket's stamps are in order (`StampsAreOrdered`) and that a request
holding a bucket finds it in the map (`HeldIsInTheMap`): the sweep forgets after minutes, and a
goroutine does not stall that long. `Metered` alone is not inductive; `TokensAreBounded` adds what the
bucket still holds. `SweptIsFull`, that a bucket which is forgotten was full, is why forgetting is unseen
and gives the step simulation of `EvictionUnseen`. `ServerLimits` (`Spec => RateLimitSpec`) carries both
over to the process.

### Only model-checked

- Liveness (`EveryMailEnds`, `GraceEnds`, `RevocationIsNoticed`, `StartEnds`, `InputsArePurged`):
  with `ENABLED` it is out of the prover's reach.
- What the rules make of particular texts: that the mails the instances list are told plainly, and that
  the filters catch what `MachinesSaySo` says, is evaluated by TLC for each of them.

## 5. Where the code and its documentation differ

Four disagreements are findings with runs of their own: a discard during a confirm is undone
(`leads_discard_race`), a thread set off by header lines only makes the account its own lead
(`email_chain`), a destination set up at one provider while the other is disconnected is flagged as broken
(`connections_switch`), and a file of the build whose subject column is `google_sub` is never opened
(`server_google`). The models show the following ones too; no run states them, because the properties
above are stated as what the code keeps.

Leads
- A re-run checks its original before the extraction and discards it afterwards without looking again
  (`rerun.go:103`); a confirm in between leaves a written lead discarded and a fresh copy in the queue.
- Two re-runs, each deduplicated onto the other's original, discard both (`rerun.go:103`).
- `appendRow` and `Client.do` report an error when an append landed and its reply did not arrive
  (`writer.go:111`), where `destination.go:79` says an error means nothing was written; and when the
  update after a write fails (`confirm.go:146`), the next confirm writes a second row.
- A redelivery that starts before the first delivery has inserted and hashes to the next day makes a
  second lead (`lead.go:87`): nothing but the lookup keeps Message-IDs apart.

Email
- A failed `LookupInboundAddress` is answered like an unknown address, 202 (`ingest.go:233`).
- The cap is read before the extraction (`ingest.go:264`): by `RowsWithinCap`, requests in service exceed it.
- `priorForMessage` hashes the text as it came, `ingestLead` what `ResolveOrigin` and `Clean` leave of
  it (`ingest.go:336`): forwarded mail without a Message-ID is not recognised when it is retried at the cap.
- `postToZiga` returns on any status below 500 (`post.ts:53`), so a 429 goes to the fallback at once,
  where `ingest.go:131` counts on a retry.
- Bodies of mail nobody settles are never purged (`store/ingest.go:417`), where `main.go:124-127` says that
  the sweep is there so that they are not kept indefinitely.
- HTML-only mail that is filtered is kept without a body and cannot be rescued (`ingest.go:293`).
- Equal text from two people on a day is one lead, and the second author is nowhere (`ingest.go:336`).
- A rescue never calls `ResolveOrigin`, so a forwarded enquiry held back by the cap carries its
  forwarder's address (`quarantine.go:132`).
- Forwarded mail with a single block, written by the account, makes the account its own lead and is not
  flagged (`forwarded.go:129`); only threads are searched for somebody else.
- In a thread, a block whose From does not parse is taken for somebody else's and then falls back to the
  envelope's sender, with high confidence (`forwarded.go:159`, `:186`).
- Gmail's quoted history below a reply has no marker of its own (`markers.go:34`): such a reply is one message.
- When two messages of a thread carry the same date, the one that comes first in the document is taken for
  the earlier.
- A failed `GetUser` leaves `OwnAddresses` empty for that mail (`ingest.go:316`), and the account may then
  be taken for a lead.
- Mail to an address that was rotated is answered 202 and dropped (`ingest.go:241`) all through the grace
  period its rule is kept for, so that mail on its way is not lost (`inbound.go:21`, `README.md:375`).

Addresses
- The budget counts active rows, and rotated ones keep their rule for two weeks (`inbound.go:195`).
- Two concurrent enables may create two active addresses (`inbound.go:87`), or two rules for one row, of
  which the first is forgotten and stays at Cloudflare for ever (`inbound.go:115`, against `inbound.go:110`).
- When the row of a rotation cannot be stored, the old address is already retired (`inbound.go:171`).

Connections
- The finding: `handleGoogleDisconnect` (`oauth.go:195`), `handleNotionDisconnect` and `markNotionBroken`
  flag the destination in a statement after the one that read its type, and `markConnectionBroken` without
  reading it; a switch in between flags the other provider's.
- `SetDestination` clears `broken_at` without looking at the link (`destination.go:198`), so a setup under
  way during a disconnect ends healthy and unlinked.
- A sheet grant revoked while its access token is fresh answers 502 until the token expires
  (`sheets.go:91`, against `README.md:242`); and a token endpoint that is down for a moment is taken
  for a revocation.
- A new consent heals the link and not the destination (`notion.go:122`).
- A 404 for any Notion resource flags the destination (`notion_setup.go:42`).

Notion
- The app's own database drops values as well: a phone number in Contact, a Source with a comma
  (`mapping.go:174`, "nothing is ever dropped").
- "Don't write this field" chosen for every field is taken as the suggestion (`notion_setup.go:229`).
- The repair of a refused multi-select adds its value as one option, comma and all (`writer.go:112`).

Accounts
- A sign-up whose mail failed can ask for no other one (`auth.go:83`), except by a password reset.
- `CreateUser` and `MarkEmailVerified` of a Google sign-in are two statements (`oauth.go:142`); an account
  that fell between them is refused from then on.
- Sessions outlive a restart whatever `SESSION_SECRET` is (`middleware.go:74`, against `README.md:149`).

Review screen
- `advance` closes a paste box opened during a confirm (`App.tsx:85`); a refusal marks the lead that is
  shown, whichever it was for (`App.tsx:230`).
- A 409 for a missing destination is taken for "already written" (`App.tsx:240`).
- The reply of a first re-run forgets a second one (`App.tsx:197`), nothing clears `rerunOf` when the
  lead is settled elsewhere (`ComposeBox.tsx:54`), and the image of a re-run may land in a later draft
  (`App.tsx:120`).
- Settling one lead loads the next one over whatever lead was opened and edited meanwhile
  (`App.tsx:267`, against `App.tsx:1`).

Configuration
- `OAUTH_REDIRECT_URL` has a default, so the check that it is set never fails (`config.go:238`).
- In dev mode a Google client without its secret, or half of a shared sheet, starts with the offer switched
  off and no word about it (`config.go:230`); `OffersAreWhole` leaves these two out by name.

## 6. Not modelled

- Text: MIME, the rendering of HTML, what regular expressions match, the cut at `MaxLeadRunes`, prompts.
- The wire: OAuth formats, AES-GCM, signatures, CSRF and cookies, SMTP, the pacing of Notion requests, the
  header row of a sheet. What is modelled is what a call may answer and what follows.
- `rate.Limiter`'s floating point: the model counts in whole units.
- `DeleteDestination`, which only tests call. Reads: the preview strip, the list views, the badges.
- Logging, static pages, the deployment scripts.

`PROJECT.json` lists every component with its status, and every hazard with the properties that cover
it, or the reason none does.

## 7. Plan

Built, in the order it was: `LeadDelivery` and `Leads` with their proofs; `EmailIngest` over `Messages`,
`Screening` and `Forwarding`; `InboundAddresses`, `Connections`, `Accounts`, `ReviewScreen`,
`NotionDestination`; `Migrations`, `RateLimit` with `TokenBuckets`, `Configuration`, and `Server` over them;
proofs for all of them but liveness; `Mailbox`, which `EmailIngest` implements. Next:

- An abstract connection that `Connections` implements: which of the flags survive a second request in
  between, beyond the two statements `UnlinkedIsFlagged` and `PromptIsShown` make of it.
