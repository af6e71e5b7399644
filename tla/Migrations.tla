------------------------------ MODULE Migrations ------------------------------
(***************************************************************************)
(* store.Open: how a database file of any earlier build becomes the one this *)
(* build serves from, and what accounts then do to it (store/store.go,       *)
(* auth.go, destination.go, ingest.go).                                      *)
(*                                                                          *)
(* db.Exec runs a script one statement at a time, each a transaction of its  *)
(* own, so a process that dies leaves the file as the last statement left    *)
(* it, and systemd starts the next one on that file.  Only the rebuild of    *)
(* oauth_accounts is one transaction: it works on tx, which dies with the    *)
(* process.  Indexes that only make a lookup faster are left out.            *)
(***************************************************************************)
EXTENDS Naturals, Sequences, FiniteSets

CONSTANTS
  OldFile,    \* the files an instance may start from
  User, Lead, \* accounts, ids of submissions
  Sub,        \* the subjects providers name an account by
  Place,      \* where a destination can point
  Absent,     \* no row, no table, no transaction
  MaxCrash    \* bound: processes that die

\* What the ADD COLUMN loop of migrate makes sure of, in an order Go leaves open.  The
\* three input columns go as one here, and so do the four of the mail's envelope: no
\* build had some of them, and nothing tells one missing from two.
Column == {"inputs", "settled_at", "user_id", "source", "envelope"}

\* Those the CREATE TABLE of submissions has of its own.
CreatedColumn == {"inputs", "settled_at", "user_id"}

Settled == {"written", "discarded"}

\* A submission.  stamped: settled_at is set; raw: the original input is kept.  What a
\* column that is not there yet would hold is null.  A failed_write is a pending row here:
\* no statement of a start tells them apart.
Row == [status: {"pending", "needs_review"} \cup Settled, source: {"null", "paste", "email"},
        stamped: BOOLEAN, raw: BOOLEAN]

Link == [user: User, provider: {"google", "notion"}, sub: Sub]

\* oauth_accounts: its rows, the name of its subject column, whether that column is
\* UNIQUE by itself, whether idx_oauth_signin_sub exists; and oauth_accounts_new.
OAuth == [rows: (SUBSET Link) \cup {Absent}, subject: {"google_sub", "provider_sub"},
          bare: BOOLEAN, signin: BOOLEAN, new: (SUBSET Link) \cup {Absent}]

Destination == [place: Place, broken: BOOLEAN]

Table == {"submissions", "users", "sessions", "user_sheets", "auth_tokens", "destinations",
          "inbound_addresses", "ingestion_events", "blocked_senders"}

File == [tables: SUBSET Table, columns: SUBSET Column, seen: BOOLEAN,
         subs: [Lead -> Row \cup {Absent}], oauth: OAuth,
         sheets: [User -> Destination \cup {Absent}], dests: [User -> Destination \cup {Absent}]]

\* Two rows a partial UNIQUE index on (provider, provider_sub) of Google rejects.
Clash(links) ==
  \E l, m \in links : l # m /\ l.provider = "google" /\ m.provider = "google" /\ l.sub = m.sub

\* A file whose sign-in index is there was written under it.
ASSUME Files ==
  /\ OldFile \subseteq File /\ MaxCrash \in Nat
  /\ \A f \in OldFile : f.oauth.rows # Absent /\ f.oauth.signin => ~Clash(f.oauth.rows)

ASSUME AbsentRows ==
  (\A links \in SUBSET Link : links # Absent) /\ Absent \notin Row /\ Absent \notin Destination

VARIABLES
  file,     \* the database
  step,     \* the statement of Open that runs next
  have,     \* the columns migrate found
  pending,  \* the accounts backfillDestinations found
  tx,       \* oauth_accounts as the open transaction sees it
  crashes,
  chosen    \* history: where each account last pointed its leads, and its links

migvars == <<file, step, have, pending, tx, crashes, chosen>>
boot == <<have, pending, tx, crashes, chosen>>

\* The scripts of Open, createAuthTables and createIngestTables, then migrate, in order.
Open == <<"submissions", "users", "oauth_accounts", "sessions", "signin_index", "user_sheets",
          "auth_tokens", "destinations", "inbound_addresses", "ingestion_events", "blocked_senders",
          "find_columns", "add_columns", "retire_needs_review", "backfill_source", "queue_seen_at",
          "stamp_settled", "rename_sub", "find_unique", "create_new", "copy", "drop", "swap",
          "reindex", "commit", "find_sheets", "carry_sheets">>
Steps == {"down", "serving"} \cup {Open[i] : i \in DOMAIN Open}

MigrationsTypeOK ==
  /\ file \in File
  /\ step \in Steps
  /\ have \subseteq Column /\ pending \subseteq User
  /\ tx \in OAuth \cup {Absent}
  /\ crashes \in 0..MaxCrash
  /\ chosen \in [dests: [User -> Destination \cup {Absent}], links: SUBSET Link]

------------------------------------------------------------------------------
(* One statement after the other                                            *)

After(s) == LET i == CHOOSE i \in DOMAIN Open : Open[i] = s
            IN IF i = Len(Open) THEN "serving" ELSE Open[i + 1]
At(s) == step = s
Advance == step' = After(step)

\* Open returns an error: main exits, and systemd starts the next process.
Fail == step' = "down" /\ have' = {} /\ pending' = {} /\ tx' = Absent
        /\ UNCHANGED <<file, crashes, chosen>>

Start ==
  /\ At("down")
  /\ step' = Open[1]
  /\ UNCHANGED <<file, boot>>

\* CREATE TABLE IF NOT EXISTS, for every table but oauth_accounts
CreateTable ==
  /\ step \in Table
  /\ file' = [file EXCEPT !.tables = @ \cup {step},
       !.columns = IF At("submissions") /\ "submissions" \notin file.tables THEN CreatedColumn ELSE @]
  /\ Advance /\ UNCHANGED boot

CreateOAuthTable ==
  /\ At("oauth_accounts")
  /\ file' = IF file.oauth.rows # Absent THEN file
             ELSE [file EXCEPT !.oauth.rows = {}, !.oauth.subject = "provider_sub",
                               !.oauth.bare = FALSE, !.oauth.signin = FALSE]
  /\ Advance /\ UNCHANGED boot

\* CREATE UNIQUE INDEX IF NOT EXISTS: it names provider_sub, so where the table
\* has no such column (and no such index) it is an error.
CreateSigninIndex ==
  /\ At("signin_index")
  /\ IF file.oauth.signin \/ (file.oauth.subject = "provider_sub" /\ ~Clash(file.oauth.rows))
     THEN file' = [file EXCEPT !.oauth.signin = TRUE] /\ Advance /\ UNCHANGED boot
     ELSE Fail

------------------------------------------------------------------------------
(* migrate                                                                  *)

FindColumns ==
  /\ At("find_columns")
  /\ have' = file.columns
  /\ Advance /\ UNCHANGED <<file, pending, tx, crashes, chosen>>

\* One ALTER TABLE per missing column, in the order of a Go map.  Adding a column
\* that is there would be an error: have keeps the loop from it.
AddColumn ==
  /\ At("add_columns")
  /\ IF Column \subseteq file.columns THEN Advance /\ UNCHANGED <<file, boot>>
     ELSE \E c \in Column \ have :
            /\ c \notin file.columns
            /\ file' = [file EXCEPT !.columns = @ \cup {c}]
            /\ UNCHANGED <<step, boot>>

UpdateRows(Updated(_)) ==
  file' = [file EXCEPT !.subs = [l \in Lead |-> IF @[l] = Absent THEN Absent ELSE Updated(@[l])]]

RetireNeedsReview ==
  /\ At("retire_needs_review")
  /\ UpdateRows(LAMBDA r : IF r.status = "needs_review" THEN [r EXCEPT !.status = "pending"] ELSE r)
  /\ Advance /\ UNCHANGED boot

BackfillSource ==
  /\ At("backfill_source")
  /\ UpdateRows(LAMBDA r : IF r.source = "null" THEN [r EXCEPT !.source = "paste"] ELSE r)
  /\ Advance /\ UNCHANGED boot

AddQueueSeenAt ==
  /\ At("queue_seen_at")
  /\ file' = [file EXCEPT !.seen = TRUE]
  /\ Advance /\ UNCHANGED boot

\* Mutant: rows settled by an older build stay without a stamp.
StampNothing ==
  /\ At("stamp_settled")
  /\ Advance /\ UNCHANGED <<file, boot>>

\* settled_at = created_at where a settled row has none
StampSettled ==
  /\ At("stamp_settled")
  /\ UpdateRows(LAMBDA r : IF r.status \in Settled THEN [r EXCEPT !.stamped = TRUE] ELSE r)
  /\ Advance /\ UNCHANGED boot

RenameSub ==
  /\ At("rename_sub")
  /\ file' = [file EXCEPT !.oauth.subject = "provider_sub"]
  /\ Advance /\ UNCHANGED boot

\* hasBareUniqueIndexOn: the rebuild is skipped where there is nothing to drop.
FindUnique ==
  /\ At("find_unique")
  /\ IF file.oauth.bare THEN Advance /\ tx' = file.oauth ELSE step' = "find_sheets" /\ UNCHANGED tx
  /\ UNCHANGED <<file, have, pending, crashes, chosen>>

\* Mutant: the rebuild runs on the connection and not in the transaction.
ExecDirectly(table) ==
  /\ tx' = table /\ file' = [file EXCEPT !.oauth = table]
  /\ Advance /\ UNCHANGED <<have, pending, crashes, chosen>>

\* tx.Exec
Exec(table) ==
  /\ tx' = table
  /\ Advance /\ UNCHANGED <<file, have, pending, crashes, chosen>>

CreateNew == At("create_new") /\ IF tx.new # Absent THEN Fail ELSE Exec([tx EXCEPT !.new = {}])
Copy == At("copy") /\ Exec([tx EXCEPT !.new = tx.rows])

\* A table goes with its indexes.
Drop == At("drop") /\ Exec([tx EXCEPT !.rows = Absent, !.bare = FALSE, !.signin = FALSE])
Swap == At("swap") /\ Exec([tx EXCEPT !.rows = tx.new, !.new = Absent])

\* Mutant: the list of statements ends one too early.
ForgetIndex == At("reindex") /\ Exec(tx)

Reindex == At("reindex") /\ Exec([tx EXCEPT !.signin = TRUE])

Commit ==
  /\ At("commit")
  /\ file' = [file EXCEPT !.oauth = tx] /\ tx' = Absent
  /\ Advance /\ UNCHANGED <<have, pending, crashes, chosen>>

------------------------------------------------------------------------------
(* backfillDestinations                                                     *)

\* Mutant: every legacy sheet is lifted, at every start.
FindAllSheets ==
  /\ At("find_sheets")
  /\ pending' = {u \in User : file.sheets[u] # Absent}
  /\ Advance /\ UNCHANGED <<file, have, tx, crashes, chosen>>

FindSheets ==
  /\ At("find_sheets")
  /\ pending' = {u \in User : file.sheets[u] # Absent /\ file.dests[u] = Absent}
  /\ Advance /\ UNCHANGED <<file, have, tx, crashes, chosen>>

\* The rows come in the order of user_sheets; any order stands for it.
CarrySheet ==
  /\ At("carry_sheets")
  /\ IF pending = {} THEN Advance /\ UNCHANGED <<file, boot>>
     ELSE \E u \in pending :
            /\ file' = [file EXCEPT !.dests[u] = file.sheets[u]]
            /\ pending' = pending \ {u}
            /\ UNCHANGED <<step, have, tx, crashes, chosen>>

------------------------------------------------------------------------------
(* What is done to the tables once the process serves                       *)

Serving == At("serving")
Serve(after) == file' = after /\ UNCHANGED <<step, have, pending, tx, crashes>>

\* Whether the indexes of oauth_accounts take a row beside the others.
Takes(link, others) ==
  /\ file.oauth.bare => \A l \in others : l.sub # link.sub
  /\ file.oauth.signin => ~Clash(others \cup {link})

\* UpsertOAuthAccount
Connect(link) ==
  LET others == {l \in file.oauth.rows : <<l.user, l.provider>> # <<link.user, link.provider>>} IN
  /\ Serving /\ Takes(link, others)
  /\ Serve([file EXCEPT !.oauth.rows = others \cup {link}])
  /\ chosen' = [chosen EXCEPT !.links = others \cup {link}]

\* DeleteOAuthAccount
Disconnect(link) ==
  /\ Serving /\ link \in file.oauth.rows
  /\ Serve([file EXCEPT !.oauth.rows = @ \ {link}])
  /\ chosen' = [chosen EXCEPT !.links = @ \ {link}]

\* SetDestination and MarkDestinationBroken
SetDestination(u, d) ==
  /\ Serving
  /\ d.broken => file.dests[u] = [d EXCEPT !.broken = FALSE]
  /\ Serve([file EXCEPT !.dests[u] = d])
  /\ chosen' = [chosen EXCEPT !.dests[u] = d]

Insert(l, source) ==
  /\ Serving /\ file.subs[l] = Absent
  /\ Serve([file EXCEPT !.subs[l] =
       [status |-> "pending", source |-> source, stamped |-> FALSE, raw |-> TRUE]])
  /\ UNCHANGED chosen

Settle(l, s) ==
  /\ Serving /\ file.subs[l] # Absent /\ file.subs[l].status = "pending"
  /\ Serve([file EXCEPT !.subs[l].status = s, !.subs[l].stamped = TRUE])
  /\ UNCHANGED chosen

\* PurgeInputs: time is left out, so the cutoff may have passed any stamp.
Purge ==
  /\ Serving
  /\ \E l \in Lead : file.subs[l] # Absent /\ file.subs[l].raw /\ file.subs[l].stamped
  /\ UpdateRows(LAMBDA r : IF r.status \in Settled /\ r.stamped THEN [r EXCEPT !.raw = FALSE] ELSE r)
  /\ UNCHANGED <<step, boot>>

Crash ==
  /\ ~At("down") /\ crashes < MaxCrash
  /\ crashes' = crashes + 1
  /\ step' = "down" /\ have' = {} /\ pending' = {} /\ tx' = Absent
  /\ UNCHANGED <<file, chosen>>

------------------------------------------------------------------------------
MigrationsInit ==
  /\ file \in OldFile
  /\ step = "down" /\ have = {} /\ pending = {} /\ tx = Absent /\ crashes = 0
  /\ chosen = [dests |-> [u \in User |-> IF file.dests[u] # Absent THEN file.dests[u] ELSE file.sheets[u]],
               links |-> IF file.oauth.rows = Absent THEN {} ELSE file.oauth.rows]

OpenStep ==
  \/ Start \/ CreateTable \/ CreateOAuthTable \/ CreateSigninIndex
  \/ FindColumns \/ AddColumn \/ RetireNeedsReview \/ BackfillSource \/ AddQueueSeenAt
  \/ StampSettled \/ RenameSub \/ FindUnique \/ CreateNew \/ Copy \/ Drop \/ Swap \/ Reindex
  \/ Commit \/ FindSheets \/ CarrySheet

LinkStep == \E link \in Link : Connect(link) \/ Disconnect(link)

DestinationStep == \E u \in User, d \in Destination : SetDestination(u, d)

LeadStep ==
  \/ \E l \in Lead : Insert(l, "paste") \/ Insert(l, "email")
  \/ \E l \in Lead, s \in Settled : Settle(l, s)

MigrationsNext == OpenStep \/ LinkStep \/ DestinationStep \/ LeadStep \/ Purge \/ Crash
==============================================================================
