-------------------------------- MODULE MCServer --------------------------------
(* Instances of Server: the files earlier builds left, and the environments.    *)
EXTENDS Server, TLC

CONSTANTS ada, bob, first, second, ann, bot, sheet, page

NoLead == [l \in Lead |-> Absent]
NoPlace == [u \in User |-> Absent]
NoOAuth == [rows |-> Absent, subject |-> "provider_sub", bare |-> FALSE, signin |-> FALSE, new |-> Absent]

Old(status, raw) == [status |-> status, source |-> "null", stamped |-> FALSE, raw |-> raw]
Has(u, p, s) == [user |-> u, provider |-> p, sub |-> s]
To(p, broken) == [place |-> p, broken |-> broken]

\* There is no file yet.
Fresh == [tables |-> {}, columns |-> {}, seen |-> FALSE, subs |-> NoLead, oauth |-> NoOAuth,
          sheets |-> NoPlace, dests |-> NoPlace]

\* TestMigrateOldSchema: before the review pane and before there were accounts.
Reviewed == [Fresh EXCEPT !.tables = {"submissions"},
  !.subs = first :> Old("needs_review", FALSE) @@ second :> Old("written", FALSE)]

\* Inputs are kept, but nothing is stamped; sheets are in user_sheets (TestLegacySheet-
\* UserWritesAfterMigration), and provider_sub is UNIQUE by itself (TestMigrateOAuthDrops-
\* GlobalSubUnique).
Sheets == [Fresh EXCEPT
  !.tables = {"submissions", "users", "sessions", "user_sheets", "auth_tokens"},
  !.columns = {"inputs", "user_id"},
  !.subs = first :> Old("written", TRUE) @@ second :> Old("pending", TRUE),
  !.oauth.rows = {Has(ada, "google", ann), Has(ada, "notion", bot)}, !.oauth.bare = TRUE,
  !.sheets = ada :> To(sheet, FALSE) @@ bob :> To(sheet, TRUE)]

\* The same of the build before it, whose subject column was google_sub.
GoogleOnly == [Sheets EXCEPT !.oauth.rows = {Has(ada, "google", ann)}, !.oauth.subject = "google_sub"]

\* What TestMigrateOAuthAccountsRenamesGoogleSub opens: a file of this build, with its
\* indexes, whose column was renamed.
Renamed == [Fresh EXCEPT !.tables = Table, !.columns = Column, !.seen = TRUE,
  !.oauth.rows = {Has(ada, "google", ann)}, !.oauth.subject = "google_sub", !.oauth.signin = TRUE]

\* .env.example, with Google, Notion and the mail set up
Everything == [set |-> Setting \ Shared, dev |-> FALSE, strong |-> TRUE, decodes |-> TRUE]

Earlier == {Fresh, Reviewed, Sheets, Renamed}
WhatHappens ==
  Fresh :> Watch @@ Reviewed :> {"leads"} @@ Sheets :> {"leads", "links", "destinations"} @@ Renamed :> {"links"}

FromGoogleOnly == {GoogleOnly}
OnlyStarts == GoogleOnly :> {"leads"}
================================================================================
