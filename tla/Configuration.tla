----------------------------- MODULE Configuration -----------------------------
(***************************************************************************)
(* What the environment turns on (config/config.go, cmd/server/main.go and    *)
(* httpapi/server.go): which environments the server starts with, and what it *)
(* then offers.  An environment is the set of variables that are set, whether *)
(* ZIGA_DEV_MODE is on, and whether the two secrets are usable.  Variables    *)
(* with a default of their own (ports, caps, the redirect of Google) and the  *)
(* schema file are left out: they are set or the server does not start.       *)
(***************************************************************************)
EXTENDS Naturals, FiniteSets

Google == {"GOOGLE_OAUTH_CLIENT_ID", "GOOGLE_OAUTH_CLIENT_SECRET"}
Notion == {"NOTION_OAUTH_CLIENT_ID", "NOTION_OAUTH_CLIENT_SECRET", "NOTION_OAUTH_REDIRECT_URL"}
Ingest == {"INBOUND_EMAIL_DOMAIN", "INGEST_SHARED_SECRET", "CLOUDFLARE_API_TOKEN",
           "CLOUDFLARE_ZONE_ID", "INGEST_WORKER_NAME"}
Shared == {"SHEET_ID", "GOOGLE_APPLICATION_CREDENTIALS"}
Setting == Google \cup Notion \cup Ingest \cup Shared \cup {"TOKEN_ENCRYPTION_KEY"}

\* strong: the shared secret has its 32 characters; decodes: the token key is a key.
Environment == [set: SUBSET Setting, dev: BOOLEAN, strong: BOOLEAN, decodes: BOOLEAN]

Given(names, e) == names \subseteq e.set

\* INGEST_WORKER_NAME has a default.
IngestGiven(e) == (e.set \cap Ingest) \cup {"INGEST_WORKER_NAME"}

OAuthConfigured(e) == Given(Google, e)
NotionConfigured(e) == Given(Notion, e)
EmailIngestConfigured(e) == IngestGiven(e) = Ingest

\* Mutant: the name's default is forgotten, and counts as intent by itself.
PartialIngestLate(e) == Cardinality(IngestGiven(e)) > 2 /\ ~EmailIngestConfigured(e)

PartialIngest(e) == Cardinality(IngestGiven(e)) > 1 /\ ~EmailIngestConfigured(e)
PartialNotion(e) == e.set \cap Notion # {} /\ ~NotionConfigured(e)

\* Tokens are never stored in plaintext.
NeedsKey(e) == OAuthConfigured(e) \/ NotionConfigured(e)

\* config.Load returns no error, and main gets as far as serving: it reads the token key
\* after store.Open, here before it, and OPENAI_API_KEY and the shared sheet's credentials
\* are taken for good, so that no environment that starts is left out.
Starts(e) ==
  /\ e.dev \/ OAuthConfigured(e)
  /\ ~PartialNotion(e) /\ ~PartialIngest(e)
  /\ NeedsKey(e) => "TOKEN_ENCRYPTION_KEY" \in e.set
  /\ "INGEST_SHARED_SECRET" \in e.set => e.strong
  /\ "TOKEN_ENCRYPTION_KEY" \in e.set => e.decodes

\* secretbox.New: the key that tokens are sealed with
Box(e) == "TOKEN_ENCRYPTION_KEY" \in e.set /\ e.decodes

\* What GET /api/me tells the screen is there to be used
Offers(e) ==
  {f \in {"google", "notion", "email"} :
     \/ f = "google" /\ OAuthConfigured(e)
     \/ f = "notion" /\ Given(Notion \ {"NOTION_OAUTH_REDIRECT_URL"}, e) /\ Box(e)
     \/ f = "email" /\ EmailIngestConfigured(e)}

\* destinationsEnabled; without it every write goes to the process-wide writer.
DestinationsEnabled(e) ==
  (OAuthConfigured(e) /\ Box(e)) \/ (Given(Notion \ {"NOTION_OAUTH_REDIRECT_URL"}, e) /\ Box(e))

\* The writer main makes, when it comes to be used: a shared sheet or memory.
Writer(e) ==
  CASE DestinationsEnabled(e) -> "per_account"
    [] ~DestinationsEnabled(e) /\ Given(Shared, e) -> "shared"
    [] OTHER -> "memory"

\* What the flow behind an offer needs of the environment, from its first request to
\* its last: a consent ends in a sealed token, a capture address in a routing rule.
Needed(f, e) ==
  CASE f = "google" -> OAuthConfigured(e) /\ Box(e)
    [] f = "notion" -> NotionConfigured(e) /\ Box(e)
    [] f = "email"  -> EmailIngestConfigured(e) /\ e.strong

------------------------------------------------------------------------------
VARIABLE env  \* what the next process will read

\* The operator edits the unit's environment file, a variable or a secret at a time.
Reconfigure ==
  \/ \E v \in Setting : env' = [env EXCEPT !.set = IF v \in @ THEN @ \ {v} ELSE @ \cup {v}]
  \/ env' = [env EXCEPT !.dev = ~@]
  \/ env' = [env EXCEPT !.strong = ~@]
  \/ env' = [env EXCEPT !.decodes = ~@]

\* config.go:230, :250 and :277, of a server that starts: what it offers, its flow can
\* finish; Notion and email capture are there whenever a variable of theirs is set (but
\* the worker's name, which has a default); and outside dev mode every lead goes to its
\* account's destination.  In dev mode half of Google, or of the shared sheet, is off
\* without a word (README, section 5).
OffersAreWhole ==
  Starts(env) =>
    /\ \A f \in Offers(env) : Needed(f, env)
    /\ env.set \cap Notion # {} => "notion" \in Offers(env)
    /\ env.set \cap (Ingest \ {"INGEST_WORKER_NAME"}) # {} => "email" \in Offers(env)
    /\ ~env.dev => Writer(env) = "per_account"
==============================================================================
