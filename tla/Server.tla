-------------------------------- MODULE Server --------------------------------
(***************************************************************************)
(* The process (cmd/server): it opens the database, which brings the file up  *)
(* to date, serves accounts from it under limits kept in memory, purges what  *)
(* is past its retention, and may die at any statement.  The file is there    *)
(* for the next process; the limits are not.                                  *)
(***************************************************************************)
EXTENDS Migrations, RateLimit, Configuration

CONSTANTS
  Production, \* the environment the instance begins with
  Activity    \* bound: what happens once a process serves from each file, see Watch

VARIABLE watch

vars == <<migvars, limvars, env, watch>>

\* Bound: an instance follows what accounts do to one of three tables, how often they ask,
\* or what the operator does to the settings (and then dies no more): they share nothing but
\* the life of the process.
Watch == {"leads", "links", "destinations", "limits", "settings"}

ASSUME Instances ==
  Activity \in [OldFile -> SUBSET Watch] /\ Production \in Environment /\ Starts(Production)

Init == MigrationsInit /\ RateLimitInit /\ env = Production /\ watch \in Activity[file]

\* config.Load comes before store.Open.
Boot == OpenStep /\ (At("down") => Starts(env)) /\ UNCHANGED <<limvars, env, watch>>

Turn(w) == watch = w /\ Serving /\ UNCHANGED watch

Next ==
  \/ Boot
  \/ Turn("leads") /\ LeadStep /\ UNCHANGED <<limvars, env>>
  \/ Purge /\ UNCHANGED <<limvars, env, watch>>
  \/ Turn("links") /\ LinkStep /\ UNCHANGED <<limvars, env>>
  \/ Turn("destinations") /\ DestinationStep /\ UNCHANGED <<limvars, env>>
  \/ Turn("limits") /\ RateLimitNext /\ UNCHANGED <<migvars, env>>
  \/ Turn("settings") /\ Reconfigure /\ UNCHANGED <<migvars, limvars>>
  \/ watch # "settings" /\ Crash /\ Restart /\ UNCHANGED <<env, watch>>

Spec == Init /\ [][Next]_vars

\* A process that has started runs on, systemd restarts one that has died (ziga.service:28),
\* and the purge runs at every start and every day.
FairSpec == Spec /\ WF_vars(Boot) /\ WF_vars(Purge /\ UNCHANGED <<limvars, env, watch>>)

------------------------------------------------------------------------------
\* The file, the process and the limits hold what they are declared to hold.
TypeOK == MigrationsTypeOK /\ RateLimitTypeOK /\ env \in Environment /\ watch \in Watch

\* store.go:112: whatever file a process started from and wherever earlier ones died, it
\* serves from the schema its statements are written for: no column is missing, no row has
\* a retired status or no source, a settled row has its stamp, and Google alone names
\* people.
ServingIsCurrent ==
  Serving =>
    /\ file.columns = Column /\ file.seen
    /\ \A l \in Lead : file.subs[l] # Absent =>
         /\ file.subs[l].status # "needs_review" /\ file.subs[l].source # "null"
         /\ file.subs[l].status \in Settled => file.subs[l].stamped
    /\ file.oauth.subject = "provider_sub" /\ file.oauth.signin /\ ~file.oauth.bare

\* store.go:265 and destination.go:99: no start, however interrupted or repeated, loses a
\* link, brings back one that was dropped, or points an account's leads anywhere but where
\* the account last pointed them, to its old sheet if it never chose again.
StartsAreHarmless ==
  Serving => file.oauth.rows = chosen.links /\ file.dests = chosen.dests

\* auth.go:91: a Google identity is one account's, before and after the table is rebuilt.
IdentityHasOneAccount == Serving => ~Clash(file.oauth.rows)

\* store.go:112: no place to die leaves a file that the next process cannot open.
StartEnds == ~Serving ~> Serving

\* store.go:205 and main.go:121: an original is not kept for ever because an older build
\* settled it without a stamp.
InputsArePurged ==
  \A l \in Lead :
    (file.subs[l] # Absent /\ file.subs[l].status \in Settled /\ file.subs[l].raw)
      ~> (file.subs[l] # Absent /\ ~file.subs[l].raw)
==============================================================================
