------------------------------- MODULE RateLimit -------------------------------
(***************************************************************************)
(* The in-memory limiters of the server (httpapi/ratelimit.go): a map from   *)
(* keys (addresses of clients, capture addresses, accounts) to token buckets  *)
(* (golang.org/x/time/rate), which are made when a key is first seen and      *)
(* dropped by a sweep when it has not been seen for a while.                  *)
(*                                                                          *)
(* A request looks its bucket up under the mutex and takes its token after    *)
(* the unlock; a sweep may come in between.  A bucket is filled when it is    *)
(* used, by what the time since its last token adds.  Time is a number of     *)
(* units, Minute of them a minute, and a request costs Minute units of a      *)
(* bucket, so that a unit of time adds PerMin of them: all is whole numbers.  *)
(***************************************************************************)
EXTENDS Naturals

CONSTANTS
  Key,      \* what requests are limited by
  Handler,  \* request goroutines
  PerMin, Burst,  \* the limit
  Minute,   \* units of time in a minute
  Idle,     \* how long an unseen key is kept: 15 minutes
  Stall,    \* bound: time a goroutine spends between the unlock and its token
  MaxTime,  \* bound: how long an instance lasts
  MaxAsked, \* bound: requests of one key that are answered
  NoBucket, NoKey, NoMark \* absent values

Full == Burst * Minute

\* Of every limiter the server makes (10 a minute by default and 1 at least, burst 5;
\* 20 and 5; 6 and 3; six times its burst): a bucket that is dropped had filled up.
ASSUME Limits ==
  /\ PerMin \in Nat /\ Burst \in Nat /\ Minute \in Nat /\ Idle \in Nat /\ Stall \in Nat
  /\ MaxTime \in Nat /\ MaxAsked \in Nat
  /\ Stall <= Idle /\ (Idle - Stall + 1) * PerMin >= Full

ASSUME AbsentIsNot ==
  /\ NoBucket \notin [tokens: 0..Full, last: Nat, seen: Nat]
  /\ NoKey \notin Key
  /\ NoMark \notin [at: Nat, passed: [Key -> Nat]]

\* A visitor and its rate.Limiter
Bucket == [tokens: 0..Full, last: Nat, seen: Nat]

VARIABLES
  now,
  visitors, \* the map of the limiter
  held,     \* the key whose bucket a goroutine has looked up, and when
  passed, refused, \* history: requests let through and turned away
  mark      \* history: one moment, and what had passed until then

limvars == <<now, visitors, held, passed, refused, mark>>

Held == [key: Key \cup {NoKey}, since: Nat]
Nothing == [key |-> NoKey, since |-> 0]

RateLimitTypeOK ==
  /\ now \in Nat
  /\ visitors \in [Key -> Bucket \cup {NoBucket}]
  /\ held \in [Handler -> Held]
  /\ passed \in [Key -> Nat] /\ refused \in [Key -> Nat]
  /\ mark \in [at: Nat, passed: [Key -> Nat]] \cup {NoMark}

Fill(n) == IF n < Full THEN n ELSE Full

\* advance() of rate.Limiter: what a bucket holds by now.
Level(b) == IF b = NoBucket THEN Full ELSE Fill(b.tokens + (now - b.last) * PerMin)

------------------------------------------------------------------------------
\* Mutant: a bucket that is found is not marked as seen.
GetUnseen(h, k) ==
  /\ held[h] = Nothing /\ passed[k] + refused[k] < MaxAsked
  /\ visitors' = [visitors EXCEPT ![k] =
       IF @ = NoBucket THEN [tokens |-> Full, last |-> now, seen |-> now] ELSE @]
  /\ held' = [held EXCEPT ![h] = [key |-> k, since |-> now]]
  /\ UNCHANGED <<now, passed, refused, mark>>

\* get, under the mutex
Get(h, k) ==
  /\ held[h] = Nothing /\ passed[k] + refused[k] < MaxAsked
  /\ visitors' = [visitors EXCEPT ![k] =
       IF @ = NoBucket THEN [tokens |-> Full, last |-> now, seen |-> now] ELSE [@ EXCEPT !.seen = now]]
  /\ held' = [held EXCEPT ![h] = [key |-> k, since |-> now]]
  /\ UNCHANGED <<now, passed, refused, mark>>

\* Allow, with the bucket that get returned
Allow(h) ==
  LET k == held[h].key IN
  /\ k # NoKey /\ visitors[k] # NoBucket
  /\ held' = [held EXCEPT ![h] = Nothing]
  /\ IF Level(visitors[k]) >= Minute
     THEN /\ visitors' = [visitors EXCEPT ![k] =
               [tokens |-> Level(visitors[k]) - Minute, last |-> now, seen |-> @.seen]]
          /\ passed' = [passed EXCEPT ![k] = @ + 1]
          /\ UNCHANGED refused
     ELSE /\ refused' = [refused EXCEPT ![k] = @ + 1]
          /\ UNCHANGED <<visitors, passed>>
  /\ UNCHANGED <<now, mark>>

\* cleanup's visit to one key; each is a step, which only adds behaviours.
Evict(k) ==
  /\ visitors[k] # NoBucket /\ now - visitors[k].seen > Idle
  /\ visitors' = [visitors EXCEPT ![k] = NoBucket]
  /\ UNCHANGED <<now, held, passed, refused, mark>>

\* Bound: no goroutine is kept for more than Stall between the two lines of a request.
Second ==
  /\ now < MaxTime
  /\ \A h \in Handler : held[h] # Nothing => now - held[h].since < Stall
  /\ now' = now + 1
  /\ UNCHANGED <<visitors, held, passed, refused, mark>>

\* Any moment may be the one a window is measured from.
Mark ==
  /\ mark = NoMark
  /\ mark' = [at |-> now, passed |-> passed]
  /\ UNCHANGED <<now, visitors, held, passed, refused>>

\* The next process starts with an empty map; the history is of one process.
Restart ==
  /\ now' = 0
  /\ visitors' = [k \in Key |-> NoBucket]
  /\ held' = [h \in Handler |-> Nothing]
  /\ passed' = [k \in Key |-> 0] /\ refused' = [k \in Key |-> 0]
  /\ mark' = NoMark

RateLimitInit ==
  /\ now = 0
  /\ visitors = [k \in Key |-> NoBucket]
  /\ held = [h \in Handler |-> Nothing]
  /\ passed = [k \in Key |-> 0] /\ refused = [k \in Key |-> 0]
  /\ mark = NoMark

RateLimitNext ==
  \/ \E h \in Handler : Allow(h) \/ \E k \in Key : Get(h, k)
  \/ \E k \in Key : Evict(k)
  \/ Second \/ Mark

RateLimitSpec == RateLimitInit /\ [][RateLimitNext \/ Restart]_limvars

------------------------------------------------------------------------------
\* ratelimit.go:16 and server.go:83: in any stretch of time a key gets through at
\* most its burst and what the rate adds, whatever is forgotten and made anew.
Metered ==
  mark # NoMark => \A k \in Key :
    (passed[k] - mark.passed[k]) * Minute <= Full + (now - mark.at) * PerMin

Plain == INSTANCE TokenBuckets
  WITH level <- [k \in Key |-> Level(visitors[k])]

\* ratelimit.go:54: nobody can tell that buckets are forgotten: requests pass and are
\* refused as if every key had kept its bucket from the start.
EvictionUnseen == Plain!Spec
==============================================================================
