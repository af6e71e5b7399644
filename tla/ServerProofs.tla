------------------------------ MODULE ServerProofs ------------------------------
(***************************************************************************)
(* For every limit that fills up before it is forgotten, every number of     *)
(* keys and requests: a key gets through at most its burst and what the rate  *)
(* adds, and nobody can tell that buckets are forgotten; nor that the         *)
(* process died, whatever it does to the file.  For every file an earlier     *)
(* build may have left and every number of deaths: what is served is current  *)
(* and nothing of it is lost.  For every environment: what is offered works. *)
(***************************************************************************)
EXTENDS Server, Integers, FiniteSetTheorems, TLAPS

\* A bucket was filled when its last token was taken, soon after it was last looked up.
StampsAreOrdered ==
  \A k \in Key : visitors[k] # NoBucket =>
    /\ visitors[k].seen <= now /\ visitors[k].last <= now
    /\ visitors[k].last <= visitors[k].seen + Stall

\* A goroutine that is about to take a token is at a bucket of the map.
HeldIsInTheMap ==
  \A h \in Handler : held[h] # Nothing =>
    /\ held[h].key \in Key
    /\ visitors[held[h].key] # NoBucket
    /\ held[h].since <= visitors[held[h].key].seen
    /\ now - held[h].since <= Stall

\* Metered, with what the bucket still holds: what makes it inductive.
TokensAreBounded ==
  mark # NoMark =>
    /\ mark.at <= now
    /\ \A k \in Key :
         /\ mark.passed[k] <= passed[k]
         /\ (passed[k] - mark.passed[k]) * Minute + Level(visitors[k]) <= Full + (now - mark.at) * PerMin

RateInv == RateLimitTypeOK /\ StampsAreOrdered /\ HeldIsInTheMap

------------------------------------------------------------------------------
(* Whole numbers                                                            *)

LEMMA FullIsNat == Full \in Nat
BY Limits DEF Full

LEMMA Distribute ==
  ASSUME NEW a \in Int, NEW b \in Int, NEW c \in Nat
  PROVE  a * c \in Int /\ (a + b) * c = a * c + b * c
OBVIOUS

LEMMA Scale ==
  ASSUME NEW a \in Nat, NEW b \in Nat, NEW c \in Nat, a <= b
  PROVE  a * c \in Nat /\ a * c <= b * c
<1>1. PICK d \in Nat : b = a + d
  <2>1. b - a \in Nat /\ b = a + (b - a)
    OBVIOUS
  <2>2. QED
    BY <2>1
<1>2. b * c = a * c + d * c
  BY <1>1, Distribute
<1>3. d * c \in Nat /\ a * c \in Nat
  OBVIOUS
<1>4. QED
  BY <1>2, <1>3

LEMMA FillType == ASSUME NEW n \in Nat PROVE Fill(n) \in 0..Full /\ Fill(n) <= n
BY FullIsNat DEF Fill

------------------------------------------------------------------------------
(* What the steps do to a bucket's level                                    *)

LEMMA LevelType ==
  ASSUME RateInv, NEW k \in Key PROVE Level(visitors[k]) \in 0..Full
<1>1. CASE visitors[k] = NoBucket
  BY <1>1, FullIsNat DEF Level
<1>2. CASE visitors[k] # NoBucket
  <2>1. visitors[k] \in Bucket /\ now \in Nat /\ visitors[k].last <= now
    BY <1>2 DEF RateInv, RateLimitTypeOK, StampsAreOrdered
  <2>2. now - visitors[k].last \in Nat /\ visitors[k].tokens \in Nat
    BY <2>1, FullIsNat DEF Bucket
  <2>3. (now - visitors[k].last) * PerMin \in Nat
    BY <2>2, Limits
  <2>4. visitors[k].tokens + (now - visitors[k].last) * PerMin \in Nat
    BY <2>2, <2>3
  <2>5. QED
    BY <1>2, <2>4, FillType DEF Level
<1>3. QED
  BY <1>1, <1>2

\* A bucket that is swept had filled up, as Limits has it.
LEMMA SweptIsFull ==
  ASSUME RateInv, NEW k \in Key, Evict(k) PROVE Level(visitors[k]) = Full
<1>1. /\ visitors[k] # NoBucket /\ visitors[k] \in Bucket /\ now \in Nat
      /\ visitors[k].last <= visitors[k].seen + Stall /\ visitors[k].last <= now
      /\ now - visitors[k].seen > Idle
  BY DEF RateInv, RateLimitTypeOK, StampsAreOrdered, Evict
<1>2. /\ visitors[k].tokens \in Nat /\ visitors[k].last \in Nat /\ visitors[k].seen \in Nat
      /\ Idle \in Nat /\ Stall \in Nat /\ PerMin \in Nat /\ Stall <= Idle
  BY <1>1, FullIsNat, Limits DEF Bucket
<1>3. /\ Idle - Stall + 1 \in Nat /\ now - visitors[k].last \in Nat
      /\ Idle - Stall + 1 <= now - visitors[k].last
  BY <1>1, <1>2
<1>4. (Idle - Stall + 1) * PerMin <= (now - visitors[k].last) * PerMin
  BY <1>2, <1>3, Scale
<1>5. (Idle - Stall + 1) * PerMin \in Nat /\ (now - visitors[k].last) * PerMin \in Nat
  BY <1>2, <1>3
<1>6. (now - visitors[k].last) * PerMin >= Full
  BY <1>4, <1>5, FullIsNat, Limits
<1>7. QED
  BY <1>1, <1>2, <1>5, <1>6, FullIsNat DEF Level, Fill

LEMMA SecondFills ==
  ASSUME RateInv, Second, NEW k \in Key
  PROVE  Level(visitors[k])' = Fill(Level(visitors[k]) + PerMin)
<1>1. now' = now + 1 /\ visitors' = visitors /\ now \in Nat /\ PerMin \in Nat
  BY Limits DEF Second, RateInv, RateLimitTypeOK
<1>2. CASE visitors[k] = NoBucket
  BY <1>1, <1>2, FullIsNat DEF Level, Fill
<1>3. CASE visitors[k] # NoBucket
  <2> DEFINE b == visitors[k]
             d == now - b.last
  <2>1. b \in Bucket /\ b.last <= now
    BY <1>3 DEF RateInv, RateLimitTypeOK, StampsAreOrdered
  <2>2. b.tokens \in Nat /\ d \in Nat /\ b.last \in Nat
    BY <2>1, <1>1, FullIsNat DEF Bucket
  <2>3. now + 1 - b.last = d + 1 /\ (d + 1) * PerMin = d * PerMin + PerMin /\ d * PerMin \in Nat
    BY <2>2, <1>1, Distribute
  <2>4. Level(visitors[k])' = Fill(b.tokens + (d * PerMin + PerMin))
    <3>1. Level(visitors[k])' = Fill(b.tokens + (now' - b.last) * PerMin)
      BY <1>1, <1>3, Zenon DEF Level, Fill, Full
    <3>2. now' - b.last = d + 1
      BY <1>1, <2>2
    <3>3. (now' - b.last) * PerMin = d * PerMin + PerMin
      BY <3>2, <2>3, Zenon
    <3>4. QED
      BY <3>1, <3>3, Zenon
  <2>5. Level(visitors[k]) = Fill(b.tokens + d * PerMin)
    BY <1>3 DEF Level
  <2> HIDE DEF b, d
  <2>6. QED
    BY <2>2, <2>3, <2>4, <2>5, <1>1, FullIsNat DEF Fill
<1>4. QED
  BY <1>2, <1>3

------------------------------------------------------------------------------
(* The invariant is inductive                                               *)

LEMMA FirstRateInv == RateLimitInit => RateInv
BY AbsentIsNot DEF RateLimitInit, RateInv, RateLimitTypeOK, StampsAreOrdered, HeldIsInTheMap, Held, Nothing

LEMMA GetKeepsRateInv ==
  ASSUME RateInv, NEW h \in Handler, NEW k \in Key, Get(h, k) PROVE RateInv'
<1> DEFINE b == IF visitors[k] = NoBucket THEN [tokens |-> Full, last |-> now, seen |-> now]
                ELSE [visitors[k] EXCEPT !.seen = now]
<1>1. RateLimitTypeOK /\ StampsAreOrdered /\ HeldIsInTheMap
  BY DEF RateInv
<1>2. /\ visitors' = [visitors EXCEPT ![k] = b] /\ now' = now
      /\ held' = [held EXCEPT ![h] = [key |-> k, since |-> now]]
      /\ UNCHANGED <<passed, refused, mark>>
  BY DEF Get
<1>3. b \in Bucket /\ b # NoBucket /\ b.seen = now /\ b.last <= now
  <2>1. now \in Nat /\ visitors[k] \in Bucket \cup {NoBucket} /\ (visitors[k] # NoBucket => visitors[k].last <= now)
    BY <1>1 DEF RateLimitTypeOK, StampsAreOrdered
  <2>2. b \in Bucket /\ b.seen = now /\ b.last <= now
    BY <2>1, FullIsNat DEF Bucket
  <2>3. QED
    BY <2>2, AbsentIsNot DEF Bucket
<1> HIDE DEF b
<1>4. /\ visitors' \in [Key -> Bucket \cup {NoBucket}] /\ visitors'[k] = b
      /\ \A j \in Key : j # k => visitors'[j] = visitors[j]
  BY <1>1, <1>2, <1>3 DEF RateLimitTypeOK
<1>5. /\ held' \in [Handler -> Held] /\ held'[h] = [key |-> k, since |-> now]
      /\ \A g \in Handler : g # h => held'[g] = held[g]
  BY <1>1, <1>2 DEF RateLimitTypeOK, Held
<1>6. RateLimitTypeOK'
  BY <1>1, <1>2, <1>4, <1>5 DEF RateLimitTypeOK
<1>7. StampsAreOrdered'
  <2> SUFFICES ASSUME NEW j \in Key, visitors'[j] # NoBucket
               PROVE  /\ visitors'[j].seen <= now /\ visitors'[j].last <= now
                      /\ visitors'[j].last <= visitors'[j].seen + Stall
    BY <1>2 DEF StampsAreOrdered
  <2>1. CASE j = k
    <3>1. visitors'[j] = b /\ b.seen \in Nat /\ b.last \in Nat /\ now \in Nat /\ Stall \in Nat
      BY <2>1, <1>1, <1>3, <1>4, Limits DEF Bucket, RateLimitTypeOK
    <3>2. QED
      BY <3>1, <1>3
  <2>2. CASE j # k
    BY <2>2, <1>1, <1>4 DEF StampsAreOrdered
  <2>3. QED
    BY <2>1, <2>2
<1>8. HeldIsInTheMap'
  <2> SUFFICES ASSUME NEW g \in Handler, held'[g] # Nothing
               PROVE  /\ held'[g].key \in Key /\ visitors'[held'[g].key] # NoBucket
                      /\ held'[g].since <= visitors'[held'[g].key].seen /\ now - held'[g].since <= Stall
    BY <1>2 DEF HeldIsInTheMap, Nothing
  <2>1. CASE g = h
    <3>1. held'[g].key = k /\ held'[g].since = now /\ now \in Nat /\ Stall \in Nat
      BY <2>1, <1>1, <1>5, Limits DEF RateLimitTypeOK
    <3>2. QED
      BY <3>1, <1>3, <1>4
  <2>2. CASE g # h
    <3>1. /\ held'[g] = held[g] /\ held[g] \in Held /\ held[g].key \in Key /\ visitors[held[g].key] # NoBucket
          /\ held[g].since <= visitors[held[g].key].seen /\ now - held[g].since <= Stall
      BY <2>2, <1>1, <1>5 DEF HeldIsInTheMap, RateLimitTypeOK
    <3>2. CASE held[g].key = k
      <4>1. visitors[k] \in Bucket /\ visitors[k].seen <= now
        BY <3>1, <3>2, <1>1 DEF RateLimitTypeOK, StampsAreOrdered
      <4>2. visitors[k].seen \in Nat /\ now \in Nat /\ held[g].since \in Nat
        BY <4>1, <3>1, <1>1 DEF RateLimitTypeOK, Bucket, Held
      <4>3. held[g].since <= now
        BY <4>1, <4>2, <3>1, <3>2
      <4>4. QED
        BY <4>3, <3>1, <3>2, <1>3, <1>4
    <3>3. CASE held[g].key # k
      BY <3>1, <3>3, <1>4
    <3>4. QED
      BY <3>2, <3>3
  <2>3. QED
    BY <2>1, <2>2
<1>9. QED
  BY <1>6, <1>7, <1>8 DEF RateInv

\* What Allow finds and leaves.
LEMMA AllowMoves ==
  ASSUME RateInv, NEW h \in Handler, Allow(h)
  PROVE  \E k \in Key :
           /\ k = held[h].key /\ held[h] # Nothing /\ visitors[k] \in Bucket
           /\ held' = [held EXCEPT ![h] = Nothing] /\ now' = now /\ mark' = mark
           /\ \/ /\ Level(visitors[k]) >= Minute
                 /\ visitors' = [visitors EXCEPT ![k] = [tokens |-> Level(visitors[k]) - Minute, last |-> now, seen |-> visitors[k].seen]]
                 /\ passed' = [passed EXCEPT ![k] = @ + 1] /\ refused' = refused
              \/ /\ ~(Level(visitors[k]) >= Minute)
                 /\ visitors' = visitors /\ passed' = passed
                 /\ refused' = [refused EXCEPT ![k] = @ + 1]
<1> DEFINE k == held[h].key
<1>1. held[h] # Nothing /\ k # NoKey /\ visitors[k] # NoBucket
  BY DEF Allow, Nothing
<1>2. k \in Key /\ visitors[k] \in Bucket
  BY <1>1 DEF RateInv, RateLimitTypeOK, HeldIsInTheMap
<1>3. visitors \in [Key -> Bucket \cup {NoBucket}]
  BY DEF RateInv, RateLimitTypeOK
<1>4. CASE Level(visitors[k]) >= Minute
  BY <1>1, <1>2, <1>4 DEF Allow
<1>5. CASE ~(Level(visitors[k]) >= Minute)
  BY <1>1, <1>2, <1>5 DEF Allow
<1>6. QED
  BY <1>4, <1>5

LEMMA AllowKeepsRateInv ==
  ASSUME RateInv, NEW h \in Handler, Allow(h) PROVE RateInv'
<1>1. RateLimitTypeOK /\ StampsAreOrdered /\ HeldIsInTheMap
  BY DEF RateInv
<1>2. PICK k \in Key :
           /\ k = held[h].key /\ held[h] # Nothing /\ visitors[k] \in Bucket
           /\ held' = [held EXCEPT ![h] = Nothing] /\ now' = now /\ mark' = mark
           /\ \/ /\ Level(visitors[k]) >= Minute
                 /\ visitors' = [visitors EXCEPT ![k] = [tokens |-> Level(visitors[k]) - Minute, last |-> now, seen |-> visitors[k].seen]]
                 /\ passed' = [passed EXCEPT ![k] = @ + 1] /\ refused' = refused
              \/ /\ ~(Level(visitors[k]) >= Minute)
                 /\ visitors' = visitors /\ passed' = passed
                 /\ refused' = [refused EXCEPT ![k] = @ + 1]
  BY AllowMoves
<1>3. visitors[k] # NoBucket
  BY <1>2, AbsentIsNot DEF Bucket
<1>4. /\ held[h] \in Held /\ now \in Nat /\ visitors[k].seen \in Nat /\ held[h].since \in Nat /\ Stall \in Nat
      /\ visitors[k].seen <= now /\ held[h].since <= visitors[k].seen /\ now - held[h].since <= Stall
      /\ passed \in [Key -> Nat] /\ refused \in [Key -> Nat]
  BY <1>1, <1>2, <1>3, Limits DEF RateLimitTypeOK, StampsAreOrdered, HeldIsInTheMap, Held, Bucket
<1>5. held' \in [Handler -> Held] /\ held'[h] = Nothing /\ \A g \in Handler : g # h => held'[g] = held[g]
  BY <1>1, <1>2 DEF RateLimitTypeOK, Held, Nothing
<1>6. passed' \in [Key -> Nat] /\ refused' \in [Key -> Nat]
  BY <1>2, <1>4
<1>7. \E b \in Bucket :
        /\ visitors' = [visitors EXCEPT ![k] = b] /\ b.seen = visitors[k].seen
        /\ b.last = now \/ b.last = visitors[k].last
  <2>1. CASE Level(visitors[k]) >= Minute
    <3>1. Level(visitors[k]) \in 0..Full
      BY LevelType
    <3>2. Level(visitors[k]) - Minute \in 0..Full
      BY <3>1, <2>1, Limits, FullIsNat
    <3> DEFINE b == [tokens |-> Level(visitors[k]) - Minute, last |-> now, seen |-> visitors[k].seen]
    <3>3. b \in Bucket
      BY <3>2, <1>4 DEF Bucket
    <3>4. QED
      BY <3>3, <2>1, <1>2
  <2>2. CASE ~(Level(visitors[k]) >= Minute)
    <3>1. visitors' = [visitors EXCEPT ![k] = visitors[k]]
      BY <2>2, <1>1, <1>2 DEF RateLimitTypeOK
    <3>2. QED
      BY <3>1, <1>2
  <2>3. QED
    BY <2>1, <2>2
<1>8. PICK b \in Bucket :
        /\ visitors' = [visitors EXCEPT ![k] = b] /\ b.seen = visitors[k].seen
        /\ b.last = now \/ b.last = visitors[k].last
  BY <1>7
<1>9. /\ visitors' \in [Key -> Bucket \cup {NoBucket}] /\ visitors'[k] = b /\ b # NoBucket
      /\ \A j \in Key : j # k => visitors'[j] = visitors[j]
  BY <1>1, <1>8, AbsentIsNot DEF RateLimitTypeOK, Bucket
<1>10. RateLimitTypeOK'
  BY <1>1, <1>2, <1>5, <1>6, <1>9 DEF RateLimitTypeOK
<1>11. StampsAreOrdered'
  <2> SUFFICES ASSUME NEW j \in Key, visitors'[j] # NoBucket
               PROVE  /\ visitors'[j].seen <= now /\ visitors'[j].last <= now
                      /\ visitors'[j].last <= visitors'[j].seen + Stall
    BY <1>2 DEF StampsAreOrdered
  <2>1. CASE j = k
    <3>1. visitors[k].last \in Nat /\ visitors[k].last <= now /\ visitors[k].last <= visitors[k].seen + Stall
      BY <1>1, <1>2, <1>3 DEF StampsAreOrdered, Bucket
    <3>2. QED
      BY <3>1, <2>1, <1>4, <1>8, <1>9
  <2>2. CASE j # k
    BY <2>2, <1>1, <1>9 DEF StampsAreOrdered
  <2>3. QED
    BY <2>1, <2>2
<1>12. HeldIsInTheMap'
  <2> SUFFICES ASSUME NEW g \in Handler, held'[g] # Nothing
               PROVE  /\ held'[g].key \in Key /\ visitors'[held'[g].key] # NoBucket
                      /\ held'[g].since <= visitors'[held'[g].key].seen /\ now - held'[g].since <= Stall
    BY <1>2 DEF HeldIsInTheMap, Nothing
  <2>1. g # h /\ held'[g] = held[g]
    BY <1>5
  <2>2. /\ held[g].key \in Key /\ visitors[held[g].key] # NoBucket
        /\ held[g].since <= visitors[held[g].key].seen /\ now - held[g].since <= Stall
    BY <2>1, <1>1 DEF HeldIsInTheMap
  <2>3. QED
    BY <2>1, <2>2, <1>8, <1>9
<1>13. QED
  BY <1>10, <1>11, <1>12 DEF RateInv

LEMMA EvictKeepsRateInv ==
  ASSUME RateInv, NEW k \in Key, Evict(k) PROVE RateInv'
<1>1. RateLimitTypeOK /\ StampsAreOrdered /\ HeldIsInTheMap
  BY DEF RateInv
<1>2. /\ visitors' \in [Key -> Bucket \cup {NoBucket}] /\ visitors'[k] = NoBucket
      /\ \A j \in Key : j # k => visitors'[j] = visitors[j]
  BY <1>1 DEF RateLimitTypeOK, Evict
<1>3. RateLimitTypeOK' /\ StampsAreOrdered'
  BY <1>1, <1>2 DEF Evict, RateLimitTypeOK, StampsAreOrdered
<1>4. HeldIsInTheMap'
  <2> SUFFICES ASSUME NEW g \in Handler, held[g] # Nothing
               PROVE  /\ held[g].key \in Key /\ visitors'[held[g].key] # NoBucket
                      /\ held[g].since <= visitors'[held[g].key].seen /\ now - held[g].since <= Stall
    BY DEF HeldIsInTheMap, Evict, Nothing
  <2>1. /\ held[g].key \in Key /\ visitors[held[g].key] # NoBucket
        /\ held[g].since <= visitors[held[g].key].seen /\ now - held[g].since <= Stall
    BY <1>1 DEF HeldIsInTheMap
  <2>2. held[g].key # k
    <3> SUFFICES ASSUME held[g].key = k PROVE FALSE
      OBVIOUS
    <3>1. visitors[k] \in Bucket /\ now \in Nat /\ held[g] \in Held
      BY <1>1, <2>1 DEF RateLimitTypeOK
    <3>2. /\ visitors[k].seen \in Nat /\ held[g].since \in Nat /\ Idle \in Nat /\ Stall \in Nat
          /\ Stall <= Idle /\ now - visitors[k].seen > Idle
      BY <3>1, Limits DEF Bucket, Held, Evict
    <3>3. QED
      BY <2>1, <3>1, <3>2
  <2>3. QED
    BY <1>2, <2>1, <2>2
<1>5. QED
  BY <1>3, <1>4 DEF RateInv

LEMMA SecondKeepsRateInv == RateInv /\ Second => RateInv'
<1> SUFFICES ASSUME RateInv, Second PROVE RateInv'
  OBVIOUS
<1>1. RateLimitTypeOK /\ StampsAreOrdered /\ HeldIsInTheMap
  BY DEF RateInv
<1>2. now \in Nat /\ now' = now + 1 /\ UNCHANGED <<visitors, held, passed, refused, mark>>
  BY <1>1 DEF Second, RateLimitTypeOK
<1>3. RateLimitTypeOK'
  BY <1>1, <1>2 DEF RateLimitTypeOK
<1>4. StampsAreOrdered'
  <2> SUFFICES ASSUME NEW k \in Key, visitors[k] # NoBucket
               PROVE  /\ visitors[k].seen <= now + 1 /\ visitors[k].last <= now + 1
                      /\ visitors[k].last <= visitors[k].seen + Stall
    BY <1>2 DEF StampsAreOrdered
  <2>1. visitors[k].seen \in Nat /\ visitors[k].last \in Nat
    BY <1>1 DEF RateLimitTypeOK, Bucket
  <2>2. QED
    BY <1>1, <1>2, <2>1 DEF StampsAreOrdered
<1>5. HeldIsInTheMap'
  <2> SUFFICES ASSUME NEW g \in Handler, held[g] # Nothing
               PROVE  /\ held[g].key \in Key /\ visitors[held[g].key] # NoBucket
                      /\ held[g].since <= visitors[held[g].key].seen /\ now' - held[g].since <= Stall
    BY <1>2 DEF HeldIsInTheMap, Nothing
  <2>1. held[g].since \in Nat /\ Stall \in Nat
    BY <1>1, Limits DEF RateLimitTypeOK, Held
  <2>2. now - held[g].since < Stall
    BY DEF Second
  <2>3. QED
    BY <1>1, <1>2, <2>1, <2>2 DEF HeldIsInTheMap
<1>6. QED
  BY <1>3, <1>4, <1>5 DEF RateInv

LEMMA RateInvKept == RateInv /\ [RateLimitNext \/ Restart]_limvars => RateInv'
<1> SUFFICES ASSUME RateInv, [RateLimitNext \/ Restart]_limvars PROVE RateInv'
  OBVIOUS
<1>1. ASSUME NEW h \in Handler, Allow(h) PROVE RateInv'
  BY <1>1, AllowKeepsRateInv
<1>2. ASSUME NEW h \in Handler, NEW k \in Key, Get(h, k) PROVE RateInv'
  BY <1>2, GetKeepsRateInv
<1>3. ASSUME NEW k \in Key, Evict(k) PROVE RateInv'
  BY <1>3, EvictKeepsRateInv
<1>4. CASE Second
  BY <1>4, SecondKeepsRateInv
<1>5. CASE Mark
  BY <1>5 DEF Mark, RateInv, RateLimitTypeOK, StampsAreOrdered, HeldIsInTheMap
<1>6. CASE Restart
  BY <1>6, AbsentIsNot DEF Restart, RateInv, RateLimitTypeOK, StampsAreOrdered, HeldIsInTheMap, Held, Nothing
<1>7. CASE UNCHANGED limvars
  BY <1>7 DEF limvars, RateInv, RateLimitTypeOK, StampsAreOrdered, HeldIsInTheMap
<1>8. QED
  BY <1>1, <1>2, <1>3, <1>4, <1>5, <1>6, <1>7 DEF RateLimitNext

LEMMA RateInvHolds == RateLimitSpec => []RateInv
<1>1. QED
  BY FirstRateInv, RateInvKept, PTL DEF RateLimitSpec

------------------------------------------------------------------------------
(* What is let through is metered                                           *)

LEMMA GetKeepsLevels ==
  ASSUME RateInv, NEW h \in Handler, NEW k \in Key, Get(h, k), NEW j \in Key
  PROVE  Level(visitors[j])' = Level(visitors[j])
<1>1. visitors \in [Key -> Bucket \cup {NoBucket}] /\ now \in Nat /\ now' = now
  BY DEF RateInv, RateLimitTypeOK, Get
<1>2. CASE j = k /\ visitors[k] = NoBucket
  <2> DEFINE b == [tokens |-> Full, last |-> now, seen |-> now]
  <2>1. visitors'[k] = b /\ b \in Bucket
    BY <1>1, <1>2, FullIsNat DEF Get, Bucket
  <2>2. b # NoBucket /\ b.tokens = Full /\ b.last = now
    BY <2>1, AbsentIsNot DEF Bucket
  <2> HIDE DEF b
  <2>3. Level(visitors[j])' = Fill(Full + (now - now) * PerMin)
    BY <1>1, <1>2, <2>1, <2>2 DEF Level, Fill, Full
  <2>4. (now - now) * PerMin = 0
    BY <1>1, Limits
  <2>5. QED
    BY <2>3, <2>4, <1>2, FullIsNat DEF Level, Fill
<1>3. CASE j = k /\ visitors[k] # NoBucket
  <2>1. visitors[k] \in Bucket
    BY <1>1, <1>3
  <2>2. visitors'[k] = [visitors[k] EXCEPT !.seen = now]
    BY <1>1, <1>3 DEF Get
  <2>3. /\ visitors'[k].tokens = visitors[k].tokens /\ visitors'[k].last = visitors[k].last
        /\ visitors'[k] \in Bucket
    BY <2>1, <2>2, <1>1 DEF Bucket
  <2>4. visitors'[k] # NoBucket
    BY <2>3, AbsentIsNot DEF Bucket
  <2>5. QED
    BY <1>1, <1>3, <2>3, <2>4 DEF Level, Fill, Full
<1>4. CASE j # k
  <2>1. visitors'[j] = visitors[j]
    BY <1>1, <1>4 DEF Get
  <2>2. QED
    BY <1>1, <2>1 DEF Level, Fill, Full
<1>5. QED
  BY <1>2, <1>3, <1>4

LEMMA EvictKeepsLevels ==
  ASSUME RateInv, NEW k \in Key, Evict(k), NEW j \in Key
  PROVE  Level(visitors[j])' = Level(visitors[j])
<1>1. visitors \in [Key -> Bucket \cup {NoBucket}] /\ now' = now
  BY DEF RateInv, RateLimitTypeOK, Evict
<1>2. CASE j = k
  <2>1. Level(visitors[k]) = Full
    BY SweptIsFull
  <2>2. visitors'[k] = NoBucket
    BY <1>1 DEF Evict
  <2>3. QED
    BY <1>2, <2>1, <2>2 DEF Level, Full
<1>3. CASE j # k
  <2>1. visitors'[j] = visitors[j]
    BY <1>1, <1>3 DEF Evict
  <2>2. QED
    BY <1>1, <2>1 DEF Level, Fill, Full
<1>4. QED
  BY <1>2, <1>3

\* A request that passes takes Minute of its bucket, and nothing else moves.
LEMMA AllowTakes ==
  ASSUME RateInv, NEW h \in Handler, Allow(h)
  PROVE  \E k \in Key :
           /\ \A j \in Key \ {k} : Level(visitors[j])' = Level(visitors[j])
           /\ \/ /\ Level(visitors[k]) >= Minute /\ Level(visitors[k])' = Level(visitors[k]) - Minute
                 /\ passed' = [passed EXCEPT ![k] = @ + 1] /\ refused' = refused
              \/ /\ Level(visitors[k]) < Minute /\ Level(visitors[k])' = Level(visitors[k])
                 /\ passed' = passed /\ refused' = [refused EXCEPT ![k] = @ + 1]
<1>1. PICK k \in Key :
           /\ k = held[h].key /\ held[h] # Nothing /\ visitors[k] \in Bucket
           /\ held' = [held EXCEPT ![h] = Nothing] /\ now' = now /\ mark' = mark
           /\ \/ /\ Level(visitors[k]) >= Minute
                 /\ visitors' = [visitors EXCEPT ![k] = [tokens |-> Level(visitors[k]) - Minute, last |-> now, seen |-> visitors[k].seen]]
                 /\ passed' = [passed EXCEPT ![k] = @ + 1] /\ refused' = refused
              \/ /\ ~(Level(visitors[k]) >= Minute)
                 /\ visitors' = visitors /\ passed' = passed
                 /\ refused' = [refused EXCEPT ![k] = @ + 1]
  BY AllowMoves
<1>2. visitors \in [Key -> Bucket \cup {NoBucket}] /\ now \in Nat /\ Level(visitors[k]) \in 0..Full
  BY LevelType DEF RateInv, RateLimitTypeOK
<1>3. \A j \in Key \ {k} : Level(visitors[j])' = Level(visitors[j])
  <2> SUFFICES ASSUME NEW j \in Key \ {k} PROVE Level(visitors[j])' = Level(visitors[j])
    OBVIOUS
  <2>1. visitors'[j] = visitors[j]
    BY <1>1, <1>2
  <2>2. QED
    BY <1>1, <2>1 DEF Level, Fill, Full
<1>4. CASE Level(visitors[k]) >= Minute
  <2> DEFINE n == Level(visitors[k]) - Minute
             b == [tokens |-> n, last |-> now, seen |-> visitors[k].seen]
  <2>1. n \in 0..Full /\ n \in Nat
    BY <1>2, <1>4, Limits, FullIsNat
  <2>2. visitors'[k] = b /\ b.tokens = n /\ b.last = now
    BY <1>1, <1>2, <1>4
  <2>3. b # NoBucket
    BY <2>1, <1>1, <1>2, AbsentIsNot DEF Bucket
  <2> HIDE DEF n, b
  <2>4. Level(visitors[k])' = Fill(n + (now - now) * PerMin)
    BY <1>1, <2>2, <2>3 DEF Level, Fill, Full
  <2>5. (now - now) * PerMin = 0
    BY <1>2, Limits
  <2>6. Level(visitors[k])' = n
    BY <2>1, <2>4, <2>5, FullIsNat DEF Fill
  <2>7. QED
    BY <1>1, <1>3, <1>4, <2>6 DEF n
<1>5. CASE ~(Level(visitors[k]) >= Minute)
  <2>1. Level(visitors[k])' = Level(visitors[k])
    BY <1>1, <1>5 DEF Level, Fill, Full
  <2>2. Level(visitors[k]) < Minute
    BY <1>2, <1>5, Limits, FullIsNat
  <2>3. QED
    BY <1>1, <1>3, <1>5, <2>1, <2>2
<1>6. QED
  BY <1>4, <1>5

LEMMA FirstTokens == RateLimitInit => TokensAreBounded
BY DEF RateLimitInit, TokensAreBounded

LEMMA TokensKept ==
  ASSUME RateInv, TokensAreBounded, [RateLimitNext \/ Restart]_limvars PROVE TokensAreBounded'
<1> DEFINE Room(k) == (passed[k] - mark.passed[k]) * Minute + Level(visitors[k]) <= Full + (now - mark.at) * PerMin
<1>1. /\ now \in Nat /\ passed \in [Key -> Nat] /\ PerMin \in Nat /\ Minute \in Nat /\ Full \in Nat
      /\ mark # NoMark => mark.at \in Nat /\ mark.passed \in [Key -> Nat]
  BY FullIsNat, Limits DEF RateInv, RateLimitTypeOK
<1>2. ASSUME UNCHANGED <<now, passed, mark>>, \A k \in Key : Level(visitors[k])' = Level(visitors[k])
      PROVE  TokensAreBounded'
  BY <1>2 DEF TokensAreBounded, Full
<1>3. ASSUME NEW h \in Handler, NEW k \in Key, Get(h, k) PROVE TokensAreBounded'
  BY <1>2, <1>3, GetKeepsLevels DEF Get
<1>4. ASSUME NEW k \in Key, Evict(k) PROVE TokensAreBounded'
  BY <1>2, <1>4, EvictKeepsLevels DEF Evict
<1>5. ASSUME NEW h \in Handler, Allow(h) PROVE TokensAreBounded'
  <2>1. PICK k \in Key :
           /\ \A j \in Key \ {k} : Level(visitors[j])' = Level(visitors[j])
           /\ \/ /\ Level(visitors[k]) >= Minute /\ Level(visitors[k])' = Level(visitors[k]) - Minute
                 /\ passed' = [passed EXCEPT ![k] = @ + 1] /\ refused' = refused
              \/ /\ Level(visitors[k]) < Minute /\ Level(visitors[k])' = Level(visitors[k])
                 /\ passed' = passed /\ refused' = [refused EXCEPT ![k] = @ + 1]
    BY <1>5, AllowTakes
  <2>2. now' = now /\ mark' = mark
    BY <1>5 DEF Allow
  <2> SUFFICES ASSUME mark # NoMark, NEW j \in Key
               PROVE  /\ mark.passed[j] <= passed'[j]
                      /\ (passed'[j] - mark.passed[j]) * Minute + Level(visitors[j])' <= Full + (now - mark.at) * PerMin
    BY <2>2 DEF TokensAreBounded, Full
  <2>3. /\ mark.passed[j] <= passed[j] /\ mark.at <= now
        /\ (passed[j] - mark.passed[j]) * Minute + Level(visitors[j]) <= Full + (now - mark.at) * PerMin
    BY DEF TokensAreBounded
  <2>4. CASE j = k /\ Level(visitors[k]) >= Minute
    <3> DEFINE n == passed[j] - mark.passed[j]
    <3>1. n \in Nat /\ passed[j] \in Nat /\ mark.passed[j] \in Nat /\ passed'[j] = passed[j] + 1
          /\ Level(visitors[j])' = Level(visitors[j]) - Minute /\ Level(visitors[j]) \in 0..Full
      BY <1>1, <2>1, <2>3, <2>4, LevelType
    <3>2. passed'[j] - mark.passed[j] = n + 1
      BY <3>1
    <3>3. (n + 1) * Minute = n * Minute + Minute /\ n * Minute \in Nat
      BY <3>1, <1>1, Distribute
    <3>4. (passed'[j] - mark.passed[j]) * Minute = n * Minute + Minute
      BY <3>2, <3>3, Zenon
    <3>5. n * Minute + Level(visitors[j]) <= Full + (now - mark.at) * PerMin
      BY <2>3
    <3> HIDE DEF n
    <3>6. QED
      BY <1>1, <2>3, <3>1, <3>3, <3>4, <3>5
  <2>5. CASE j # k \/ Level(visitors[k]) < Minute
    <3>1. passed'[j] = passed[j] /\ Level(visitors[j])' = Level(visitors[j])
      BY <1>1, <2>1, <2>5, LevelType
    <3>2. QED
      BY <2>3, <3>1
  <2>6. QED
    BY <2>4, <2>5, <1>1, LevelType
<1>6. CASE Second
  <2>1. now' = now + 1 /\ UNCHANGED <<passed, mark>>
    BY <1>6 DEF Second
  <2> SUFFICES ASSUME mark # NoMark, NEW j \in Key
               PROVE  /\ mark.at <= now' /\ mark.passed[j] <= passed[j]
                      /\ (passed[j] - mark.passed[j]) * Minute + Level(visitors[j])' <= Full + (now' - mark.at) * PerMin
    BY <1>1, <2>1 DEF TokensAreBounded, Full
  <2>2. /\ mark.passed[j] <= passed[j] /\ mark.at <= now /\ mark.at \in Nat
        /\ (passed[j] - mark.passed[j]) * Minute + Level(visitors[j]) <= Full + (now - mark.at) * PerMin
    BY <1>1 DEF TokensAreBounded
  <2>3. Level(visitors[j]) \in Nat /\ Level(visitors[j])' = Fill(Level(visitors[j]) + PerMin)
    BY <1>1, <1>6, LevelType, SecondFills
  <2>4. Level(visitors[j])' <= Level(visitors[j]) + PerMin /\ Level(visitors[j])' \in Nat
    BY <1>1, <2>3, FillType
  <2>5. now' - mark.at = (now - mark.at) + 1 /\ now - mark.at \in Nat
    BY <1>1, <2>1, <2>2
  <2>6. ((now - mark.at) + 1) * PerMin = (now - mark.at) * PerMin + PerMin /\ (now - mark.at) * PerMin \in Nat
    BY <1>1, <2>5, Distribute
  <2>7. (now' - mark.at) * PerMin = (now - mark.at) * PerMin + PerMin
    BY <2>5, <2>6, Zenon
  <2>8. passed[j] - mark.passed[j] \in Nat
    BY <1>1, <2>2
  <2>9. (passed[j] - mark.passed[j]) * Minute \in Nat
    BY <1>1, <2>8
  <2>10. QED
    BY <1>1, <2>1, <2>2, <2>3, <2>4, <2>6, <2>7, <2>9
<1>7. CASE Mark
  <2>1. mark' = [at |-> now, passed |-> passed] /\ UNCHANGED <<now, visitors, passed>>
    BY <1>7 DEF Mark
  <2> SUFFICES ASSUME NEW j \in Key
               PROVE  (passed[j] - passed[j]) * Minute + Level(visitors[j]) <= Full + (now - now) * PerMin
    BY <1>1, <2>1 DEF TokensAreBounded, Level, Fill, Full
  <2>2. (passed[j] - passed[j]) * Minute = 0 /\ (now - now) * PerMin = 0
    BY <1>1
  <2>3. QED
    BY <1>1, <2>2, LevelType
<1>8. CASE Restart
  BY <1>8 DEF Restart, TokensAreBounded
<1>9. CASE UNCHANGED limvars
  BY <1>9 DEF limvars, TokensAreBounded, Level, Fill, Full
<1>10. QED
  BY <1>3, <1>4, <1>5, <1>6, <1>7, <1>8, <1>9 DEF RateLimitNext

\* ratelimit.go:16 and server.go:83: in any stretch of time a key gets through at most its
\* burst and what the rate adds, however often its bucket was forgotten and made anew.
THEOREM LimiterMeters == RateLimitSpec => []Metered
<1>1. RateInv /\ TokensAreBounded => Metered
  <2> SUFFICES ASSUME RateInv, TokensAreBounded, mark # NoMark, NEW k \in Key
               PROVE  (passed[k] - mark.passed[k]) * Minute <= Full + (now - mark.at) * PerMin
    BY DEF Metered
  <2>1. /\ (passed[k] - mark.passed[k]) * Minute + Level(visitors[k]) <= Full + (now - mark.at) * PerMin
        /\ mark.passed[k] <= passed[k] /\ mark.at <= now
    BY DEF TokensAreBounded
  <2>2. /\ now - mark.at \in Nat /\ passed[k] - mark.passed[k] \in Nat /\ Level(visitors[k]) \in Nat
        /\ Minute \in Nat /\ PerMin \in Nat /\ Full \in Nat
    BY <2>1, LevelType, FullIsNat, Limits DEF RateInv, RateLimitTypeOK
  <2>3. (passed[k] - mark.passed[k]) * Minute \in Nat /\ (now - mark.at) * PerMin \in Nat
    BY <2>2
  <2>4. QED
    BY <2>1, <2>2, <2>3
<1>2. QED
  BY <1>1, RateInvHolds, FirstTokens, TokensKept, PTL DEF RateLimitSpec

------------------------------------------------------------------------------
(* Nobody can tell that buckets are forgotten                               *)

LEMMA PlainFull == Plain!Full = Full /\ \A n \in Nat : Plain!Fill(n) = Fill(n)
BY DEF Plain!Full, Plain!Fill, Full, Fill

LEMMA PlainInit == RateLimitInit => Plain!Init
BY PlainFull DEF RateLimitInit, Plain!Init, Level

LEMMA PlainStep ==
  ASSUME RateInv, [RateLimitNext \/ Restart]_limvars PROVE [Plain!Next]_Plain!vars
<1> DEFINE levels == [k \in Key |-> Level(visitors[k])]
<1>1. ASSUME UNCHANGED <<passed, refused>>, \A k \in Key : Level(visitors[k])' = Level(visitors[k])
      PROVE  UNCHANGED Plain!vars
  <2>1. levels' = levels
    BY <1>1
  <2>2. QED
    BY <1>1, <2>1 DEF Plain!vars
<1>2. ASSUME NEW h \in Handler, NEW k \in Key, Get(h, k) PROVE UNCHANGED Plain!vars
  BY <1>1, <1>2, GetKeepsLevels DEF Get
<1>3. ASSUME NEW k \in Key, Evict(k) PROVE UNCHANGED Plain!vars
  BY <1>1, <1>3, EvictKeepsLevels DEF Evict
<1>4. ASSUME NEW h \in Handler, Allow(h) PROVE Plain!Next
  <2>1. PICK k \in Key :
           /\ \A j \in Key \ {k} : Level(visitors[j])' = Level(visitors[j])
           /\ \/ /\ Level(visitors[k]) >= Minute /\ Level(visitors[k])' = Level(visitors[k]) - Minute
                 /\ passed' = [passed EXCEPT ![k] = @ + 1] /\ refused' = refused
              \/ /\ Level(visitors[k]) < Minute /\ Level(visitors[k])' = Level(visitors[k])
                 /\ passed' = passed /\ refused' = [refused EXCEPT ![k] = @ + 1]
    BY <1>4, AllowTakes
  <2>2. CASE Level(visitors[k]) >= Minute
    <3>1. Level(visitors[k])' = Level(visitors[k]) - Minute /\ passed' = [passed EXCEPT ![k] = @ + 1] /\ refused' = refused
      BY <2>1, <2>2, LevelType, FullIsNat, Limits
    <3>2. levels' = [levels EXCEPT ![k] = @ - Minute]
      BY <2>1, <3>1
    <3>3. Plain!Pass(k)
      BY <2>2, <3>1, <3>2 DEF Plain!Pass
    <3>4. QED
      BY <3>3 DEF Plain!Next
  <2>3. CASE Level(visitors[k]) < Minute
    <3>1. Level(visitors[k])' = Level(visitors[k]) /\ passed' = passed /\ refused' = [refused EXCEPT ![k] = @ + 1]
      BY <2>1, <2>3, LevelType, FullIsNat, Limits
    <3>2. levels' = levels
      BY <2>1, <3>1
    <3>3. Plain!Refuse(k)
      BY <2>3, <3>1, <3>2 DEF Plain!Refuse
    <3>4. QED
      BY <3>3 DEF Plain!Next
  <2>4. QED
    BY <2>1, <2>2, <2>3
<1>5. CASE Second
  <2>1. \A k \in Key : Level(visitors[k])' = Fill(Level(visitors[k]) + PerMin) /\ Level(visitors[k]) + PerMin \in Nat
    BY <1>5, SecondFills, LevelType, FullIsNat, Limits
  <2>2. levels' = [k \in Key |-> Plain!Fill(levels[k] + PerMin)]
    BY <2>1, PlainFull
  <2>3. Plain!Second
    BY <1>5, <2>2 DEF Second, Plain!Second
  <2>4. QED
    BY <2>3 DEF Plain!Next
<1>6. CASE Mark
  <2>1. \A k \in Key : Level(visitors[k])' = Level(visitors[k])
    BY <1>6 DEF Mark, Level, Fill, Full
  <2>2. QED
    BY <1>1, <1>6, <2>1 DEF Mark
<1>7. CASE Restart
  <2>1. levels' = [k \in Key |-> Full]
    BY <1>7 DEF Restart, Level, Full
  <2>2. Plain!Restart
    BY <1>7, <2>1, PlainFull DEF Restart, Plain!Restart
  <2>3. QED
    BY <2>2 DEF Plain!Next
<1>8. CASE UNCHANGED limvars
  <2>1. \A k \in Key : Level(visitors[k])' = Level(visitors[k])
    BY <1>8 DEF limvars, Level, Fill, Full
  <2>2. QED
    BY <1>1, <1>8, <2>1 DEF limvars
<1>9. QED
  BY <1>2, <1>3, <1>4, <1>5, <1>6, <1>7, <1>8 DEF RateLimitNext

\* ratelimit.go:54: requests pass and are refused as if every key had kept its bucket from
\* the start.
THEOREM ForgettingIsUnseen == RateLimitSpec => EvictionUnseen
<1>1. RateLimitSpec => Plain!Init /\ [][Plain!Next]_Plain!vars
  BY RateInvHolds, PlainInit, PlainStep, PTL DEF RateLimitSpec
<1>2. QED
  BY <1>1 DEF EvictionUnseen, Plain!Spec

------------------------------------------------------------------------------
(* A start, statement by statement                                          *)

\* Where each statement of a start is.
LEMMA OpenIs ==
  /\ DOMAIN Open = 1..27 /\ Len(Open) = 27
  /\ Open[1] = "submissions" /\ Open[2] = "users" /\ Open[3] = "oauth_accounts" /\ Open[4] = "sessions"
  /\ Open[5] = "signin_index" /\ Open[6] = "user_sheets" /\ Open[7] = "auth_tokens"
  /\ Open[8] = "destinations" /\ Open[9] = "inbound_addresses" /\ Open[10] = "ingestion_events"
  /\ Open[11] = "blocked_senders" /\ Open[12] = "find_columns" /\ Open[13] = "add_columns"
  /\ Open[14] = "retire_needs_review" /\ Open[15] = "backfill_source" /\ Open[16] = "queue_seen_at"
  /\ Open[17] = "stamp_settled" /\ Open[18] = "rename_sub" /\ Open[19] = "find_unique"
  /\ Open[20] = "create_new" /\ Open[21] = "copy" /\ Open[22] = "drop" /\ Open[23] = "swap"
  /\ Open[24] = "reindex" /\ Open[25] = "commit" /\ Open[26] = "find_sheets" /\ Open[27] = "carry_sheets"
BY DEF Open

LEMMA EachOnce == \A i, j \in 1..27 : Open[i] = Open[j] => i = j
BY OpenIs

LEMMA AfterIs == ASSUME NEW k \in 1..26 PROVE After(Open[k]) = Open[k+1]
BY OpenIs, EachOnce DEF After

LEMMA AfterLast == After(Open[27]) = "serving"
BY OpenIs, EachOnce DEF After

LEMMA Order ==
  /\ After("submissions") = "users" /\ After("users") = "oauth_accounts" /\ After("oauth_accounts") = "sessions"
  /\ After("sessions") = "signin_index" /\ After("signin_index") = "user_sheets"
  /\ After("user_sheets") = "auth_tokens" /\ After("auth_tokens") = "destinations"
  /\ After("destinations") = "inbound_addresses" /\ After("inbound_addresses") = "ingestion_events"
  /\ After("ingestion_events") = "blocked_senders" /\ After("blocked_senders") = "find_columns"
  /\ After("find_columns") = "add_columns" /\ After("add_columns") = "retire_needs_review"
  /\ After("retire_needs_review") = "backfill_source" /\ After("backfill_source") = "queue_seen_at"
  /\ After("queue_seen_at") = "stamp_settled" /\ After("stamp_settled") = "rename_sub"
  /\ After("rename_sub") = "find_unique" /\ After("find_unique") = "create_new"
  /\ After("create_new") = "copy" /\ After("copy") = "drop" /\ After("drop") = "swap"
  /\ After("swap") = "reindex" /\ After("reindex") = "commit" /\ After("commit") = "find_sheets"
  /\ After("find_sheets") = "carry_sheets" /\ After("carry_sheets") = "serving"
BY OpenIs, AfterIs, AfterLast

\* What is still to come when some statement has run, the serving included.
Ending == {"find_sheets", "carry_sheets", "serving"}
Rebuilding == {"create_new", "copy", "drop", "swap", "reindex", "commit"}
PastRename == {"find_unique"} \cup Rebuilding \cup Ending
PastStamp == {"rename_sub"} \cup PastRename
PastSeen == {"stamp_settled"} \cup PastStamp
PastSource == {"queue_seen_at"} \cup PastSeen
PastReview == {"backfill_source"} \cup PastSource
PastColumns == {"retire_needs_review"} \cup PastReview
PastIndex == {"user_sheets", "auth_tokens", "destinations", "inbound_addresses", "ingestion_events",
            "blocked_senders", "find_columns", "add_columns"} \cup PastColumns
PastOAuth == {"sessions", "signin_index"} \cup PastIndex

\* What the statements before the next one have made of the file, in this start or another.
FileIsOnItsWay ==
  /\ step \in PastOAuth => file.oauth.rows # Absent
  /\ step \in PastIndex => file.oauth.signin
  /\ step \in PastColumns => file.columns = Column
  /\ \A l \in Lead : file.subs[l] # Absent =>
       /\ step \in PastReview => file.subs[l].status # "needs_review"
       /\ step \in PastSource => file.subs[l].source # "null"
       /\ step \in PastStamp /\ file.subs[l].status \in Settled => file.subs[l].stamped
  /\ step \in PastSeen => file.seen
  /\ step \in PastRename => file.oauth.subject = "provider_sub"
  /\ step \in Ending => ~file.oauth.bare

\* The rebuild holds the rows of the file at every statement, in one table or the other.
RebuildKeepsRows ==
  step \in Rebuilding =>
    /\ tx \in OAuth /\ tx.subject = "provider_sub"
    /\ step \in {"create_new", "copy", "drop", "reindex", "commit"} => tx.rows = file.oauth.rows
    /\ step \in {"drop", "swap"} => tx.new = file.oauth.rows
    /\ step \in {"swap", "reindex", "commit"} => ~tx.bare
    /\ step = "commit" => tx.signin

\* A unique index holds for the rows it is on.
IndexHolds == file.oauth.rows # Absent /\ file.oauth.signin => ~Clash(file.oauth.rows)

\* The links are what accounts made of them; a table that is not there yet has none.
LinksAreKept == chosen.links = IF file.oauth.rows = Absent THEN {} ELSE file.oauth.rows

\* An account's destination is what it chose; one that never chose has its old sheet, which
\* the backfill is about to carry over, and has by the time the process serves.
DestinationsAreKept ==
  /\ \A u \in User : chosen.dests[u] = IF file.dests[u] # Absent THEN file.dests[u] ELSE file.sheets[u]
  /\ step = "carry_sheets" => pending = {u \in User : file.dests[u] = Absent /\ file.sheets[u] # Absent}
  /\ Serving => \A u \in User : file.dests[u] = Absent => file.sheets[u] = Absent

------------------------------------------------------------------------------
(* The file keeps its shape                                                 *)

\* The open transaction is a copy of the table as long as it is rebuilt.
FileTypes == MigrationsTypeOK /\ (step \in Rebuilding => tx \in OAuth)

\* The fields, as the provers want them.
Typed ==
  /\ file \in File /\ file.oauth \in OAuth /\ file.subs \in [Lead -> Row \cup {Absent}]
  /\ file.dests \in [User -> Destination \cup {Absent}]
  /\ file.sheets \in [User -> Destination \cup {Absent}]
  /\ file.tables \subseteq Table /\ file.columns \subseteq Column

LEMMA FieldsAreTyped == ASSUME MigrationsTypeOK PROVE Typed
BY DEF Typed, MigrationsTypeOK, File

\* What a statement may put in a field.
LEMMA FileWith ==
  ASSUME NEW f \in File
  PROVE  /\ \A x \in SUBSET Table, y \in SUBSET Column : [f EXCEPT !.tables = x, !.columns = y] \in File
         /\ \A y \in SUBSET Column : [f EXCEPT !.columns = y] \in File
         /\ \A x \in [Lead -> Row \cup {Absent}] : [f EXCEPT !.subs = x] \in File
         /\ \A x \in OAuth : [f EXCEPT !.oauth = x] \in File
         /\ \A x \in [User -> Destination \cup {Absent}] : [f EXCEPT !.dests = x] \in File
         /\ [f EXCEPT !.seen = TRUE] \in File
BY DEF File

LEMMA OAuthWith ==
  ASSUME NEW o \in OAuth
  PROVE  /\ \A x \in (SUBSET Link) \cup {Absent} : [o EXCEPT !.rows = x] \in OAuth
         /\ \A x \in (SUBSET Link) \cup {Absent} : [o EXCEPT !.new = x] \in OAuth
         /\ \A x, y \in (SUBSET Link) \cup {Absent} : [o EXCEPT !.rows = x, !.new = y] \in OAuth
         /\ [o EXCEPT !.signin = TRUE] \in OAuth
         /\ [o EXCEPT !.subject = "provider_sub"] \in OAuth
         /\ \A x \in (SUBSET Link) \cup {Absent} :
              /\ [o EXCEPT !.rows = x, !.bare = FALSE, !.signin = FALSE] \in OAuth
              /\ [o EXCEPT !.rows = x, !.subject = "provider_sub", !.bare = FALSE, !.signin = FALSE] \in OAuth
BY DEF OAuth

\* The four statements that rewrite rows make rows of rows.
LEMMA RowsStayTyped ==
  ASSUME Typed, RetireNeedsReview \/ BackfillSource \/ StampSettled \/ Purge
  PROVE  file' \in File
<1> DEFINE With(new(_)) == [l \in Lead |-> IF file.subs[l] = Absent THEN Absent ELSE new(file.subs[l])]
           retired(r) == IF r.status = "needs_review" THEN [r EXCEPT !.status = "pending"] ELSE r
           sourced(r) == IF r.source = "null" THEN [r EXCEPT !.source = "paste"] ELSE r
           stamped(r) == IF r.status \in Settled THEN [r EXCEPT !.stamped = TRUE] ELSE r
           purged(r)  == IF r.status \in Settled /\ r.stamped THEN [r EXCEPT !.raw = FALSE] ELSE r
<1>1. ASSUME NEW x \in [Lead -> Row \cup {Absent}], file' = [file EXCEPT !.subs = x] PROVE file' \in File
  BY <1>1, FileWith DEF Typed
<1>2. \A r \in Row : retired(r) \in Row /\ sourced(r) \in Row /\ stamped(r) \in Row /\ purged(r) \in Row
  BY DEF Row
<1>3. \A l \in Lead : file.subs[l] # Absent => file.subs[l] \in Row
  BY DEF Typed
<1>4. \/ file' = [file EXCEPT !.subs = With(retired)] \/ file' = [file EXCEPT !.subs = With(sourced)]
      \/ file' = [file EXCEPT !.subs = With(stamped)] \/ file' = [file EXCEPT !.subs = With(purged)]
  BY DEF RetireNeedsReview, BackfillSource, StampSettled, Purge, UpdateRows
<1> HIDE DEF retired, sourced, stamped, purged
<1>5. With(retired) \in [Lead -> Row \cup {Absent}]
  BY <1>2, <1>3
<1>6. With(sourced) \in [Lead -> Row \cup {Absent}]
  BY <1>2, <1>3
<1>7. With(stamped) \in [Lead -> Row \cup {Absent}]
  BY <1>2, <1>3
<1>8. With(purged) \in [Lead -> Row \cup {Absent}]
  BY <1>2, <1>3
<1>9. QED
  BY <1>1, <1>4, <1>5, <1>6, <1>7, <1>8

LEMMA FileStaysTyped ==
  ASSUME FileTypes, OpenStep
  PROVE  file' \in File
<1> USE FieldsAreTyped, FileWith, OAuthWith DEF FileTypes
<1>1. CASE CreateTable
  <2> DEFINE c == IF At("submissions") /\ "submissions" \notin file.tables THEN CreatedColumn ELSE file.columns
  <2>1. c \in SUBSET Column /\ file.tables \cup {step} \in SUBSET Table
    BY <1>1 DEF CreateTable, Typed, CreatedColumn, Column
  <2>2. file' = [file EXCEPT !.tables = file.tables \cup {step}, !.columns = c]
    BY <1>1 DEF CreateTable
  <2>3. QED
    BY <2>1, <2>2 DEF Typed
<1>2. CASE CreateOAuthTable
  <2>1. CASE file.oauth.rows = Absent
    <3> DEFINE o == [file.oauth EXCEPT !.rows = {}, !.subject = "provider_sub", !.bare = FALSE, !.signin = FALSE]
    <3>1. file' = [file EXCEPT !.oauth = o]
      BY <1>2, <2>1, Zenon DEF CreateOAuthTable
    <3>2. o \in OAuth
      BY DEF Typed
    <3>3. QED
      BY <3>1, <3>2 DEF Typed
  <2>2. QED
    BY <1>2, <2>1 DEF CreateOAuthTable, Typed
<1>3. CASE CreateSigninIndex
  BY <1>3 DEF Typed, CreateSigninIndex, Fail
<1>4. CASE AddColumn
  <2>1. ASSUME NEW c \in Column, file' = [file EXCEPT !.columns = @ \cup {c}] PROVE file' \in File
    <3>1. file.columns \cup {c} \in SUBSET Column
      BY DEF Typed
    <3>2. QED
      BY <2>1, <3>1 DEF Typed
  <2>2. QED
    BY <1>4, <2>1 DEF Typed, AddColumn
<1>5. CASE RetireNeedsReview \/ BackfillSource \/ StampSettled
  BY <1>5, RowsStayTyped
<1>6. CASE AddQueueSeenAt
  BY <1>6 DEF AddQueueSeenAt, Typed
<1>7. CASE RenameSub
  <2>1. file' = [file EXCEPT !.oauth = [file.oauth EXCEPT !.subject = "provider_sub"]]
    BY <1>7 DEF RenameSub
  <2>2. QED
    BY <2>1 DEF Typed
<1>8. CASE Commit
  BY <1>8 DEF Commit, Typed, At, Rebuilding
<1>9. CASE CarrySheet
  <2>1. ASSUME NEW u \in User, file' = [file EXCEPT !.dests[u] = file.sheets[u]] PROVE file' \in File
    <3>1. [file.dests EXCEPT ![u] = file.sheets[u]] \in [User -> Destination \cup {Absent}]
      BY DEF Typed
    <3>2. QED
      BY <2>1, <3>1 DEF Typed
  <2>2. QED
    BY <1>9, <2>1 DEF Typed, CarrySheet, MigrationsTypeOK
<1>10. ASSUME UNCHANGED file PROVE file' \in File
  BY <1>10 DEF Typed
<1>11. QED
  BY <1>1, <1>2, <1>3, <1>4, <1>5, <1>6, <1>7, <1>8, <1>9, <1>10
     DEF OpenStep, Start, FindColumns, FindUnique, CreateNew, Copy, Drop, Swap, Reindex, FindSheets, Exec, Fail

LEMMA OpenKeepsTypes ==
  ASSUME FileTypes, OpenStep
  PROVE  FileTypes'
<1> USE DEF FileTypes
<1>1. file' \in File
  BY FileStaysTyped
<1>2. have' \subseteq Column /\ pending' \subseteq User /\ crashes' = crashes /\ chosen' = chosen
  BY FieldsAreTyped DEF OpenStep, MigrationsTypeOK, Typed, boot, Fail, Exec,
    Start, CreateTable, CreateOAuthTable, CreateSigninIndex, FindColumns, AddColumn, RetireNeedsReview,
    BackfillSource, AddQueueSeenAt, StampSettled, RenameSub, FindUnique, CreateNew, Copy, Drop, Swap, Reindex,
    Commit, FindSheets, CarrySheet
<1>3. step' \in Steps
  BY Order, OpenIs DEF MigrationsTypeOK, OpenStep, boot, Fail, Exec, At, Advance, Steps, Table,
    Start, CreateTable, CreateOAuthTable, CreateSigninIndex, FindColumns, AddColumn, RetireNeedsReview,
    BackfillSource, AddQueueSeenAt, StampSettled, RenameSub, FindUnique, CreateNew, Copy, Drop, Swap, Reindex,
    Commit, FindSheets, CarrySheet
<1>4. tx' \in OAuth \cup {Absent} /\ (step' \in Rebuilding => tx' \in OAuth)
  <2>1. CASE CreateNew \/ Copy \/ Drop \/ Swap \/ Reindex
    <3>1. tx \in OAuth
      BY <2>1 DEF CreateNew, Copy, Drop, Swap, Reindex, At, Rebuilding
    <3>2. tx.rows \in (SUBSET Link) \cup {Absent} /\ tx.new \in (SUBSET Link) \cup {Absent}
      BY <3>1 DEF OAuth
    <3>3. CASE CreateNew /\ tx.new # Absent
      BY <3>3 DEF CreateNew, Fail, Rebuilding
    <3>4. CASE CreateNew /\ tx.new = Absent
      BY <3>1, <3>4, OAuthWith DEF CreateNew, Exec
    <3>5. CASE Copy
      BY <3>1, <3>2, <3>5, OAuthWith DEF Copy, Exec
    <3>6. CASE Drop
      <4>1. tx' = [tx EXCEPT !.rows = Absent, !.bare = FALSE, !.signin = FALSE]
        BY <3>6, Zenon DEF Drop, Exec
      <4>2. QED
        BY <3>1, <4>1, OAuthWith
    <3>7. CASE Swap
      <4>1. tx' = [tx EXCEPT !.rows = tx.new, !.new = Absent]
        BY <3>7, Zenon DEF Swap, Exec
      <4>2. QED
        BY <3>1, <3>2, <4>1, OAuthWith
    <3>8. CASE Reindex
      BY <3>1, <3>8, OAuthWith DEF Reindex, Exec
    <3>9. QED
      BY <2>1, <3>3, <3>4, <3>5, <3>6, <3>7, <3>8
  <2>2. CASE FindUnique
    BY <2>2, FieldsAreTyped DEF FindUnique, MigrationsTypeOK, Typed, Rebuilding
  <2>3. CASE ~(CreateNew \/ Copy \/ Drop \/ Swap \/ Reindex \/ FindUnique)
    BY <2>3, Order, OpenIs DEF MigrationsTypeOK, OpenStep, boot, Fail, At, Advance, Rebuilding, Table,
      Start, CreateTable, CreateOAuthTable, CreateSigninIndex, FindColumns, AddColumn, RetireNeedsReview,
      BackfillSource, AddQueueSeenAt, StampSettled, RenameSub, Commit, FindSheets, CarrySheet
  <2>4. QED
    BY <2>1, <2>2, <2>3
<1>5. QED
  BY <1>1, <1>2, <1>3, <1>4 DEF MigrationsTypeOK

\* What accounts do is typed, once the table of their links is there.
LEMMA ServeKeepsTypes ==
  ASSUME FileTypes, file.oauth.rows # Absent, LinkStep \/ DestinationStep \/ LeadStep \/ Purge
  PROVE  FileTypes'
<1>1. Typed
  BY FieldsAreTyped DEF FileTypes
<1>2. file.oauth.rows \in SUBSET Link /\ chosen.links \in SUBSET Link
      /\ chosen.dests \in [User -> Destination \cup {Absent}]
  BY <1>1 DEF Typed, OAuth, FileTypes, MigrationsTypeOK
<1>3. ASSUME NEW r \in SUBSET Link, file' = [file EXCEPT !.oauth = [file.oauth EXCEPT !.rows = r]] PROVE file' \in File
  <2>1. [file.oauth EXCEPT !.rows = r] \in OAuth
    BY <1>1, OAuthWith DEF Typed
  <2>2. QED
    BY <1>1, <1>3, <2>1, FileWith DEF Typed
<1>4. ASSUME NEW r \in SUBSET Link, chosen' = [chosen EXCEPT !.links = r]
      PROVE  chosen' \in [dests: [User -> Destination \cup {Absent}], links: SUBSET Link]
  BY <1>4 DEF FileTypes, MigrationsTypeOK
<1>5. UNCHANGED <<step, have, pending, tx, crashes>>
  BY DEF LinkStep, DestinationStep, LeadStep, Purge, Connect, Disconnect, SetDestination, Insert, Settle, Serve, boot
<1>6. file' \in File /\ chosen' \in [dests: [User -> Destination \cup {Absent}], links: SUBSET Link]
  <2>1. ASSUME NEW l \in Link, Connect(l)
        PROVE  file' \in File /\ chosen' \in [dests: [User -> Destination \cup {Absent}], links: SUBSET Link]
    <3> DEFINE r == {m \in file.oauth.rows : <<m.user, m.provider>> # <<l.user, l.provider>>} \cup {l}
    <3>1. r \in SUBSET Link
      BY <1>2
    <3>2. file' = [file EXCEPT !.oauth = [file.oauth EXCEPT !.rows = r]] /\ chosen' = [chosen EXCEPT !.links = r]
      BY <2>1 DEF Connect, Serve
    <3> HIDE DEF r
    <3>3. QED
      BY <1>3, <1>4, <3>1, <3>2
  <2>2. ASSUME NEW l \in Link, Disconnect(l)
        PROVE  file' \in File /\ chosen' \in [dests: [User -> Destination \cup {Absent}], links: SUBSET Link]
    <3>1. file.oauth.rows \ {l} \in SUBSET Link /\ chosen.links \ {l} \in SUBSET Link
      BY <1>2
    <3>2. /\ file' = [file EXCEPT !.oauth = [file.oauth EXCEPT !.rows = file.oauth.rows \ {l}]]
          /\ chosen' = [chosen EXCEPT !.links = chosen.links \ {l}]
      BY <2>2 DEF Disconnect, Serve
    <3>3. QED
      BY <1>3, <1>4, <3>1, <3>2
  <2>3. ASSUME NEW u \in User, NEW d \in Destination, SetDestination(u, d)
        PROVE  file' \in File /\ chosen' \in [dests: [User -> Destination \cup {Absent}], links: SUBSET Link]
    <3>1. /\ [file.dests EXCEPT ![u] = d] \in [User -> Destination \cup {Absent}]
          /\ [chosen.dests EXCEPT ![u] = d] \in [User -> Destination \cup {Absent}]
      BY <1>1, <1>2 DEF Typed
    <3>2. /\ file' = [file EXCEPT !.dests = [file.dests EXCEPT ![u] = d]]
          /\ chosen' = [chosen EXCEPT !.dests = [chosen.dests EXCEPT ![u] = d]]
      BY <2>3 DEF SetDestination, Serve
    <3>3. QED
      BY <1>1, <1>2, <3>1, <3>2, FileWith DEF Typed, FileTypes, MigrationsTypeOK
  <2>4. ASSUME NEW l \in Lead, NEW r \in Row, file' = [file EXCEPT !.subs = [file.subs EXCEPT ![l] = r]]
        PROVE  file' \in File
    BY <1>1, <2>4, FileWith DEF Typed
  <2>5. ASSUME NEW l \in Lead, NEW c \in {"paste", "email"}, Insert(l, c) PROVE file' \in File /\ chosen' = chosen
    <3>1. [status |-> "pending", source |-> c, stamped |-> FALSE, raw |-> TRUE] \in Row
      BY DEF Row
    <3>2. QED
      BY <2>4, <2>5, <3>1 DEF Insert, Serve
  <2>6. ASSUME NEW l \in Lead, NEW s \in Settled, Settle(l, s) PROVE file' \in File /\ chosen' = chosen
    <3> DEFINE r == [file.subs[l] EXCEPT !.status = s, !.stamped = TRUE]
    <3>1. file.subs[l] \in Row
      BY <1>1, <2>6 DEF Typed, Settle
    <3>2. r \in Row
      BY <3>1 DEF Row, Settled
    <3>3. file' = [file EXCEPT !.subs = [file.subs EXCEPT ![l] = r]] /\ chosen' = chosen
      BY <2>6, Zenon DEF Settle, Serve
    <3>4. QED
      BY <2>4, <3>2, <3>3
  <2>7. CASE Purge
    BY <1>1, <2>7, RowsStayTyped DEF Purge, boot, FileTypes, MigrationsTypeOK
  <2>8. chosen \in [dests: [User -> Destination \cup {Absent}], links: SUBSET Link]
    BY DEF FileTypes, MigrationsTypeOK
  <2>9. QED
    BY <2>1, <2>2, <2>3, <2>5, <2>6, <2>7, <2>8 DEF LinkStep, DestinationStep, LeadStep
<1>7. QED
  BY <1>5, <1>6 DEF FileTypes, MigrationsTypeOK

LEMMA CrashKeepsTypes == ASSUME FileTypes, Crash PROVE FileTypes'
BY Files DEF FileTypes, MigrationsTypeOK, Crash, Steps, Rebuilding

LEMMA FirstTypes == MigrationsInit => FileTypes
<1> SUFFICES ASSUME MigrationsInit PROVE FileTypes
  OBVIOUS
<1>1. file \in File
  BY Files DEF MigrationsInit
<1>2. /\ file.dests \in [User -> Destination \cup {Absent}] /\ file.sheets \in [User -> Destination \cup {Absent}]
      /\ (file.oauth.rows # Absent => file.oauth.rows \in SUBSET Link)
  BY <1>1 DEF File, OAuth
<1>3. chosen \in [dests: [User -> Destination \cup {Absent}], links: SUBSET Link]
  BY <1>2 DEF MigrationsInit
<1>4. QED
  BY <1>1, <1>3, Files DEF MigrationsInit, FileTypes, MigrationsTypeOK, Steps, Rebuilding

\* What is true of the file, beside its shape.
FileFacts == FileIsOnItsWay /\ RebuildKeepsRows /\ IndexHolds /\ LinksAreKept /\ DestinationsAreKept
FileInv == FileTypes /\ FileFacts

------------------------------------------------------------------------------
(* Every statement, every request and every death keeps the facts           *)

\* Statements that rewrite rows of submissions leave the rest of the file alone, and a row
\* keeps what is not said of it here.
LEMMA RowsMove ==
  ASSUME Typed, RetireNeedsReview \/ BackfillSource \/ StampSettled
  PROVE  /\ step' = After(step) /\ UNCHANGED boot
         /\ file'.oauth = file.oauth /\ file'.columns = file.columns /\ file'.seen = file.seen
         /\ file'.dests = file.dests /\ file'.sheets = file.sheets
         /\ \A l \in Lead : file'.subs[l] # Absent =>
              LET r == file.subs[l]
                  q == file'.subs[l]
              IN /\ r # Absent
                 /\ RetireNeedsReview => q.status # "needs_review"
                 /\ BackfillSource => q.status = r.status /\ q.source # "null"
                 /\ StampSettled => /\ q.status = r.status /\ q.source = r.source
                                    /\ q.status \in Settled => q.stamped
<1> DEFINE With(new(_)) == [l \in Lead |-> IF file.subs[l] = Absent THEN Absent ELSE new(file.subs[l])]
           retired(r) == IF r.status = "needs_review" THEN [r EXCEPT !.status = "pending"] ELSE r
           sourced(r) == IF r.source = "null" THEN [r EXCEPT !.source = "paste"] ELSE r
           stamped(r) == IF r.status \in Settled THEN [r EXCEPT !.stamped = TRUE] ELSE r
<1>1. ASSUME NEW x, file' = [file EXCEPT !.subs = x]
      PROVE  /\ file'.subs = x /\ file'.oauth = file.oauth /\ file'.columns = file.columns
             /\ file'.seen = file.seen /\ file'.dests = file.dests /\ file'.sheets = file.sheets
  <2>1. file \in File
    BY DEF Typed
  <2>2. QED
    BY <1>1, <2>1 DEF File
<1>2. \A r \in Row : /\ retired(r).status # "needs_review"
                     /\ sourced(r).status = r.status /\ sourced(r).source # "null"
                     /\ stamped(r).status = r.status /\ stamped(r).source = r.source
                     /\ stamped(r).status \in Settled => stamped(r).stamped
  BY DEF Row
<1>3. \A l \in Lead : file.subs[l] # Absent => file.subs[l] \in Row
  BY DEF Typed
<1>4. /\ RetireNeedsReview => file' = [file EXCEPT !.subs = With(retired)]
      /\ BackfillSource => file' = [file EXCEPT !.subs = With(sourced)]
      /\ StampSettled => file' = [file EXCEPT !.subs = With(stamped)]
  BY DEF RetireNeedsReview, BackfillSource, StampSettled, UpdateRows
<1>5. step' = After(step) /\ UNCHANGED boot
  BY DEF RetireNeedsReview, BackfillSource, StampSettled, Advance, boot
<1> HIDE DEF retired, sourced, stamped
<1>6. ASSUME RetireNeedsReview, NEW l \in Lead, file'.subs[l] # Absent
      PROVE  file.subs[l] # Absent /\ file'.subs[l] = retired(file.subs[l])
  <2>1. file'.subs = With(retired)
    BY <1>1, <1>4, <1>6
  <2>2. QED
    BY <1>6, <2>1
<1>7. ASSUME BackfillSource, NEW l \in Lead, file'.subs[l] # Absent
      PROVE  file.subs[l] # Absent /\ file'.subs[l] = sourced(file.subs[l])
  <2>1. file'.subs = With(sourced)
    BY <1>1, <1>4, <1>7
  <2>2. QED
    BY <1>7, <2>1
<1>8. ASSUME StampSettled, NEW l \in Lead, file'.subs[l] # Absent
      PROVE  file.subs[l] # Absent /\ file'.subs[l] = stamped(file.subs[l])
  <2>1. file'.subs = With(stamped)
    BY <1>1, <1>4, <1>8
  <2>2. QED
    BY <1>8, <2>1
<1>9. /\ file'.oauth = file.oauth /\ file'.columns = file.columns /\ file'.seen = file.seen
      /\ file'.dests = file.dests /\ file'.sheets = file.sheets
  BY <1>1, <1>4
<1>10. ASSUME NEW l \in Lead, file'.subs[l] # Absent
       PROVE  LET r == file.subs[l]
                  q == file'.subs[l]
              IN /\ r # Absent
                 /\ RetireNeedsReview => q.status # "needs_review"
                 /\ BackfillSource => q.status = r.status /\ q.source # "null"
                 /\ StampSettled => /\ q.status = r.status /\ q.source = r.source
                                    /\ q.status \in Settled => q.stamped
  <2>1. file.subs[l] # Absent /\ file.subs[l] \in Row
    BY <1>3, <1>6, <1>7, <1>8, <1>10
  <2>2. QED
    BY <1>2, <1>6, <1>7, <1>8, <1>10, <2>1
<1>11. QED
  BY <1>5, <1>9, <1>10

LEMMA RowsKeepFacts ==
  ASSUME FileInv, RetireNeedsReview \/ BackfillSource \/ StampSettled
  PROVE  FileFacts'
<1>1. Typed
  BY FieldsAreTyped DEF FileInv, FileTypes
<1>2. /\ step' = After(step) /\ UNCHANGED boot
      /\ file'.oauth = file.oauth /\ file'.columns = file.columns /\ file'.seen = file.seen
      /\ file'.dests = file.dests /\ file'.sheets = file.sheets
  BY <1>1, RowsMove
<1>3. \/ RetireNeedsReview /\ step = "retire_needs_review" /\ step' = "backfill_source"
      \/ BackfillSource /\ step = "backfill_source" /\ step' = "queue_seen_at"
      \/ StampSettled /\ step = "stamp_settled" /\ step' = "rename_sub"
  BY <1>2, Order DEF RetireNeedsReview, BackfillSource, StampSettled, At
<1>4. RebuildKeepsRows'
  BY <1>3 DEF RebuildKeepsRows, Rebuilding
<1>5. IndexHolds' /\ LinksAreKept'
  BY <1>2 DEF FileInv, FileFacts, IndexHolds, LinksAreKept, boot
<1>6. DestinationsAreKept'
  <2>1. chosen' = chosen /\ step' \notin {"carry_sheets", "serving"}
    BY <1>2, <1>3 DEF boot
  <2>2. \A u \in User : chosen.dests[u] = IF file.dests[u] # Absent THEN file.dests[u] ELSE file.sheets[u]
    BY DEF FileInv, FileFacts, DestinationsAreKept
  <2>3. QED
    BY <1>2, <2>1, <2>2 DEF DestinationsAreKept, Serving, At
<1>7. FileIsOnItsWay'
  <2> USE DEF PastOAuth, PastIndex, PastColumns, PastReview, PastSource, PastSeen, PastStamp, PastRename,
              Rebuilding, Ending
  <2>1. /\ file.oauth.rows # Absent /\ file.oauth.signin /\ file.columns = Column
        /\ step = "stamp_settled" => file.seen
    BY <1>3 DEF FileInv, FileFacts, FileIsOnItsWay
  <2>2. \A l \in Lead : file.subs[l] # Absent =>
          /\ step # "retire_needs_review" => file.subs[l].status # "needs_review"
          /\ step = "stamp_settled" => file.subs[l].source # "null"
    BY <1>3 DEF FileInv, FileFacts, FileIsOnItsWay
  <2>3. ASSUME NEW l \in Lead, file'.subs[l] # Absent
        PROVE  /\ file'.subs[l].status # "needs_review"
               /\ step' # "backfill_source" => file'.subs[l].source # "null"
               /\ step' = "rename_sub" /\ file'.subs[l].status \in Settled => file'.subs[l].stamped
    <3>1. CASE RetireNeedsReview /\ step = "retire_needs_review" /\ step' = "backfill_source"
      BY <1>1, <2>3, <3>1, RowsMove
    <3>2. CASE BackfillSource /\ step = "backfill_source" /\ step' = "queue_seen_at"
      BY <1>1, <2>2, <2>3, <3>2, RowsMove
    <3>3. CASE StampSettled /\ step = "stamp_settled" /\ step' = "rename_sub"
      BY <1>1, <2>2, <2>3, <3>3, RowsMove
    <3>4. QED
      BY <1>3, <3>1, <3>2, <3>3
  <2>4. step' \in {"backfill_source", "queue_seen_at", "rename_sub"}
    BY <1>3
  <2>5. step' = "rename_sub" => file'.seen
    BY <1>2, <1>3, <2>1
  <2>6. QED
    BY <1>2, <2>1, <2>3, <2>4, <2>5 DEF FileIsOnItsWay
<1>8. QED
  BY <1>4, <1>5, <1>6, <1>7 DEF FileFacts

LEMMA ColumnKeepsFacts ==
  ASSUME FileInv, AddColumn
  PROVE  FileFacts'
<1>1. file \in File /\ file.columns \subseteq Column
  BY FieldsAreTyped DEF FileInv, FileTypes, Typed
<1>2. /\ step = "add_columns" /\ step' \in {"add_columns", "retire_needs_review"} /\ UNCHANGED boot
      /\ step' # step => file.columns = Column /\ file' = file
      /\ step' = step => \E x : file' = [file EXCEPT !.columns = x]
  BY <1>1, Order DEF AddColumn, At, Advance, boot
<1>3. /\ file'.oauth = file.oauth /\ file'.subs = file.subs /\ file'.dests = file.dests
      /\ file'.sheets = file.sheets
      /\ step' # step => file'.columns = Column
  BY <1>1, <1>2 DEF File
<1>4. RebuildKeepsRows'
  BY <1>2 DEF RebuildKeepsRows, Rebuilding
<1>5. IndexHolds' /\ LinksAreKept'
  BY <1>2, <1>3 DEF FileInv, FileFacts, IndexHolds, LinksAreKept, boot
<1>6. DestinationsAreKept'
  <2>1. chosen' = chosen /\ step' \notin {"carry_sheets", "serving"}
    BY <1>2 DEF boot
  <2>2. \A u \in User : chosen.dests[u] = IF file.dests[u] # Absent THEN file.dests[u] ELSE file.sheets[u]
    BY DEF FileInv, FileFacts, DestinationsAreKept
  <2>3. QED
    BY <1>3, <2>1, <2>2 DEF DestinationsAreKept, Serving, At
<1>7. FileIsOnItsWay'
  <2> USE DEF PastOAuth, PastIndex, PastColumns, PastReview, PastSource, PastSeen, PastStamp, PastRename,
              Rebuilding, Ending
  <2>1. file.oauth.rows # Absent /\ file.oauth.signin
    BY <1>2 DEF FileInv, FileFacts, FileIsOnItsWay
  <2>2. QED
    BY <1>2, <1>3, <2>1 DEF FileIsOnItsWay
<1>8. QED
  BY <1>4, <1>5, <1>6, <1>7 DEF FileFacts

LEMMA OpenKeepsFacts ==
  ASSUME FileInv, FileTypes', OpenStep
  PROVE  FileFacts'
<1>t. Typed
  BY FieldsAreTyped DEF FileInv, FileTypes
<1> USE <1>t, Order, AbsentRows
    DEF FileInv, FileFacts, FileIsOnItsWay, RebuildKeepsRows, IndexHolds, LinksAreKept, DestinationsAreKept,
        FileTypes, MigrationsTypeOK, Typed, File, OAuth, Table, CreatedColumn, At, Serving, Advance, boot, Fail, Exec,
        UpdateRows, PastOAuth, PastIndex, PastColumns, PastReview, PastSource, PastSeen, PastStamp, PastRename,
        Rebuilding, Ending
<1>1. CASE Start
  <2>1. step' = "submissions" /\ UNCHANGED <<file, boot>>
    BY <1>1, OpenIs DEF Start
  <2>2. QED
    BY <1>1, <2>1 DEF Start
<1>2. CASE CreateTable
  BY <1>2 DEF CreateTable
<1>3. CASE CreateOAuthTable
  BY <1>3 DEF CreateOAuthTable
<1>4. CASE CreateSigninIndex
  BY <1>4 DEF CreateSigninIndex
<1>5. CASE FindColumns
  BY <1>5 DEF FindColumns
<1>6. CASE AddColumn
  BY <1>6, ColumnKeepsFacts
<1>7. CASE RetireNeedsReview \/ BackfillSource \/ StampSettled
  BY <1>7, RowsKeepFacts
<1>9. CASE AddQueueSeenAt
  BY <1>9 DEF AddQueueSeenAt
<1>11. CASE RenameSub
  BY <1>11 DEF RenameSub
<1>12. CASE FindUnique
  BY <1>12 DEF FindUnique
<1>13. CASE CreateNew
  BY <1>13 DEF CreateNew
<1>14. CASE Copy
  BY <1>14 DEF Copy
<1>15. CASE Drop
  BY <1>15 DEF Drop
<1>16. CASE Swap
  BY <1>16 DEF Swap
<1>17. CASE Reindex
  BY <1>17 DEF Reindex
<1>18. CASE Commit
  BY <1>18 DEF Commit
<1>19. CASE FindSheets
  BY <1>19 DEF FindSheets
<1>20. CASE CarrySheet
  <2>1. CASE pending = {}
    BY <1>20, <2>1 DEF CarrySheet
  <2>2. CASE pending # {}
    <3>1. PICK u \in pending : /\ file' = [file EXCEPT !.dests[u] = file.sheets[u]]
                               /\ pending' = pending \ {u}
                               /\ UNCHANGED <<step, have, tx, crashes, chosen>>
      BY <1>20, <2>2 DEF CarrySheet
    <3>2. (FileIsOnItsWay /\ RebuildKeepsRows /\ IndexHolds /\ LinksAreKept)'
      BY <1>20, <3>1 DEF CarrySheet
    <3>3. DestinationsAreKept'
      <4>1. file' = [file EXCEPT !.dests = [file.dests EXCEPT ![u] = file.sheets[u]]]
        BY <3>1
      <4>2. file'.dests = [file.dests EXCEPT ![u] = file.sheets[u]] /\ file'.sheets = file.sheets
        BY <4>1
      <4>3. u \in User /\ file.dests[u] = Absent /\ file.sheets[u] # Absent /\ file.sheets[u] = chosen.dests[u]
        BY <1>20, <3>1 DEF CarrySheet
      <4>4. file'.dests[u] = file.sheets[u] /\ \A v \in User \ {u} : file'.dests[v] = file.dests[v]
        BY <4>2, <4>3
      <4>5. step = "carry_sheets" /\ step' = step /\ chosen' = chosen
        BY <1>20, <3>1 DEF CarrySheet
      <4>6. QED
        BY <3>1, <4>2, <4>3, <4>4, <4>5
    <3>4. QED
      BY <3>2, <3>3
  <2>3. QED
    BY <2>1, <2>2
<1> HIDE <1>t, Order, AbsentRows
    DEF FileInv, FileFacts, FileIsOnItsWay, RebuildKeepsRows, IndexHolds, LinksAreKept, DestinationsAreKept,
        FileTypes, MigrationsTypeOK, Typed, File, OAuth, Table, CreatedColumn, At, Serving, Advance, boot, Fail, Exec,
        UpdateRows, PastOAuth, PastIndex, PastColumns, PastReview, PastSource, PastSeen, PastStamp, PastRename,
        Rebuilding, Ending
<1>21. QED
  BY <1>1, <1>2, <1>3, <1>4, <1>5, <1>6, <1>7, <1>9, <1>11,
     <1>12, <1>13, <1>14, <1>15, <1>16, <1>17, <1>18, <1>19, <1>20 DEF OpenStep

\* Nothing of a row but its original has changed.
SameButRaw(r, q) ==
  /\ r = Absent <=> q = Absent
  /\ r # Absent => q.status = r.status /\ q.source = r.source /\ q.stamped = r.stamped

LEMMA PurgeKeepsRows ==
  ASSUME Typed, Purge
  PROVE  /\ file' = [file EXCEPT !.subs = file'.subs]
         /\ \A l \in Lead : SameButRaw(file.subs[l], file'.subs[l])
<1> DEFINE purged(r) == IF r.status \in Settled /\ r.stamped THEN [r EXCEPT !.raw = FALSE] ELSE r
<1>1. file' = [file EXCEPT !.subs = [l \in Lead |-> IF file.subs[l] = Absent THEN Absent ELSE purged(file.subs[l])]]
  BY DEF Purge, UpdateRows
<1>2. \A r \in Row : purged(r) \in Row /\ SameButRaw(r, purged(r))
  BY AbsentRows DEF Row, SameButRaw
<1> HIDE DEF purged
<1>3. file'.subs = [l \in Lead |-> IF file.subs[l] = Absent THEN Absent ELSE purged(file.subs[l])]
  BY <1>1 DEF Typed, File
<1>4. ASSUME NEW l \in Lead PROVE SameButRaw(file.subs[l], file'.subs[l])
  <2>1. CASE file.subs[l] = Absent
    BY <1>3, <2>1 DEF SameButRaw
  <2>2. CASE file.subs[l] # Absent
    BY <1>2, <1>3, <2>2 DEF Typed
  <2>3. QED
    BY <2>1, <2>2
<1>5. QED
  BY <1>1, <1>3, <1>4

LEMMA PurgeKeepsFacts ==
  ASSUME FileInv, Purge
  PROVE  FileFacts'
<1>1. Typed
  BY FieldsAreTyped DEF FileInv, FileTypes
<1>2. step = "serving" /\ UNCHANGED <<step, boot>>
  BY DEF Purge, Serving, At
<1>3. /\ file'.oauth = file.oauth /\ file'.columns = file.columns /\ file'.seen = file.seen
      /\ file'.dests = file.dests /\ file'.sheets = file.sheets
  <2>1. PICK x : file' = [file EXCEPT !.subs = x]
    BY <1>1, PurgeKeepsRows
  <2>2. QED
    BY <1>1, <2>1 DEF Typed, File
<1>4. RebuildKeepsRows'
  BY <1>2 DEF RebuildKeepsRows, Rebuilding
<1>5. IndexHolds' /\ LinksAreKept'
  BY <1>2, <1>3 DEF FileInv, FileFacts, IndexHolds, LinksAreKept, boot
<1>6. DestinationsAreKept'
  <2>1. chosen' = chosen /\ step' = step /\ pending' = pending
    BY <1>2 DEF boot
  <2>2. DestinationsAreKept
    BY DEF FileInv, FileFacts
  <2>3. QED
    BY <1>3, <2>1, <2>2 DEF DestinationsAreKept, Serving, At
<1>7. FileIsOnItsWay'
  <2>1. FileIsOnItsWay
    BY DEF FileInv, FileFacts
  <2>2. \A l \in Lead : file'.subs[l] # Absent =>
          /\ file.subs[l] # Absent /\ file'.subs[l].status = file.subs[l].status
          /\ file'.subs[l].source = file.subs[l].source /\ file'.subs[l].stamped = file.subs[l].stamped
    BY <1>1, PurgeKeepsRows DEF SameButRaw
  <2>3. QED
    BY <1>2, <1>3, <2>1, <2>2 DEF FileIsOnItsWay
<1>8. QED
  BY <1>4, <1>5, <1>6, <1>7 DEF FileFacts

LEMMA ServeKeepsFacts ==
  ASSUME FileInv, FileTypes', LinkStep \/ DestinationStep \/ LeadStep \/ Purge
  PROVE  FileFacts'
<1>s. Serving
  BY DEF LinkStep, DestinationStep, LeadStep, Purge, Connect, Disconnect, SetDestination, Insert, Settle, Serving
<1>t. Typed /\ Serving
  BY <1>s, FieldsAreTyped DEF FileInv, FileTypes
<1> USE <1>t, AbsentRows
    DEF FileInv, FileFacts, FileIsOnItsWay, RebuildKeepsRows, IndexHolds, LinksAreKept, DestinationsAreKept,
        FileTypes, MigrationsTypeOK, Typed, File, OAuth, At, Serving, Serve, boot, Settled, Row,
        UpdateRows, PastOAuth, PastIndex, PastColumns, PastReview, PastSource, PastSeen, PastStamp, PastRename,
        Rebuilding, Ending
<1>1. ASSUME NEW l \in Link, Connect(l) PROVE FileFacts'
  <2> DEFINE others == {m \in file.oauth.rows : <<m.user, m.provider>> # <<l.user, l.provider>>}
             r == others \cup {l}
  <2>1. /\ file' = [file EXCEPT !.oauth = [file.oauth EXCEPT !.rows = r]] /\ chosen' = [chosen EXCEPT !.links = r]
        /\ UNCHANGED <<step, have, pending, tx, crashes>> /\ (file.oauth.signin => ~Clash(r))
    BY <1>1 DEF Connect, Takes
  <2>2. r \in SUBSET Link
    OBVIOUS
  <2> HIDE DEF others, r
  <2>3. /\ file'.oauth.rows = r /\ file'.oauth.signin = file.oauth.signin /\ file'.oauth.bare = file.oauth.bare
        /\ file'.oauth.subject = file.oauth.subject /\ file'.columns = file.columns /\ file'.subs = file.subs
        /\ file'.seen = file.seen /\ file'.dests = file.dests /\ file'.sheets = file.sheets
        /\ chosen'.links = r /\ chosen'.dests = chosen.dests
    BY <2>1
  <2>4. QED
    BY <2>1, <2>2, <2>3
<1>2. ASSUME NEW l \in Link, Disconnect(l) PROVE FileFacts'
  BY <1>2 DEF Disconnect, Clash
<1>3. ASSUME NEW u \in User, NEW d \in Destination, SetDestination(u, d) PROVE FileFacts'
  BY <1>3 DEF SetDestination
<1>4. ASSUME NEW l \in Lead, NEW s \in {"paste", "email"}, Insert(l, s) PROVE FileFacts'
  BY <1>4 DEF Insert
<1>5. ASSUME NEW l \in Lead, NEW s \in Settled, Settle(l, s) PROVE FileFacts'
  BY <1>5 DEF Settle
<1>6. CASE Purge
  BY <1>6, PurgeKeepsFacts
<1> HIDE <1>t, AbsentRows
    DEF FileInv, FileFacts, FileIsOnItsWay, RebuildKeepsRows, IndexHolds, LinksAreKept, DestinationsAreKept,
        FileTypes, MigrationsTypeOK, Typed, File, OAuth, At, Serving, Serve, boot, Settled, Row,
        UpdateRows, PastOAuth, PastIndex, PastColumns, PastReview, PastSource, PastSeen, PastStamp, PastRename,
        Rebuilding, Ending
<1>7. QED
  BY <1>1, <1>2, <1>3, <1>4, <1>5, <1>6 DEF LinkStep, DestinationStep, LeadStep

LEMMA CrashKeepsFacts == ASSUME FileInv, Crash PROVE FileFacts'
BY DEF FileInv, FileFacts, FileIsOnItsWay, RebuildKeepsRows, IndexHolds, LinksAreKept, DestinationsAreKept, Crash,
  At, Serving, PastOAuth, PastIndex, PastColumns, PastReview, PastSource, PastSeen, PastStamp, PastRename,
  Rebuilding, Ending

LEMMA FirstFacts == MigrationsInit => FileFacts
<1> SUFFICES ASSUME MigrationsInit PROVE FileFacts
  OBVIOUS
<1>1. step = "down" /\ file \in OldFile
  BY DEF MigrationsInit
<1>2. FileIsOnItsWay
  BY <1>1 DEF FileIsOnItsWay, PastOAuth, PastIndex, PastColumns, PastReview, PastSource, PastSeen, PastStamp,
              PastRename, Rebuilding, Ending
<1>3. RebuildKeepsRows
  BY <1>1 DEF RebuildKeepsRows, Rebuilding
<1>4. IndexHolds
  BY <1>1, Files DEF IndexHolds
<1>5. LinksAreKept
  BY DEF MigrationsInit, LinksAreKept
<1>6. DestinationsAreKept
  BY <1>1 DEF MigrationsInit, DestinationsAreKept, Serving, At
<1>7. QED
  BY <1>2, <1>3, <1>4, <1>5, <1>6 DEF FileFacts

------------------------------------------------------------------------------
(* What an environment turns on                                             *)

LEMMA PairIsFinite == ASSUME NEW a, NEW b PROVE IsFiniteSet({a, b})
<1>1. IsFiniteSet({a}) /\ {a, b} = {a} \cup {b}
  BY FS_Singleton
<1>2. QED
  BY <1>1, FS_AddElement

LEMMA SeveralCount ==
  ASSUME NEW S, IsFiniteSet(S), NEW a \in S, NEW b \in S, a # b
  PROVE  Cardinality(S) > 1
<1>1. IsFiniteSet(S \ {a}) /\ Cardinality(S \ {a}) = Cardinality(S) - 1 /\ Cardinality(S) \in Nat
  BY FS_RemoveElement, FS_CardinalityType
<1>2. Cardinality(S \ {a}) # 0 /\ Cardinality(S \ {a}) \in Nat
  <2>1. S \ {a} # {}
    OBVIOUS
  <2>2. QED
    BY <1>1, <2>1, FS_EmptySet, FS_CardinalityType
<1>3. QED
  BY <1>1, <1>2

LEMMA IngestIsFinite == IsFiniteSet(Ingest)
<1>1. IsFiniteSet({"INBOUND_EMAIL_DOMAIN", "INGEST_SHARED_SECRET"})
  BY PairIsFinite
<1>2. IsFiniteSet({"CLOUDFLARE_API_TOKEN", "CLOUDFLARE_ZONE_ID"})
  BY PairIsFinite
<1>3. Ingest = ({"INBOUND_EMAIL_DOMAIN", "INGEST_SHARED_SECRET"} \cup {"CLOUDFLARE_API_TOKEN", "CLOUDFLARE_ZONE_ID"})
                 \cup {"INGEST_WORKER_NAME"}
  BY DEF Ingest
<1>4. QED
  BY <1>1, <1>2, <1>3, FS_Union, FS_AddElement

\* Whoever sets one variable of the mail, other than the name that has a default, meant it.
LEMMA MeantIsCounted ==
  ASSUME NEW e \in Environment, e.set \cap (Ingest \ {"INGEST_WORKER_NAME"}) # {}
  PROVE  Cardinality(IngestGiven(e)) > 1
<1>1. IsFiniteSet(IngestGiven(e))
  <2>1. IngestGiven(e) \in SUBSET Ingest
    BY DEF IngestGiven, Ingest
  <2>2. QED
    BY <2>1, IngestIsFinite, FS_Subset
<1>2. PICK v \in Ingest : v \in e.set /\ v # "INGEST_WORKER_NAME"
  OBVIOUS
<1>3. v \in IngestGiven(e) /\ "INGEST_WORKER_NAME" \in IngestGiven(e)
  BY <1>2 DEF IngestGiven
<1>4. QED
  BY <1>1, <1>2, <1>3, SeveralCount

\* An environment the server starts with is whole.
LEMMA StartsWhole == ASSUME env \in Environment PROVE OffersAreWhole
<1> SUFFICES ASSUME Starts(env)
             PROVE  /\ \A f \in Offers(env) : Needed(f, env)
                    /\ env.set \cap Notion # {} => "notion" \in Offers(env)
                    /\ env.set \cap (Ingest \ {"INGEST_WORKER_NAME"}) # {} => "email" \in Offers(env)
                    /\ ~env.dev => Writer(env) = "per_account"
  BY DEF OffersAreWhole
<1>1. OAuthConfigured(env) => Box(env)
  BY DEF Starts, NeedsKey, Box
<1>2. env.set \cap Notion # {} => NotionConfigured(env) /\ Box(env)
  BY DEF Starts, PartialNotion, NeedsKey, Box
<1>3. env.set \cap (Ingest \ {"INGEST_WORKER_NAME"}) # {} => EmailIngestConfigured(env)
  BY MeantIsCounted DEF Starts, PartialIngest
<1>4. ASSUME EmailIngestConfigured(env) PROVE env.strong
  <2>1. "INGEST_SHARED_SECRET" \in env.set
    BY <1>4 DEF EmailIngestConfigured, IngestGiven, Ingest
  <2>2. QED
    BY <2>1 DEF Starts
<1>5. ASSUME Given(Notion \ {"NOTION_OAUTH_REDIRECT_URL"}, env) PROVE NotionConfigured(env)
  <2>1. "NOTION_OAUTH_CLIENT_ID" \in env.set \cap Notion
    BY <1>5 DEF Given, Notion
  <2>2. QED
    BY <1>2, <2>1
<1>6. \A f \in Offers(env) : Needed(f, env)
  BY <1>1, <1>4, <1>5 DEF Offers, Needed
<1>7. NotionConfigured(env) => Given(Notion \ {"NOTION_OAUTH_REDIRECT_URL"}, env)
  BY DEF NotionConfigured, Given
<1>8. ~env.dev => OAuthConfigured(env) /\ DestinationsEnabled(env)
  BY <1>1 DEF Starts, DestinationsEnabled
<1>9. QED
  BY <1>2, <1>3, <1>6, <1>7, <1>8 DEF Offers, Writer

------------------------------------------------------------------------------
(* The process                                                              *)

LEMMA ServerLimits == Spec => RateLimitSpec
<1>1. Init => RateLimitInit
  BY DEF Init
<1>2. [Next]_vars => [RateLimitNext \/ Restart]_limvars
  BY DEF Next, vars, Boot, Turn
<1>3. QED
  BY <1>1, <1>2, PTL DEF Spec, RateLimitSpec

\* server.go:83: no start, crash or sweep lets a key through more often than its limit says.
THEOREM ServerMeters == Spec => []Metered
BY ServerLimits, LimiterMeters, PTL

\* ratelimit.go:54: what the server answers to a key's requests does not depend on what its
\* sweeps forgot.
THEOREM ServerForgetsUnseen == Spec => EvictionUnseen
BY ServerLimits, ForgettingIsUnseen, PTL

\* The inductive invariant of the process, but for its limits.
ServerInv == FileInv /\ env \in Environment /\ watch \in Watch

LEMMA FirstServer == Init => ServerInv
BY FirstTypes, FirstFacts, Instances, Files DEF Init, ServerInv, FileInv, MigrationsInit

LEMMA ReconfigureKeeps == ASSUME env \in Environment, Reconfigure PROVE env' \in Environment
<1>1. ASSUME NEW v \in Setting, env' = [env EXCEPT !.set = IF v \in @ THEN @ \ {v} ELSE @ \cup {v}]
      PROVE  env' \in Environment
  BY <1>1 DEF Environment
<1>2. QED
  BY <1>1 DEF Reconfigure, Environment

LEMMA ServerStep == ASSUME ServerInv, [Next]_vars PROVE ServerInv'
<1>1. ASSUME UNCHANGED migvars PROVE FileInv'
  BY <1>1 DEF ServerInv, migvars, FileInv, FileTypes, MigrationsTypeOK, FileFacts, FileIsOnItsWay, RebuildKeepsRows,
    IndexHolds, LinksAreKept, DestinationsAreKept, Serving, At
<1>2. CASE Boot
  <2>1. FileInv'
    BY <1>2, OpenKeepsTypes, OpenKeepsFacts DEF Boot, ServerInv, FileInv
  <2>2. QED
    BY <1>2, <2>1 DEF Boot, ServerInv
<1>3. ASSUME LinkStep \/ DestinationStep \/ LeadStep \/ Purge, Serving, UNCHANGED <<env, watch>> PROVE ServerInv'
  <2>1. file.oauth.rows # Absent
    BY <1>3 DEF ServerInv, FileInv, FileFacts, FileIsOnItsWay, Serving, At, PastOAuth,
    PastIndex, PastColumns, PastReview, PastSource, PastSeen, PastStamp, PastRename, Ending
  <2>2. QED
    BY <1>3, <2>1, ServeKeepsTypes, ServeKeepsFacts DEF ServerInv, FileInv
<1>4. CASE Crash /\ UNCHANGED <<env, watch>>
  BY <1>4, CrashKeepsTypes, CrashKeepsFacts DEF ServerInv, FileInv
<1>5. CASE Turn("limits") /\ RateLimitNext /\ UNCHANGED <<migvars, env>>
  BY <1>1, <1>5 DEF Turn, ServerInv
<1>6. CASE Turn("settings") /\ Reconfigure /\ UNCHANGED <<migvars, limvars>>
  BY <1>1, <1>6, ReconfigureKeeps DEF Turn, ServerInv
<1>7. CASE UNCHANGED vars
  BY <1>1, <1>7 DEF vars, ServerInv
<1>8. QED
  BY <1>2, <1>3, <1>4, <1>5, <1>6, <1>7 DEF Next, Turn, Purge

LEMMA ServerHolds == Spec => []ServerInv
BY FirstServer, ServerStep, PTL DEF Spec

\* The file, the process and the limits hold what they are declared to hold.
THEOREM ServerTypes == Spec => []TypeOK
<1>1. ServerInv /\ RateInv => TypeOK
  BY DEF ServerInv, FileInv, FileTypes, RateInv, TypeOK
<1>2. QED
  BY <1>1, ServerHolds, ServerLimits, RateInvHolds, PTL

\* store.go:112: from whatever file, and wherever earlier processes died, what serves is the
\* schema this build's statements are written for.
THEOREM ServesCurrentSchema == Spec => []ServingIsCurrent
<1>1. ServerInv => ServingIsCurrent
  BY DEF ServerInv, FileInv, FileFacts, FileIsOnItsWay, ServingIsCurrent, Serving, At, PastOAuth,
    PastIndex, PastColumns, PastReview, PastSource, PastSeen, PastStamp, PastRename, Ending
<1>2. QED
  BY <1>1, ServerHolds, PTL

\* store.go:265 and destination.go:99: no start loses or brings back a link, or points an
\* account's leads anywhere but where the account last did.
THEOREM StartsLoseNothing == Spec => []StartsAreHarmless
<1>1. ServerInv => StartsAreHarmless
  <2> SUFFICES ASSUME ServerInv, Serving PROVE file.oauth.rows = chosen.links /\ file.dests = chosen.dests
    BY DEF StartsAreHarmless
  <2>1. file.oauth.rows = chosen.links
    BY DEF ServerInv, FileInv, FileFacts, FileIsOnItsWay, LinksAreKept, Serving, At, PastOAuth,
    PastIndex, PastColumns, PastReview, PastSource, PastSeen, PastStamp, PastRename, Ending
  <2>2. file.dests \in [User -> Destination \cup {Absent}] /\ chosen.dests \in [User -> Destination \cup {Absent}]
    BY DEF ServerInv, FileInv, FileTypes, MigrationsTypeOK, File
  <2>3. \A u \in User : file.dests[u] = chosen.dests[u]
    BY DEF ServerInv, FileInv, FileFacts, DestinationsAreKept
  <2>4. QED
    BY <2>1, <2>2, <2>3
<1>2. QED
  BY <1>1, ServerHolds, PTL

\* auth.go:91: no two accounts have one Google identity, before the rebuild or after.
THEOREM IdentitiesAreApart == Spec => []IdentityHasOneAccount
<1>1. ServerInv => IdentityHasOneAccount
  BY DEF ServerInv, FileInv, FileFacts, FileIsOnItsWay, IndexHolds, IdentityHasOneAccount, Serving, At, PastOAuth,
    PastIndex, PastColumns, PastReview, PastSource, PastSeen, PastStamp, PastRename, Ending
<1>2. QED
  BY <1>1, ServerHolds, PTL

\* config.go:230, :250 and :277: whatever the operator sets, forgets or takes back between two
\* starts, the process that starts offers only what it can finish, Notion and email capture as
\* soon as a variable of theirs is set, and outside dev mode writes to accounts' destinations.
THEOREM OffersStayWhole == Spec => []OffersAreWhole
BY ServerHolds, StartsWhole, PTL DEF ServerInv
==============================================================================
