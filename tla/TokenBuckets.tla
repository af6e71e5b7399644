----------------------------- MODULE TokenBuckets -----------------------------
(***************************************************************************)
(* What the request limits promise: each key has a bucket of Burst requests  *)
(* that fills at PerMin requests a minute, and a request is let through       *)
(* exactly if its bucket holds one.  A request is Minute units of a bucket,   *)
(* so that a unit of time adds PerMin of them.  Counts are of one process.    *)
(***************************************************************************)
EXTENDS Naturals

CONSTANTS Key, PerMin, Burst, Minute

VARIABLES level, passed, refused

vars == <<level, passed, refused>>

Full == Burst * Minute
Fill(n) == IF n < Full THEN n ELSE Full

Init ==
  /\ level = [k \in Key |-> Full]
  /\ passed = [k \in Key |-> 0] /\ refused = [k \in Key |-> 0]

Pass(k) ==
  /\ level[k] >= Minute
  /\ level' = [level EXCEPT ![k] = @ - Minute]
  /\ passed' = [passed EXCEPT ![k] = @ + 1]
  /\ UNCHANGED refused

Refuse(k) ==
  /\ level[k] < Minute
  /\ refused' = [refused EXCEPT ![k] = @ + 1]
  /\ UNCHANGED <<level, passed>>

Second ==
  /\ level' = [k \in Key |-> Fill(level[k] + PerMin)]
  /\ UNCHANGED <<passed, refused>>

\* The buckets are in memory: the next process starts with full ones.
Restart ==
  /\ level' = [k \in Key |-> Full]
  /\ passed' = [k \in Key |-> 0] /\ refused' = [k \in Key |-> 0]

Next == Restart \/ Second \/ \E k \in Key : Pass(k) \/ Refuse(k)

Spec == Init /\ [][Next]_vars
==============================================================================
