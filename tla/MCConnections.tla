----------------------------- MODULE MCConnections -----------------------------
(* An instance of Connections: one spreadsheet and one database, and two requests *)
(* at a time, of which one of every kind and one that changes what it works on.   *)
EXTENDS Connections, TLC

CONSTANTS h1, h2, sheet, base

OneEach == [p \in Provider |-> IF p = "google" THEN {sheet} ELSE {base}]

AnyBesideChange == h1 :> AllRequests @@ h2 :> {"connect", "disconnect", "setup"}
==============================================================================
