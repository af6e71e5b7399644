------------------------------ MODULE MCLeads ------------------------------
(* Instances of Leads for TLC.                                             *)
EXTENDS Leads, TLC

CONSTANTS u1, u2, h1, h2, s1, s2, t1, m1

Users == {u1, u2}
Handlers == {h1, h2}
Subs == {s1, s2}
Texts == {t1}
Messages == {m1}

\* Accounts, goroutines and ids are only ever compared.
Symmetric == Permutations(Users) \cup Permutations(Handlers) \cup Permutations(Subs)
=============================================================================
