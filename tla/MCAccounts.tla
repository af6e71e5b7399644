------------------------------- MODULE MCAccounts -------------------------------
EXTENDS Accounts, TLC

Symmetric == Permutations(Handler) \cup Permutations(Password)
==============================================================================
