------------------------------ MODULE MCAuth -------------------------------
\* Auth for TLC: any clients, the operations of auth only.
EXTENDS Auth, TLC

MCOps == DOMAIN AuthOperations \ {"listAuthMethods"}

Symmetry == Permutations(Clients) \cup Permutations(Tokens)
=============================================================================
