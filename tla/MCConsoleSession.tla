------------------------- MODULE MCConsoleSession --------------------------
\* ConsoleSession for TLC: the operations in use are those the console sends.
EXTENDS ConsoleSession

MCOps == (DOMAIN AuthOperations \ {"listAuthMethods"}) \cup UNION {PageQueries[p] : p \in Visited}
=============================================================================
