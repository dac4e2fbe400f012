---------------------------- MODULE QueryCache -----------------------------
\* One entry of the console's query cache (TanStack Query), as far as the
\* screens tell entries apart.  status follows the last result, fetching says
\* that a fetch (with its retries) is under way, failures counts the failed
\* attempts of that fetch.
EXTENDS Naturals

\* What an entry holds before the first answer.
CONSTANT NoData

EmptyQuery ==
    [data |-> NoData, status |-> "pending", fetching |-> FALSE, failures |-> 0]

QueryEntries(Data) ==
    [data : Data \cup {NoData}, status : {"pending", "success", "error"},
     fetching : BOOLEAN, failures : 0..1]

\* A fetch begins: an entry without data goes back to pending, one with data
\* keeps showing what it has, an error included.
Fetch(e) ==
    IF e.fetching THEN e
    ELSE IF e.data = NoData THEN [EmptyQuery EXCEPT !.fetching = TRUE]
    ELSE [e EXCEPT !.fetching = TRUE, !.failures = 0]

Resolve(data) ==
    [data |-> data, status |-> "success", fetching |-> FALSE, failures |-> 0]

\* An attempt failed: try again while the query has retries left, otherwise the
\* entry is an error that keeps its old data.
Reject(e, retries) ==
    IF e.failures < retries
      THEN [e EXCEPT !.failures = @ + 1]
      ELSE [e EXCEPT !.status = "error", !.fetching = FALSE, !.failures = 0]

\* queryClient.setQueryData: a success, whatever fetch is under way.
SetQueryData(e, data) ==
    [e EXCEPT !.data = data, !.status = "success"]

\* Faulty variant: one retry too many.
TwoRetries == 2

\* The QueryClient's default number of retries of a query.
DefaultRetries == 1
=============================================================================
