-------------------------- MODULE QueryCacheProofs --------------------------
(***************************************************************************)
(* What the operations on an entry of the query cache yield, for any data. *)
(***************************************************************************)
EXTENDS QueryCache, TLAPS

\* The entries, with their number of failures written out.
LEMMA EntryForm ==
    ASSUME NEW Data
    PROVE  QueryEntries(Data) =
               [data : Data \cup {NoData}, status : {"pending", "success", "error"},
                fetching : BOOLEAN, failures : {0, 1}]
<1>1. 0..1 = {0, 1}
  OBVIOUS
<1> QED BY <1>1 DEF QueryEntries

\* An entry's data is of the query, or none.
LEMMA EntryData ==
    ASSUME NEW Data, NEW e \in QueryEntries(Data)
    PROVE  e.data \in Data \cup {NoData} /\ e.status \in {"pending", "success", "error"}
  BY DEF QueryEntries

\* Nothing fetched yet.
LEMMA EmptyOK ==
    ASSUME NEW Data
    PROVE  EmptyQuery \in QueryEntries(Data) /\ EmptyQuery.data = NoData /\ EmptyQuery.status = "pending"
  BY EntryForm DEF EmptyQuery

\* A fetch that is cancelled leaves the entry otherwise as it is.
LEMMA CancelOK ==
    ASSUME NEW Data, NEW e \in QueryEntries(Data)
    PROVE  /\ [e EXCEPT !.fetching = FALSE] \in QueryEntries(Data)
           /\ [e EXCEPT !.fetching = FALSE].data = e.data
           /\ [e EXCEPT !.fetching = FALSE].status = e.status
  BY EntryForm

\* A fetch keeps the data and makes no success.
LEMMA FetchOK ==
    ASSUME NEW Data, NEW e \in QueryEntries(Data)
    PROVE  /\ Fetch(e) \in QueryEntries(Data) /\ Fetch(e).data = e.data
           /\ Fetch(e).status = "success" => e.status = "success"
<1>1. /\ [EmptyQuery EXCEPT !.fetching = TRUE] \in QueryEntries(Data)
      /\ [EmptyQuery EXCEPT !.fetching = TRUE].data = NoData
      /\ [EmptyQuery EXCEPT !.fetching = TRUE].status = "pending"
  BY EntryForm DEF EmptyQuery
<1>2. /\ [e EXCEPT !.fetching = TRUE, !.failures = 0] \in QueryEntries(Data)
      /\ [e EXCEPT !.fetching = TRUE, !.failures = 0].data = e.data
      /\ [e EXCEPT !.fetching = TRUE, !.failures = 0].status = e.status
  BY EntryForm
<1> QED BY <1>1, <1>2 DEF Fetch

\* An answer is a success with its data.
LEMMA ResolveOK ==
    ASSUME NEW Data, NEW d \in Data
    PROVE  Resolve(d) \in QueryEntries(Data) /\ Resolve(d).data = d
  BY EntryForm DEF Resolve

\* A failed attempt, of a query with at most one retry, keeps the data and makes
\* no success.
LEMMA RejectOK ==
    ASSUME NEW Data, NEW e \in QueryEntries(Data), NEW retries \in {0, 1}
    PROVE  /\ Reject(e, retries) \in QueryEntries(Data) /\ Reject(e, retries).data = e.data
           /\ Reject(e, retries).status = "success" => e.status = "success"
<1>1. e.failures \in {0, 1}
  BY EntryForm
<1>2. ASSUME e.failures < retries
      PROVE  /\ [e EXCEPT !.failures = @ + 1] \in QueryEntries(Data)
             /\ [e EXCEPT !.failures = @ + 1].data = e.data
             /\ [e EXCEPT !.failures = @ + 1].status = e.status
  <2>1. e.failures + 1 \in {0, 1}
    BY <1>1, <1>2
  <2> QED BY <2>1, EntryForm
<1>3. /\ [e EXCEPT !.status = "error", !.fetching = FALSE, !.failures = 0] \in QueryEntries(Data)
      /\ [e EXCEPT !.status = "error", !.fetching = FALSE, !.failures = 0].data = e.data
      /\ [e EXCEPT !.status = "error", !.fetching = FALSE, !.failures = 0].status = "error"
  BY EntryForm
<1> QED BY <1>2, <1>3 DEF Reject

\* Data that is set is a success.
LEMMA SetDataOK ==
    ASSUME NEW Data, NEW e \in QueryEntries(Data), NEW d \in Data
    PROVE  SetQueryData(e, d) \in QueryEntries(Data)
  BY EntryForm DEF SetQueryData
=============================================================================
