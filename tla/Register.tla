------------------------------ MODULE Register ------------------------------
(***************************************************************************)
(* What the books may show, one change at a time: the numbered invoices    *)
(* and offers of all companies, and the requests made to the tax agency    *)
(* for them.  Nothing here knows of concurrent requests, failures or SQL.  *)
(*   - the numbers of a company follow each other without gaps, and no     *)
(*     number is used twice;                                               *)
(*   - what is in the books stays there, with its number and company;      *)
(*   - an invoice made from an offer belongs to the offer's company;       *)
(*   - an invoice gets at most one request of each type, and an offer none.*)
(***************************************************************************)
EXTENDS Integers

CONSTANTS Companies, Invoices, RutIds, Types, FirstNumber, NULL

VARIABLES
    documents,  \* the invoice or offer with each id, NULL if there is none
    requests    \* the ROT/RUT request with each id, NULL if there is none

vars == << documents, requests >>

Entered == {i \in Invoices : documents[i] # NULL}

NumbersOf(c) == {documents[i].number : i \in {j \in Entered : documents[j].company = c}}

(* The next number of company c: after all of its others. *)
Candidates(c) == {1, FirstNumber[c]} \cup {n + 1 : n \in NumbersOf(c)}

IsNext(c, n) == \A m \in Candidates(c) : m <= n

Free(n) == \A i \in Entered : documents[i].number # n

-----------------------------------------------------------------------------
Init ==
    /\ documents = [i \in Invoices |-> NULL]
    /\ requests  = [k \in RutIds |-> NULL]

(* A document of company c is entered, an invoice perhaps from offer o. *)
Enter(i, c, is_offer, o) ==
    /\ documents[i] = NULL
    /\ o # NULL => /\ o \in Entered /\ documents[o].is_offer /\ ~is_offer
                   /\ documents[o].company = c
    /\ \E n \in Candidates(c) :
          /\ IsNext(c, n) /\ Free(n)
          /\ documents' = [documents EXCEPT ![i] =
                [number |-> n, company |-> c, is_offer |-> is_offer, offer_id |-> o]]
    /\ UNCHANGED requests

(* For invoice i, requests of some types are made, each for the first time. *)
Ask(i, K, type) ==
    /\ i \in Entered /\ ~documents[i].is_offer
    /\ \A k \in K : /\ requests[k] = NULL
                    /\ \A l \in K \ {k} : type[l] # type[k]
                    /\ \A l \in RutIds : requests[l] # [invoice |-> i, type |-> type[k]]
    /\ requests' = [k \in RutIds |->
                       IF k \in K THEN [invoice |-> i, type |-> type[k]] ELSE requests[k]]
    /\ UNCHANGED documents

Next ==
    \/ \E i \in Invoices, c \in Companies, is_offer \in BOOLEAN, o \in Invoices \cup {NULL} :
          Enter(i, c, is_offer, o)
    \/ \E i \in Invoices, K \in SUBSET RutIds : \E type \in [K -> Types] : Ask(i, K, type)

Spec == Init /\ [][Next]_vars

=============================================================================
