------------------------------ MODULE TableScan ------------------------------
(***************************************************************************)
(* What a scan promises to the query above it: rows of the table that the  *)
(* query wants arrive in any order and in batches of any size, none twice, *)
(* never more than the LIMIT; the scan ends when all of them, or as many   *)
(* as the LIMIT asks for, have arrived, or with an error.                  *)
(***************************************************************************)
EXTENDS Integers, FiniteSets, Bags

VARIABLES
    want,    \* the set of rows the query selects
    fetch,   \* how many of them it asks for; -1 for all
    sent,    \* bag of rows that have arrived
    status   \* "running", "done" or "error"

tsVars == <<want, fetch, sent, status>>

\* How many rows will have arrived: as none arrives twice, different ones.
Asked == IF fetch = -1 \/ fetch > Cardinality(want) THEN Cardinality(want) ELSE fetch

TSInit ==
    /\ sent = EmptyBag
    /\ status = "running"

Arrive ==
    /\ status = "running"
    /\ sent \sqsubseteq sent'
    /\ sent' \sqsubseteq SetToBag(want)
    /\ Cardinality(BagToSet(sent')) <= Asked
    /\ UNCHANGED <<want, fetch, status>>

Complete ==
    /\ status = "running"
    /\ Cardinality(BagToSet(sent)) = Asked
    /\ status' = "done"
    /\ UNCHANGED <<want, fetch, sent>>

Abort ==
    /\ status = "running"
    /\ status' = "error"
    /\ UNCHANGED <<want, fetch, sent>>

TSNext == Arrive \/ Complete \/ Abort

TSSpec == TSInit /\ [][TSNext]_tsVars
=============================================================================
