---------------------------- MODULE OutboxTable ----------------------------
(***************************************************************************)
(* The outbox_events table and OutboxService, the only code that reads or   *)
(* writes it.  A row is reduced to the two columns the service branches on: *)
(* its status and its retryCount.  An event IS its position in the          *)
(* createdAt order, so "orderBy createdAt asc" is the order of the numbers. *)
(* Rows are inserted by concurrent transactions, hence a row may become     *)
(* visible after a younger one.  No code path deletes a row.                *)
(***************************************************************************)
EXTENDS Integers, FiniteSets

CONSTANTS
    Events,     \* the rows the table may ever hold, by rank of createdAt
    MaxRetries  \* outbox.maxRetries

ASSUME EventsAssumption == Events \subseteq Nat
ASSUME MaxRetriesAssumption == MaxRetries \in Nat

VARIABLES
    status,     \* status[e]: the status column, "NONE" before the insert
    retryCount  \* retryCount[e]: the retry_count column

tableVars == <<status, retryCount>>

OutboxEventStatus == {"PENDING", "PROCESSING", "PUBLISHED", "FAILED"}

TableTypeOK ==
    /\ status \in [Events -> OutboxEventStatus \cup {"NONE"}]
    /\ retryCount \in [Events -> Nat]

TableInit ==
    /\ status = [e \in Events |-> "NONE"]
    /\ retryCount = [e \in Events |-> 0]

----------------------------------------------------------------------------
\* Queries: what findMany returns.

RowsWith(s) == {e \in Events : status[e] = s}

\* The first n rows of S by createdAt (orderBy asc, take n).
Oldest(S, n) == {e \in S : Cardinality({f \in S : f < e}) < n}

getPendingEvents(limit) == Oldest(RowsWith("PENDING"), limit)

\* Mutant: lte for lt.
FailedUpTo(maxRetries) == {e \in RowsWith("FAILED") : retryCount[e] <= maxRetries}

\* Mutant: rows stuck in PROCESSING are picked up for retry as well.
FailedOrStuck(maxRetries) ==
    {e \in RowsWith("FAILED") \cup RowsWith("PROCESSING") : retryCount[e] < maxRetries}

getFailedEvents(maxRetries) == {e \in RowsWith("FAILED") : retryCount[e] < maxRetries}

----------------------------------------------------------------------------
\* Updates: one SQL statement each, keyed by the row's id and by nothing else;
\* none of them looks at the status the row has.

SetStatus(e, s) == status' = [status EXCEPT ![e] = s]

createPriceUpdateEvent(e) ==
    /\ status[e] = "NONE"
    /\ SetStatus(e, "PENDING")
    /\ UNCHANGED retryCount

markAsProcessing(e) == SetStatus(e, "PROCESSING") /\ UNCHANGED retryCount

markAsPublished(e) == SetStatus(e, "PUBLISHED") /\ UNCHANGED retryCount

\* Mutant: the increment is missing.
FailUncounted(e) == SetStatus(e, "FAILED") /\ UNCHANGED retryCount

\* Mutant: the column counts the retries that are left, down from its default 0.
FailCountedDown(e) ==
    /\ SetStatus(e, "FAILED")
    /\ retryCount' = [retryCount EXCEPT ![e] = @ - 1]

markAsFailed(e) ==
    /\ SetStatus(e, "FAILED")
    /\ retryCount' = [retryCount EXCEPT ![e] = @ + 1]

resetFailedEventForRetry(e) == SetStatus(e, "PENDING") /\ UNCHANGED retryCount

============================================================================
