------------------------------ MODULE Pipeline ------------------------------
(***************************************************************************)
(* The events of ONE token on their way to the topic: OutboxProcessor seen  *)
(* from its two ends.  On one side the price cycles of a token commit their *)
(* events in the order of createdAt, because cycles take turns              *)
(* (PriceUpdate).  On the other side is what a consumer may rely on: the    *)
(* promise of AtLeastOnce, and the order in which messages reach the topic. *)
(***************************************************************************)
EXTENDS OutboxProcessor

VARIABLE together   \* pairs <<older, newer>> that have been in one batch

pipelineVars == <<vars, together>>

Pairs == {p \in Events \X Events : p[1] < p[2]}

PipelineInit == Init /\ together = {}

\* A newer event of the token is there only if the older ones are.
CommittedInOrder == \A p \in Pairs : status[p[2]] # "NONE" => status[p[1]] # "NONE"

\* Promise.allSettled starts all events of a batch at once.
InOneBatch(p) == \E b \in Batches : work[b][p[1]] # "none" /\ work[b][p[2]] # "none"

PipelineNext ==
    /\ Next
    /\ CommittedInOrder'
    /\ together' = together \cup {p \in Pairs : InOneBatch(p)'}

PipelineSpec == PipelineInit /\ [][PipelineNext]_pipelineVars

----------------------------------------------------------------------------
\* The processor may still send e: a query will return its row, or a batch
\* or a retry pass holds it.
Live(e) ==
    \/ e \in RowsWith("PENDING") \cup getFailedEvents(MaxRetries)
    \/ InHand(e)
    \/ Holders(e) # {}

\* What has become of an event.
PhaseOf(e) ==
    IF status[e] = "NONE" THEN "absent"
    ELSE IF Live(e) THEN "open"
    ELSE CASE status[e] = "PUBLISHED" -> "published"
           [] status[e] = "PROCESSING" -> "lost"
           [] status[e] = "FAILED" -> "abandoned"

Promise == INSTANCE AtLeastOnce WITH
    MaxSends <- Copies(MaxRetries),
    phase <- [e \in Events |-> PhaseOf(e)],
    sends <- delivered

\* The table, the processor and its retries together implement the promise: no
\* event is published unsent, sent more often than Copies(maxRetries) (which is
\* maxRetries when retry passes do not overlap), or touched again after it was
\* settled, whatever fails.
KeepsPromise == Promise!Spec

\* An older event of a token reaches the topic after a newer one only when the
\* two were in one batch, whose events are sent in parallel, or when the older
\* one had failed before: batches take turns and each takes the oldest rows.
DisorderHasCause ==
    [][\A p \in Pairs :
         delivered[p[2]] > 0 /\ delivered'[p[1]] > delivered[p[1]] =>
             p \in together \/ retryCount[p[1]] > 0]_pipelineVars

============================================================================
