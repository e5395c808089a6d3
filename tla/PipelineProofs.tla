--------------------------- MODULE PipelineProofs ---------------------------
(***************************************************************************)
(* Proofs about Pipeline: the outbox keeps the promise of AtLeastOnce, for  *)
(* every set of events, every limit and every environment.                  *)
(***************************************************************************)
EXTENDS Pipeline, OutboxProcessorProofs

----------------------------------------------------------------------------
\* The phases, one line for each.

PhaseTable ==
    \A e \in Events :
        /\ status[e] = "NONE" => PhaseOf(e) = "absent"
        /\ status[e] # "NONE" /\ Live(e) => PhaseOf(e) = "open"
        /\ status[e] = "PUBLISHED" /\ ~Live(e) => PhaseOf(e) = "published"
        /\ status[e] = "PROCESSING" /\ ~Live(e) => PhaseOf(e) = "lost"
        /\ status[e] = "FAILED" /\ ~Live(e) => PhaseOf(e) = "abandoned"

LEMMA Phases == PhaseTable
<1> SUFFICES ASSUME NEW e \in Events
             PROVE  /\ status[e] = "NONE" => PhaseOf(e) = "absent"
                    /\ status[e] # "NONE" /\ Live(e) => PhaseOf(e) = "open"
                    /\ status[e] = "PUBLISHED" /\ ~Live(e) => PhaseOf(e) = "published"
                    /\ status[e] = "PROCESSING" /\ ~Live(e) => PhaseOf(e) = "lost"
                    /\ status[e] = "FAILED" /\ ~Live(e) => PhaseOf(e) = "abandoned"
  BY DEF PhaseTable
<1> QED
  BY DEF PhaseOf

LEMMA PhasesAfter == PhaseTable'
  BY Phases, PTL

PhasesTyped ==
    \A e \in Events : PhaseOf(e) \in {"absent", "open", "published", "abandoned", "lost"}

\* A row that is PENDING, or in somebody's hands, is live.
LEMMA PhaseType == TypeOK => PhasesTyped
<1> SUFFICES ASSUME TypeOK, NEW e \in Events
             PROVE  PhaseOf(e) \in {"absent", "open", "published", "abandoned", "lost"}
  BY DEF PhasesTyped
<1>1. status[e] = "PENDING" => Live(e)
  BY DEF Live, RowsWith
<1> QED
  BY <1>1, Phases DEF TypeOK, TableTypeOK, OutboxEventStatus, PhaseTable

LEMMA PhaseTypeAfter == TypeOK' => PhasesTyped'
  BY PhaseType, PTL

----------------------------------------------------------------------------
\* Each step of the outbox, seen at one event, is a step of the promise.

\* What a worker needs to know of its row, and a row of its workers.
PipeInv == TypeOK /\ BatchInv /\ DeliveryInv /\ AttemptsInv

PromisedStep(e) ==
    \/ PhaseOf(e)' = PhaseOf(e) /\ delivered'[e] = delivered[e]
    \/ /\ PhaseOf(e) = "absent" /\ PhaseOf(e)' = "open"
       /\ delivered'[e] = delivered[e]
    \/ /\ PhaseOf(e) = "open" /\ PhaseOf(e)' = "open"
       /\ delivered[e] < Copies(MaxRetries) /\ delivered'[e] = delivered[e] + 1
    \/ /\ PhaseOf(e) = "open" /\ PhaseOf(e)' = "published"
       /\ delivered[e] > 0 /\ delivered'[e] = delivered[e]
    \/ /\ PhaseOf(e) = "open" /\ PhaseOf(e)' \in {"abandoned", "lost"}
       /\ delivered'[e] = delivered[e]

\* A row is never deleted, and only the creation of an event inserts it.
LEMMA RowsStay ==
  ASSUME TypeOK, AttemptsInv, [Next]_vars, NEW f \in Events
  PROVE  /\ status'[f] = "NONE" => status[f] = "NONE"
         /\ status[f] = "NONE" => status'[f] \in {"NONE", "PENDING"}
<1> USE DEF TypeOK, TableTypeOK, SetStatus
<1>1. CASE \E e \in Events : CreatePriceUpdateEvent(e)
  BY <1>1 DEF CreatePriceUpdateEvent, createPriceUpdateEvent
<1>2. CASE \E b \in Batches :
             ProcessPendingEvents(b) \/ ExecutePendingEvents(b) \/ EndBatch(b)
  BY <1>2, BatchStep
<1>3. ASSUME NEW b \in Batches, NEW e \in Events, ProcessEvent(b, e)
      PROVE  status'[f] = "NONE" <=> status[f] = "NONE"
  <2>1. status[e] # "NONE"
    BY <1>3, WorkerStep DEF AttemptsInv, AttemptsOf, InHand
  <2> QED
    BY <1>3, <2>1 DEF ProcessEvent, Marked, Reconnected, Sent, Published, Failed, tableVars,
                      markAsProcessing, markAsPublished, markAsFailed
<1>4. CASE \E r \in Retriers : RetryFailedEvents(r) \/ FetchFailed(r)
  BY <1>4, FetchStep
<1>5. ASSUME NEW r \in Retriers, ResetNext(r)
      PROVE  status'[f] \in {status[f], "PENDING"}
  BY <1>5, ResetStep DEF resetFailedEventForRetry, ProcessTypeOK
<1>6. CASE BootFailed \/ Crash \/ Exit
  BY <1>6, EndStep
<1>7. CASE UNCHANGED <<tableVars, history, isProcessing, batch, work, pass, todo>>
  BY <1>7 DEF tableVars
<1>8. ASSUME NEW r \in Retriers, ResetNext(r), status[f] = "NONE" PROVE status'[f] = "NONE"
  <2>1. Holders(f) = {}
    BY <1>8 DEF AttemptsInv, AttemptsOf
  <2> QED
    BY <1>8, <2>1, ResetStep DEF resetFailedEventForRetry, ProcessTypeOK, Holders
<1> QED
  BY <1>1, <1>2, <1>3, <1>4, <1>5, <1>6, <1>7, <1>8, StepCases

\* Only an answer to a send changes what the topic has received.
LEMMA OnlySendsDeliver ==
  ASSUME TypeOK, [Next]_vars, NEW f \in Events
  PROVE  delivered'[f] = delivered[f] \/ \E b \in Batches : Sent(b, f)
<1>1. ASSUME NEW b \in Batches, NEW e \in Events, ProcessEvent(b, e)
      PROVE  delivered'[f] = delivered[f] \/ Sent(b, f)
  <2>1. CASE Sent(b, e)
    BY <2>1 DEF Sent, TypeOK, HistoryTypeOK
  <2>2. CASE Marked(b, e) \/ Reconnected(b, e) \/ Published(b, e) \/ Failed(b, e)
    BY <2>2 DEF Marked, Reconnected, Published, Failed, history
  <2> QED
    BY <1>1, <2>1, <2>2 DEF ProcessEvent
<1> QED
  BY <1>1, StepCases, BatchStep, FetchStep, ResetStep, EndStep
     DEF CreatePriceUpdateEvent, history

\* An open event may go anywhere, but to PUBLISHED only once it was sent.
LEMMA OpenMoves ==
  ASSUME TypeOK', DeliveryInv', NEW e \in Events, PhaseOf(e) = "open",
         status'[e] # "NONE", delivered'[e] = delivered[e]
  PROVE  PromisedStep(e)
<1>1. /\ status'[e] \in {"PENDING", "PROCESSING", "PUBLISHED", "FAILED"}
      /\ status'[e] = "PENDING" => Live(e)'
  BY DEF TypeOK, TableTypeOK, OutboxEventStatus, Live, RowsWith
<1>2. \/ PhaseOf(e)' \in {"open", "abandoned", "lost"}
      \/ PhaseOf(e)' = "published" /\ status'[e] = "PUBLISHED"
  BY <1>1, PhasesAfter DEF PhaseTable
<1>3. status'[e] = "PUBLISHED" => delivered[e] > 0
  BY DEF DeliveryInv, PublishedWasDelivered
<1> QED
  BY <1>2, <1>3 DEF PromisedStep

\* An event that is sent is in hand, stays there, and has a copy left to send.
LEMMA SentKeepsPromise ==
  ASSUME PipeInv, NEW b \in Batches, NEW e \in Events, Sent(b, e)
  PROVE  /\ PhaseOf(e) = "open" /\ PhaseOf(e)' = "open"
         /\ delivered'[e] = delivered[e] \/ /\ delivered[e] < Copies(MaxRetries)
                                            /\ delivered'[e] = delivered[e] + 1
<1> USE DEF PipeInv
<1>1. InHand(e) /\ OnTheWay(e) /\ AttemptsOf(e)
  BY DEF Sent, InHand, OnTheWay, AttemptsInv
<1>2. status[e] # "NONE" /\ UNCHANGED status /\ ~Due(e)
  BY <1>1, Numbers DEF AttemptsOf, Sent, tableVars
<1>3. InHand(e)'
  BY StaysInHand DEF Sent, Stages
<1>4. PhaseOf(e) = "open" /\ PhaseOf(e)' = "open"
  BY <1>1, <1>2, <1>3, Phases, PhasesAfter DEF PhaseTable, Live
<1>5. delivered[e] < Copies(MaxRetries)
  <2>1. Sendable(e) <= Copies(retryCount[e]) /\ delivered[e] + 1 <= Sendable(e)
        /\ Sendable(e) \in Nat
    BY <1>1, <1>2, Numbers DEF AttemptsOf, Sendable
  <2>2. Copies(retryCount[e]) <= Copies(MaxRetries) /\ Copies(MaxRetries) \in Nat
    BY CopiesGrow, MaxRetriesAssumption, Numbers
  <2> QED
    BY <2>1, <2>2, Numbers
<1>6. delivered'[e] = delivered[e] \/ delivered'[e] = delivered[e] + 1
  BY DEF Sent, TypeOK, HistoryTypeOK
<1> QED
  BY <1>4, <1>5, <1>6

\* What nobody holds and no query returns is left alone, and stays so.
LEMMA SettledStays ==
  ASSUME PipeInv, [Next]_vars, NEW f \in Events, status[f] # "NONE", ~Live(f)
  PROVE  UNCHANGED <<status[f], retryCount[f], delivered[f]>> /\ ~Live(f)'
<1> USE DEF PipeInv
<1>1. /\ \A b \in Batches : work[b][f] = "none"
      /\ \A r \in Retriers : f \notin todo[r]
      /\ status[f] # "PENDING" /\ f \notin getFailedEvents(MaxRetries)
  BY DEF Live, InHand, Holders, RowsWith
<1>2. SUFFICES /\ UNCHANGED <<status[f], retryCount[f], delivered[f]>>
               /\ \A b \in Batches : work'[b][f] = "none"
               /\ \A r \in Retriers : f \notin todo'[r]
  BY <1>1 DEF Live, InHand, Holders, RowsWith, getFailedEvents
<1> USE <1>1 DEF TypeOK, TableTypeOK, ProcessTypeOK
<1>3. CASE \E e \in Events : CreatePriceUpdateEvent(e)
  BY <1>3 DEF CreatePriceUpdateEvent, createPriceUpdateEvent, SetStatus, processVars, history
<1>4. ASSUME NEW b \in Batches,
             ProcessPendingEvents(b) \/ ExecutePendingEvents(b) \/ EndBatch(b)
      PROVE  /\ UNCHANGED <<status, retryCount, delivered, todo>>
             /\ \A c \in Batches : work'[c][f] = "none"
  <2>1. UNCHANGED <<status, retryCount, delivered, todo>>
    BY <1>4, BatchStep
  <2>2. ASSUME NEW S \in SUBSET RowsWith("PENDING"),
               work' = [work EXCEPT ![b] =
                          [e \in Events |-> IF e \in S THEN "marking" ELSE "none"]]
        PROVE  \A c \in Batches : work'[c][f] = "none"
    BY <2>2 DEF RowsWith
  <2> QED
    BY <1>4, <2>1, <2>2, BatchStep
<1>5. ASSUME NEW b \in Batches, NEW e \in Events, ProcessEvent(b, e)
      PROVE  /\ UNCHANGED <<status[f], retryCount[f], delivered[f], todo>>
             /\ \A c \in Batches : work'[c][f] = "none"
  <2>1. f # e
    BY <1>5, WorkerStep
  <2> QED
    BY <1>5, <2>1, OthersAreLeft, WorkerStep
<1>6. CASE \E r \in Retriers : RetryFailedEvents(r) \/ FetchFailed(r)
  <2>1. \A r \in Retriers : f \notin todo'[r]
    BY <1>6 DEF RetryFailedEvents, FetchFailed
  <2> QED
    BY <1>6, <2>1, FetchStep
<1>7. ASSUME NEW r \in Retriers, ResetNext(r)
      PROVE  /\ status'[f] = status[f] /\ UNCHANGED <<retryCount, delivered, work>>
             /\ \A s \in Retriers : f \notin todo'[s]
  <2>1. PICK e \in todo[r] : /\ UNCHANGED status \/ status' = [status EXCEPT ![e] = "PENDING"]
                             /\ todo' = [todo EXCEPT ![r] = @ \ {e}]
                                \/ todo' = [todo EXCEPT ![r] = {}]
    BY <1>7, ResetStep DEF resetFailedEventForRetry, SetStatus
  <2>2. status'[f] = status[f] /\ \A s \in Retriers : f \notin todo'[s]
    BY <2>1
  <2>3. UNCHANGED <<retryCount, delivered, work>>
    BY <1>7, ResetStep
  <2> QED
    BY <2>2, <2>3
<1>8. CASE BootFailed \/ Crash \/ Exit
  <2>1. work' = NoWork /\ todo' = NothingTodo /\ UNCHANGED <<status, retryCount, delivered>>
    BY <1>8, EndStep DEF Vanish
  <2> QED
    BY <2>1 DEF NoWork, NothingTodo
<1>9. CASE UNCHANGED <<tableVars, history, isProcessing, batch, work, pass, todo>>
  BY <1>9 DEF tableVars, history
<1> QED
  BY <1>3, <1>4, <1>5, <1>6, <1>7, <1>8, <1>9, StepCases

LEMMA StepKeepsPromise ==
  ASSUME PipeInv, PipeInv', [Next]_vars, NEW f \in Events
  PROVE  PromisedStep(f)
<1> USE DEF PipeInv
<1>1. CASE status[f] = "NONE"
  <2>1. PhaseOf(f) = "absent" /\ ~InHand(f)
    BY <1>1, Phases DEF PhaseTable, AttemptsInv, AttemptsOf
  <2>2. delivered'[f] = delivered[f]
    BY <2>1, OnlySendsDeliver DEF Sent, InHand
  <2>3. CASE status'[f] = "NONE"
    BY <2>1, <2>2, <2>3, PhasesAfter DEF PhaseTable, PromisedStep
  <2>4. CASE status'[f] = "PENDING"
    <3>1. PhaseOf(f)' = "open"
      BY <2>4, PhasesAfter DEF PhaseTable, Live, RowsWith
    <3> QED
      BY <2>1, <2>2, <3>1 DEF PromisedStep
  <2> QED
    BY <1>1, <2>3, <2>4, RowsStay
<1>2. CASE status[f] # "NONE" /\ Live(f)
  <2>1. PhaseOf(f) = "open" /\ status'[f] # "NONE"
    BY <1>2, Phases, RowsStay DEF PhaseTable
  <2>2. CASE delivered'[f] = delivered[f]
    BY <2>1, <2>2, OpenMoves
  <2>3. CASE \E b \in Batches : Sent(b, f)
    BY <2>3, SentKeepsPromise DEF PromisedStep
  <2> QED
    BY <2>2, <2>3, OnlySendsDeliver
<1>3. CASE status[f] # "NONE" /\ ~Live(f)
  <2>1. UNCHANGED <<status[f], delivered[f]>> /\ ~Live(f)'
    BY <1>3, SettledStays
  <2>2. status[f] \in {"PUBLISHED", "PROCESSING", "FAILED"}
    BY <1>3 DEF TypeOK, TableTypeOK, OutboxEventStatus, Live, RowsWith
  <2>3. PhaseOf(f)' = PhaseOf(f)
    BY <1>3, <2>1, <2>2, Phases, PhasesAfter DEF PhaseTable
  <2> QED
    BY <2>1, <2>3 DEF PromisedStep
<1> QED
  BY <1>1, <1>2, <1>3

----------------------------------------------------------------------------
\* The refinement.

LEMMA InitPromise == Init => Promise!Init
<1> SUFFICES ASSUME Init, NEW e \in Events PROVE PhaseOf(e) = "absent"
  BY DEF Init, Promise!Init
<1>1. status[e] = "NONE"
  BY DEF Init, TableInit
<1> QED
  BY <1>1, Phases DEF PhaseTable

LEMMA NextPromise ==
  PipeInv /\ PipeInv' /\ [Next]_vars => Promise!Next
<1> SUFFICES ASSUME PipeInv, PipeInv', [Next]_vars PROVE Promise!Next
  OBVIOUS
<1>1. [e \in Events |-> PhaseOf(e)]' \in [Events -> Promise!Phases]
  BY PhaseTypeAfter DEF Promise!Phases, PipeInv, PhasesTyped
<1>2. delivered' \in [Events -> Nat]
  BY DEF PipeInv, TypeOK, HistoryTypeOK
<1>3. ASSUME NEW e \in Events
      PROVE  \/ Promise!Rest(e) \/ Promise!Create(e) \/ Promise!Send(e)
             \/ Promise!Publish(e) \/ Promise!GiveUp(e) \/ Promise!Lose(e)
  BY StepKeepsPromise
     DEF PromisedStep, Promise!Rest, Promise!Create, Promise!Send, Promise!Publish,
         Promise!GiveUp, Promise!Lose, Promise!Move
<1> QED
  BY <1>1, <1>2, <1>3 DEF Promise!Next

LEMMA PipeInvariant == Spec => []PipeInv
<1>1. Spec => []BatchInv
  BY TypeCorrect, InitBatch, NextBatch, PTL DEF Spec
<1>2. Spec => []DeliveryInv
  BY TypeCorrect, InitDelivery, NextDelivery, PTL DEF Spec
<1> QED
  BY <1>1, <1>2, TypeCorrect, AttemptsInvariant, PTL DEF PipeInv

\* The outbox keeps its promise, whatever crashes or fails and however many retry
\* passes overlap: an event is sent before it counts as published, at most
\* Copies(maxRetries) times, and never again after it was settled.
THEOREM OutboxKeepsPromise == Spec => KeepsPromise
<1>1. PipeInv /\ PipeInv' /\ [Next]_vars =>
        [Promise!Next]_<<[e \in Events |-> PhaseOf(e)], delivered>>
  BY NextPromise
<1> QED
  BY <1>1, PipeInvariant, InitPromise, PTL DEF Spec, KeepsPromise, Promise!Spec

----------------------------------------------------------------------------
\* The order of a token's messages.  No assumption on retry passes here: what a
\* stale reset touches has failed before.

\* The first attempt at e is still to come, or under way.
Waits(e) ==
    /\ retryCount[e] = 0
    /\ \/ status[e] \in {"NONE", "PENDING"}
       \/ \E b \in Batches : work[b][e] \in {"marking", "connecting", "sending"}

\* A newer event that has not shared a batch with a waiting older one has not
\* been touched; and what is FAILED, or due for a reset, has failed.
OrderInv ==
    /\ \A p \in Pairs : p \notin together /\ Waits(p[1]) => delivered[p[2]] = 0 /\ ~InHand(p[2])
    /\ CommittedInOrder
    /\ \A e \in Events : status[e] = "NONE" => delivered[e] = 0 /\ ~InHand(e)
    /\ \A e \in Events : status[e] = "FAILED" => retryCount[e] > 0
    /\ \A r \in Retriers : \A e \in todo[r] : retryCount[e] > 0

\* A query that returns a row returns every older one that qualifies.
LEMMA OlderRowsToo ==
  ASSUME NEW S \in SUBSET Nat, NEW n \in Nat, NEW e \in Oldest(S, n), NEW f \in S, f < e
  PROVE  f \in Oldest(S, n)
<1> DEFINE Before(g) == {h \in S : h < g}
<1>1. e \in Nat /\ f \in Nat /\ S \subseteq Nat
  BY DEF Oldest
<1>2. IsFiniteSet(Before(e))
  <2>1. \A h \in Before(e) : h \in Nat /\ h <= e
    BY <1>1
  <2>2. Before(e) \in SUBSET Nat
    BY <2>1
  <2> QED
    BY <1>1, <2>1, <2>2, FS_BoundedSetOfNaturals
<1>3. Before(f) \in SUBSET Before(e)
  <2>1. \A h \in S : h < f => h < e
    BY <1>1
  <2> QED
    BY <2>1
<1>4. /\ Cardinality(Before(f)) \in Nat /\ Cardinality(Before(e)) \in Nat
      /\ Cardinality(Before(f)) <= Cardinality(Before(e))
  BY <1>2, <1>3, FS_Subset, FS_CardinalityType
<1>5. Cardinality(Before(e)) < n
  BY DEF Oldest
<1>6. Cardinality(Before(f)) < n
  BY <1>4, <1>5
<1> QED
  BY <1>6 DEF Oldest

\* What each step may do to the row, the worker and the passes of one event.
LEMMA WaitsBackwards ==
  ASSUME TypeOK, OrderInv, [Next]_vars, NEW f \in Events, Waits(f)'
  PROVE  Waits(f)
<1> USE DEF TypeOK, TableTypeOK, ProcessTypeOK, Waits, SetStatus
<1>1. CASE \E e \in Events : CreatePriceUpdateEvent(e)
  BY <1>1 DEF CreatePriceUpdateEvent, createPriceUpdateEvent, processVars
<1>2. ASSUME NEW b \in Batches,
             ProcessPendingEvents(b) \/ ExecutePendingEvents(b) \/ EndBatch(b)
      PROVE  Waits(f)
  <2>1. UNCHANGED <<status, retryCount>>
    BY <1>2, BatchStep
  <2>2. CASE UNCHANGED work
    BY <2>1, <2>2
  <2>3. ASSUME NEW S \in SUBSET RowsWith("PENDING"),
               work' = [work EXCEPT ![b] =
                          [e \in Events |-> IF e \in S THEN "marking" ELSE "none"]]
        PROVE  Waits(f)
    BY <2>1, <2>3 DEF RowsWith
  <2> QED
    BY <1>2, <2>2, <2>3, BatchStep
<1>3. ASSUME NEW b \in Batches, NEW e \in Events, ProcessEvent(b, e) PROVE Waits(f)
  <2>1. CASE Marked(b, e)
    BY <2>1 DEF Marked, Advance, markAsProcessing, tableVars
  <2>2. CASE Reconnected(b, e)
    BY <2>2 DEF Reconnected, Advance, tableVars
  <2>3. CASE Sent(b, e)
    <3>1. \A c \in Batches : work'[c][f] \in {work[c][f], "publishing", "failing"}
      BY <2>3 DEF Sent, Advance
    <3> QED
      BY <2>3, <3>1 DEF Sent, tableVars
  <2>4. CASE Published(b, e)
    BY <2>4 DEF Published, Advance, markAsPublished, tableVars
  <2>5. CASE Failed(b, e)
    BY <2>5 DEF Failed, Advance, markAsFailed, tableVars
  <2> QED
    BY <1>3, <2>1, <2>2, <2>3, <2>4, <2>5 DEF ProcessEvent
<1>4. CASE \E r \in Retriers : RetryFailedEvents(r) \/ FetchFailed(r)
  BY <1>4, FetchStep
<1>5. CASE \E r \in Retriers : ResetNext(r)
  BY <1>5, ResetStep DEF resetFailedEventForRetry, OrderInv
<1>6. CASE BootFailed \/ Crash \/ Exit
  <2>1. work' = NoWork /\ UNCHANGED <<status, retryCount>>
    BY <1>6, EndStep DEF Vanish
  <2>2. \A c \in Batches : work'[c][f] = "none"
    BY <2>1 DEF NoWork
  <2> QED
    BY <2>1, <2>2
<1>7. CASE UNCHANGED <<tableVars, history, isProcessing, batch, work, pass, todo>>
  BY <1>7 DEF tableVars
<1> QED
  BY <1>1, <1>2, <1>3, <1>4, <1>5, <1>6, <1>7, StepCases

\* An event in nobody's hands is not sent; only a batch that fetches takes it up,
\* together with everything else the query returned.
LEMMA TakenUp ==
  ASSUME TypeOK, [Next]_vars, NEW f \in Events, ~InHand(f)
  PROVE  /\ delivered'[f] = delivered[f]
         /\ InHand(f)' => \E b \in Batches :
              /\ batch[b] = "fetching" /\ f \in getPendingEvents(BatchSize)
              /\ \A g \in getPendingEvents(BatchSize) : work'[b][g] = "marking"
<1> USE DEF TypeOK, ProcessTypeOK, HistoryTypeOK
<1>1. ASSUME UNCHANGED <<delivered, work>> PROVE delivered'[f] = delivered[f] /\ ~InHand(f)'
  BY <1>1 DEF InHand
<1>2. CASE \/ \E e \in Events : CreatePriceUpdateEvent(e)
           \/ UNCHANGED <<tableVars, history, isProcessing, batch, work, pass, todo>>
  BY <1>1, <1>2 DEF CreatePriceUpdateEvent, processVars, history
<1>3. ASSUME NEW b \in Batches, ProcessPendingEvents(b) \/ EndBatch(b)
      PROVE  UNCHANGED <<delivered, work>>
  BY <1>3 DEF ProcessPendingEvents, EndBatch, history
<1>4. ASSUME NEW b \in Batches, ExecutePendingEvents(b)
      PROVE  \/ UNCHANGED <<delivered, work>>
             \/ /\ batch[b] = "fetching" /\ UNCHANGED delivered
                /\ work' = [work EXCEPT ![b] =
                              [e \in Events |-> IF e \in getPendingEvents(BatchSize)
                                                THEN "marking" ELSE "none"]]
  BY <1>4 DEF ExecutePendingEvents, history
<1>5. ASSUME NEW b \in Batches, batch[b] = "fetching", UNCHANGED delivered,
             work' = [work EXCEPT ![b] =
                        [e \in Events |-> IF e \in getPendingEvents(BatchSize)
                                          THEN "marking" ELSE "none"]]
      PROVE  /\ delivered'[f] = delivered[f]
             /\ InHand(f)' => /\ f \in getPendingEvents(BatchSize)
                              /\ \A g \in getPendingEvents(BatchSize) : work'[b][g] = "marking"
  <2>1. getPendingEvents(BatchSize) \subseteq Events
    BY DEF getPendingEvents, Oldest, RowsWith
  <2>2. \A c \in Batches \ {b} : work'[c] = work[c]
    BY <1>5
  <2>3. \A g \in Events : work'[b][g] = IF g \in getPendingEvents(BatchSize)
                                       THEN "marking" ELSE "none"
    BY <1>5
  <2> QED
    BY <1>5, <2>1, <2>2, <2>3 DEF InHand
<1>6. ASSUME NEW b \in Batches, NEW e \in Events, ProcessEvent(b, e)
      PROVE  delivered'[f] = delivered[f] /\ ~InHand(f)'
  <2>1. f # e
    BY <1>6, WorkerStep DEF InHand
  <2>2. delivered'[f] = delivered[f]
    BY <1>6, <2>1 DEF ProcessEvent, Marked, Reconnected, Sent, Published, Failed, history
  <2>3. \A c \in Batches : work'[c][f] = work[c][f]
    BY <1>6, <2>1, WorkerStep
  <2> QED
    BY <2>2, <2>3 DEF InHand
<1>7. CASE \E r \in Retriers : RetryFailedEvents(r) \/ FetchFailed(r) \/ ResetNext(r)
  BY <1>1, <1>7, FetchStep, ResetStep
<1>8. CASE BootFailed \/ Crash \/ Exit
  BY <1>8, EndStep DEF Vanish, NoWork, InHand
<1> QED
  BY <1>1, <1>2, <1>3, <1>4, <1>5, <1>6, <1>7, <1>8, StepCases

\* An event is never deleted, and is FAILED only with a failure counted.
LEMMA RowsOnwards ==
  ASSUME TypeOK, OrderInv, [Next]_vars, NEW f \in Events
  PROVE  /\ status'[f] = "NONE" => status[f] = "NONE"
         /\ retryCount[f] > 0 => retryCount'[f] > 0
         /\ status'[f] = "FAILED" => retryCount'[f] > 0
<1> USE DEF TypeOK, TableTypeOK, OrderInv, SetStatus
<1>1. CASE \E e \in Events : CreatePriceUpdateEvent(e)
  BY <1>1 DEF CreatePriceUpdateEvent, createPriceUpdateEvent
<1>2. CASE \E b \in Batches :
             ProcessPendingEvents(b) \/ ExecutePendingEvents(b) \/ EndBatch(b)
  BY <1>2, BatchStep
<1>3. CASE \E b \in Batches, e \in Events : ProcessEvent(b, e)
  BY <1>3 DEF ProcessEvent, Marked, Reconnected, Sent, Published, Failed, tableVars,
              markAsProcessing, markAsPublished, markAsFailed
<1>4. CASE \E r \in Retriers : RetryFailedEvents(r) \/ FetchFailed(r)
  BY <1>4, FetchStep
<1>5. CASE \E r \in Retriers : ResetNext(r)
  BY <1>5, ResetStep DEF resetFailedEventForRetry, ProcessTypeOK
<1>6. CASE BootFailed \/ Crash \/ Exit
  BY <1>6, EndStep
<1>7. CASE UNCHANGED <<tableVars, history, isProcessing, batch, work, pass, todo>>
  BY <1>7 DEF tableVars
<1> QED
  BY <1>1, <1>2, <1>3, <1>4, <1>5, <1>6, <1>7, StepCases

\* What a pass is about to reset had failed when the pass read it.
LEMMA TodoHasFailed ==
  ASSUME TypeOK, OrderInv, [Next]_vars, NEW r \in Retriers, NEW e \in todo'[r]
  PROVE  retryCount[e] > 0 /\ e \in Events
<1> USE DEF TypeOK, ProcessTypeOK
<1>1. CASE UNCHANGED todo
  BY <1>1 DEF OrderInv
<1>2. CASE \E s \in Retriers : FetchFailed(s)
  BY <1>2 DEF FetchFailed, getFailedEvents, RowsWith, OrderInv
<1>3. CASE \E s \in Retriers : ResetNext(s)
  BY <1>3, ResetStep DEF OrderInv
<1>4. CASE BootFailed \/ Crash \/ Exit
  BY <1>4, EndStep DEF Vanish, NothingTodo
<1> QED
  BY <1>1, <1>2, <1>3, <1>4, StepCases, BatchStep, WorkerStep
     DEF RetryFailedEvents, CreatePriceUpdateEvent, processVars

\* A batch that takes up a newer event takes up the waiting older one as well.
LEMMA TakenUpTogether ==
  ASSUME TypeOK, BatchInv, OrderInv, NEW p \in Pairs, Waits(p[1]),
         NEW b \in Batches, batch[b] = "fetching", p[2] \in getPendingEvents(BatchSize)
  PROVE  p[1] \in getPendingEvents(BatchSize)
<1>1. /\ p[1] \in Events /\ p[2] \in Events /\ p[1] < p[2]
      /\ p[2] \in RowsWith("PENDING")
  BY DEF Pairs, getPendingEvents, Oldest
<1>2. status[p[1]] # "NONE"
  BY <1>1 DEF OrderInv, CommittedInOrder, RowsWith
<1>3. \A c \in Batches : work[c][p[1]] = "none"
  BY <1>1 DEF BatchInv
<1>4. p[1] \in RowsWith("PENDING")
  BY <1>1, <1>2, <1>3 DEF Waits, RowsWith
<1>5. RowsWith("PENDING") \in SUBSET Nat /\ BatchSize \in Nat
  BY EventsAssumption, BatchSizeAssumption DEF RowsWith
<1> QED
  BY <1>1, <1>4, <1>5, OlderRowsToo DEF getPendingEvents

LEMMA InitOrder == PipelineInit => OrderInv
<1> SUFFICES ASSUME PipelineInit PROVE OrderInv
  OBVIOUS
<1>1. \A e \in Events : status[e] = "NONE" /\ delivered[e] = 0 /\ ~InHand(e)
  BY DEF PipelineInit, Init, TableInit, NoWork, InHand
<1>2. \A r \in Retriers : todo[r] = {}
  BY DEF PipelineInit, Init, NothingTodo
<1> QED
  BY <1>1, <1>2 DEF OrderInv, CommittedInOrder, Pairs

LEMMA NextOrder ==
  TypeOK /\ TypeOK' /\ BatchInv /\ OrderInv /\ [PipelineNext]_pipelineVars => OrderInv'
<1> SUFFICES ASSUME TypeOK, TypeOK', BatchInv, OrderInv, [PipelineNext]_pipelineVars
             PROVE  OrderInv'
  OBVIOUS
<1>1. [Next]_vars /\ together \subseteq together'
  BY DEF PipelineNext, pipelineVars
<1>2. \A p \in Pairs : InOneBatch(p)' => p \in together' \/ UNCHANGED vars
  BY DEF PipelineNext, pipelineVars
<1>3. ASSUME NEW p \in Pairs, p \notin together', Waits(p[1])'
      PROVE  delivered'[p[2]] = 0 /\ ~InHand(p[2])'
  <2>1. p[1] \in Events /\ p[2] \in Events /\ p \notin together
    BY <1>1, <1>3 DEF Pairs
  <2>2. Waits(p[1])
    BY <1>1, <1>3, <2>1, WaitsBackwards
  <2>3. delivered[p[2]] = 0 /\ ~InHand(p[2])
    BY <2>1, <2>2 DEF OrderInv
  <2>4. delivered'[p[2]] = 0
    BY <1>1, <2>1, <2>3, TakenUp
  <2>5. ASSUME InHand(p[2])' PROVE FALSE
    <3>1. PICK b \in Batches :
            /\ batch[b] = "fetching" /\ p[2] \in getPendingEvents(BatchSize)
            /\ \A g \in getPendingEvents(BatchSize) : work'[b][g] = "marking"
      BY <1>1, <2>1, <2>3, <2>5, TakenUp
    <3>2. p[1] \in getPendingEvents(BatchSize)
      BY <2>2, <3>1, TakenUpTogether
    <3>3. InOneBatch(p)'
      BY <3>1, <3>2 DEF InOneBatch
    <3>4. UNCHANGED vars
      BY <1>2, <1>3, <3>3
    <3> QED
      BY <2>3, <2>5, <3>4 DEF vars, processVars, InHand
  <2> QED
    BY <2>4, <2>5
<1>4. CommittedInOrder'
  <2>1. CASE PipelineNext
    BY <2>1 DEF PipelineNext
  <2>2. CASE UNCHANGED pipelineVars
    BY <2>2 DEF pipelineVars, vars, tableVars, OrderInv, CommittedInOrder
  <2> QED
    BY <2>1, <2>2
<1>5. ASSUME NEW e \in Events, status'[e] = "NONE" PROVE delivered'[e] = 0 /\ ~InHand(e)'
  <2>1. status[e] = "NONE" /\ delivered[e] = 0 /\ ~InHand(e)
    BY <1>1, <1>5, RowsOnwards DEF OrderInv
  <2>2. e \notin getPendingEvents(BatchSize)
    BY <2>1 DEF getPendingEvents, Oldest, RowsWith
  <2> QED
    BY <1>1, <2>1, <2>2, TakenUp
<1>6. \A e \in Events : status'[e] = "FAILED" => retryCount'[e] > 0
  BY <1>1, RowsOnwards
<1>7. \A r \in Retriers : \A e \in todo'[r] : retryCount'[e] > 0
  BY <1>1, TodoHasFailed, RowsOnwards
<1> QED
  BY <1>3, <1>4, <1>5, <1>6, <1>7 DEF OrderInv

LEMMA PipelineIsOutbox == PipelineSpec => Spec
<1>1. PipelineInit => Init
  BY DEF PipelineInit
<1>2. [PipelineNext]_pipelineVars => [Next]_vars
  BY DEF PipelineNext, pipelineVars
<1> QED
  BY <1>1, <1>2, PTL DEF PipelineSpec, Spec

\* Messages of a token arrive in order, except for two events of one batch and
\* for an event that had failed before.
THEOREM DisorderIsExplained == PipelineSpec => DisorderHasCause
<1>1. PipelineSpec => [](TypeOK /\ BatchInv)
  BY PipelineIsOutbox, TypeCorrect, InitBatch, NextBatch, PTL DEF Spec
<1>2. PipelineSpec => []OrderInv
  BY <1>1, InitOrder, NextOrder, PTL DEF PipelineSpec
<1>3. TypeOK /\ OrderInv /\ [PipelineNext]_pipelineVars =>
        [\A p \in Pairs :
           delivered[p[2]] > 0 /\ delivered'[p[1]] > delivered[p[1]] =>
             p \in together \/ retryCount[p[1]] > 0]_pipelineVars
  <2> SUFFICES ASSUME TypeOK, OrderInv, PipelineNext, NEW p \in Pairs, p \notin together,
                      delivered[p[2]] > 0, delivered'[p[1]] > delivered[p[1]]
               PROVE  retryCount[p[1]] > 0
    BY DEF pipelineVars
  <2>1. p[1] \in Events /\ p[2] \in Events /\ retryCount[p[1]] \in Nat
        /\ delivered[p[1]] \in Nat
    BY DEF Pairs, TypeOK, TableTypeOK, HistoryTypeOK
  <2>2. PICK b \in Batches : Sent(b, p[1])
    BY <2>1, OnlySendsDeliver DEF PipelineNext
  <2>3. work[b][p[1]] = "sending"
    BY <2>2 DEF Sent
  <2>4. ~Waits(p[1])
    <3>1. delivered[p[2]] # 0
      BY <2>1 DEF TypeOK, HistoryTypeOK
    <3> QED
      BY <3>1 DEF OrderInv
  <2> QED
    BY <2>1, <2>3, <2>4 DEF Waits
<1> QED
  BY <1>1, <1>2, <1>3, PTL DEF PipelineSpec, DisorderHasCause

----------------------------------------------------------------------------
\* Batches of one event.

LEMMA OldestIsOne ==
  ASSUME NEW S \in SUBSET Nat, NEW e \in Oldest(S, 1), NEW f \in Oldest(S, 1)
  PROVE  e = f
<1>1. e \in Nat /\ f \in Nat /\ e \in S /\ f \in S
  BY DEF Oldest
<1>2. ASSUME NEW g \in Oldest(S, 1), NEW h \in S PROVE ~(h < g)
  <2> DEFINE Before == {k \in S : k < g}
  <2>1. g \in Nat /\ Cardinality(Before) < 1
    BY DEF Oldest
  <2>2. IsFiniteSet(Before)
    <3>1. \A k \in Before : k \in Nat /\ k <= g
      BY <2>1
    <3>2. Before \in SUBSET Nat
      BY <3>1
    <3> QED
      BY <2>1, <3>1, <3>2, FS_BoundedSetOfNaturals
  <2>3. Before = {}
    <3> HIDE DEF Before
    <3>1. Cardinality(Before) = 0
      BY <2>1, <2>2, FS_CardinalityType
    <3> QED
      BY <2>2, <3>1, FS_EmptySet
  <2> QED
    BY <2>3
<1> QED
  BY <1>1, <1>2

\* No batch has more than one event in its hands.
SingleInv ==
    \A b \in Batches : \A e, f \in Events : work[b][e] # "none" /\ work[b][f] # "none" => e = f

LEMMA NextSingle ==
  ASSUME BatchSize = 1, TypeOK, SingleInv, [Next]_vars
  PROVE  SingleInv'
<1> USE DEF TypeOK, ProcessTypeOK, SingleInv
<1>1. ASSUME NEW b \in Batches, ExecutePendingEvents(b) PROVE SingleInv'
  <2> DEFINE S == getPendingEvents(1)
  <2>1. \A e, f \in S : e = f
    BY OldestIsOne, EventsAssumption DEF getPendingEvents, RowsWith
  <2>2. \/ UNCHANGED work
        \/ work' = [work EXCEPT ![b] = [e \in Events |-> IF e \in S THEN "marking" ELSE "none"]]
    BY <1>1 DEF ExecutePendingEvents
  <2> HIDE DEF S
  <2> QED
    BY <2>1, <2>2
<1>2. ASSUME NEW b \in Batches, NEW e \in Events, ProcessEvent(b, e) PROVE SingleInv'
  BY <1>2, WorkerStep
<1>3. CASE BootFailed \/ Crash \/ Exit
  <2>1. work' = NoWork
    BY <1>3, EndStep DEF Vanish
  <2>2. \A b \in Batches, e \in Events : work'[b][e] = "none"
    BY <2>1 DEF NoWork
  <2> QED
    BY <2>2
<1>4. CASE \/ \E e \in Events : CreatePriceUpdateEvent(e)
           \/ \E b \in Batches : ProcessPendingEvents(b) \/ EndBatch(b)
           \/ \E r \in Retriers : RetryFailedEvents(r) \/ FetchFailed(r) \/ ResetNext(r)
           \/ UNCHANGED <<tableVars, history, isProcessing, batch, work, pass, todo>>
  <2>1. UNCHANGED work
    BY <1>4, FetchStep, ResetStep
       DEF CreatePriceUpdateEvent, ProcessPendingEvents, EndBatch, processVars
  <2> QED
    BY <2>1
<1> QED
  BY <1>1, <1>2, <1>3, <1>4, StepCases

\* With batches of one event a token's messages arrive in order, except for those
\* of an event that had failed before.
THEOREM OneByOneKeepsOrder ==
  ASSUME BatchSize = 1
  PROVE  PipelineSpec =>
           [][\A p \in Pairs :
                delivered[p[2]] > 0 /\ delivered'[p[1]] > delivered[p[1]] =>
                  retryCount[p[1]] > 0]_pipelineVars
<1>1. PipelineInit => SingleInv /\ together = {}
  BY DEF PipelineInit, Init, NoWork, SingleInv
<1>2. TypeOK /\ SingleInv /\ [PipelineNext]_pipelineVars => SingleInv'
  BY NextSingle DEF PipelineNext, pipelineVars
<1>3. SingleInv' /\ together = {} /\ [PipelineNext]_pipelineVars => (together = {})'
  <2> SUFFICES ASSUME SingleInv', together = {}, PipelineNext, NEW p \in Pairs, InOneBatch(p)'
               PROVE  FALSE
    BY DEF PipelineNext, pipelineVars
  <2>1. p[1] \in Events /\ p[2] \in Events /\ p[1] < p[2]
    BY DEF Pairs
  <2>2. p[1] \in Nat /\ p[2] \in Nat
    BY <2>1, EventsAssumption
  <2>3. p[1] # p[2]
    BY <2>1, <2>2
  <2> QED
    BY <2>1, <2>3 DEF InOneBatch, SingleInv
<1>4. PipelineSpec => [](together = {})
  BY <1>1, <1>2, <1>3, PipelineIsOutbox, TypeCorrect, PTL DEF PipelineSpec
<1>5. /\ together = {}
      /\ [\A p \in Pairs :
             delivered[p[2]] > 0 /\ delivered'[p[1]] > delivered[p[1]] =>
               p \in together \/ retryCount[p[1]] > 0]_pipelineVars
      => [\A p \in Pairs :
            delivered[p[2]] > 0 /\ delivered'[p[1]] > delivered[p[1]] =>
              retryCount[p[1]] > 0]_pipelineVars
  OBVIOUS
<1> QED
  BY <1>4, <1>5, DisorderIsExplained, PTL DEF DisorderHasCause

============================================================================
