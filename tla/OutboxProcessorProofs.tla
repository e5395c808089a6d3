----------------------- MODULE OutboxProcessorProofs -----------------------
(***************************************************************************)
(* Proofs about OutboxProcessor, for every set of events, every number of   *)
(* overlapping calls, every limit and every environment.                    *)
(***************************************************************************)
EXTENDS OutboxProcessor, FiniteSetTheorems, TLAPS

----------------------------------------------------------------------------
\* Type correctness.

LEMMA InitType == Init => TypeOK
<1> SUFFICES ASSUME Init PROVE TypeOK
  OBVIOUS
<1>1. TableTypeOK
  BY DEF Init, TableInit, TableTypeOK, OutboxEventStatus
<1>2. KafkaTypeOK
  BY Zenon DEF Init, KafkaInit, KafkaTypeOK
<1>3. isProcessing \in BOOLEAN
  BY Zenon DEF Init
<1>4. /\ batch \in [Batches -> {"idle", "fetching", "running"}]
      /\ work \in [Batches -> [Events -> Stages]]
      /\ pass \in [Retriers -> {"idle", "fetching", "resetting"}]
      /\ todo \in [Retriers -> SUBSET Events]
  BY DEF Init, AllIdle, NoWork, AllQuiet, NothingTodo, Stages
<1>5. /\ app \in {"down", "starting", "up", "stopping"}
      /\ delivered \in [Events -> Nat]
      /\ stranded \in SUBSET Events
  BY DEF Init
<1> QED
  BY <1>1, <1>2, <1>3, <1>4, <1>5 DEF TypeOK, ProcessTypeOK, HistoryTypeOK

\* Each update of the table keeps the types of its columns.
LEMMA TableType ==
  ASSUME TableTypeOK, NEW e \in Events,
         \/ createPriceUpdateEvent(e) \/ markAsProcessing(e) \/ markAsPublished(e)
         \/ markAsFailed(e) \/ resetFailedEventForRetry(e) \/ UNCHANGED tableVars
  PROVE  TableTypeOK'
<1> USE DEF TableTypeOK, OutboxEventStatus, SetStatus
<1>1. CASE createPriceUpdateEvent(e)
  BY <1>1 DEF createPriceUpdateEvent
<1>2. CASE markAsProcessing(e)
  BY <1>2 DEF markAsProcessing
<1>3. CASE markAsPublished(e)
  BY <1>3 DEF markAsPublished
<1>4. CASE markAsFailed(e)
  BY <1>4 DEF markAsFailed
<1>5. CASE resetFailedEventForRetry(e)
  BY <1>5 DEF resetFailedEventForRetry
<1>6. CASE UNCHANGED tableVars
  BY <1>6 DEF tableVars
<1> QED
  BY <1>1, <1>2, <1>3, <1>4, <1>5, <1>6

\* So does each step of the Kafka producer.
LEMMA KafkaType ==
  ASSUME KafkaTypeOK,
         \/ UNCHANGED kafkaVars \/ ConnectSucceeds \/ BeginDisconnect \/ DisconnectReturns
         \/ KafkaReset \/ BrokerFails \/ BrokerRecovers
  PROVE  KafkaTypeOK'
<1> USE DEF KafkaTypeOK
<1>1. CASE UNCHANGED kafkaVars
  BY <1>1 DEF kafkaVars
<1>2. CASE ConnectSucceeds \/ KafkaReset
  BY <1>2 DEF ConnectSucceeds, KafkaReset
<1>3. CASE BeginDisconnect
  BY <1>3 DEF BeginDisconnect
<1>4. CASE DisconnectReturns
  BY <1>4 DEF DisconnectReturns
<1>5. CASE BrokerFails \/ BrokerRecovers
  BY <1>5 DEF BrokerFails, BrokerRecovers
<1> QED
  BY <1>1, <1>2, <1>3, <1>4, <1>5

\* A worker that moves to its next call disturbs the type of work only.
LEMMA AdvanceType ==
  ASSUME TypeOK, NEW b \in Batches, NEW e \in Events, NEW s \in Stages, Advance(b, e, s)
  PROVE  ProcessTypeOK' /\ isProcessing' \in BOOLEAN
<1>1. isProcessing' \in BOOLEAN
  BY Zenon DEF TypeOK, Advance
<1>2. ProcessTypeOK'
  BY DEF TypeOK, ProcessTypeOK, Advance
<1> QED
  BY <1>1, <1>2

LEMMA ProcessEventType ==
  ASSUME TypeOK, NEW b \in Batches, NEW e \in Events, ProcessEvent(b, e)
  PROVE  TypeOK'
<1>1. TableTypeOK'
  BY TableType DEF TypeOK, ProcessEvent, Marked, Reconnected, Sent, Published, Failed
<1>2. KafkaTypeOK'
  BY KafkaType DEF TypeOK, ProcessEvent, Marked, Reconnected, Sent, Published, Failed, ConnectFails
<1>3. \E s \in Stages : Advance(b, e, s)
  BY DEF ProcessEvent, Marked, Reconnected, Sent, Published, Failed, Stages
<1>4. ProcessTypeOK' /\ isProcessing' \in BOOLEAN
  BY <1>3, AdvanceType
<1>5. HistoryTypeOK'
  <2>1. CASE Sent(b, e)
    BY <2>1 DEF Sent, TypeOK, HistoryTypeOK
  <2>2. CASE Failed(b, e)
    BY <2>2 DEF Failed, TypeOK, HistoryTypeOK
  <2>3. CASE Marked(b, e) \/ Reconnected(b, e) \/ Published(b, e)
    BY <2>3 DEF Marked, Reconnected, Published, history, TypeOK, HistoryTypeOK
  <2> QED
    BY <2>1, <2>2, <2>3 DEF ProcessEvent
<1> QED
  BY <1>1, <1>2, <1>4, <1>5 DEF TypeOK

LEMMA BatchType ==
  ASSUME TypeOK, NEW b \in Batches,
         ProcessPendingEvents(b) \/ ExecutePendingEvents(b) \/ EndBatch(b)
  PROVE  TypeOK'
<1> USE DEF ProcessPendingEvents, ExecutePendingEvents, EndBatch, Settle
<1>1. TableTypeOK' /\ KafkaTypeOK'
  BY TableType, KafkaType DEF TypeOK, TableTypeOK, tableVars
<1>2. isProcessing' \in BOOLEAN
  BY Zenon DEF TypeOK
<1>3. /\ \E p \in {"idle", "fetching", "running"} : batch' = [batch EXCEPT ![b] = p]
      /\ \/ UNCHANGED work
         \/ \E S \in SUBSET Events :
              work' = [work EXCEPT ![b] = [e \in Events |-> IF e \in S THEN "marking" ELSE "none"]]
      /\ UNCHANGED <<app, pass, todo>>
  BY DEF getPendingEvents, RowsWith, Oldest
<1>4. ProcessTypeOK'
  BY <1>3 DEF TypeOK, ProcessTypeOK, Stages
<1>5. HistoryTypeOK'
  BY DEF TypeOK, HistoryTypeOK, history
<1> QED
  BY <1>1, <1>2, <1>4, <1>5 DEF TypeOK

LEMMA RetryType ==
  ASSUME TypeOK, NEW r \in Retriers, RetryFailedEvents(r) \/ RetryPass(r)
  PROVE  TypeOK'
<1>1. TableTypeOK'
  <2>1. CASE ResetNext(r)
    BY <2>1, TableType DEF ResetNext, Oldest, TypeOK, ProcessTypeOK
  <2>2. CASE RetryFailedEvents(r) \/ FetchFailed(r)
    BY <2>2 DEF RetryFailedEvents, FetchFailed, TypeOK, TableTypeOK, tableVars
  <2> QED
    BY <2>1, <2>2 DEF RetryPass
<1>2. KafkaTypeOK'
  BY KafkaType DEF TypeOK, RetryFailedEvents, RetryPass, FetchFailed, ResetNext
<1>3. isProcessing' \in BOOLEAN
  BY Zenon DEF TypeOK, RetryFailedEvents, RetryPass, FetchFailed, ResetNext
<1>4. ProcessTypeOK'
  <2>1. CASE RetryFailedEvents(r)
    BY <2>1 DEF RetryFailedEvents, TypeOK, ProcessTypeOK
  <2>2. CASE FetchFailed(r)
    BY <2>2 DEF FetchFailed, getFailedEvents, RowsWith, TypeOK, ProcessTypeOK
  <2>3. CASE ResetNext(r)
    BY <2>3 DEF ResetNext, TypeOK, ProcessTypeOK
  <2> QED
    BY <2>1, <2>2, <2>3 DEF RetryPass
<1>5. HistoryTypeOK'
  BY DEF TypeOK, HistoryTypeOK, history, RetryFailedEvents, RetryPass, FetchFailed, ResetNext
<1> QED
  BY <1>1, <1>2, <1>3, <1>4, <1>5 DEF TypeOK

\* The end of a process, in whichever way.
LEMMA VanishType ==
  ASSUME TypeOK, Vanish
  PROVE  TableTypeOK' /\ KafkaTypeOK' /\ isProcessing' \in BOOLEAN /\ ProcessTypeOK'
<1>1. TableTypeOK' /\ KafkaTypeOK'
  BY KafkaType DEF Vanish, TypeOK, TableTypeOK, tableVars
<1>2. isProcessing' \in BOOLEAN
  BY Zenon DEF Vanish
<1>3. ProcessTypeOK'
  BY DEF Vanish, ProcessTypeOK, AllIdle, NoWork, AllQuiet, NothingTodo, Stages
<1> QED
  BY <1>1, <1>2, <1>3

LEMMA ProcessType ==
  ASSUME TypeOK,
         Boot \/ BootConnected \/ BootFailed \/ Crash \/ Shutdown \/ Disconnected \/ Exit
         \/ BrokerDown \/ BrokerUp
  PROVE  TypeOK'
<1>1. CASE BootFailed \/ Crash \/ Exit
  <2>1. Vanish
    BY <1>1 DEF BootFailed, Crash, Exit, Die
  <2>2. HistoryTypeOK'
    BY <1>1 DEF BootFailed, Crash, Exit, Die, Vanish, RowsWith, TypeOK, HistoryTypeOK
  <2> QED
    BY <2>1, <2>2, VanishType DEF TypeOK
<1>2. CASE Boot \/ BootConnected \/ Shutdown \/ Disconnected \/ BrokerDown \/ BrokerUp
  <2> USE DEF Boot, BootConnected, Shutdown, Disconnected, BrokerDown, BrokerUp,
              tableVars, processVars, history
  <2>1. TableTypeOK' /\ HistoryTypeOK'
    BY <1>2 DEF TypeOK, TableTypeOK, HistoryTypeOK
  <2>2. KafkaTypeOK'
    BY <1>2, KafkaType DEF TypeOK
  <2>3. isProcessing' \in BOOLEAN
    BY <1>2, Zenon DEF TypeOK
  <2>4. ProcessTypeOK'
    BY <1>2 DEF TypeOK, ProcessTypeOK
  <2> QED
    BY <2>1, <2>2, <2>3, <2>4 DEF TypeOK
<1> QED
  BY <1>1, <1>2

LEMMA NextType == TypeOK /\ [Next]_vars => TypeOK'
<1> SUFFICES ASSUME TypeOK, [Next]_vars PROVE TypeOK'
  OBVIOUS
<1>1. CASE \E e \in Events : CreatePriceUpdateEvent(e)
  <2> USE <1>1 DEF CreatePriceUpdateEvent, TypeOK
  <2>1. TableTypeOK' /\ KafkaTypeOK'
    BY TableType, KafkaType
  <2>2. isProcessing' \in BOOLEAN
    BY Zenon DEF processVars
  <2>3. ProcessTypeOK' /\ HistoryTypeOK'
    BY DEF processVars, history, ProcessTypeOK, HistoryTypeOK
  <2> QED
    BY <2>1, <2>2, <2>3
<1>2. CASE \E b \in Batches :
             ProcessPendingEvents(b) \/ ExecutePendingEvents(b) \/ EndBatch(b)
  BY <1>2, BatchType
<1>3. CASE \E b \in Batches, e \in Events : ProcessEvent(b, e)
  BY <1>3, ProcessEventType
<1>4. CASE \E r \in Retriers : RetryFailedEvents(r) \/ RetryPass(r)
  BY <1>4, RetryType
<1>5. CASE Boot \/ BootConnected \/ BootFailed \/ Crash \/ Shutdown \/ Disconnected \/ Exit
           \/ BrokerDown \/ BrokerUp
  BY <1>5, ProcessType
<1>6. CASE UNCHANGED vars
  BY <1>6 DEF vars, TypeOK, TableTypeOK, KafkaTypeOK, ProcessTypeOK, HistoryTypeOK,
              tableVars, kafkaVars, processVars, history
<1> QED
  BY <1>1, <1>2, <1>3, <1>4, <1>5, <1>6 DEF Next

\* Every variable keeps its type, in the code's every interleaving.
THEOREM TypeCorrect == Spec => []TypeOK
<1> QED
  BY InitType, NextType, PTL DEF Spec

----------------------------------------------------------------------------
\* Batches take turns.

\* The flag isProcessing is a lock: only the batch that set it is active, and a
\* batch has workers only while it awaits Promise.allSettled.
BatchInv ==
    /\ \A b \in Batches : batch[b] # "running" => \A e \in Events : work[b][e] = "none"
    /\ \A b \in Batches : batch[b] # "idle" => isProcessing
    /\ \A b, c \in Batches : batch[b] # "idle" /\ batch[c] # "idle" => b = c

LEMMA BatchInvImpliesOneWorker == BatchInv => OneWorkerPerEvent
  BY DEF BatchInv, OneWorkerPerEvent

\* The steps that matter to the outbox; all others leave it alone.
LEMMA StepCases ==
  ASSUME [Next]_vars
  PROVE  \/ \E e \in Events : CreatePriceUpdateEvent(e)
         \/ \E b \in Batches : \/ ProcessPendingEvents(b)
                               \/ ExecutePendingEvents(b)
                               \/ EndBatch(b)
         \/ \E b \in Batches, e \in Events : ProcessEvent(b, e)
         \/ \E r \in Retriers : RetryFailedEvents(r) \/ FetchFailed(r) \/ ResetNext(r)
         \/ BootFailed \/ Crash \/ Exit
         \/ UNCHANGED <<tableVars, history, isProcessing, batch, work, pass, todo>>
<1>1. CASE Boot \/ BootConnected \/ Shutdown \/ Disconnected \/ BrokerDown \/ BrokerUp
  BY <1>1 DEF Boot, BootConnected, Shutdown, Disconnected, BrokerDown, BrokerUp,
              processVars, tableVars, history
<1>2. CASE UNCHANGED vars
  BY <1>2 DEF vars, processVars, tableVars, history
<1> QED
  BY <1>1, <1>2 DEF Next, RetryPass

\* A worker that answers leaves its batch where it is.
LEMMA WorkerStep ==
  ASSUME NEW b \in Batches, NEW e \in Events, ProcessEvent(b, e)
  PROVE  /\ work[b][e] # "none"
         /\ \E s \in Stages : work' = [work EXCEPT ![b][e] = s]
         /\ UNCHANGED <<batch, isProcessing, pass, todo>>
  BY DEF ProcessEvent, Marked, Reconnected, Sent, Published, Failed, Advance, Stages

\* It leaves the rows of other events alone, and what they have had sent.
LEMMA OthersAreLeft ==
  ASSUME TypeOK, NEW b \in Batches, NEW e \in Events, ProcessEvent(b, e),
         NEW f \in Events \ {e}
  PROVE  UNCHANGED <<status[f], retryCount[f], delivered[f]>>
<1> USE DEF ProcessEvent, Marked, Reconnected, Sent, Published, Failed
<1>1. status'[f] = status[f] /\ retryCount'[f] = retryCount[f]
  BY DEF TypeOK, TableTypeOK, SetStatus, tableVars, markAsProcessing, markAsPublished, markAsFailed
<1>2. delivered'[f] = delivered[f]
  BY DEF TypeOK, HistoryTypeOK, history
<1> QED
  BY <1>1, <1>2

\* A batch that answers either starts workers on PENDING rows or has none.
LEMMA BatchStep ==
  ASSUME NEW b \in Batches,
         ProcessPendingEvents(b) \/ ExecutePendingEvents(b) \/ EndBatch(b)
  PROVE  /\ \/ UNCHANGED work
            \/ /\ batch[b] = "fetching"
               /\ \E S \in SUBSET RowsWith("PENDING") :
                    work' = [work EXCEPT ![b] =
                               [e \in Events |-> IF e \in S THEN "marking" ELSE "none"]]
         /\ UNCHANGED <<status, retryCount, delivered, stranded, pass, todo>>
<1>1. CASE ExecutePendingEvents(b)
  <2>1. getPendingEvents(BatchSize) \in SUBSET RowsWith("PENDING")
    BY DEF getPendingEvents, Oldest
  <2> QED
    BY <1>1, <2>1 DEF ExecutePendingEvents, tableVars, history
<1>2. CASE ProcessPendingEvents(b) \/ EndBatch(b)
  BY <1>2 DEF ProcessPendingEvents, EndBatch, tableVars, history
<1> QED
  BY <1>1, <1>2

\* A process that ends, in whichever way, leaves the table and the topic alone.
LEMMA EndStep ==
  ASSUME BootFailed \/ Crash \/ Exit
  PROVE  Vanish /\ UNCHANGED <<status, retryCount, delivered>>
  BY DEF BootFailed, Crash, Exit, Die, Vanish, tableVars

\* So does a retry pass that has not reset a row yet.
LEMMA FetchStep ==
  ASSUME NEW r \in Retriers, RetryFailedEvents(r) \/ FetchFailed(r)
  PROVE  UNCHANGED <<status, retryCount, delivered, stranded, isProcessing, batch, work>>
  BY DEF RetryFailedEvents, FetchFailed, tableVars, history

\* A reset makes a row it had read PENDING, or nothing.
LEMMA ResetStep ==
  ASSUME TypeOK, NEW r \in Retriers, ResetNext(r)
  PROVE  /\ UNCHANGED <<retryCount, delivered, stranded, isProcessing, batch, work>>
         /\ \E e \in todo[r] : /\ UNCHANGED status \/ resetFailedEventForRetry(e)
                               /\ todo' = [todo EXCEPT ![r] = @ \ {e}]
                                  \/ todo' = [todo EXCEPT ![r] = {}]
  BY DEF ResetNext, Oldest, resetFailedEventForRetry, tableVars, history

LEMMA InitBatch == Init => BatchInv
  BY DEF Init, BatchInv, AllIdle, NoWork

LEMMA NextBatch == TypeOK /\ BatchInv /\ [Next]_vars => BatchInv'
<1> SUFFICES ASSUME TypeOK, BatchInv, [Next]_vars PROVE BatchInv'
  OBVIOUS
<1> USE DEF TypeOK, ProcessTypeOK, BatchInv
<1>1. CASE \E b \in Batches : ProcessPendingEvents(b)
  BY <1>1 DEF ProcessPendingEvents
<1>2. ASSUME NEW b \in Batches, ExecutePendingEvents(b) PROVE BatchInv'
  <2>1. CASE UNCHANGED work /\ Settle(b)
    BY <2>1, <1>2 DEF ExecutePendingEvents, Settle
  <2>2. CASE batch' = [batch EXCEPT ![b] = "running"] /\ UNCHANGED isProcessing
    <3>1. \A c \in Batches \ {b} : work'[c] = work[c]
      BY <1>2 DEF ExecutePendingEvents
    <3> QED
      BY <2>2, <3>1, <1>2 DEF ExecutePendingEvents
  <2> QED
    BY <2>1, <2>2, <1>2 DEF ExecutePendingEvents
<1>3. CASE \E b \in Batches : EndBatch(b)
  BY <1>3 DEF EndBatch, Settle
<1>4. CASE \E b \in Batches, e \in Events : ProcessEvent(b, e)
  BY <1>4, WorkerStep
<1>5. CASE BootFailed \/ Crash \/ Exit
  <2>1. batch' = AllIdle /\ work' = NoWork
    BY <1>5, EndStep DEF Vanish
  <2> QED
    BY <2>1 DEF AllIdle, NoWork
<1>6. CASE \E r \in Retriers : RetryFailedEvents(r) \/ FetchFailed(r) \/ ResetNext(r)
  BY <1>6, FetchStep, ResetStep
<1>7. CASE \/ \E e \in Events : CreatePriceUpdateEvent(e)
           \/ UNCHANGED <<tableVars, history, isProcessing, batch, work, pass, todo>>
  BY <1>7 DEF CreatePriceUpdateEvent, processVars
<1> QED
  BY <1>1, <1>2, <1>3, <1>4, <1>5, <1>6, <1>7, StepCases

\* No event is in two hands at once, however many ticks and calls overlap.
THEOREM BatchesTakeTurns == Spec => []OneWorkerPerEvent
<1>1. Spec => []BatchInv
  BY TypeCorrect, InitBatch, NextBatch, PTL DEF Spec
<1> QED
  BY <1>1, BatchInvImpliesOneWorker, PTL

\* Each of the ways in which a batch may end clears the flag, and no other step
\* does while a batch is active; with BatchInv it is one batch that ends.
LEMMA NextFlag ==
  TypeOK /\ BatchInv /\ FlagIsHeld /\ [Next]_vars => FlagIsHeld'
<1> SUFFICES ASSUME TypeOK, BatchInv, FlagIsHeld, [Next]_vars PROVE FlagIsHeld'
  OBVIOUS
<1> USE DEF TypeOK, ProcessTypeOK, FlagIsHeld
<1>1. CASE \E b \in Batches : ProcessPendingEvents(b)
  BY <1>1 DEF ProcessPendingEvents
<1>2. ASSUME NEW b \in Batches, ExecutePendingEvents(b) \/ EndBatch(b) PROVE FlagIsHeld'
  <2>1. CASE Settle(b)
    BY <2>1, <1>2 DEF Settle, BatchInv, ExecutePendingEvents, EndBatch
  <2>2. CASE batch' = [batch EXCEPT ![b] = "running"] /\ UNCHANGED isProcessing
    BY <2>2, <1>2 DEF ExecutePendingEvents, EndBatch
  <2> QED
    BY <2>1, <2>2, <1>2 DEF ExecutePendingEvents, EndBatch
<1>3. CASE BootFailed \/ Crash \/ Exit
  BY <1>3, EndStep DEF Vanish, AllIdle
<1>4. CASE \/ \E b \in Batches, e \in Events : ProcessEvent(b, e)
           \/ \E r \in Retriers : RetryFailedEvents(r) \/ FetchFailed(r) \/ ResetNext(r)
           \/ \E e \in Events : CreatePriceUpdateEvent(e)
           \/ UNCHANGED <<tableVars, history, isProcessing, batch, work, pass, todo>>
  <2>1. UNCHANGED <<isProcessing, batch>>
    BY <1>4, WorkerStep, FetchStep, ResetStep DEF CreatePriceUpdateEvent, processVars
  <2> QED
    BY <2>1
<1> QED
  BY <1>1, <1>2, <1>3, <1>4, StepCases

\* The flag is set exactly while a batch is active.
THEOREM FlagFollowsBatch == Spec => []FlagIsHeld
<1>1. Spec => []BatchInv
  BY TypeCorrect, InitBatch, NextBatch, PTL DEF Spec
<1>2. Init => FlagIsHeld
  BY DEF Init, FlagIsHeld, AllIdle
<1> QED
  BY <1>1, <1>2, TypeCorrect, NextFlag, PTL DEF Spec

----------------------------------------------------------------------------
\* What PUBLISHED promises.

\* A worker is about to mark an event published only when the topic has it.
DeliveryInv ==
    /\ PublishedWasDelivered
    /\ \A b \in Batches, e \in Events : work[b][e] = "publishing" => delivered[e] > 0

LEMMA InitDelivery == Init => DeliveryInv
  BY DEF Init, TableInit, DeliveryInv, PublishedWasDelivered, NoWork

LEMMA NextDelivery == TypeOK /\ DeliveryInv /\ [Next]_vars => DeliveryInv'
<1> SUFFICES ASSUME TypeOK, DeliveryInv, [Next]_vars PROVE DeliveryInv'
  OBVIOUS
<1> USE DEF TypeOK, TableTypeOK, ProcessTypeOK, HistoryTypeOK, DeliveryInv, PublishedWasDelivered
<1>1. CASE \E e \in Events : CreatePriceUpdateEvent(e)
  BY <1>1 DEF CreatePriceUpdateEvent, createPriceUpdateEvent, SetStatus, processVars, history
<1>2. ASSUME NEW b \in Batches,
             ProcessPendingEvents(b) \/ ExecutePendingEvents(b) \/ EndBatch(b)
      PROVE  DeliveryInv'
  <2>1. UNCHANGED <<status, delivered>>
    BY <1>2, BatchStep
  <2>2. \A c \in Batches, e \in Events :
          work'[c][e] = work[c][e] \/ work'[c][e] \in {"marking", "none"}
    <3>1. ASSUME NEW S \in SUBSET RowsWith("PENDING"),
                 work' = [work EXCEPT ![b] =
                            [e \in Events |-> IF e \in S THEN "marking" ELSE "none"]]
          PROVE  \A c \in Batches, e \in Events :
                   work'[c][e] = work[c][e] \/ work'[c][e] \in {"marking", "none"}
      BY <3>1
    <3> QED
      BY <1>2, <3>1, BatchStep
  <2> QED
    BY <2>1, <2>2
<1>3. ASSUME NEW b \in Batches, NEW e \in Events, ProcessEvent(b, e) PROVE DeliveryInv'
  <2> USE DEF Advance, SetStatus, tableVars, history
  <2>1. CASE Marked(b, e)
    BY <2>1 DEF Marked, markAsProcessing
  <2>2. CASE Reconnected(b, e)
    BY <2>2 DEF Reconnected
  <2>3. CASE Sent(b, e)
    <3>1. CASE CanSend
      <4>1. delivered' = [delivered EXCEPT ![e] = @ + 1] /\ UNCHANGED status
        BY <2>3, <3>1 DEF Sent
      <4>2. delivered'[e] > 0 /\ \A f \in Events : delivered[f] > 0 => delivered'[f] > 0
        BY <4>1
      <4>3. \A c \in Batches, f \in Events : work'[c][f] = work[c][f] \/ f = e
        BY <1>3, WorkerStep
      <4> QED
        BY <4>1, <4>2, <4>3
    <3>2. CASE ~CanSend
      BY <2>3, <3>2 DEF Sent
    <3> QED
      BY <3>1, <3>2
  <2>4. CASE Published(b, e)
    BY <2>4 DEF Published, markAsPublished
  <2>5. CASE Failed(b, e)
    BY <2>5 DEF Failed, markAsFailed
  <2> QED
    BY <1>3, <2>1, <2>2, <2>3, <2>4, <2>5 DEF ProcessEvent
<1>4. CASE \E r \in Retriers : RetryFailedEvents(r) \/ FetchFailed(r)
  BY <1>4, FetchStep
<1>5. CASE \E r \in Retriers : ResetNext(r)
  BY <1>5, ResetStep DEF resetFailedEventForRetry, SetStatus
<1>6. CASE BootFailed \/ Crash \/ Exit
  BY <1>6, EndStep DEF Vanish, NoWork
<1>7. CASE UNCHANGED <<tableVars, history, isProcessing, batch, work, pass, todo>>
  BY <1>7 DEF tableVars, history
<1> QED
  BY <1>1, <1>2, <1>3, <1>4, <1>5, <1>6, <1>7, StepCases

\* Whatever crashes, times out or is repeated, a PUBLISHED event is in the topic.
THEOREM PublishedIsDelivered == Spec => []PublishedWasDelivered
<1>1. Spec => []DeliveryInv
  BY TypeCorrect, InitDelivery, NextDelivery, PTL DEF Spec
<1>2. DeliveryInv => PublishedWasDelivered
  BY DEF DeliveryInv
<1> QED
  BY <1>1, <1>2, PTL

----------------------------------------------------------------------------
\* What PROCESSING promises.

\* An answer to one worker leaves the events of the others in their hands.
LEMMA OthersStayInHand ==
  ASSUME TypeOK, NEW b \in Batches, NEW e \in Events, ProcessEvent(b, e)
  PROVE  \A f \in Events : f # e /\ InHand(f) => InHand(f)'
<1> SUFFICES ASSUME NEW f \in Events, f # e, NEW c \in Batches, work[c][f] # "none"
             PROVE  work'[c][f] # "none"
  BY DEF InHand
<1> QED
  BY WorkerStep DEF TypeOK, ProcessTypeOK

\* While e is being worked on, it stays in the hand of its worker.
LEMMA StaysInHand ==
  ASSUME TypeOK, NEW b \in Batches, NEW e \in Events, NEW s \in Stages \ {"none"},
         Advance(b, e, s)
  PROVE  InHand(e)'
  BY DEF Advance, InHand, TypeOK, ProcessTypeOK

LEMMA InitStranded == Init => StrandedOnlyByLoss
  BY DEF Init, TableInit, StrandedOnlyByLoss

LEMMA NextStranded ==
  TypeOK /\ BatchInv /\ StrandedOnlyByLoss /\ [Next]_vars => StrandedOnlyByLoss'
<1> SUFFICES ASSUME TypeOK, BatchInv, StrandedOnlyByLoss, [Next]_vars,
                    NEW f \in Events, status'[f] = "PROCESSING"
             PROVE  InHand(f)' \/ f \in stranded'
  BY DEF StrandedOnlyByLoss
<1>0. status[f] = "PROCESSING" => InHand(f) \/ f \in stranded
  BY DEF StrandedOnlyByLoss
<1>1. ASSUME NEW e \in Events, CreatePriceUpdateEvent(e) PROVE InHand(f)' \/ f \in stranded'
  <2>1. UNCHANGED <<work, stranded>> /\ status[f] = "PROCESSING"
    BY <1>1 DEF CreatePriceUpdateEvent, createPriceUpdateEvent, SetStatus, processVars, history,
                TypeOK, TableTypeOK
  <2> QED
    BY <1>0, <2>1 DEF InHand
<1>2. ASSUME NEW b \in Batches,
             ProcessPendingEvents(b) \/ ExecutePendingEvents(b) \/ EndBatch(b)
      PROVE  InHand(f)' \/ f \in stranded'
  <2>1. UNCHANGED <<status, stranded>>
    BY <1>2, BatchStep
  <2>2. CASE UNCHANGED work
    BY <1>0, <2>1, <2>2 DEF InHand
  <2>3. CASE batch[b] = "fetching" /\ \A c \in Batches \ {b} : work'[c] = work[c]
    BY <1>0, <2>1, <2>3 DEF InHand, BatchInv
  <2> QED
    BY <1>2, <2>2, <2>3, BatchStep DEF TypeOK, ProcessTypeOK
<1>3. ASSUME NEW b \in Batches, NEW e \in Events, ProcessEvent(b, e)
      PROVE  InHand(f)' \/ f \in stranded'
  <2>1. \A g \in Events \ {e} : status'[g] = status[g]
    BY <1>3 DEF ProcessEvent, Marked, Reconnected, Sent, Published, Failed, SetStatus, tableVars,
                markAsProcessing, markAsPublished, markAsFailed, TypeOK, TableTypeOK
  <2>2. stranded \subseteq stranded'
    BY <1>3 DEF ProcessEvent, Marked, Reconnected, Sent, Published, Failed, history
  <2>3. CASE f # e
    BY <1>0, <1>3, <2>1, <2>2, <2>3, OthersStayInHand
  <2>4. CASE f = e /\ (Marked(b, e) \/ Reconnected(b, e) \/ Sent(b, e))
    BY <2>4, StaysInHand DEF Marked, Reconnected, Sent, Stages
  <2>5. CASE f = e /\ Published(b, e)
    BY <2>5, StaysInHand DEF Published, markAsPublished, SetStatus, Stages, TypeOK, TableTypeOK
  <2>6. CASE f = e /\ Failed(b, e)
    BY <2>6 DEF Failed, markAsFailed, SetStatus, RowsWith, tableVars, TypeOK, TableTypeOK
  <2> QED
    BY <1>3, <2>3, <2>4, <2>5, <2>6 DEF ProcessEvent
<1>4. ASSUME NEW r \in Retriers, RetryFailedEvents(r) \/ FetchFailed(r) \/ ResetNext(r)
      PROVE  InHand(f)' \/ f \in stranded'
  <2>1. UNCHANGED <<work, stranded>>
    BY <1>4, FetchStep, ResetStep
  <2>2. status[f] = "PROCESSING"
    BY <1>4, FetchStep, ResetStep DEF resetFailedEventForRetry, SetStatus, TypeOK, TableTypeOK,
                                      ProcessTypeOK
  <2> QED
    BY <1>0, <2>1, <2>2 DEF InHand
<1>5. CASE BootFailed \/ Crash
  <2>1. Die /\ UNCHANGED status
    BY <1>5, EndStep DEF BootFailed, Crash
  <2> QED
    BY <1>0, <2>1 DEF Die, RowsWith
<1>6. CASE Exit
  <2>1. ~InHand(f)
    BY <1>6 DEF Exit, BatchInv, InHand
  <2> QED
    BY <1>0, <1>6, <2>1, EndStep DEF Exit
<1>7. CASE UNCHANGED <<tableVars, history, isProcessing, batch, work, pass, todo>>
  BY <1>0, <1>7 DEF tableVars, history, InHand
<1> QED
  BY <1>1, <1>2, <1>3, <1>4, <1>5, <1>6, <1>7, StepCases

\* Only a death of the process or a lost database call leaves a row PROCESSING
\* with nobody working on it; a graceful shutdown never does.
THEOREM OnlyLossStrands == Spec => []StrandedOnlyByLoss
<1> QED
  BY TypeCorrect, InitBatch, NextBatch, InitStranded, NextStranded, PTL DEF Spec

\* A process only boots while the broker is there, so that no boot fails.
BootsConnected == app = "starting" => brokerUp

LEMMA NothingIsLost ==
  ASSUME "crash" \notin Env, "db" \notin Env,
         stranded = {}, BootsConnected, [Next]_vars
  PROVE  stranded' = {}
<1>1. CASE \E b \in Batches, e \in Events : ProcessEvent(b, e)
  BY <1>1 DEF ProcessEvent, Marked, Reconnected, Sent, Published, Failed, history
<1>2. CASE BootFailed \/ Crash \/ Exit
  BY <1>2 DEF BootFailed, BootsConnected, Crash, Exit
<1> QED
  BY <1>1, <1>2, StepCases, BatchStep DEF CreatePriceUpdateEvent, RetryFailedEvents, FetchFailed,
     ResetNext, history

\* These are all the ways to lose an event: where the process is never killed, no
\* call of the database throws and no boot fails, PROCESSING means being processed.
THEOREM ProcessingIsInHand ==
  ASSUME "crash" \notin Env, "db" \notin Env
  PROVE  Spec /\ []BootsConnected => []ProcessingMeansInHand
<1>1. Init => stranded = {}
  BY DEF Init
<1>2. stranded = {} /\ BootsConnected /\ [Next]_vars => (stranded = {})'
  BY NothingIsLost
<1>3. stranded = {} /\ StrandedOnlyByLoss => ProcessingMeansInHand
  BY DEF StrandedOnlyByLoss, ProcessingMeansInHand
<1> QED
  BY <1>1, <1>2, <1>3, OnlyLossStrands, PTL DEF Spec

----------------------------------------------------------------------------
\* Retries.  Passes may overlap: each holds what it read, however old that is.

\* Counting the passes that hold an event.
LEMMA Passes ==
  /\ Cardinality(Retriers) \in Nat \ {0}
  /\ \A S \in SUBSET Retriers :
       /\ Cardinality(S) \in Nat /\ Cardinality(S) <= Cardinality(Retriers)
       /\ \A T \in SUBSET S : Cardinality(T) <= Cardinality(S)
       /\ \A r \in S : Cardinality(S \ {r}) = Cardinality(S) - 1
<1>1. Cardinality(Retriers) \in Nat \ {0}
  BY RetriersAssumption, FS_CardinalityType, FS_EmptySet
<1>2. ASSUME NEW S \in SUBSET Retriers
      PROVE  /\ Cardinality(S) \in Nat /\ Cardinality(S) <= Cardinality(Retriers)
             /\ \A T \in SUBSET S : Cardinality(T) <= Cardinality(S)
             /\ \A r \in S : Cardinality(S \ {r}) = Cardinality(S) - 1
  <2>1. IsFiniteSet(S) /\ Cardinality(S) <= Cardinality(Retriers)
    BY RetriersAssumption, FS_Subset
  <2>2. Cardinality(S) \in Nat
    BY <2>1, FS_CardinalityType
  <2> QED
    BY <2>1, <2>2, FS_Subset, FS_RemoveElement
<1> QED
  BY <1>1, <1>2

LEMMA RoomForOne == 1 < MaxRetries + Cardinality(Retriers)
<1> DEFINE R == Cardinality(Retriers)
<1>1. R \in Nat \ {0} /\ MaxRetries \in Nat \ {0}
  BY Passes, MaxRetriesAssumption, MaxRetriesPositive
<1> HIDE DEF R
<1>2. 1 < MaxRetries + R
  BY <1>1
<1> QED
  BY <1>2 DEF R

LEMMA NoHolder == Cardinality({}) = 0
  BY FS_EmptySet

\* Each failure that leaves the row due for a retry adds one copy for each pass,
\* any later one adds none.
LEMMA CopiesGrow ==
  ASSUME NEW k \in Nat
  PROVE  /\ Copies(k) \in Nat /\ Copies(0) = 1
         /\ k + 1 < MaxRetries => Copies(k + 1) = Copies(k) + Cardinality(Retriers)
         /\ ~(k + 1 < MaxRetries) => Copies(k + 1) = Copies(k)
         /\ Copies(k) <= Copies(MaxRetries)
<1> DEFINE R == Cardinality(Retriers)
<1>1. R \in Nat /\ MaxRetries \in Nat \ {0}
  BY Passes, MaxRetriesAssumption, MaxRetriesPositive
<1>2. \A i, j \in Nat : R * i \in Nat /\ (i <= j => R * i <= R * j) /\ R * (i + 1) = R * i + R
  <2> SUFFICES ASSUME NEW i \in Nat, NEW j \in Nat
               PROVE  R * i \in Nat /\ (i <= j => R * i <= R * j) /\ R * (i + 1) = R * i + R
    OBVIOUS
  <2> HIDE DEF R
  <2>1. R * i \in Nat /\ R * (i + 1) = R * i + R
    BY <1>1
  <2>2. ASSUME i <= j PROVE R * i <= R * j
    <3>1. j - i \in Nat /\ R * (j - i) \in Nat /\ R * (j - i) = R * j - R * i
      BY <1>1, <2>2
    <3>2. R * i \in Int /\ R * j \in Int
      BY <1>1
    <3> QED
      BY <3>1, <3>2
  <2> QED
    BY <2>1, <2>2
<1>3. \A n \in Nat : Copies(n) = 1 + R * (IF n < MaxRetries THEN n ELSE MaxRetries - 1)
  BY DEF Copies
<1>4. R * 0 = 0
  BY <1>1
<1> HIDE DEF R
<1>5. /\ Copies(k) \in Nat /\ Copies(0) = 1
      /\ k + 1 < MaxRetries => Copies(k + 1) = Copies(k) + R
      /\ ~(k + 1 < MaxRetries) => Copies(k + 1) = Copies(k)
      /\ Copies(k) <= Copies(MaxRetries)
  <2>1. CASE k + 1 < MaxRetries
    BY <1>1, <1>2, <1>3, <1>4, <2>1
  <2>2. CASE ~(k + 1 < MaxRetries)
    BY <1>1, <1>2, <1>3, <1>4, <2>2
  <2> QED
    BY <2>1, <2>2
<1> QED
  BY <1>5 DEF R

\* A query for retries will return the row of e.
Due(e) == e \in getFailedEvents(MaxRetries)

\* A worker may still hand e to the topic in its present attempt.
OnTheWay(e) == \E b \in Batches : work[b][e] \in {"connecting", "sending"}

\* The sends of e so far and those that may follow without another failure.
Sendable(e) ==
    delivered[e] + Cardinality(Holders(e))
        + (IF status[e] = "PENDING" THEN 1 ELSE 0) + (IF OnTheWay(e) THEN 1 ELSE 0)

\* The failures of e so far and those that may follow before it is read anew.
Failable(e) ==
    retryCount[e] + Cardinality(Holders(e))
        + (IF status[e] = "PENDING" \/ InHand(e) THEN 1 ELSE 0)

AttemptsOf(e) ==
    /\ status[e] = "NONE" =>
         delivered[e] = 0 /\ retryCount[e] = 0 /\ Holders(e) = {} /\ ~InHand(e)
    /\ InHand(e) => status[e] \notin {"NONE", "FAILED"}
    /\ \A b \in Batches : work[b][e] = "marking" => status[e] = "PENDING"
    /\ Due(e) => delivered[e] + Cardinality(Retriers) <= Copies(retryCount[e])
    /\ ~Due(e) => /\ Sendable(e) <= Copies(retryCount[e])
                  /\ Failable(e) < MaxRetries + Cardinality(Retriers)

AttemptsInv == \A e \in Events : AttemptsOf(e)

\* The numbers AttemptsOf talks about.
LEMMA Numbers ==
  ASSUME TypeOK, NEW e \in Events
  PROVE  /\ retryCount[e] \in Nat /\ delivered[e] \in Nat
         /\ Cardinality(Holders(e)) \in Nat /\ Cardinality(Retriers) \in Nat \ {0}
         /\ MaxRetries \in Nat \ {0} /\ Copies(retryCount[e]) \in Nat
         /\ Due(e) <=> status[e] = "FAILED" /\ retryCount[e] < MaxRetries
<1>1. retryCount[e] \in Nat /\ delivered[e] \in Nat
  BY DEF TypeOK, TableTypeOK, HistoryTypeOK
<1>2. Holders(e) \in SUBSET Retriers
  BY DEF Holders
<1> QED
  BY <1>1, <1>2, Passes, CopiesGrow, MaxRetriesAssumption, MaxRetriesPositive
     DEF Due, getFailedEvents, RowsWith

\* An event that is in fewer hands than before, and otherwise as it was.
LEMMA Eased ==
  ASSUME TypeOK, NEW e \in Events, AttemptsOf(e),
         UNCHANGED <<status[e], retryCount[e], delivered[e]>>,
         Holders(e)' \subseteq Holders(e),
         \A b \in Batches : work'[b][e] \in {work[b][e], "none"}
  PROVE  AttemptsOf(e)'
<1>1. (InHand(e)' => InHand(e)) /\ (OnTheWay(e)' => OnTheWay(e))
  BY DEF InHand, OnTheWay
<1>2. Cardinality(Holders(e)') \in Nat /\ Cardinality(Holders(e)') <= Cardinality(Holders(e))
  BY Passes DEF Holders
<1>3. Due(e)' <=> Due(e)
  BY DEF Due, getFailedEvents, RowsWith
<1>4. Holders(e) = {} => Holders(e)' = {}
  OBVIOUS
<1> QED
  BY <1>1, <1>2, <1>3, <1>4, Numbers DEF AttemptsOf, Sendable, Failable

LEMMA InitAttempts == Init => AttemptsInv
<1> SUFFICES ASSUME Init, NEW e \in Events PROVE AttemptsOf(e)
  BY DEF AttemptsInv
<1>1. /\ status[e] = "NONE" /\ delivered[e] = 0 /\ retryCount[e] = 0
      /\ Holders(e) = {} /\ ~InHand(e) /\ ~OnTheWay(e) /\ ~Due(e)
  BY DEF Init, TableInit, NoWork, NothingTodo, Holders, InHand, OnTheWay, Due,
         getFailedEvents, RowsWith
<1>2. \A b \in Batches : work[b][e] = "none"
  BY DEF Init, NoWork
<1>3. Copies(retryCount[e]) = 1 /\ Cardinality(Holders(e)) = 0
      /\ Cardinality(Retriers) \in Nat /\ MaxRetries \in Nat \ {0}
  BY <1>1, CopiesGrow, NoHolder, Passes, MaxRetriesAssumption, MaxRetriesPositive
<1> QED
  BY <1>1, <1>2, <1>3 DEF AttemptsOf, Sendable, Failable

\* The worker that holds e moves on.
LEMMA WorkerAttempts ==
  ASSUME TypeOK, TypeOK', OneWorkerPerEvent, NEW b \in Batches, NEW e \in Events,
         AttemptsOf(e), ProcessEvent(b, e)
  PROVE  AttemptsOf(e)'
<1> USE DEF TypeOK, TableTypeOK, ProcessTypeOK, HistoryTypeOK
<1>1. /\ work[b][e] # "none" /\ \A c \in Batches \ {b} : work[c][e] = "none"
      /\ \A c \in Batches \ {b} : work'[c][e] = "none"
  BY WorkerStep DEF OneWorkerPerEvent
<1>2. /\ OnTheWay(e) <=> work[b][e] \in {"connecting", "sending"}
      /\ OnTheWay(e)' <=> work'[b][e] \in {"connecting", "sending"}
      /\ InHand(e) /\ (InHand(e)' <=> work'[b][e] # "none")
  BY <1>1 DEF OnTheWay, InHand
<1>3. Holders(e)' = Holders(e)
  BY WorkerStep DEF Holders
<1>4. work'[b][e] # "marking"
  BY DEF ProcessEvent, Marked, Reconnected, Sent, Published, Failed, Advance
<1>5. \A c \in Batches : work'[c][e] # "marking"
  BY <1>1, <1>4
<1>6. /\ status[e] \notin {"NONE", "FAILED"} /\ ~Due(e)
      /\ work[b][e] = "marking" => status[e] = "PENDING"
      /\ Sendable(e) <= Copies(retryCount[e])
      /\ Failable(e) < MaxRetries + Cardinality(Retriers)
  BY <1>2, Numbers DEF AttemptsOf
<1>7. /\ Due(e)' <=> status'[e] = "FAILED" /\ retryCount'[e] < MaxRetries
      /\ retryCount'[e] \in Nat /\ delivered'[e] \in Nat /\ Copies(retryCount[e]') \in Nat
  BY CopiesGrow DEF Due, getFailedEvents, RowsWith
<1>8. ASSUME status'[e] \notin {"NONE", "FAILED"}, retryCount'[e] = retryCount[e],
             Sendable(e)' <= Sendable(e), status'[e] = "PENDING" => status[e] = "PENDING"
      PROVE  AttemptsOf(e)'
  <2>1. Sendable(e) \in Nat /\ Sendable(e)' \in Nat
    BY <1>3, <1>7, Numbers DEF Sendable
  <2>2. Failable(e)' <= Failable(e) /\ Failable(e) \in Nat /\ Failable(e)' \in Nat
    BY <1>2, <1>3, <1>7, <1>8, Numbers DEF Failable
  <2> QED
    BY <1>2, <1>5, <1>6, <1>7, <1>8, <2>1, <2>2, Numbers DEF AttemptsOf
<1>9. CASE Marked(b, e)
  <2>1. /\ work[b][e] = "marking" /\ UNCHANGED <<retryCount, delivered>>
        /\ status' = status \/ status'[e] = "PROCESSING"
        /\ OnTheWay(e)' => status'[e] = "PROCESSING"
    BY <1>2, <1>9 DEF Marked, Advance, markAsProcessing, SetStatus, tableVars, history
  <2> QED
    BY <1>2, <1>3, <1>6, <1>8, <2>1, Numbers DEF Sendable
<1>10. CASE Reconnected(b, e) \/ Published(b, e)
  <2>1. /\ UNCHANGED <<retryCount, delivered>> /\ (OnTheWay(e)' => OnTheWay(e))
        /\ status' = status \/ status'[e] = "PUBLISHED"
    BY <1>2, <1>10 DEF Reconnected, Published, Advance, markAsPublished, SetStatus, tableVars,
                       history
  <2> QED
    BY <1>3, <1>6, <1>8, <2>1, Numbers DEF Sendable
<1>11. CASE Sent(b, e)
  <2>1. /\ UNCHANGED <<status, retryCount>> /\ OnTheWay(e) /\ ~OnTheWay(e)'
        /\ delivered'[e] <= delivered[e] + 1
    BY <1>2, <1>7, <1>11, Numbers DEF Sent, Advance, tableVars
  <2> QED
    BY <1>3, <1>6, <1>7, <1>8, <2>1, Numbers DEF Sendable
<1>12. CASE Failed(b, e)
  <2>1. UNCHANGED delivered /\ ~InHand(e)' /\ ~OnTheWay(e)' /\ ~OnTheWay(e)
    BY <1>2, <1>12 DEF Failed, Advance
  <2>2. CASE markAsFailed(e)
    <3>1. status'[e] = "FAILED" /\ retryCount'[e] = retryCount[e] + 1
      BY <2>2 DEF markAsFailed, SetStatus
    <3>2. Failable(e)' = Failable(e) /\ Sendable(e)' <= Sendable(e)
      BY <1>2, <1>3, <2>1, <3>1, Numbers DEF Failable, Sendable
    <3>3. delivered[e] <= Sendable(e) /\ Sendable(e) \in Nat /\ Sendable(e)' \in Nat
      BY <1>3, <1>7, <2>1, Numbers DEF Sendable
    <3>4. CASE retryCount[e] + 1 < MaxRetries
      BY <1>5, <1>6, <1>7, <2>1, <3>1, <3>3, <3>4, CopiesGrow, Numbers DEF AttemptsOf
    <3>5. CASE ~(retryCount[e] + 1 < MaxRetries)
      BY <1>5, <1>6, <1>7, <2>1, <3>1, <3>2, <3>3, <3>5, CopiesGrow, Numbers DEF AttemptsOf
    <3> QED
      BY <3>4, <3>5
  <2>3. CASE UNCHANGED tableVars
    BY <1>3, <1>6, <1>8, <2>1, <2>3, Numbers DEF tableVars, Sendable
  <2> QED
    BY <1>12, <2>2, <2>3 DEF Failed
<1> QED
  BY <1>9, <1>10, <1>11, <1>12 DEF ProcessEvent

\* A pass resets e, whatever has become of e since the pass read it.
LEMMA ResetAttempts ==
  ASSUME TypeOK, NEW e \in Events, AttemptsOf(e), NEW r \in Holders(e),
         UNCHANGED <<retryCount, delivered, work>>,
         Holders(e)' = Holders(e) \ {r},
         status'[e] \in {status[e], "PENDING"}
  PROVE  AttemptsOf(e)'
<1>1. (InHand(e)' <=> InHand(e)) /\ (OnTheWay(e)' <=> OnTheWay(e))
  BY DEF InHand, OnTheWay
<1>2. /\ Cardinality(Holders(e)') = Cardinality(Holders(e)) - 1
      /\ Cardinality(Holders(e)) <= Cardinality(Retriers)
  BY Passes DEF Holders
<1>3. status[e] # "NONE"
  BY DEF AttemptsOf
<1>4. CASE status'[e] = status[e]
  BY <1>4, Eased
<1>5. CASE status'[e] = "PENDING" /\ status[e] # "PENDING"
  <2>1. ~Due(e)'
    BY <1>5 DEF Due, getFailedEvents, RowsWith
  <2>2. CASE Due(e)
    <3>1. status[e] = "FAILED" /\ ~InHand(e) /\ ~OnTheWay(e)
      BY <2>2, Numbers DEF AttemptsOf, InHand, OnTheWay
    <3>2. /\ Sendable(e)' = delivered[e] + Cardinality(Holders(e)) - 1 + 1 + 0
          /\ Failable(e)' = retryCount[e] + Cardinality(Holders(e)) - 1 + 1
      BY <1>1, <1>2, <1>5, <3>1, Numbers DEF Sendable, Failable
    <3>3. retryCount[e] < MaxRetries
      BY <2>2, Numbers
    <3>4. delivered[e] + Cardinality(Retriers) <= Copies(retryCount[e])
      BY <2>2 DEF AttemptsOf
    <3> QED
      BY <1>1, <1>2, <1>5, <2>1, <3>1, <3>2, <3>3, <3>4, Numbers DEF AttemptsOf
  <2>3. CASE ~Due(e)
    <3>1. Sendable(e)' <= Sendable(e) /\ Failable(e)' <= Failable(e)
      BY <1>1, <1>2, <1>5, Numbers DEF Sendable, Failable
    <3>2. Sendable(e) \in Nat /\ Sendable(e)' \in Nat /\ Failable(e) \in Nat /\ Failable(e)' \in Nat
      BY <1>1, <1>2, <1>5, Numbers DEF Sendable, Failable
    <3>3. retryCount'[e] = retryCount[e] /\ delivered'[e] = delivered[e]
      OBVIOUS
    <3> QED
      BY <1>1, <1>3, <1>5, <2>1, <2>3, <3>1, <3>2, <3>3, Numbers DEF AttemptsOf
  <2> QED
    BY <2>2, <2>3
<1> QED
  BY <1>4, <1>5

LEMMA PassAttempts ==
  ASSUME TypeOK, NEW r \in Retriers, NEW f \in Events, AttemptsOf(f),
         RetryFailedEvents(r) \/ FetchFailed(r) \/ ResetNext(r)
  PROVE  AttemptsOf(f)'
<1> USE DEF TypeOK, TableTypeOK, ProcessTypeOK
<1>1. CASE RetryFailedEvents(r)
  BY <1>1, Eased, FetchStep DEF RetryFailedEvents, Holders
<1>2. CASE FetchFailed(r)
  <2>1. UNCHANGED <<status, retryCount, delivered, work>>
    BY <1>2, FetchStep
  <2>2. CASE Due(f)
    BY <2>1, <2>2, Numbers DEF AttemptsOf, Due, getFailedEvents, RowsWith, InHand
  <2>3. CASE ~Due(f)
    <3>1. Holders(f)' \subseteq Holders(f)
      BY <1>2, <2>3 DEF FetchFailed, Due, Holders
    <3> QED
      BY <2>1, <3>1, Eased
  <2> QED
    BY <2>2, <2>3
<1>3. CASE ResetNext(r)
  <2>1. UNCHANGED <<retryCount, delivered, work>>
    BY <1>3, ResetStep
  <2>2. PICK e \in todo[r] : /\ UNCHANGED status \/ status' = [status EXCEPT ![e] = "PENDING"]
                             /\ todo' = [todo EXCEPT ![r] = @ \ {e}]
                                \/ todo' = [todo EXCEPT ![r] = {}]
    BY <1>3, ResetStep DEF resetFailedEventForRetry, SetStatus
  <2>3. CASE f = e
    <3>1. r \in Holders(f) /\ Holders(f)' = Holders(f) \ {r}
      BY <2>2, <2>3 DEF Holders
    <3> QED
      BY <2>1, <2>2, <2>3, <3>1, ResetAttempts
  <2>4. CASE f # e
    <3>1. status'[f] = status[f] /\ Holders(f)' \subseteq Holders(f)
      BY <2>2, <2>4 DEF Holders
    <3> QED
      BY <2>1, <3>1, Eased
  <2> QED
    BY <2>3, <2>4
<1> QED
  BY <1>1, <1>2, <1>3

LEMMA NextAttempts ==
  TypeOK /\ TypeOK' /\ OneWorkerPerEvent /\ AttemptsInv /\ [Next]_vars => AttemptsInv'
<1> SUFFICES ASSUME TypeOK, TypeOK', OneWorkerPerEvent, AttemptsInv, [Next]_vars,
                    NEW f \in Events
             PROVE  AttemptsOf(f)'
  BY DEF AttemptsInv
<1>0. AttemptsOf(f)
  BY DEF AttemptsInv
<1> USE DEF TypeOK, TableTypeOK, ProcessTypeOK, HistoryTypeOK
<1>1. ASSUME NEW e \in Events, CreatePriceUpdateEvent(e) PROVE AttemptsOf(f)'
  <2>1. UNCHANGED <<retryCount, delivered, work>> /\ Holders(f)' = Holders(f)
    BY <1>1 DEF CreatePriceUpdateEvent, createPriceUpdateEvent, processVars, history, Holders
  <2>2. CASE f = e
    <3>1. status[f] = "NONE" /\ status'[f] = "PENDING"
      BY <1>1, <2>2 DEF CreatePriceUpdateEvent, createPriceUpdateEvent, SetStatus
    <3>2. /\ delivered[f] = 0 /\ retryCount[f] = 0 /\ Holders(f) = {}
          /\ \A b \in Batches : work[b][f] = "none"
      BY <1>0, <3>1 DEF AttemptsOf, InHand
    <3>3. ~InHand(f)' /\ ~OnTheWay(f)' /\ ~Due(f)'
      BY <2>1, <3>1, <3>2 DEF InHand, OnTheWay, Due, getFailedEvents, RowsWith
    <3>4. Sendable(f)' = 1 /\ Failable(f)' = 1
      BY <2>1, <3>1, <3>2, <3>3, NoHolder DEF Sendable, Failable
    <3>5. Copies(retryCount[f])' = 1
      <4>1. retryCount'[f] = 0
        BY <2>1, <3>2
      <4> QED
        BY <4>1, CopiesGrow
    <3>6. \A c \in Batches : work'[c][f] # "marking"
      BY <2>1, <3>2
    <3> QED
      BY <3>1, <3>3, <3>4, <3>5, <3>6, RoomForOne DEF AttemptsOf
  <2>3. CASE f # e
    <3>1. status'[f] = status[f]
      BY <1>1, <2>3 DEF CreatePriceUpdateEvent, createPriceUpdateEvent, SetStatus
    <3> QED
      BY <1>0, <2>1, <3>1, Eased
  <2> QED
    BY <2>2, <2>3
<1>2. ASSUME NEW b \in Batches,
             ProcessPendingEvents(b) \/ ExecutePendingEvents(b) \/ EndBatch(b)
      PROVE  AttemptsOf(f)'
  <2>1. UNCHANGED <<status, retryCount, delivered, todo>> /\ Holders(f)' = Holders(f)
    BY <1>2, BatchStep DEF Holders
  <2>2. CASE \A c \in Batches : work'[c][f] \in {work[c][f], "none"}
    BY <1>0, <2>1, <2>2, Eased
  <2>3. CASE status[f] = "PENDING" /\ \A c \in Batches : work'[c][f] \in {work[c][f], "marking"}
    <3>1. (OnTheWay(f)' => OnTheWay(f)) /\ ~Due(f) /\ ~Due(f)'
      BY <2>1, <2>3 DEF OnTheWay, Due, getFailedEvents, RowsWith
    <3> QED
      BY <1>0, <2>1, <2>3, <3>1, Numbers DEF AttemptsOf, Sendable, Failable
  <2>4. ASSUME NEW S \in SUBSET RowsWith("PENDING"),
               work' = [work EXCEPT ![b] =
                          [e \in Events |-> IF e \in S THEN "marking" ELSE "none"]]
        PROVE  \/ \A c \in Batches : work'[c][f] \in {work[c][f], "none"}
               \/ /\ status[f] = "PENDING"
                  /\ \A c \in Batches : work'[c][f] \in {work[c][f], "marking"}
    BY <2>4 DEF RowsWith
  <2> QED
    BY <1>2, <2>2, <2>3, <2>4, BatchStep
<1>3. ASSUME NEW b \in Batches, NEW e \in Events, ProcessEvent(b, e) PROVE AttemptsOf(f)'
  <2>1. CASE f = e
    BY <1>0, <1>3, <2>1, WorkerAttempts
  <2>2. CASE f # e
    <3>1. UNCHANGED <<status[f], retryCount[f], delivered[f]>>
      BY <1>3, <2>2, OthersAreLeft
    <3>2. Holders(f)' = Holders(f) /\ \A c \in Batches : work'[c][f] = work[c][f]
      BY <1>3, <2>2, WorkerStep DEF Holders
    <3> QED
      BY <1>0, <3>1, <3>2, Eased
  <2> QED
    BY <2>1, <2>2
<1>4. CASE \E r \in Retriers : RetryFailedEvents(r) \/ FetchFailed(r) \/ ResetNext(r)
  BY <1>0, <1>4, PassAttempts
<1>5. CASE BootFailed \/ Crash \/ Exit
  <2>1. work' = NoWork /\ todo' = NothingTodo /\ UNCHANGED <<status, retryCount, delivered>>
    BY <1>5, EndStep DEF Vanish
  <2>2. Holders(f)' = {} /\ \A c \in Batches : work'[c][f] = "none"
    BY <2>1 DEF NoWork, NothingTodo, Holders
  <2> QED
    BY <1>0, <2>1, <2>2, Eased
<1>6. CASE UNCHANGED <<tableVars, history, isProcessing, batch, work, pass, todo>>
  BY <1>0, <1>6, Eased DEF tableVars, history, Holders
<1> QED
  BY <1>1, <1>2, <1>3, <1>4, <1>5, <1>6, StepCases

LEMMA AttemptsInvariant == Spec => []AttemptsInv
  BY TypeCorrect, BatchesTakeTurns, InitAttempts, NextAttempts, PTL DEF Spec

\* The counter and the copies of an event, whatever its row says at the moment.
LEMMA AttemptBounds ==
  ASSUME TypeOK, NEW e \in Events, AttemptsOf(e)
  PROVE  /\ delivered[e] <= Copies(retryCount[e])
         /\ retryCount[e] < MaxRetries + Cardinality(Retriers)
<1>1. CASE Due(e)
  BY <1>1, Numbers DEF AttemptsOf
<1>2. CASE ~Due(e)
  BY <1>2, Numbers DEF AttemptsOf, Sendable, Failable
<1> QED
  BY <1>1, <1>2

\* However many retry passes overlap, the copies that consumers see are accounted
\* for by the failures that the row counts.
THEOREM DuplicatesAreCounted == Spec => []RepeatsAreRecorded
<1>1. TypeOK /\ AttemptsInv => RepeatsAreRecorded
  BY AttemptBounds DEF AttemptsInv, RepeatsAreRecorded
<1> QED
  BY <1>1, TypeCorrect, AttemptsInvariant, PTL

\* However many retry passes overlap, the attempts at an event come to an end.
THEOREM RetriesAreBounded == Spec => []RetryBudget
<1>1. TypeOK /\ AttemptsInv => RetryBudget
  BY AttemptBounds DEF AttemptsInv, RetryBudget
<1> QED
  BY <1>1, TypeCorrect, AttemptsInvariant, PTL

----------------------------------------------------------------------------
\* What a retry resets, as long as one pass ends before the next one begins.

PassesDoNotOverlap ==
    \A r, s \in Retriers : pass[r] # "idle" /\ pass[s] # "idle" => r = s

\* A pass holds events only while it resets them, and what it has read is still so.
TodoInv ==
    \A r \in Retriers : /\ pass[r] # "resetting" => todo[r] = {}
                        /\ \A e \in todo[r] : status[e] = "FAILED"

LEMMA InitTodo == Init => TodoInv
  BY DEF Init, AllQuiet, NothingTodo, TodoInv

LEMMA NextTodo ==
  TypeOK /\ AttemptsInv /\ PassesDoNotOverlap /\ TodoInv /\ [Next]_vars => TodoInv'
<1> SUFFICES ASSUME TypeOK, AttemptsInv, PassesDoNotOverlap, TodoInv, [Next]_vars
             PROVE  TodoInv'
  OBVIOUS
<1> USE DEF TypeOK, TableTypeOK, ProcessTypeOK, TodoInv
<1>1. CASE \E e \in Events : CreatePriceUpdateEvent(e)
  BY <1>1 DEF CreatePriceUpdateEvent, createPriceUpdateEvent, SetStatus, processVars
<1>2. CASE \E b \in Batches :
             ProcessPendingEvents(b) \/ ExecutePendingEvents(b) \/ EndBatch(b)
  BY <1>2, BatchStep
<1>3. ASSUME NEW b \in Batches, NEW e \in Events, ProcessEvent(b, e) PROVE TodoInv'
  <2>1. status[e] # "FAILED"
    BY <1>3, WorkerStep DEF AttemptsInv, AttemptsOf, InHand
  <2>2. \A f \in Events \ {e} : status'[f] = status[f]
    BY <1>3, OthersAreLeft
  <2> QED
    BY <1>3, <2>1, <2>2, WorkerStep
<1>4. ASSUME NEW r \in Retriers, RetryFailedEvents(r) \/ FetchFailed(r) PROVE TodoInv'
  BY <1>4 DEF RetryFailedEvents, FetchFailed, getFailedEvents, RowsWith, tableVars
<1>5. ASSUME NEW r \in Retriers, ResetNext(r) PROVE TodoInv'
  <2>1. pass[r] = "resetting" /\ \A s \in Retriers \ {r} : todo[s] = {} /\ todo'[s] = {}
    BY <1>5 DEF ResetNext, PassesDoNotOverlap
  <2>2. PICK e \in todo[r] : /\ \A f \in Events \ {e} : status'[f] = status[f]
                             /\ \/ todo'[r] = {}
                                \/ todo'[r] = todo[r] \ {e} /\ pass'[r] = pass[r]
    BY <1>5 DEF ResetNext, Oldest, resetFailedEventForRetry, SetStatus, tableVars
  <2> QED
    BY <2>1, <2>2
<1>6. CASE BootFailed \/ Crash \/ Exit
  BY <1>6, EndStep DEF Vanish, AllQuiet, NothingTodo
<1>7. CASE UNCHANGED <<tableVars, history, isProcessing, batch, work, pass, todo>>
  BY <1>7 DEF tableVars
<1> QED
  BY <1>1, <1>2, <1>3, <1>4, <1>5, <1>6, <1>7, StepCases

\* In every behaviour in which passes do not overlap, a retry resets FAILED rows
\* only: what is published is never sent anew by it.
THEOREM RetriesAreOfFailures == Spec /\ []PassesDoNotOverlap => OnlyFailedEventsAreReset
<1>1. Spec /\ []PassesDoNotOverlap => []TodoInv
  BY TypeCorrect, AttemptsInvariant, InitTodo, NextTodo, PTL DEF Spec
<1>2. TypeOK /\ TodoInv /\ [Next]_vars =>
        [\A e \in Events :
           status'[e] = "PENDING" => status[e] \in {"NONE", "PENDING", "FAILED"}]_vars
  <2> SUFFICES ASSUME TypeOK, TodoInv, [Next]_vars, NEW f \in Events, status'[f] = "PENDING"
               PROVE  status[f] \in {"NONE", "PENDING", "FAILED"}
    OBVIOUS
  <2> USE DEF TypeOK, TableTypeOK, ProcessTypeOK, SetStatus
  <2>1. CASE \E e \in Events : CreatePriceUpdateEvent(e)
    BY <2>1 DEF CreatePriceUpdateEvent, createPriceUpdateEvent
  <2>2. CASE \E b \in Batches :
               ProcessPendingEvents(b) \/ ExecutePendingEvents(b) \/ EndBatch(b)
    BY <2>2, BatchStep
  <2>3. CASE \E b \in Batches, e \in Events : ProcessEvent(b, e)
    BY <2>3 DEF ProcessEvent, Marked, Reconnected, Sent, Published, Failed, markAsProcessing,
                markAsPublished, markAsFailed, tableVars
  <2>4. CASE \E r \in Retriers : RetryFailedEvents(r) \/ FetchFailed(r)
    BY <2>4, FetchStep
  <2>5. CASE \E r \in Retriers : ResetNext(r)
    BY <2>5, ResetStep DEF resetFailedEventForRetry, TodoInv
  <2>6. CASE BootFailed \/ Crash \/ Exit
    BY <2>6, EndStep
  <2>7. CASE UNCHANGED <<tableVars, history, isProcessing, batch, work, pass, todo>>
    BY <2>7 DEF tableVars
  <2> QED
    BY <2>1, <2>2, <2>3, <2>4, <2>5, <2>6, <2>7, StepCases
<1> QED
  BY <1>1, <1>2, TypeCorrect, PTL DEF Spec, OnlyFailedEventsAreReset

----------------------------------------------------------------------------
\* Where duplicates come from.

\* No event reaches the topic twice.
SentOnce == \A e \in Events : delivered[e] <= 1

\* What has been sent is never due again: it is marked, or about to be, or its
\* process died, and nothing resets a row in PROCESSING.
OnceOf(e) ==
    /\ \A b \in Batches : work[b][e] \in {"connecting", "sending"} => status[e] = "PROCESSING"
    /\ \/ delivered[e] = 0
       \/ /\ delivered[e] = 1
          /\ status[e] \in {"PROCESSING", "PUBLISHED"}
          /\ \A b \in Batches : work[b][e] \in {"none", "publishing"}

OnceInv == \A e \in Events : OnceOf(e)

LEMMA InitOnce == Init => OnceInv
  BY DEF Init, TableInit, NoWork, OnceInv, OnceOf

\* A batch takes up rows that were never sent.
LEMMA BatchOnce ==
  ASSUME TypeOK, BatchInv, OnceInv, NEW b \in Batches,
         ProcessPendingEvents(b) \/ ExecutePendingEvents(b) \/ EndBatch(b),
         NEW f \in Events
  PROVE  OnceOf(f)'
<1> USE DEF TypeOK, ProcessTypeOK, OnceInv, OnceOf
<1>1. UNCHANGED <<status, delivered>>
  BY BatchStep
<1>2. CASE UNCHANGED work
  BY <1>1, <1>2
<1>3. ASSUME NEW S \in SUBSET RowsWith("PENDING"),
             work' = [work EXCEPT ![b] = [e \in Events |-> IF e \in S THEN "marking" ELSE "none"]]
      PROVE  OnceOf(f)'
  <2>1. \A c \in Batches : \/ work'[c][f] \in {work[c][f], "none"}
                           \/ work'[c][f] = "marking" /\ status[f] = "PENDING"
    BY <1>3 DEF RowsWith
  <2> QED
    BY <1>1, <2>1
<1> QED
  BY <1>2, <1>3, BatchStep

\* With its acknowledgement, and with a database that answers, what is sent is
\* marked as published.
LEMMA WorkerOnce ==
  ASSUME "ack" \notin Env, "db" \notin Env, TypeOK, BatchInv, AttemptsInv, OnceInv,
         NEW b \in Batches, NEW e \in Events, ProcessEvent(b, e), NEW f \in Events
  PROVE  OnceOf(f)'
<1> USE DEF TypeOK, TableTypeOK, ProcessTypeOK, HistoryTypeOK, OnceInv, OnceOf
<1>1. CASE f # e
  <2>1. UNCHANGED <<status[f], delivered[f]>>
    BY <1>1, OthersAreLeft
  <2>2. \A c \in Batches : work'[c][f] = work[c][f]
    BY <1>1, WorkerStep
  <2> QED
    BY <2>1, <2>2
<1>2. CASE f = e
  <2>0. \A c \in Batches \ {b} : work[c][e] = "none" /\ work'[c][e] = "none"
    BY WorkerStep, BatchInvImpliesOneWorker DEF OneWorkerPerEvent
  <2> USE DEF Advance, SetStatus, tableVars, history
  <2>1. CASE Marked(b, e)
    BY <1>2, <2>0, <2>1 DEF Marked, markAsProcessing
  <2>2. CASE Reconnected(b, e)
    BY <1>2, <2>0, <2>2 DEF Reconnected
  <2>3. CASE Sent(b, e)
    <3>1. status[e] = "PROCESSING" /\ delivered[e] = 0 /\ UNCHANGED status
      BY <2>3 DEF Sent
    <3>2. \/ delivered'[e] = 1 /\ work'[b][e] = "publishing"
          \/ delivered'[e] = 0 /\ work'[b][e] = "failing"
      BY <2>3, <3>1 DEF Sent
    <3> QED
      BY <1>2, <2>0, <3>1, <3>2
  <2>4. CASE Published(b, e)
    BY <1>2, <2>0, <2>4 DEF Published, markAsPublished
  <2>5. CASE Failed(b, e)
    BY <1>2, <2>0, <2>5 DEF Failed, markAsFailed
  <2> QED
    BY <2>1, <2>2, <2>3, <2>4, <2>5 DEF ProcessEvent
<1> QED
  BY <1>1, <1>2

\* A pass that is alone resets FAILED rows, and those were never sent.
LEMMA ResetOnce ==
  ASSUME TypeOK, AttemptsInv, TodoInv, OnceInv, NEW r \in Retriers, ResetNext(r),
         NEW f \in Events
  PROVE  OnceOf(f)'
<1> USE DEF TypeOK, TableTypeOK, ProcessTypeOK, OnceInv, OnceOf
<1>1. PICK e \in todo[r] : UNCHANGED status \/ resetFailedEventForRetry(e)
  BY ResetStep
<1>2. UNCHANGED <<work, delivered>>
  BY ResetStep
<1>3. e \in Events /\ status[e] = "FAILED"
  BY <1>1 DEF TodoInv
<1>4. CASE f = e
  <2>1. ~InHand(e)
    BY <1>3 DEF AttemptsInv, AttemptsOf
  <2> QED
    BY <1>2, <1>3, <1>4, <2>1 DEF InHand
<1>5. CASE f # e
  BY <1>1, <1>2, <1>5 DEF resetFailedEventForRetry, SetStatus
<1> QED
  BY <1>4, <1>5

LEMMA NextOnce ==
  ASSUME "ack" \notin Env, "db" \notin Env,
         TypeOK, BatchInv, AttemptsInv, TodoInv, OnceInv, [Next]_vars
  PROVE  OnceInv'
<1> SUFFICES ASSUME NEW f \in Events PROVE OnceOf(f)'
  BY DEF OnceInv
<1> USE DEF TypeOK, TableTypeOK, ProcessTypeOK
<1>1. CASE \E e \in Events : CreatePriceUpdateEvent(e)
  BY <1>1 DEF CreatePriceUpdateEvent, createPriceUpdateEvent, SetStatus, processVars, history,
              OnceInv, OnceOf
<1>2. CASE \E b \in Batches :
             ProcessPendingEvents(b) \/ ExecutePendingEvents(b) \/ EndBatch(b)
  BY <1>2, BatchOnce
<1>3. CASE \E b \in Batches, e \in Events : ProcessEvent(b, e)
  BY <1>3, WorkerOnce
<1>4. CASE \E r \in Retriers : RetryFailedEvents(r) \/ FetchFailed(r)
  BY <1>4, FetchStep DEF OnceInv, OnceOf
<1>5. CASE \E r \in Retriers : ResetNext(r)
  BY <1>5, ResetOnce
<1>6. CASE BootFailed \/ Crash \/ Exit
  <2>1. work' = NoWork /\ UNCHANGED <<status, delivered>>
    BY <1>6, EndStep DEF Vanish
  <2> QED
    BY <2>1 DEF NoWork, OnceInv, OnceOf
<1>7. CASE UNCHANGED <<tableVars, history, isProcessing, batch, work, pass, todo>>
  BY <1>7 DEF tableVars, history, OnceInv, OnceOf
<1> QED
  BY <1>1, <1>2, <1>3, <1>4, <1>5, <1>6, <1>7, StepCases

\* These are all the sources of duplicates: where every send is acknowledged, no
\* call of the database throws and no two retry passes overlap, an event reaches
\* the topic once at most, whatever the broker does and whenever the process dies.
THEOREM DuplicatesHaveCause ==
  ASSUME "ack" \notin Env, "db" \notin Env
  PROVE  Spec /\ []PassesDoNotOverlap => []SentOnce
<1>1. Spec /\ []PassesDoNotOverlap => []TodoInv
  BY TypeCorrect, AttemptsInvariant, InitTodo, NextTodo, PTL DEF Spec
<1>2. Spec => []BatchInv
  BY TypeCorrect, InitBatch, NextBatch, PTL DEF Spec
<1>3. TypeOK /\ BatchInv /\ AttemptsInv /\ TodoInv /\ OnceInv /\ [Next]_vars => OnceInv'
  BY NextOnce
<1>4. OnceInv => SentOnce
  BY DEF OnceInv, OnceOf, SentOnce
<1> QED
  BY <1>1, <1>2, <1>3, <1>4, TypeCorrect, AttemptsInvariant, InitOnce, PTL DEF Spec

============================================================================
