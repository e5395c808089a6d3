-------------------------- MODULE OutboxProcessor --------------------------
(***************************************************************************)
(* OutboxProcessorService at work on the outbox table and the Kafka         *)
(* producer, in a process that is started, stopped and may die.             *)
(*                                                                          *)
(* JavaScript runs one callback at a time, so a step is the code between    *)
(* two awaits: it takes the answer of the awaited call and runs up to the   *)
(* next call.  Calls in flight interleave in any order.  A database call    *)
(* that throws may have been applied (the answer was lost) or not.          *)
(*                                                                          *)
(* Abstracted: ids, payloads, topics and keys of events (kafkaTopic comes   *)
(* from the configuration and is never empty, so the check in publishToKafka*)
(* never throws), timestamps, lastError, logging.  A call of kafkajs' send  *)
(* with its internal retries is one step.                                   *)
(***************************************************************************)
EXTENDS OutboxTable, KafkaProducer

CONSTANTS
    BatchSize,  \* outbox.batchSize
    Batches,    \* calls of processPendingEvents that may overlap
    Retriers,   \* calls of retryFailedEvents that may overlap
    Env         \* what the environment may do, a subset of EnvFaults

EnvFaults ==
    {"crash",   \* the process is killed at any moment
     "stop",    \* the process receives SIGTERM
     "db",      \* a database call throws
     "broker",  \* the broker is down for a while
     "ack"}     \* the acknowledgement of a send is lost

ASSUME BatchSizeAssumption == BatchSize \in Nat \ {0}
ASSUME RetriersAssumption == IsFiniteSet(Retriers) /\ Retriers # {}
ASSUME MaxRetriesPositive == MaxRetries # 0
ASSUME EnvAssumption == Env \subseteq EnvFaults

VARIABLES
    app,            \* the process
    isProcessing,   \* the flag; processingPromise is non-null exactly when it is set
    batch,          \* batch[b]: where call b of processPendingEvents is
    work,           \* work[b][e]: the call that processEvent(e) of batch b awaits
    pass,           \* pass[r]: where call r of retryFailedEvents is
    todo,           \* todo[r]: the events of failedEvents that pass r has not reset yet
    delivered,      \* delivered[e]: the calls of send for e that reached the topic
    stranded        \* events whose process died or lost the database while it held them

processVars == <<app, isProcessing, batch, work, pass, todo>>
history == <<delivered, stranded>>
vars == <<tableVars, kafkaVars, processVars, history>>

Stages == {"none", "marking", "connecting", "sending", "publishing", "failing"}

ProcessTypeOK ==
    /\ app \in {"down", "starting", "up", "stopping"}
    /\ batch \in [Batches -> {"idle", "fetching", "running"}]
    /\ work \in [Batches -> [Events -> Stages]]
    /\ pass \in [Retriers -> {"idle", "fetching", "resetting"}]
    /\ todo \in [Retriers -> SUBSET Events]

HistoryTypeOK ==
    /\ delivered \in [Events -> Nat]
    /\ stranded \in SUBSET Events

TypeOK ==
    /\ TableTypeOK
    /\ KafkaTypeOK
    /\ isProcessing \in BOOLEAN
    /\ ProcessTypeOK
    /\ HistoryTypeOK

AllIdle == [b \in Batches |-> "idle"]
NoWork == [b \in Batches |-> [e \in Events |-> "none"]]
AllQuiet == [r \in Retriers |-> "idle"]
NothingTodo == [r \in Retriers |-> {}]

Init ==
    /\ TableInit
    /\ KafkaInit
    /\ app = "down"
    /\ isProcessing = FALSE
    /\ batch = AllIdle
    /\ work = NoWork
    /\ pass = AllQuiet
    /\ todo = NothingTodo
    /\ delivered = [e \in Events |-> 0]
    /\ stranded = {}

TimersRunning == app \in {"starting", "up"}

\* Some batch holds e in its pendingEvents and has not settled it.
InHand(e) == \E b \in Batches : work[b][e] # "none"

\* The retry passes that hold e in their failedEvents and have not reset it.
Holders(e) == {r \in Retriers : e \in todo[r]}

----------------------------------------------------------------------------
\* A price transaction commits a new event (see PriceUpdate).  stop() does not
\* cancel the price cycle in flight, so this happens while stopping as well.
CreatePriceUpdateEvent(e) ==
    /\ app \in {"up", "stopping"}
    /\ createPriceUpdateEvent(e)
    /\ UNCHANGED <<kafkaVars, processVars, history>>

----------------------------------------------------------------------------
\* processPendingEvents and executePendingEvents.

\* Mutant: the guard on isProcessing is missing.
UnguardedTick(b) ==
    /\ TimersRunning
    /\ batch[b] = "idle"
    /\ isProcessing' = TRUE
    /\ batch' = [batch EXCEPT ![b] = "fetching"]
    /\ UNCHANGED <<tableVars, kafkaVars, app, work, pass, todo, history>>

\* A tick of the processing interval.
ProcessPendingEvents(b) ==
    /\ TimersRunning
    /\ batch[b] = "idle"
    /\ ~isProcessing
    /\ isProcessing' = TRUE
    /\ batch' = [batch EXCEPT ![b] = "fetching"]
    /\ UNCHANGED <<tableVars, kafkaVars, app, work, pass, todo, history>>

\* Mutant: the finally block is missing.
SettleWithoutFinally(b) ==
    /\ batch' = [batch EXCEPT ![b] = "idle"]
    /\ UNCHANGED isProcessing

\* The batch ends and the finally block runs.
Settle(b) ==
    /\ batch' = [batch EXCEPT ![b] = "idle"]
    /\ isProcessing' = FALSE

\* getPendingEvents answers; all events of the batch are started together.
ExecutePendingEvents(b) ==
    LET pendingEvents == getPendingEvents(BatchSize) IN
    /\ batch[b] = "fetching"
    /\ \/ /\ pendingEvents # {}
          /\ batch' = [batch EXCEPT ![b] = "running"]
          /\ work' = [work EXCEPT ![b] =
                        [e \in Events |-> IF e \in pendingEvents THEN "marking" ELSE "none"]]
          /\ UNCHANGED isProcessing
       \/ /\ pendingEvents = {} \/ "db" \in Env
          /\ Settle(b)
          /\ UNCHANGED work
    /\ UNCHANGED <<tableVars, kafkaVars, app, pass, todo, history>>

\* Promise.allSettled: every event of the batch has settled.
EndBatch(b) ==
    /\ batch[b] = "running"
    /\ \A e \in Events : work[b][e] = "none"
    /\ Settle(b)
    /\ UNCHANGED <<tableVars, kafkaVars, app, work, pass, todo, history>>

----------------------------------------------------------------------------
\* processEvent(e) in batch b, one step per awaited call.

Advance(b, e, stage) ==
    /\ work' = [work EXCEPT ![b][e] = stage]
    /\ UNCHANGED <<app, isProcessing, batch, pass, todo>>

\* markAsProcessing answers; sendMessage starts with the flag as it is now.
Marked(b, e) ==
    /\ work[b][e] = "marking"
    /\ \/ /\ markAsProcessing(e)
          /\ Advance(b, e, IF isConnected THEN "sending" ELSE "connecting")
       \/ /\ "db" \in Env
          /\ markAsProcessing(e) \/ UNCHANGED tableVars
          /\ Advance(b, e, "failing")
    /\ UNCHANGED <<kafkaVars, history>>

\* Mutant: sendMessage repeats connect() until it succeeds.
ReconnectedAtLast(b, e) ==
    /\ work[b][e] = "connecting"
    /\ ConnectSucceeds
    /\ Advance(b, e, "sending")
    /\ UNCHANGED <<tableVars, history>>

\* The connect() inside sendMessage answers.
Reconnected(b, e) ==
    /\ work[b][e] = "connecting"
    /\ \/ ConnectSucceeds /\ Advance(b, e, "sending")
       \/ ConnectFails /\ Advance(b, e, "failing")
    /\ UNCHANGED <<tableVars, history>>

\* Mutant: sendMessage logs the error of a send and does not rethrow it.
SentOrSwallowed(b, e) ==
    /\ work[b][e] = "sending"
    /\ delivered' = [delivered EXCEPT ![e] = @ + IF CanSend THEN 1 ELSE 0]
    /\ \/ Advance(b, e, "publishing")
       \/ "ack" \in Env /\ Advance(b, e, "failing")
    /\ UNCHANGED <<tableVars, kafkaVars, stranded>>

\* producer.send answers.
Sent(b, e) ==
    /\ work[b][e] = "sending"
    /\ \/ /\ CanSend
          /\ delivered' = [delivered EXCEPT ![e] = @ + 1]
          /\ \/ Advance(b, e, "publishing")
             \/ "ack" \in Env /\ Advance(b, e, "failing")
       \/ /\ ~CanSend
          /\ UNCHANGED delivered
          /\ Advance(b, e, "failing")
    /\ UNCHANGED <<tableVars, kafkaVars, stranded>>

\* markAsPublished answers.
Published(b, e) ==
    /\ work[b][e] = "publishing"
    /\ \/ markAsPublished(e) /\ Advance(b, e, "none")
       \/ /\ "db" \in Env
          /\ markAsPublished(e) \/ UNCHANGED tableVars
          /\ Advance(b, e, "failing")
    /\ UNCHANGED <<kafkaVars, history>>

\* markAsFailed answers.  When it throws, allSettled swallows the error.
Failed(b, e) ==
    /\ work[b][e] = "failing"
    /\ Advance(b, e, "none")
    /\ \/ markAsFailed(e) /\ UNCHANGED stranded
       \/ /\ "db" \in Env
          /\ UNCHANGED tableVars
          /\ stranded' = stranded \cup ({e} \cap RowsWith("PROCESSING"))
    /\ UNCHANGED <<kafkaVars, delivered>>

ProcessEvent(b, e) ==
    Marked(b, e) \/ Reconnected(b, e) \/ Sent(b, e) \/ Published(b, e) \/ Failed(b, e)

----------------------------------------------------------------------------
\* retryFailedEvents.  Nothing keeps two passes from overlapping.

\* A tick of the retry interval.
RetryFailedEvents(r) ==
    /\ TimersRunning
    /\ pass[r] = "idle"
    /\ pass' = [pass EXCEPT ![r] = "fetching"]
    /\ UNCHANGED <<tableVars, kafkaVars, app, isProcessing, batch, work, todo, history>>

\* getFailedEvents answers.
FetchFailed(r) ==
    LET failedEvents == getFailedEvents(MaxRetries) IN
    /\ pass[r] = "fetching"
    /\ \/ /\ failedEvents # {}
          /\ pass' = [pass EXCEPT ![r] = "resetting"]
          /\ todo' = [todo EXCEPT ![r] = failedEvents]
       \/ /\ failedEvents = {} \/ "db" \in Env
          /\ pass' = [pass EXCEPT ![r] = "idle"]
          /\ UNCHANGED todo
    /\ UNCHANGED <<tableVars, kafkaVars, app, isProcessing, batch, work, history>>

\* resetFailedEventForRetry answers for the next event; an error ends the pass.
ResetNext(r) ==
    /\ pass[r] = "resetting"
    /\ \E e \in Oldest(todo[r], 1) :
         \/ /\ resetFailedEventForRetry(e)
            /\ todo' = [todo EXCEPT ![r] = @ \ {e}]
            /\ pass' = [pass EXCEPT ![r] = IF todo[r] = {e} THEN "idle" ELSE @]
         \/ /\ "db" \in Env
            /\ resetFailedEventForRetry(e) \/ UNCHANGED tableVars
            /\ todo' = [todo EXCEPT ![r] = {}]
            /\ pass' = [pass EXCEPT ![r] = "idle"]
    /\ UNCHANGED <<kafkaVars, app, isProcessing, batch, work, history>>

RetryPass(r) == FetchFailed(r) \/ ResetNext(r)

----------------------------------------------------------------------------
\* The process: main.ts, the lifecycle hooks, and its death.

\* onModuleInit: the intervals are registered while connect() is in flight.
Boot ==
    /\ app = "down"
    /\ app' = "starting"
    /\ UNCHANGED <<tableVars, kafkaVars, isProcessing, batch, work, pass, todo, history>>

BootConnected ==
    /\ app = "starting"
    /\ ConnectSucceeds
    /\ app' = "up"
    /\ UNCHANGED <<tableVars, isProcessing, batch, work, pass, todo, history>>

\* The memory of the process is gone.
Vanish ==
    /\ app' = "down"
    /\ isProcessing' = FALSE
    /\ batch' = AllIdle
    /\ work' = NoWork
    /\ pass' = AllQuiet
    /\ todo' = NothingTodo
    /\ KafkaReset
    /\ UNCHANGED <<tableVars, delivered>>

Die ==
    /\ Vanish
    /\ stranded' = stranded \cup {e \in RowsWith("PROCESSING") : InHand(e)}

\* The boot connect() throws, app.listen rejects, main.ts calls process.exit(1).
BootFailed == app = "starting" /\ ~brokerUp /\ Die

Crash == "crash" \in Env /\ app # "down" /\ Die

\* SIGTERM: onModuleDestroy deletes both intervals and, at the same time, the
\* producer starts to disconnect.
Shutdown ==
    /\ "stop" \in Env
    /\ app = "up"
    /\ app' = "stopping"
    /\ BeginDisconnect
    /\ UNCHANGED <<tableVars, isProcessing, batch, work, pass, todo, history>>

Disconnected ==
    /\ DisconnectReturns
    /\ UNCHANGED <<tableVars, processVars, history>>

\* Mutant: stopProcessing does not await processingPromise.
ExitAtOnce ==
    /\ app = "stopping"
    /\ ~disconnecting
    /\ Vanish
    /\ UNCHANGED stranded

\* Both hooks have returned: the batch in flight was awaited, a retry pass was not.
Exit ==
    /\ app = "stopping"
    /\ ~isProcessing
    /\ ~disconnecting
    /\ Vanish
    /\ UNCHANGED stranded

BrokerDown == "broker" \in Env /\ BrokerFails /\ UNCHANGED <<tableVars, processVars, history>>
BrokerUp == BrokerRecovers /\ UNCHANGED <<tableVars, processVars, history>>

----------------------------------------------------------------------------
Next ==
    \/ \E e \in Events : CreatePriceUpdateEvent(e)
    \/ \E b \in Batches :
         \/ ProcessPendingEvents(b)
         \/ ExecutePendingEvents(b)
         \/ EndBatch(b)
         \/ \E e \in Events : ProcessEvent(b, e)
    \/ \E r \in Retriers : RetryFailedEvents(r) \/ RetryPass(r)
    \/ Boot \/ BootConnected \/ BootFailed \/ Crash
    \/ Shutdown \/ Disconnected \/ Exit
    \/ BrokerDown \/ BrokerUp

Spec == Init /\ [][Next]_vars

(***************************************************************************)
(* Fairness of the runtime: an interval keeps firing while it is            *)
(* registered, every call of the database or of kafkajs answers (both have  *)
(* timeouts), and the container restarts a process that ended.  Nothing is  *)
(* assumed of the environment: of new events, of the broker, of faults.     *)
(***************************************************************************)
Fairness ==
    /\ WF_vars(\E b \in Batches : ProcessPendingEvents(b))
    /\ WF_vars(\E r \in Retriers : RetryFailedEvents(r))
    /\ \A b \in Batches :
         /\ WF_vars(ExecutePendingEvents(b))
         /\ WF_vars(EndBatch(b))
         /\ \A e \in Events : WF_vars(ProcessEvent(b, e))
    /\ \A r \in Retriers : WF_vars(RetryPass(r))
    /\ WF_vars(Boot)
    /\ WF_vars(BootConnected \/ BootFailed)
    /\ WF_vars(Disconnected)
    /\ WF_vars(Exit)

FairSpec == Spec /\ Fairness

----------------------------------------------------------------------------
\* Safety.

\* No event is in the hands of two calls of processEvent at once: the flag
\* isProcessing makes batches take turns, and within a batch an event is once.
OneWorkerPerEvent ==
    \A e \in Events : \A b, c \in Batches :
        work[b][e] # "none" /\ work[c][e] # "none" => b = c

\* The flag is set exactly while a call of executePendingEvents is under way: were
\* it left set, the outbox would stand still until the process ends; were it
\* cleared too soon, the next batch would take up the same rows.
FlagIsHeld == isProcessing <=> \E b \in Batches : batch[b] # "idle"

\* An event marked PUBLISHED did reach the topic, whatever failed on the way.
PublishedWasDelivered ==
    \A e \in Events : status[e] = "PUBLISHED" => delivered[e] > 0

\* A row stays PROCESSING with nobody working on it only when the process died,
\* or lost the database, while it held the event; a graceful shutdown, which
\* awaits the batch in flight, never leaves such a row.
StrandedOnlyByLoss ==
    \A e \in Events : status[e] = "PROCESSING" => InHand(e) \/ e \in stranded

\* How often an event whose row counts k failures may have been sent: once when
\* it was new, and after each failure that left it due for a retry once more for
\* each pass that may be under way at a time.
Copies(k) == 1 + Cardinality(Retriers) * (IF k < MaxRetries THEN k ELSE MaxRetries - 1)

\* The topic never receives an event more often than that, so retry_count bounds
\* the duplicates consumers see, although a pass may reset a row that another one
\* has reset before, that is in hand, or that is published by now.
RepeatsAreRecorded ==
    \A e \in Events : delivered[e] <= Copies(retryCount[e])

\* The counter passes the limit that getFailedEvents compares it with by no more
\* than the passes that read the row before, and not at all when none overlap.
RetryBudget == \A e \in Events : retryCount[e] < MaxRetries + Cardinality(Retriers)

\* Only a row that is FAILED is ever reset to PENDING for retry
\* (resetFailedEventForRetry), so nothing published is published anew.
OnlyFailedEventsAreReset ==
    [][\A e \in Events :
         status'[e] = "PENDING" => status[e] \in {"NONE", "PENDING", "FAILED"}]_vars

\* An event that can no longer be lost track of: published, or given up for good.
Resolved(e) ==
    \/ status[e] \in {"NONE", "PUBLISHED"}
    \/ status[e] = "FAILED" /\ retryCount[e] >= MaxRetries

\* PROCESSING means what markAsProcessing says, "being processed": in a process
\* that is only ever stopped gracefully, every such row is in a batch's hands.
ProcessingMeansInHand ==
    \A e \in Events : status[e] = "PROCESSING" => InHand(e)

\* An event is repeated maxRetries times before it is given up: its first failure
\* is followed by maxRetries more, so a row that no pass will reset has failed
\* more than maxRetries times.
RepeatedMaxRetriesTimes ==
    \A e \in Events :
        status[e] = "FAILED" /\ e \notin getFailedEvents(MaxRetries) => retryCount[e] > MaxRetries

\* The Kafka health check follows the connection: when the broker stays away, it
\* eventually reports the producer as not connected.
HealthFollowsConnection ==
    <>[](app = "up" /\ ~brokerUp) => <>[](~healthCheck)

\* A step in which a call of the database throws and its work is not done.
DbThrows ==
    \/ \E b \in Batches :
         \/ batch[b] = "fetching" /\ batch'[b] = "idle" /\ RowsWith("PENDING") # {}
         \/ \E e \in Events : work[b][e] \in {"marking", "publishing"} /\ work'[b][e] = "failing"
         \/ \E e \in Events : work[b][e] = "failing" /\ work'[b][e] = "none" /\ status'[e] # "FAILED"
    \/ \E r \in Retriers :
         /\ pass[r] # "idle" /\ pass'[r] = "idle"
         /\ getFailedEvents(MaxRetries)' # {}

\* Liveness: in a process that stays up, with a database that stops failing,
\* every event is eventually published or has used up its retries, and stays so,
\* except those whose row was left PROCESSING by a crash or a failed update.
EventuallyResolved ==
    <>[](app = "up") /\ <>[][~DbThrows]_vars
        => <>[](\A e \in Events : Resolved(e) \/ e \in stranded)

\* A shutdown ends, whatever the batch it must wait for runs into.
ShutdownTerminates == app = "stopping" ~> app = "down"

============================================================================
