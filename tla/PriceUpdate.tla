---------------------------- MODULE PriceUpdate ----------------------------
(***************************************************************************)
(* TokenPriceUpdateService with the part of TokenService and OutboxService  *)
(* it runs in one database transaction, and the tables these write.         *)
(*                                                                          *)
(* A cycle reads all tokens once and then works through them in batches, so *)
(* the old price it compares with and announces is as old as the cycle.  A  *)
(* step is the code between two awaits.  The transaction is READ COMMITTED  *)
(* on PostgreSQL: its writes appear when it commits; from the upsert on it  *)
(* holds the price row, and through the foreign key the token row, against  *)
(* other transactions and DELETE.                                           *)
(*                                                                          *)
(* Abstracted: a token IS its rank in the priority order, ids are never     *)
(* reused; prices are integers from a small set; MockPriceService is any    *)
(* price, or the last known one when it fails (getRandomPriceForToken).     *)
(***************************************************************************)
EXTENDS Integers, FiniteSets

CONSTANTS
    Tokens,         \* the tokens that may ever exist, by priority
    Prices,         \* the prices the service may quote
    BatchSize,      \* app.priceUpdateBatchSize
    Threshold,      \* app.priceUpdateThresholdPercent
    Cycles,         \* calls of updatePricesWithErrorHandling that may overlap
    Env             \* what the environment may do, a subset of EnvFaults

EnvFaults == {"crash", "db", "remove"}

ASSUME TokensAssumption == Tokens \subseteq Nat
ASSUME PricesAssumption == Prices \subseteq Nat
ASSUME BatchSizeAssumption == BatchSize \in Nat \ {0}
ASSUME ThresholdAssumption == Threshold \in 0..100
ASSUME EnvAssumption == Env \subseteq EnvFaults

VARIABLES
    token,          \* token[t]: whether the token row is there
    price,          \* price[t]: the token_prices row, NoPrice when there is none
    isRunning,      \* the flag of start() and stop()
    timer,          \* the interval is registered
    isProcessing,   \* the flag of updatePricesWithErrorHandling
    cycle,          \* cycle[c]: where call c is
    queue,          \* queue[c]: the tokens of the cycle whose batch is yet to come
    work,           \* work[c][t]: the call that updateTokenPrice(t) awaits
    oldPrice,       \* oldPrice[c][t]: the price the cycle read for t
    newPrice,       \* newPrice[c][t]: the price quoted for t
    feed,           \* feed[t]: the price announced last for t, at first the one it came with
    contiguous      \* contiguous[t]: each event took up where the last one ended

tables == <<token, price>>
service == <<isRunning, timer, isProcessing>>
progress == <<cycle, queue, work, oldPrice, newPrice>>
history == <<feed, contiguous>>
vars == <<tables, service, progress, history>>

NoPrice == -1

\* Mutant: the "?? 0" is missing, a token without a price has no old price.
KnownOrNothing(p) == p

\* Number(token.price?.price ?? 0)
Known(p) == IF p = NoPrice THEN 0 ELSE p

Stages == {"none", "fetching", "upserting", "creating", "committing"}

TypeOK ==
    /\ token \in [Tokens -> {"unknown", "listed", "removed"}]
    /\ price \in [Tokens -> Prices \cup {NoPrice}]
    /\ isRunning \in BOOLEAN
    /\ timer \in BOOLEAN
    /\ isProcessing \in BOOLEAN
    /\ cycle \in [Cycles -> {"idle", "reading", "running"}]
    /\ queue \in [Cycles -> SUBSET Tokens]
    /\ work \in [Cycles -> [Tokens -> Stages]]
    /\ oldPrice \in [Cycles -> [Tokens -> Prices \cup {0}]]
    /\ newPrice \in [Cycles -> [Tokens -> Prices \cup {0}]]
    /\ feed \in [Tokens -> Prices \cup {0}]
    /\ contiguous \in [Tokens -> BOOLEAN]

NoCycle == [c \in Cycles |-> "idle"]
NoQueue == [c \in Cycles |-> {}]
NoWork == [c \in Cycles |-> [t \in Tokens |-> "none"]]
NoQuote == [c \in Cycles |-> [t \in Tokens |-> 0]]

Init ==
    /\ token = [t \in Tokens |-> "unknown"]
    /\ price = [t \in Tokens |-> NoPrice]
    /\ isRunning = FALSE
    /\ timer = FALSE
    /\ isProcessing = FALSE
    /\ cycle = NoCycle
    /\ queue = NoQueue
    /\ work = NoWork
    /\ oldPrice = NoQuote
    /\ newPrice = NoQuote
    /\ feed = [t \in Tokens |-> 0]
    /\ contiguous = [t \in Tokens |-> TRUE]

\* Some transaction holds the rows of t.
Locked(t) == \E c \in Cycles : work[c][t] \in {"creating", "committing"}

\* calculatePriceChangePercent(old, new) >= minChangeThresholdPercent.
Significant(old, new) ==
    LET change == IF new > old THEN new - old ELSE old - new IN
    IF old = 0 THEN 100 >= Threshold ELSE change * 100 >= Threshold * old

\* Mutant: the order is reversed.
LastFirst(S, n) == {t \in S : Cardinality({u \in S : u > t}) < n}

\* The first n tokens of S by priority.
First(S, n) == {t \in S : Cardinality({u \in S : u < t}) < n}

----------------------------------------------------------------------------
\* Tokens come and go.

\* A row is inserted past the service, as the integration test does (see
\* TokenStore for POST), with or without a first price, which nobody announces.
AddToken(t) ==
    /\ token[t] = "unknown"
    /\ token' = [token EXCEPT ![t] = "listed"]
    /\ \E p \in Prices \cup {NoPrice} :
         /\ price' = [price EXCEPT ![t] = p]
         /\ feed' = [feed EXCEPT ![t] = Known(p)]
    /\ UNCHANGED <<service, progress, contiguous>>

\* DELETE over REST cascades to the price row and waits for a transaction that holds it.
RemoveToken(t) ==
    /\ "remove" \in Env
    /\ token[t] = "listed"
    /\ ~Locked(t)
    /\ token' = [token EXCEPT ![t] = "removed"]
    /\ price' = [price EXCEPT ![t] = NoPrice]
    /\ UNCHANGED <<service, progress, history>>

----------------------------------------------------------------------------
\* start(), stop() and the interval.

\* Mutant: the guard on isProcessing is missing.
OverlappingCycle(c) ==
    /\ cycle[c] = "idle"
    /\ cycle' = [cycle EXCEPT ![c] = "reading"]
    /\ isProcessing' = TRUE

\* updatePricesWithErrorHandling up to its first await.
BeginCycle(c) ==
    /\ cycle[c] = "idle"
    /\ ~isProcessing
    /\ cycle' = [cycle EXCEPT ![c] = "reading"]
    /\ isProcessing' = TRUE

\* start() runs a cycle at once; it is skipped when one is still in progress,
\* which may be one that a stop() before did not interrupt.
Start ==
    /\ ~isRunning
    /\ isRunning' = TRUE
    /\ timer' = TRUE
    /\ \/ \E c \in Cycles : BeginCycle(c)
       \/ isProcessing /\ UNCHANGED <<isProcessing, cycle>>
    /\ UNCHANGED <<tables, queue, work, oldPrice, newPrice, history>>

Stop ==
    /\ isRunning
    /\ isRunning' = FALSE
    /\ timer' = FALSE
    /\ UNCHANGED <<tables, isProcessing, progress, history>>

\* The interval fires.
Interval ==
    /\ timer
    /\ isRunning
    /\ \E c \in Cycles : BeginCycle(c)
    /\ UNCHANGED <<tables, isRunning, timer, queue, work, oldPrice, newPrice, history>>

----------------------------------------------------------------------------
\* updatePrices.

\* The prices a cycle has read and been quoted are gone when it ends.
Forget(c) ==
    /\ oldPrice' = [oldPrice EXCEPT ![c] = [t \in Tokens |-> 0]]
    /\ newPrice' = [newPrice EXCEPT ![c] = [t \in Tokens |-> 0]]

\* Mutant: the finally block is missing.
EndWithoutFinally(c) ==
    /\ cycle' = [cycle EXCEPT ![c] = "idle"]
    /\ Forget(c)
    /\ UNCHANGED isProcessing

\* The cycle returns or throws; either way the finally block runs.
EndCycle(c) ==
    /\ cycle' = [cycle EXCEPT ![c] = "idle"]
    /\ Forget(c)
    /\ isProcessing' = FALSE

\* Start the next batch of the tokens S: each of them asks for its price.
StartBatch(c, S) ==
    LET batch == First(S, BatchSize) IN
    /\ queue' = [queue EXCEPT ![c] = S \ batch]
    /\ work' = [work EXCEPT ![c] = [t \in Tokens |-> IF t \in batch THEN "fetching" ELSE "none"]]

\* findAll answers with every token and its price.
TokensRead(c) ==
    LET tokens == {t \in Tokens : token[t] = "listed"} IN
    /\ cycle[c] = "reading"
    /\ \/ /\ tokens # {}
          /\ cycle' = [cycle EXCEPT ![c] = "running"]
          /\ oldPrice' = [oldPrice EXCEPT ![c] = [t \in Tokens |-> Known(price[t])]]
          /\ StartBatch(c, tokens)
          /\ UNCHANGED <<isProcessing, newPrice>>
       \/ /\ tokens = {} \/ "db" \in Env
          /\ EndCycle(c)
          /\ UNCHANGED <<queue, work>>
    /\ UNCHANGED <<tables, isRunning, timer, history>>

\* Promise.allSettled of a batch: on to the next one, or the cycle is complete.
BatchSettled(c) ==
    /\ cycle[c] = "running"
    /\ \A t \in Tokens : work[c][t] = "none"
    /\ \/ /\ queue[c] # {}
          /\ StartBatch(c, queue[c])
          /\ UNCHANGED <<cycle, isProcessing, oldPrice, newPrice>>
       \/ /\ queue[c] = {}
          /\ EndCycle(c)
          /\ UNCHANGED <<queue, work>>
    /\ UNCHANGED <<tables, isRunning, timer, history>>

----------------------------------------------------------------------------
\* updateTokenPrice(t) in cycle c, one step per awaited call.  An error rolls
\* the transaction back and is logged; it does not stop the cycle.

Advance(c, t, stage) ==
    /\ work' = [work EXCEPT ![c][t] = stage]
    /\ UNCHANGED <<service, cycle, queue, oldPrice>>

\* What MockPriceService may answer: any price, or the last known one when the
\* price service failed, timed out or is cut off by the circuit breaker.
getRandomPriceForToken(currentPrice) == Prices \cup {currentPrice}

\* The price is quoted; too small a change ends the update.
Quoted(c, t) ==
    /\ work[c][t] = "fetching"
    /\ LET old == oldPrice[c][t] IN \E p \in getRandomPriceForToken(old) :
         \/ /\ p # old /\ Significant(old, p)
            /\ newPrice' = [newPrice EXCEPT ![c][t] = p]
            /\ Advance(c, t, "upserting")
         \/ /\ p = old \/ ~Significant(old, p)
            /\ UNCHANGED newPrice
            /\ Advance(c, t, "none")
    /\ UNCHANGED <<tables, history>>

\* Mutant: the price is written through this.prisma, outside the transaction.
UpsertedOutside(c, t) ==
    /\ work[c][t] = "upserting"
    /\ ~Locked(t)
    /\ \/ /\ token[t] = "listed"
          /\ price' = [price EXCEPT ![t] = newPrice[c][t]]
          /\ Advance(c, t, "creating")
       \/ /\ token[t] # "listed" \/ "db" \in Env
          /\ UNCHANGED price
          /\ Advance(c, t, "none")
    /\ UNCHANGED <<token, newPrice, history>>

\* Mutant: an update that matches no row is taken for a success.
UpdatedMany(c, t) ==
    /\ work[c][t] = "upserting"
    /\ ~Locked(t)
    /\ \/ Advance(c, t, "creating")
       \/ "db" \in Env /\ Advance(c, t, "none")
    /\ UNCHANGED <<tables, newPrice, history>>

\* updatePriceInTransaction answers.  For a token that is gone the upsert has no
\* price row to update and no token to refer to: it throws.
Upserted(c, t) ==
    /\ work[c][t] = "upserting"
    /\ ~Locked(t)
    /\ \/ token[t] = "listed" /\ Advance(c, t, "creating")
       \/ /\ token[t] # "listed" \/ "db" \in Env
          /\ Advance(c, t, "none")
    /\ UNCHANGED <<tables, newPrice, history>>

\* createPriceUpdateEvent answers.
EventCreated(c, t) ==
    /\ work[c][t] = "creating"
    /\ \/ Advance(c, t, "committing")
       \/ "db" \in Env /\ Advance(c, t, "none")
    /\ UNCHANGED <<tables, newPrice, history>>

\* What becomes visible at the commit: the price and the event.
Apply(c, t) ==
    /\ price' = [price EXCEPT ![t] = newPrice[c][t]]
    /\ feed' = [feed EXCEPT ![t] = newPrice[c][t]]
    /\ contiguous' = [contiguous EXCEPT ![t] = @ /\ oldPrice[c][t] = feed[t]]

\* COMMIT answers; when it throws the transaction may have been committed or not.
Committed(c, t) ==
    /\ work[c][t] = "committing"
    /\ Advance(c, t, "none")
    /\ \/ Apply(c, t)
       \/ "db" \in Env /\ UNCHANGED <<price, history>>
    /\ UNCHANGED <<token, newPrice>>

UpdateTokenPrice(c, t) ==
    Quoted(c, t) \/ Upserted(c, t) \/ EventCreated(c, t) \/ Committed(c, t)

----------------------------------------------------------------------------
\* The process dies; what it had not committed is rolled back.
Crash ==
    /\ "crash" \in Env
    /\ isRunning' = FALSE
    /\ timer' = FALSE
    /\ isProcessing' = FALSE
    /\ cycle' = NoCycle
    /\ queue' = NoQueue
    /\ work' = NoWork
    /\ oldPrice' = NoQuote
    /\ newPrice' = NoQuote
    /\ UNCHANGED <<tables, history>>

Next ==
    \/ \E t \in Tokens : AddToken(t) \/ RemoveToken(t)
    \/ Start \/ Stop \/ Interval \/ Crash
    \/ \E c \in Cycles :
         \/ TokensRead(c)
         \/ BatchSettled(c)
         \/ \E t \in Tokens : UpdateTokenPrice(c, t)

Spec == Init /\ [][Next]_vars

\* Every call that is awaited answers: the database's, and the breaker's, which
\* has a timeout.
Fairness ==
    \A c \in Cycles :
        /\ WF_vars(TokensRead(c))
        /\ WF_vars(BatchSettled(c))
        /\ \A t \in Tokens : WF_vars(UpdateTokenPrice(c, t))

FairSpec == Spec /\ Fairness

----------------------------------------------------------------------------
\* The price in the database is the one the outbox announced last: the two are
\* written together or not at all, whatever fails in between.
FeedMatchesPrice ==
    \A t \in Tokens : token[t] = "listed" => Known(price[t]) = feed[t]

\* The events of a token form a chain: the oldPrice of each is the price before
\* it, although it was read when the cycle began and is never read again.
EventsAreContiguous == \A t \in Tokens : contiguous[t]

\* Nothing is announced for a token after it was removed, even when the cycle in
\* progress still has it in its batches.
RemovedStaysSilent ==
    [][\A t \in Tokens : token[t] = "removed" => feed'[t] = feed[t] /\ price'[t] = NoPrice]_vars

\* The flag is set exactly while a cycle is under way: were it left set, prices
\* would stand still; were it cleared too soon, cycles would overlap.
FlagIsHeld == isProcessing <=> \E c \in Cycles : cycle[c] # "idle"

\* Tokens are updated by priority: while one is in progress, none of those that
\* still wait for their batch comes before it.
PriorityIsKept ==
    \A c \in Cycles, t \in Tokens : work[c][t] # "none" => \A u \in queue[c] : t < u

\* The changes a consumer should hear of.
Announceable ==
    {change \in (Prices \cup {0}) \X Prices :
        change[1] # change[2] /\ Significant(change[1], change[2])}

Feed == INSTANCE PriceFeed WITH NoPrice <- NoPrice, NoFeed <- 0, Changes <- Announceable

\* The cycle implements the feed: whatever fails, overlaps or is removed, price
\* and event change together, and by enough, not compared with what the cycle
\* read at its beginning but with what was announced last.
KeepsFeed == Feed!Spec

\* Liveness: a cycle ends, so that the flag never shuts out all later cycles.
CyclesEnd == isProcessing ~> ~isProcessing

============================================================================
