------------------------- MODULE PriceUpdateProofs -------------------------
(***************************************************************************)
(* Proofs about PriceUpdate, for all sets of tokens and prices, every batch *)
(* size and threshold, any number of calls and every environment.           *)
(***************************************************************************)
EXTENDS PriceUpdate, FiniteSetTheorems, WellFoundedInduction, TLAPS

----------------------------------------------------------------------------
\* Type correctness.  What is written is a quote that differs from the old price,
\* hence one of Prices.

Writing == {"upserting", "creating", "committing"}

QuoteInv == \A c \in Cycles, t \in Tokens : work[c][t] \in Writing => newPrice[c][t] \in Prices

\* A cycle that is not under way has no token left to do or in progress.
RestInv ==
    \A c \in Cycles :
        cycle[c] # "running" => queue[c] = {} /\ \A t \in Tokens : work[c][t] = "none"

TypeInv == TypeOK /\ QuoteInv /\ RestInv

LEMMA InitType == Init => TypeInv
<1> SUFFICES ASSUME Init PROVE TypeInv
  OBVIOUS
<1>1. isRunning \in BOOLEAN /\ timer \in BOOLEAN /\ isProcessing \in BOOLEAN
  BY Zenon DEF Init
<1>2. contiguous \in [Tokens -> BOOLEAN]
  BY Zenon DEF Init
<1>3. /\ token \in [Tokens -> {"unknown", "listed", "removed"}]
      /\ price \in [Tokens -> Prices \cup {NoPrice}]
      /\ feed \in [Tokens -> Prices \cup {0}]
  BY DEF Init
<1>4. /\ cycle \in [Cycles -> {"idle", "reading", "running"}]
      /\ queue \in [Cycles -> SUBSET Tokens]
      /\ work \in [Cycles -> [Tokens -> Stages]]
      /\ oldPrice \in [Cycles -> [Tokens -> Prices \cup {0}]]
      /\ newPrice \in [Cycles -> [Tokens -> Prices \cup {0}]]
  BY DEF Init, NoCycle, NoQueue, NoWork, NoQuote, Stages
<1>5. QuoteInv /\ RestInv
  BY DEF Init, NoWork, NoQueue, QuoteInv, RestInv, Writing
<1> QED
  BY <1>1, <1>2, <1>3, <1>4, <1>5 DEF TypeInv, TypeOK

\* Tokens that come and go, start, stop, the interval and a crash.
LEMMA OutsideType ==
  ASSUME TypeInv,
         \/ \E t \in Tokens : AddToken(t) \/ RemoveToken(t)
         \/ Start \/ Stop \/ Interval \/ Crash \/ UNCHANGED vars
  PROVE  TypeInv'
<1> USE DEF AddToken, RemoveToken, Start, Stop, Interval, Crash, BeginCycle,
            vars, tables, service, progress, history
<1>1. isRunning' \in BOOLEAN /\ timer' \in BOOLEAN /\ isProcessing' \in BOOLEAN
  BY Zenon DEF TypeInv, TypeOK
<1>2. contiguous' \in [Tokens -> BOOLEAN]
  BY Zenon DEF TypeInv, TypeOK
<1>3. token' \in [Tokens -> {"unknown", "listed", "removed"}]
  BY DEF TypeInv, TypeOK
<1>4. price' \in [Tokens -> Prices \cup {NoPrice}] /\ feed' \in [Tokens -> Prices \cup {0}]
  <2>1. CASE \E t \in Tokens : AddToken(t)
    <3>1. PICK t \in Tokens, p \in Prices \cup {NoPrice} :
            price' = [price EXCEPT ![t] = p] /\ feed' = [feed EXCEPT ![t] = Known(p)]
      BY <2>1
    <3> QED
      BY <3>1 DEF TypeInv, TypeOK, Known
  <2>2. CASE ~\E t \in Tokens : AddToken(t)
    BY <2>2 DEF TypeInv, TypeOK
  <2> QED
    BY <2>1, <2>2
<1>7. /\ cycle' \in [Cycles -> {"idle", "reading", "running"}]
      /\ queue' \in [Cycles -> SUBSET Tokens]
      /\ work' \in [Cycles -> [Tokens -> Stages]]
      /\ oldPrice' \in [Cycles -> [Tokens -> Prices \cup {0}]]
      /\ newPrice' \in [Cycles -> [Tokens -> Prices \cup {0}]]
  BY DEF TypeInv, TypeOK, NoCycle, NoQueue, NoWork, NoQuote, Stages
<1>5. QuoteInv'
  BY DEF TypeInv, QuoteInv, Writing, NoWork
<1>6. RestInv'
  <2>1. CASE Crash
    BY <2>1 DEF RestInv, NoWork, NoQueue
  <2>2. CASE UNCHANGED <<queue, work>> /\ \E d \in Cycles : BeginCycle(d)
    BY <2>2 DEF TypeInv, TypeOK, RestInv
  <2>3. CASE UNCHANGED <<cycle, queue, work>>
    BY <2>3 DEF TypeInv, RestInv
  <2> QED
    BY <2>1, <2>2, <2>3
<1> QED
  BY <1>1, <1>2, <1>3, <1>4, <1>5, <1>6, <1>7 DEF TypeInv, TypeOK

\* A batch starts, or the cycle ends.
Starts(c, S) ==
    /\ S \in SUBSET Tokens
    /\ cycle' = [cycle EXCEPT ![c] = "running"]
    /\ StartBatch(c, S)
    /\ UNCHANGED newPrice

Ends(c) ==
    /\ EndCycle(c)
    /\ \A t \in Tokens : work[c][t] = "none"
    /\ queue[c] = {}
    /\ UNCHANGED <<queue, work>>

LEMMA CycleStep ==
  ASSUME TypeInv, NEW c \in Cycles, TokensRead(c) \/ BatchSettled(c)
  PROVE  \/ \E S \in SUBSET Tokens : Starts(c, S)
         \/ Ends(c)
<1>1. CASE TokensRead(c)
  BY <1>1 DEF TokensRead, Starts, Ends, TypeInv, RestInv
<1>2. CASE BatchSettled(c)
  <2>1. queue[c] \in SUBSET Tokens /\ cycle = [cycle EXCEPT ![c] = "running"]
    BY <1>2 DEF BatchSettled, TypeInv, TypeOK
  <2> QED
    BY <1>2, <2>1 DEF BatchSettled, Starts, Ends
<1> QED
  BY <1>1, <1>2

LEMMA CycleType ==
  ASSUME TypeInv, NEW c \in Cycles, TokensRead(c) \/ BatchSettled(c)
  PROVE  TypeInv'
<1>1. isRunning' \in BOOLEAN /\ timer' \in BOOLEAN /\ isProcessing' \in BOOLEAN
  BY Zenon DEF TypeInv, TypeOK, TokensRead, BatchSettled, EndCycle
<1>2. contiguous' \in [Tokens -> BOOLEAN]
  BY Zenon DEF TypeInv, TypeOK, TokensRead, BatchSettled, history
<1>3. UNCHANGED <<token, price, feed>>
  BY DEF TokensRead, BatchSettled, tables, history
<1>4. oldPrice' \in [Cycles -> [Tokens -> Prices \cup {0}]]
  <2>1. CASE TokensRead(c)
    <3>1. [t \in Tokens |-> Known(price[t])] \in [Tokens -> Prices \cup {0}]
      BY DEF TypeInv, TypeOK, Known
    <3>2. [t \in Tokens |-> 0] \in [Tokens -> Prices \cup {0}]
      OBVIOUS
    <3>3. \E f \in [Tokens -> Prices \cup {0}] : oldPrice' = [oldPrice EXCEPT ![c] = f]
      BY <2>1, <3>1, <3>2 DEF TokensRead, EndCycle, Forget
    <3> QED
      BY <3>3 DEF TypeInv, TypeOK
  <2>2. CASE BatchSettled(c)
    <3>1. [t \in Tokens |-> 0] \in [Tokens -> Prices \cup {0}]
      OBVIOUS
    <3>2. \/ UNCHANGED oldPrice
          \/ \E f \in [Tokens -> Prices \cup {0}] : oldPrice' = [oldPrice EXCEPT ![c] = f]
      BY <2>2, <3>1 DEF BatchSettled, EndCycle, Forget
    <3> QED
      BY <3>2 DEF TypeInv, TypeOK
  <2> QED
    BY <2>1, <2>2
<1>5. CASE \E S \in SUBSET Tokens : Starts(c, S)
  <2> PICK S \in SUBSET Tokens : Starts(c, S)
    BY <1>5
  <2>1. First(S, BatchSize) \in SUBSET Tokens
    BY DEF First
  <2>2. /\ cycle' \in [Cycles -> {"idle", "reading", "running"}]
        /\ queue' \in [Cycles -> SUBSET Tokens]
        /\ work' \in [Cycles -> [Tokens -> Stages]]
        /\ newPrice' \in [Cycles -> [Tokens -> Prices \cup {0}]]
    BY <2>1 DEF Starts, StartBatch, TypeInv, TypeOK, Stages
  <2>3. QuoteInv' /\ RestInv'
    BY <2>1 DEF Starts, StartBatch, TypeInv, TypeOK, QuoteInv, RestInv, Writing
  <2> QED
    BY <1>1, <1>2, <1>3, <1>4, <2>2, <2>3 DEF TypeInv, TypeOK
<1>6. CASE Ends(c)
  <2>1. /\ cycle' \in [Cycles -> {"idle", "reading", "running"}]
        /\ queue' \in [Cycles -> SUBSET Tokens]
        /\ work' \in [Cycles -> [Tokens -> Stages]]
        /\ newPrice' \in [Cycles -> [Tokens -> Prices \cup {0}]]
    BY <1>6 DEF Ends, EndCycle, Forget, TypeInv, TypeOK
  <2>2. QuoteInv' /\ RestInv'
    BY <1>6 DEF Ends, EndCycle, Forget, TypeInv, TypeOK, QuoteInv, RestInv, Writing
  <2> QED
    BY <1>1, <1>2, <1>3, <1>4, <2>1, <2>2 DEF TypeInv, TypeOK
<1> QED
  BY <1>5, <1>6, CycleStep

\* A step of t in c moves no other token into a transaction.
LEMMA WritingAlready ==
  ASSUME work \in [Cycles -> [Tokens -> Stages]],
         NEW c \in Cycles, NEW t \in Tokens, work[c][t] \in Writing,
         NEW s \in Stages, work' = [work EXCEPT ![c][t] = s],
         NEW d \in Cycles, NEW u \in Tokens, work'[d][u] \in Writing
  PROVE  work[d][u] \in Writing
  OBVIOUS

LEMMA UpdateType ==
  ASSUME TypeInv, NEW c \in Cycles, NEW t \in Tokens, UpdateTokenPrice(c, t)
  PROVE  TypeInv'
<1> USE DEF UpdateTokenPrice, Quoted, Upserted, EventCreated, Committed, Apply, Advance,
            tables, service, history
<1>1. isRunning' \in BOOLEAN /\ timer' \in BOOLEAN /\ isProcessing' \in BOOLEAN
  BY Zenon DEF TypeInv, TypeOK
<1>2. contiguous' \in [Tokens -> BOOLEAN]
  BY Zenon DEF TypeInv, TypeOK
<1>3. UNCHANGED <<token, cycle, queue, oldPrice>> /\ cycle[c] = "running"
  BY DEF TypeInv, TypeOK, RestInv
<1>4. \E s \in Stages : work' = [work EXCEPT ![c][t] = s]
  BY DEF Stages
<1>5. work' \in [Cycles -> [Tokens -> Stages]]
  BY <1>4 DEF TypeInv, TypeOK
<1>6. newPrice' \in [Cycles -> [Tokens -> Prices \cup {0}]] /\ QuoteInv'
  <2>1. CASE Quoted(c, t)
    <3>1. CASE UNCHANGED newPrice /\ work' = [work EXCEPT ![c][t] = "none"]
      BY <3>1 DEF TypeInv, TypeOK, QuoteInv, Writing
    <3>2. CASE \E p \in Prices : newPrice' = [newPrice EXCEPT ![c][t] = p]
      BY <2>1, <3>2 DEF TypeInv, TypeOK, QuoteInv, Writing
    <3> QED
      BY <2>1, <3>1, <3>2 DEF getRandomPriceForToken
  <2>2. CASE ~Quoted(c, t)
    <3>1. UNCHANGED newPrice /\ work[c][t] \in Writing
      BY <2>2 DEF Writing
    <3>2. \A d \in Cycles, u \in Tokens : work'[d][u] \in Writing => work[d][u] \in Writing
      BY <3>1, <1>4, WritingAlready DEF TypeInv, TypeOK
    <3> QED
      BY <3>1, <3>2 DEF TypeInv, TypeOK, QuoteInv
  <2> QED
    BY <2>1, <2>2
<1>7. price' \in [Tokens -> Prices \cup {NoPrice}] /\ feed' \in [Tokens -> Prices \cup {0}]
  BY DEF TypeInv, TypeOK, QuoteInv, Writing
<1>8. RestInv'
  BY <1>3 DEF TypeInv, TypeOK, RestInv
<1> QED
  BY <1>1, <1>2, <1>3, <1>5, <1>6, <1>7, <1>8 DEF TypeInv, TypeOK

LEMMA NextType == TypeInv /\ [Next]_vars => TypeInv'
  BY OutsideType, CycleType, UpdateType DEF Next

LEMMA TypeInvariant == Spec => []TypeInv
  BY InitType, NextType, PTL DEF Spec

\* The variables keep their types; in particular only quoted prices are written.
THEOREM TypeCorrect == Spec => []TypeOK
<1>1. TypeInv => TypeOK
  BY DEF TypeInv
<1> QED
  BY <1>1, TypeInvariant, PTL

----------------------------------------------------------------------------
\* The price and the event, and tokens that are not there.

\* The foreign key and the row locks keep a token until the commit.
LockInv ==
    \A c \in Cycles, t \in Tokens :
        work[c][t] \in {"creating", "committing"} => token[t] = "listed"

\* A token that is not listed has no price, a new one was never announced.
AbsentInv ==
    \A t \in Tokens :
        /\ token[t] # "listed" => price[t] = NoPrice
        /\ token[t] = "unknown" => feed[t] = 0

TableInv == LockInv /\ AbsentInv /\ FeedMatchesPrice

LEMMA InitTable == Init => TableInv
  BY DEF Init, NoWork, TableInv, LockInv, AbsentInv, FeedMatchesPrice, Known

LEMMA NextTable == TypeInv /\ TableInv /\ [Next]_vars => TableInv'
<1> SUFFICES ASSUME TypeInv, TableInv, [Next]_vars PROVE TableInv'
  OBVIOUS
<1> USE DEF TableInv
<1>1. ASSUME NEW t \in Tokens, AddToken(t) PROVE TableInv'
  BY <1>1 DEF AddToken, TypeInv, TypeOK, LockInv, AbsentInv, FeedMatchesPrice, Known,
              progress, history
<1>2. ASSUME NEW t \in Tokens, RemoveToken(t) PROVE TableInv'
  BY <1>2 DEF RemoveToken, Locked, TypeInv, TypeOK, LockInv, AbsentInv, FeedMatchesPrice,
              progress, history
<1>3. CASE Start \/ Stop \/ Interval \/ UNCHANGED vars
  BY <1>3 DEF Start, Stop, Interval, vars, tables, progress, history,
              LockInv, AbsentInv, FeedMatchesPrice
<1>4. CASE Crash
  BY <1>4 DEF Crash, NoWork, tables, history, LockInv, AbsentInv, FeedMatchesPrice
<1>5. ASSUME NEW c \in Cycles, TokensRead(c) \/ BatchSettled(c) PROVE TableInv'
  <2>1. AbsentInv' /\ FeedMatchesPrice'
    BY <1>5 DEF TokensRead, BatchSettled, tables, history, AbsentInv, FeedMatchesPrice
  <2>2. UNCHANGED token
    BY <1>5 DEF TokensRead, BatchSettled, tables
  <2>3. CASE Ends(c)
    BY <2>1, <2>2, <2>3 DEF Ends, LockInv
  <2>4. CASE \E S \in SUBSET Tokens : Starts(c, S)
    BY <2>1, <2>2, <2>4 DEF Starts, StartBatch, TypeInv, TypeOK, LockInv
  <2> QED
    BY <1>5, <2>3, <2>4, CycleStep
<1>6. ASSUME NEW c \in Cycles, NEW t \in Tokens, UpdateTokenPrice(c, t) PROVE TableInv'
  <2>1. CASE Quoted(c, t) \/ Upserted(c, t) \/ EventCreated(c, t)
    <3>1. UNCHANGED <<token, price, feed>>
      BY <2>1 DEF Quoted, Upserted, EventCreated, tables, history
    <3>2. PICK s \in Stages : /\ work' = [work EXCEPT ![c][t] = s]
                              /\ s \in {"creating", "committing"} => token[t] = "listed"
      BY <2>1 DEF Quoted, Upserted, EventCreated, Advance, Stages, LockInv
    <3>3. LockInv'
      <4>1. \A d \in Cycles, u \in Tokens :
              work'[d][u] = IF d = c /\ u = t THEN s ELSE work[d][u]
        BY <3>2 DEF TypeInv, TypeOK
      <4> QED
        BY <3>1, <3>2, <4>1 DEF LockInv
    <3>4. AbsentInv' /\ FeedMatchesPrice'
      BY <3>1 DEF AbsentInv, FeedMatchesPrice
    <3> QED
      BY <3>3, <3>4
  <2>2. CASE Committed(c, t)
    <3>1. token[t] = "listed" /\ UNCHANGED token
      BY <2>2 DEF Committed, LockInv
    <3>2. newPrice[c][t] \in Prices
      BY <2>2 DEF Committed, TypeInv, QuoteInv, Writing
    <3>3. newPrice[c][t] # NoPrice
      BY <3>2, PricesAssumption DEF NoPrice
    <3>4. LockInv'
      BY <2>2, <3>1 DEF Committed, Advance, TypeInv, TypeOK, LockInv
    <3>5. CASE UNCHANGED <<price, feed>>
      BY <3>1, <3>4, <3>5 DEF AbsentInv, FeedMatchesPrice
    <3>6. CASE Apply(c, t)
      <4>1. AbsentInv'
        BY <3>1, <3>6 DEF Apply, TypeInv, TypeOK, AbsentInv
      <4>2. FeedMatchesPrice'
        BY <3>1, <3>3, <3>6 DEF Apply, TypeInv, TypeOK, FeedMatchesPrice, Known
      <4> QED
        BY <3>4, <4>1, <4>2
    <3> QED
      BY <2>2, <3>5, <3>6 DEF Committed, history
  <2> QED
    BY <1>6, <2>1, <2>2 DEF UpdateTokenPrice
<1> QED
  BY <1>1, <1>2, <1>3, <1>4, <1>5, <1>6 DEF Next

LEMMA TableInvariant == Spec => []TableInv
  BY TypeInvariant, InitTable, NextTable, PTL DEF Spec

\* The price of a listed token is the one announced last: a transaction writes
\* both or neither, and cascades take the price with the token.
THEOREM PriceAndEventTogether == Spec => []FeedMatchesPrice
<1>1. TableInv => FeedMatchesPrice
  BY DEF TableInv
<1> QED
  BY <1>1, TableInvariant, PTL

\* After a token is removed nothing is announced for it and its price stays gone.
THEOREM RemovalIsFinal == Spec => RemovedStaysSilent
<1>1. TypeInv /\ TableInv /\ TableInv' /\ [Next]_vars =>
        [\A t \in Tokens : token[t] = "removed" => feed'[t] = feed[t] /\ price'[t] = NoPrice]_vars
  <2> SUFFICES ASSUME TypeInv, TableInv, TableInv', Next,
                      NEW t \in Tokens, token[t] = "removed"
               PROVE  feed'[t] = feed[t] /\ price'[t] = NoPrice
    BY DEF vars
  <2>1. token'[t] = "removed"
    BY DEF Next, AddToken, RemoveToken, Start, Stop, Interval, Crash, TokensRead, BatchSettled,
           UpdateTokenPrice, Quoted, Upserted, EventCreated, Committed, tables, TypeInv, TypeOK
  <2>2. price'[t] = NoPrice
    BY <2>1 DEF TableInv, AbsentInv
  <2>3. feed'[t] = feed[t]
    <3>1. ASSUME NEW c \in Cycles, NEW u \in Tokens, Committed(c, u) PROVE feed'[t] = feed[t]
      <4>1. u # t
        BY <3>1 DEF Committed, TableInv, LockInv
      <4> QED
        BY <3>1, <4>1 DEF Committed, Apply, history, TypeInv, TypeOK
    <3>2. ASSUME NEW u \in Tokens, AddToken(u) PROVE feed'[t] = feed[t]
      BY <3>2 DEF AddToken, TypeInv, TypeOK
    <3> QED
      BY <3>1, <3>2 DEF Next, RemoveToken, Start, Stop, Interval, Crash, TokensRead,
                  BatchSettled, UpdateTokenPrice, Quoted, Upserted, EventCreated, history
  <2> QED
    BY <2>2, <2>3
<1> QED
  BY <1>1, TypeInvariant, TableInvariant, PTL DEF Spec, RemovedStaysSilent

----------------------------------------------------------------------------
\* Events chain up.

\* Cycles take turns, and a token waiting for its batch is not in progress.
TurnInv ==
    /\ \A c \in Cycles : cycle[c] # "idle" => isProcessing
    /\ \A c, d \in Cycles : cycle[c] # "idle" /\ cycle[d] # "idle" => c = d
    /\ \A c \in Cycles, t \in Tokens : t \in queue[c] => work[c][t] = "none"

\* The price read when the cycle began is still the one last announced, for every
\* token the cycle is not done with; none of these is new.
SnapshotInv ==
    \A c \in Cycles, t \in Tokens :
        t \in queue[c] \/ work[c][t] # "none" =>
            token[t] # "unknown" /\ oldPrice[c][t] = feed[t]

ChainInv == TurnInv /\ SnapshotInv /\ EventsAreContiguous

LEMMA InitChain == Init => ChainInv
  BY DEF Init, NoCycle, NoQueue, NoWork, ChainInv, TurnInv, SnapshotInv, EventsAreContiguous

LEMMA NextTurn == TypeInv /\ TurnInv /\ [Next]_vars => TurnInv'
<1> SUFFICES ASSUME TypeInv, TurnInv, [Next]_vars PROVE TurnInv'
  OBVIOUS
<1>1. CASE \/ \E t \in Tokens : AddToken(t) \/ RemoveToken(t)
           \/ Stop \/ UNCHANGED vars
  BY <1>1 DEF AddToken, RemoveToken, Stop, vars, service, progress, TurnInv
<1>2. CASE Crash
  BY <1>2 DEF Crash, NoCycle, NoQueue, NoWork, TurnInv
<1>3. CASE Start \/ Interval
  <2>1. UNCHANGED <<queue, work>>
    BY <1>3 DEF Start, Interval
  <2>2. CASE UNCHANGED <<isProcessing, cycle>>
    BY <2>1, <2>2 DEF TurnInv
  <2>3. CASE \E c \in Cycles : BeginCycle(c)
    BY <2>1, <2>3 DEF BeginCycle, TypeInv, TypeOK, TurnInv
  <2> QED
    BY <1>3, <2>2, <2>3 DEF Start, Interval
<1>4. ASSUME NEW c \in Cycles, TokensRead(c) \/ BatchSettled(c) PROVE TurnInv'
  <2>1. cycle[c] # "idle"
    BY <1>4 DEF TokensRead, BatchSettled
  <2>2. CASE Ends(c)
    BY <2>1, <2>2 DEF Ends, EndCycle, TypeInv, TypeOK, TurnInv
  <2>3. CASE \E S \in SUBSET Tokens : Starts(c, S)
    <3>1. UNCHANGED isProcessing
      BY <1>4, <2>3 DEF TokensRead, BatchSettled, Starts, EndCycle, TypeInv, TypeOK
    <3>2. \A d \in Cycles : cycle'[d] # "idle" => cycle[d] # "idle"
      BY <2>1, <2>3 DEF Starts, TypeInv, TypeOK
    <3>3. \A d \in Cycles, t \in Tokens : t \in queue'[d] => work'[d][t] = "none"
      BY <2>3 DEF Starts, StartBatch, TypeInv, TypeOK, TurnInv
    <3> QED
      BY <3>1, <3>2, <3>3 DEF TurnInv
  <2> QED
    BY <1>4, <2>2, <2>3, CycleStep
<1>5. ASSUME NEW c \in Cycles, NEW t \in Tokens, UpdateTokenPrice(c, t) PROVE TurnInv'
  <2>1. UNCHANGED <<isProcessing, cycle, queue>> /\ work[c][t] # "none"
    BY <1>5 DEF UpdateTokenPrice, Quoted, Upserted, EventCreated, Committed, Advance, service
  <2>2. \E s : work' = [work EXCEPT ![c][t] = s]
    BY <1>5 DEF UpdateTokenPrice, Quoted, Upserted, EventCreated, Committed, Advance
  <2>3. t \notin queue[c]
    BY <2>1 DEF TurnInv
  <2> QED
    BY <2>1, <2>2, <2>3 DEF TypeInv, TypeOK, TurnInv
<1> QED
  BY <1>1, <1>2, <1>3, <1>4, <1>5 DEF Next

\* A cycle that is under way is the only one that has tokens to do.
LEMMA Alone ==
  ASSUME TypeInv, TurnInv, NEW c \in Cycles, cycle[c] # "idle",
         NEW d \in Cycles, NEW t \in Tokens, t \in queue[d] \/ work[d][t] # "none"
  PROVE  d = c
  BY DEF TypeInv, RestInv, TurnInv

LEMMA NextChain == TypeInv /\ TableInv /\ ChainInv /\ [Next]_vars => ChainInv'
<1> SUFFICES ASSUME TypeInv, TableInv, ChainInv, [Next]_vars
             PROVE  SnapshotInv' /\ EventsAreContiguous'
  BY NextTurn DEF ChainInv
<1> USE DEF ChainInv
<1>1. ASSUME NEW t \in Tokens, AddToken(t) \/ RemoveToken(t) PROVE SnapshotInv' /\ EventsAreContiguous'
  <2>1. UNCHANGED <<queue, work, oldPrice, contiguous>>
    BY <1>1 DEF AddToken, RemoveToken, progress, history
  <2>2. \A u \in Tokens : token[u] # "unknown" => token'[u] # "unknown" /\ feed'[u] = feed[u]
    BY <1>1 DEF AddToken, RemoveToken, history, TypeInv, TypeOK
  <2> QED
    BY <2>1, <2>2 DEF SnapshotInv, EventsAreContiguous
<1>2. CASE Start \/ Stop \/ Interval \/ UNCHANGED vars
  BY <1>2 DEF Start, Stop, Interval, vars, tables, progress, history, SnapshotInv, EventsAreContiguous
<1>3. CASE Crash
  BY <1>3 DEF Crash, NoQueue, NoWork, history, SnapshotInv, EventsAreContiguous
<1>4. ASSUME NEW c \in Cycles, TokensRead(c) \/ BatchSettled(c)
      PROVE  SnapshotInv' /\ EventsAreContiguous'
  <2>1. UNCHANGED <<token, feed, contiguous>> /\ cycle[c] # "idle"
    BY <1>4 DEF TokensRead, BatchSettled, tables, history
  <2>2. CASE Ends(c)
    BY <2>1, <2>2, Alone DEF Ends, SnapshotInv, EventsAreContiguous
  <2>3. CASE TokensRead(c) /\ ~Ends(c)
    <3>1. PICK S \in SUBSET Tokens : S = {t \in Tokens : token[t] = "listed"} /\ StartBatch(c, S)
      BY <2>3 DEF TokensRead, Ends, TypeInv, RestInv
    <3>2. oldPrice' = [oldPrice EXCEPT ![c] = [t \in Tokens |-> Known(price[t])]]
      BY <2>3 DEF TokensRead, Ends, TypeInv, RestInv
    <3>3. \A d \in Cycles, t \in Tokens :
            t \in queue'[d] \/ work'[d][t] # "none" => d = c /\ token[t] = "listed"
      BY <2>1, <3>1, Alone DEF StartBatch, First, TypeInv, TypeOK
    <3>4. \A t \in Tokens : token[t] = "listed" => oldPrice'[c][t] = feed[t]
      BY <3>2 DEF TypeInv, TypeOK, TableInv, FeedMatchesPrice
    <3> QED
      BY <2>1, <3>3, <3>4 DEF SnapshotInv, EventsAreContiguous
  <2>4. CASE BatchSettled(c) /\ ~Ends(c)
    <3>1. StartBatch(c, queue[c]) /\ UNCHANGED oldPrice
      BY <2>4 DEF BatchSettled, Ends
    <3>2. \A d \in Cycles, t \in Tokens :
            t \in queue'[d] \/ work'[d][t] # "none" => t \in queue[d] \/ work[d][t] # "none"
      BY <3>1 DEF StartBatch, First, TypeInv, TypeOK
    <3> QED
      BY <2>1, <3>1, <3>2 DEF SnapshotInv, EventsAreContiguous
  <2> QED
    BY <1>4, <2>2, <2>3, <2>4
<1>5. ASSUME NEW c \in Cycles, NEW t \in Tokens, UpdateTokenPrice(c, t)
      PROVE  SnapshotInv' /\ EventsAreContiguous'
  <2>1. /\ UNCHANGED <<token, queue, oldPrice>>
        /\ work[c][t] # "none"
        /\ \E s : work' = [work EXCEPT ![c][t] = s]
    BY <1>5 DEF UpdateTokenPrice, Quoted, Upserted, EventCreated, Committed, Advance, tables
  <2>2. \A d \in Cycles, u \in Tokens :
          u \in queue'[d] \/ work'[d][u] # "none" => u \in queue[d] \/ work[d][u] # "none"
    BY <2>1 DEF TypeInv, TypeOK
  <2>3. CASE UNCHANGED <<feed, contiguous>>
    BY <2>1, <2>2, <2>3 DEF SnapshotInv, EventsAreContiguous
  <2>4. CASE Committed(c, t) /\ Apply(c, t)
    <3>1. oldPrice[c][t] = feed[t]
      BY <2>1 DEF SnapshotInv
    <3>2. EventsAreContiguous'
      BY <2>4, <3>1 DEF Apply, TypeInv, TypeOK, EventsAreContiguous
    <3>3. cycle[c] # "idle"
      BY <2>1 DEF TypeInv, RestInv
    <3>4. work'[c][t] = "none" /\ t \notin queue'[c]
      BY <2>1, <2>4 DEF Committed, Advance, TypeInv, TypeOK, TurnInv
    <3>5. \A d \in Cycles, u \in Tokens :
            u \in queue'[d] \/ work'[d][u] # "none" => d = c /\ u # t
      BY <2>2, <3>3, <3>4, Alone
    <3>6. \A u \in Tokens : u # t => feed'[u] = feed[u]
      BY <2>4 DEF Apply, TypeInv, TypeOK
    <3> QED
      BY <2>1, <2>2, <3>2, <3>5, <3>6 DEF SnapshotInv
  <2> QED
    BY <1>5, <2>3, <2>4 DEF UpdateTokenPrice, Quoted, Upserted, EventCreated, Committed, history
<1> QED
  BY <1>1, <1>2, <1>3, <1>4, <1>5 DEF Next

LEMMA ChainInvariant == Spec => []ChainInv
  BY TypeInvariant, TableInvariant, InitChain, NextChain, PTL DEF Spec

\* The events of a token form a chain: although prices are read once per cycle,
\* each event announces a change from the price announced before it.
THEOREM ChainIsUnbroken == Spec => []EventsAreContiguous
<1>1. ChainInv => EventsAreContiguous
  BY DEF ChainInv
<1> QED
  BY <1>1, ChainInvariant, PTL

----------------------------------------------------------------------------
\* The flag of the cycle.

LEMMA NextFlag == TypeInv /\ TurnInv /\ FlagIsHeld /\ [Next]_vars => FlagIsHeld'
<1> SUFFICES ASSUME TypeInv, TurnInv, FlagIsHeld, [Next]_vars PROVE FlagIsHeld'
  OBVIOUS
<1> USE DEF TypeInv, TypeOK, FlagIsHeld
<1>1. CASE \/ \E t \in Tokens : AddToken(t) \/ RemoveToken(t)
           \/ \E c \in Cycles, t \in Tokens : UpdateTokenPrice(c, t)
           \/ Stop \/ UNCHANGED vars
  <2>1. UNCHANGED <<isProcessing, cycle>>
    BY <1>1 DEF AddToken, RemoveToken, UpdateTokenPrice, Quoted, Upserted, EventCreated,
                Committed, Advance, Stop, vars, service, progress
  <2> QED
    BY <2>1
<1>2. CASE Crash
  BY <1>2 DEF Crash, NoCycle
<1>3. CASE Start \/ Interval
  BY <1>3 DEF Start, Interval, BeginCycle
<1>4. ASSUME NEW c \in Cycles, TokensRead(c) \/ BatchSettled(c) PROVE FlagIsHeld'
  <2>1. CASE EndCycle(c)
    BY <1>4, <2>1 DEF EndCycle, TurnInv, TokensRead, BatchSettled
  <2>2. CASE cycle' = [cycle EXCEPT ![c] = "running"] /\ UNCHANGED isProcessing
    BY <1>4, <2>2 DEF TokensRead, BatchSettled
  <2>3. CASE UNCHANGED <<cycle, isProcessing>>
    BY <2>3
  <2> QED
    BY <1>4, <2>1, <2>2, <2>3 DEF TokensRead, BatchSettled
<1> QED
  BY <1>1, <1>2, <1>3, <1>4 DEF Next

\* The flag is set exactly while a cycle is under way.
THEOREM FlagFollowsCycle == Spec => []FlagIsHeld
<1>1. Init => FlagIsHeld
  BY DEF Init, FlagIsHeld, NoCycle
<1>2. ChainInv => TurnInv
  BY DEF ChainInv
<1> QED
  BY <1>1, <1>2, TypeInvariant, ChainInvariant, NextFlag, PTL DEF Spec

----------------------------------------------------------------------------
\* The loop over the batches of a cycle.

\* The tokens before one of them are finitely many.
LEMMA BeforeIsFinite ==
  ASSUME NEW S \in SUBSET Tokens, NEW t \in S
  PROVE  IsFiniteSet({u \in S : u < t})
<1> DEFINE Before == {u \in S : u < t}
<1>1. t \in Nat
  BY TokensAssumption
<1>2. \A u \in Before : u \in Nat /\ u <= t
  BY <1>1, TokensAssumption
<1>3. Before \in SUBSET Nat
  BY <1>2
<1> QED
  BY <1>1, <1>2, <1>3, FS_BoundedSetOfNaturals

\* A slice of the tokens leaves only later ones behind ...
LEMMA FirstComesFirst ==
  ASSUME NEW S \in SUBSET Tokens, NEW n \in Nat, NEW t \in First(S, n),
         NEW u \in S \ First(S, n)
  PROVE  t < u
<1> DEFINE Before(v) == {w \in S : w < v}
<1>1. t \in S /\ t \in Nat /\ u \in Nat /\ t # u
  BY TokensAssumption DEF First
<1>2. SUFFICES ASSUME u < t PROVE FALSE
  BY <1>1
<1>3. IsFiniteSet(Before(t))
  BY <1>1, BeforeIsFinite
<1>4. Before(u) \in SUBSET Before(t)
  <2>1. \A w \in S : w \in Nat
    BY TokensAssumption
  <2>2. \A w \in S : w < u => w < t
    BY <1>1, <1>2, <2>1
  <2> QED
    BY <2>2
<1>5. /\ Cardinality(Before(u)) \in Nat /\ Cardinality(Before(t)) \in Nat
      /\ Cardinality(Before(u)) <= Cardinality(Before(t))
  BY <1>3, <1>4, FS_Subset, FS_CardinalityType
<1>6. Cardinality(Before(t)) < n /\ ~(Cardinality(Before(u)) < n)
  BY DEF First
<1> QED
  BY <1>5, <1>6

\* ... and is not empty, because one of them is the first.
LEMMA FirstIsSome ==
  ASSUME NEW S \in SUBSET Tokens, S # {}, NEW n \in Nat \ {0}
  PROVE  First(S, n) # {}
<1>1. S \subseteq Nat
  BY TokensAssumption
<1>2. PICK t \in S : \A u \in S : ~(<<u, t>> \in OpToRel(<, Nat))
  BY <1>1, NatLessThanWellFounded, WFMin
<1>3. \A u \in S : ~(u < t)
  BY <1>1, <1>2 DEF OpToRel
<1>4. {u \in S : u < t} = {}
  BY <1>3
<1>5. Cardinality({u \in S : u < t}) < n
  BY <1>4, FS_EmptySet
<1> QED
  BY <1>5 DEF First

LEMMA NextPriority == TypeInv /\ PriorityIsKept /\ [Next]_vars => PriorityIsKept'
<1> SUFFICES ASSUME TypeInv, PriorityIsKept, [Next]_vars PROVE PriorityIsKept'
  OBVIOUS
<1> USE DEF TypeInv, TypeOK, PriorityIsKept
<1>1. CASE \/ \E t \in Tokens : AddToken(t) \/ RemoveToken(t)
           \/ Start \/ Stop \/ Interval \/ UNCHANGED vars
  BY <1>1 DEF AddToken, RemoveToken, Start, Stop, Interval, vars, progress
<1>2. CASE Crash
  BY <1>2 DEF Crash, NoWork
<1>3. ASSUME NEW c \in Cycles, TokensRead(c) \/ BatchSettled(c) PROVE PriorityIsKept'
  <2>1. CASE Ends(c)
    BY <2>1 DEF Ends
  <2>2. ASSUME NEW S \in SUBSET Tokens, Starts(c, S) PROVE PriorityIsKept'
    <3>1. /\ queue'[c] = S \ First(S, BatchSize)
          /\ \A t \in Tokens : work'[c][t] # "none" => t \in First(S, BatchSize)
          /\ \A d \in Cycles \ {c} : queue'[d] = queue[d] /\ work'[d] = work[d]
      BY <2>2 DEF Starts, StartBatch
    <3> QED
      BY <3>1, FirstComesFirst, BatchSizeAssumption
  <2> QED
    BY <1>3, <2>1, <2>2, CycleStep
<1>4. ASSUME NEW c \in Cycles, NEW t \in Tokens, UpdateTokenPrice(c, t) PROVE PriorityIsKept'
  <2>1. /\ work[c][t] # "none" /\ UNCHANGED queue
        /\ \E s : work' = [work EXCEPT ![c][t] = s]
    BY <1>4 DEF UpdateTokenPrice, Quoted, Upserted, EventCreated, Committed, Advance
  <2>2. \A d \in Cycles, u \in Tokens : work'[d][u] # "none" => work[d][u] # "none"
    BY <2>1
  <2> QED
    BY <2>1, <2>2
<1> QED
  BY <1>1, <1>2, <1>3, <1>4 DEF Next

\* Tokens are updated by priority, whatever joins or leaves during the cycle.
THEOREM BatchesGoByPriority == Spec => []PriorityIsKept
<1>1. Init => PriorityIsKept
  BY DEF Init, NoWork, PriorityIsKept
<1> QED
  BY <1>1, TypeInvariant, NextPriority, PTL DEF Spec

\* The loop is never idle: each round takes tokens from the queue, and a cycle
\* without any left is over.  (With a batch size of 0 it would turn for ever.)
THEOREM EveryRoundAdvances ==
  Spec => [][\A c \in Cycles : BatchSettled(c) =>
               \/ queue'[c] \subseteq queue[c] /\ queue'[c] # queue[c]
               \/ queue[c] = {} /\ cycle'[c] = "idle"]_vars
<1>1. ASSUME TypeInv, NEW c \in Cycles, BatchSettled(c)
      PROVE  \/ queue'[c] \subseteq queue[c] /\ queue'[c] # queue[c]
             \/ queue[c] = {} /\ cycle'[c] = "idle"
  <2>1. CASE queue[c] # {}
    <3>1. queue[c] \in SUBSET Tokens /\ queue'[c] = queue[c] \ First(queue[c], BatchSize)
      BY <1>1, <2>1 DEF BatchSettled, StartBatch, TypeInv, TypeOK
    <3>2. First(queue[c], BatchSize) # {} /\ First(queue[c], BatchSize) \subseteq queue[c]
      BY <2>1, <3>1, FirstIsSome, BatchSizeAssumption DEF First
    <3> QED
      BY <3>1, <3>2
  <2>2. CASE queue[c] = {}
    BY <1>1, <2>2 DEF BatchSettled, EndCycle, TypeInv, TypeOK
  <2> QED
    BY <2>1, <2>2
<1>2. TypeInv => [\A c \in Cycles : BatchSettled(c) =>
                    \/ queue'[c] \subseteq queue[c] /\ queue'[c] # queue[c]
                    \/ queue[c] = {} /\ cycle'[c] = "idle"]_vars
  BY <1>1
<1> QED
  BY <1>2, TypeInvariant, PTL

----------------------------------------------------------------------------
\* The refinement: the cycle implements PriceFeed.

\* What is on its way to the tables is worth announcing, compared with what the
\* cycle has read; SnapshotInv carries that over to what was announced last.
WorthInv ==
    \A c \in Cycles, t \in Tokens :
        work[c][t] \in Writing => <<oldPrice[c][t], newPrice[c][t]>> \in Announceable

LEMMA InitWorth == Init => WorthInv
  BY DEF Init, NoWork, WorthInv, Writing

LEMMA NextWorth == TypeInv /\ WorthInv /\ [Next]_vars => WorthInv'
<1> SUFFICES ASSUME TypeInv, WorthInv, [Next]_vars PROVE WorthInv'
  OBVIOUS
<1>1. CASE \/ \E t \in Tokens : AddToken(t) \/ RemoveToken(t)
           \/ Start \/ Stop \/ Interval \/ UNCHANGED vars
  <2>1. UNCHANGED <<work, oldPrice, newPrice>>
    BY <1>1 DEF AddToken, RemoveToken, Start, Stop, Interval, vars, progress
  <2> QED
    BY <2>1 DEF WorthInv
<1>2. CASE Crash
  BY <1>2 DEF Crash, NoWork, WorthInv, Writing
<1>3. ASSUME NEW c \in Cycles, TokensRead(c) \/ BatchSettled(c) PROVE WorthInv'
  <2>1. \A d \in Cycles \ {c} : oldPrice'[d] = oldPrice[d] /\ newPrice'[d] = newPrice[d]
    BY <1>3 DEF TokensRead, BatchSettled, EndCycle, Forget, TypeInv, TypeOK
  <2>2. /\ \A t \in Tokens : work'[c][t] \notin Writing
        /\ \A d \in Cycles \ {c} : work'[d] = work[d]
    <3>1. CASE \E S \in SUBSET Tokens : Starts(c, S)
      BY <3>1 DEF Starts, StartBatch, TypeInv, TypeOK, Writing
    <3>2. CASE Ends(c)
      BY <3>2 DEF Ends, Writing
    <3> QED
      BY <1>3, <3>1, <3>2, CycleStep
  <2> QED
    BY <2>1, <2>2 DEF WorthInv
<1>4. ASSUME NEW c \in Cycles, NEW t \in Tokens, UpdateTokenPrice(c, t) PROVE WorthInv'
  <2>1. UNCHANGED oldPrice /\ \E s \in Stages : work' = [work EXCEPT ![c][t] = s]
    BY <1>4 DEF UpdateTokenPrice, Quoted, Upserted, EventCreated, Committed, Advance, Stages
  <2>2. CASE Quoted(c, t)
    <3>1. CASE UNCHANGED newPrice /\ work' = [work EXCEPT ![c][t] = "none"]
      BY <2>1, <3>1 DEF TypeInv, TypeOK, WorthInv, Writing
    <3>2. CASE \E p \in Prices : /\ <<oldPrice[c][t], p>> \in Announceable
                                 /\ newPrice' = [newPrice EXCEPT ![c][t] = p]
      <4>0. PICK p \in Prices : /\ <<oldPrice[c][t], p>> \in Announceable
                               /\ newPrice' = [newPrice EXCEPT ![c][t] = p]
        BY <3>2
      <4>1. newPrice'[c][t] = p
        BY <4>0 DEF TypeInv, TypeOK
      <4>2. \A d \in Cycles, u \in Tokens :
              d # c \/ u # t => work'[d][u] = work[d][u] /\ newPrice'[d][u] = newPrice[d][u]
        BY <2>1, <4>0 DEF TypeInv, TypeOK
      <4> QED
        BY <2>1, <4>0, <4>1, <4>2 DEF WorthInv
    <3> QED
      BY <2>2, <3>1, <3>2 DEF Quoted, Advance, getRandomPriceForToken, Announceable, TypeInv, TypeOK
  <2>3. CASE ~Quoted(c, t)
    <3>1. UNCHANGED newPrice /\ work[c][t] \in Writing
      BY <1>4, <2>3 DEF UpdateTokenPrice, Upserted, EventCreated, Committed, Writing
    <3>2. \A d \in Cycles, u \in Tokens : work'[d][u] \in Writing => work[d][u] \in Writing
      BY <2>1, <3>1, WritingAlready DEF TypeInv, TypeOK
    <3> QED
      BY <2>1, <3>1, <3>2 DEF WorthInv
  <2> QED
    BY <2>2, <2>3
<1> QED
  BY <1>1, <1>2, <1>3, <1>4 DEF Next

LEMMA WorthInvariant == Spec => []WorthInv
  BY TypeInvariant, InitWorth, NextWorth, PTL DEF Spec

\* A commit is a change of the feed, because SnapshotInv makes the price the cycle
\* has read the one announced last, and LockInv keeps the token listed.
LEMMA CommitIsChange ==
  ASSUME TypeInv, TableInv, ChainInv, WorthInv,
         NEW c \in Cycles, NEW t \in Tokens, Committed(c, t), Apply(c, t)
  PROVE  Feed!Change(t)
<1>1. token[t] = "listed" /\ UNCHANGED token
  BY DEF Committed, TableInv, LockInv
<1>2. oldPrice[c][t] = feed[t]
  BY DEF Committed, ChainInv, SnapshotInv
<1>3. newPrice[c][t] \in Prices /\ <<oldPrice[c][t], newPrice[c][t]>> \in Announceable
  BY DEF Committed, TypeInv, QuoteInv, WorthInv, Writing
<1> QED
  BY <1>1, <1>2, <1>3 DEF Apply, Feed!Change

\* A token that is new has no price and no feed, so that listing it without a
\* price changes neither.
LEMMA AddIsList ==
  ASSUME TypeInv, TableInv, NEW t \in Tokens, AddToken(t)
  PROVE  Feed!List(t)
<1>1. PICK p \in Prices \cup {NoPrice} : /\ price' = [price EXCEPT ![t] = p]
                                         /\ feed' = [feed EXCEPT ![t] = Known(p)]
  BY DEF AddToken
<1>2. token[t] = "unknown" /\ token' = [token EXCEPT ![t] = "listed"]
  BY DEF AddToken
<1>3. CASE p = NoPrice
  <2>1. price[t] = NoPrice /\ feed[t] = 0
    BY <1>2 DEF TableInv, AbsentInv
  <2>2. UNCHANGED <<price, feed>>
    BY <1>1, <1>3, <2>1 DEF Known, TypeInv, TypeOK
  <2> QED
    BY <1>2, <2>2 DEF Feed!List
<1>4. CASE p # NoPrice
  <2>1. p \in Prices /\ Known(p) = p
    BY <1>4 DEF Known
  <2> QED
    BY <1>1, <1>2, <2>1 DEF Feed!List
<1> QED
  BY <1>3, <1>4

LEMMA StepKeepsFeed ==
  ASSUME TypeInv, TableInv, ChainInv, WorthInv, [Next]_vars
  PROVE  [Feed!Next]_<<token, price, feed>>
<1>1. ASSUME NEW t \in Tokens, AddToken(t) PROVE Feed!Next
  BY <1>1, AddIsList DEF Feed!Next
<1>2. ASSUME NEW t \in Tokens, RemoveToken(t) PROVE Feed!Next
  BY <1>2 DEF RemoveToken, history, Feed!Next, Feed!Delist
<1>3. ASSUME NEW c \in Cycles, NEW t \in Tokens, UpdateTokenPrice(c, t)
      PROVE  Feed!Next \/ UNCHANGED <<token, price, feed>>
  <2>1. CASE Committed(c, t) /\ Apply(c, t)
    BY <2>1, CommitIsChange DEF Feed!Next
  <2>2. CASE ~(Committed(c, t) /\ Apply(c, t))
    BY <1>3, <2>2 DEF UpdateTokenPrice, Quoted, Upserted, EventCreated, Committed, tables, history
  <2> QED
    BY <2>1, <2>2
<1>4. CASE \/ \E c \in Cycles : TokensRead(c) \/ BatchSettled(c)
           \/ Start \/ Stop \/ Interval \/ Crash \/ UNCHANGED vars
  BY <1>4 DEF TokensRead, BatchSettled, Start, Stop, Interval, Crash, vars, tables, history
<1> QED
  BY <1>1, <1>2, <1>3, <1>4 DEF Next

\* The price service, with its cycles, batches, transactions and faults,
\* implements the feed.
THEOREM CycleKeepsFeed == Spec => KeepsFeed
<1>1. Init => Feed!Init
  BY DEF Init, Feed!Init
<1> QED
  BY <1>1, TypeInvariant, TableInvariant, ChainInvariant, WorthInvariant, StepKeepsFeed, PTL
     DEF Spec, KeepsFeed, Feed!Spec

============================================================================
