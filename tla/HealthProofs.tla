---------------------------- MODULE HealthProofs ----------------------------
(***************************************************************************)
(* Proofs about Health: how far the report on the outbox may be off, for    *)
(* every batch size, every limit and every environment.                     *)
(***************************************************************************)
EXTENDS Health, OutboxProcessorProofs, FiniteSetTheorems

----------------------------------------------------------------------------
\* A batch has at most batchSize events in hand.

\* A query with a limit returns no more rows than that.
LEMMA OldestIsBounded ==
  ASSUME NEW S \in SUBSET Nat, NEW n \in Nat
  PROVE  IsFiniteSet(Oldest(S, n)) /\ Cardinality(Oldest(S, n)) <= n
<1> DEFINE Before(e) == {f \in S : f < e}
           rank == [e \in Oldest(S, n) |-> Cardinality(Before(e))]
<1>1. ASSUME NEW e \in S PROVE IsFiniteSet(Before(e)) /\ Cardinality(Before(e)) \in Nat
  <2>1. e \in Nat /\ S \subseteq Nat
    OBVIOUS
  <2>2. \A h \in Before(e) : h \in Nat /\ h <= e
    BY <2>1
  <2>3. Before(e) \in SUBSET Nat
    BY <2>2
  <2> QED
    BY <2>1, <2>2, <2>3, FS_BoundedSetOfNaturals, FS_CardinalityType
<1>2. rank \in [Oldest(S, n) -> 0 .. n - 1]
  <2>1. ASSUME NEW e \in Oldest(S, n) PROVE Cardinality(Before(e)) \in 0 .. n - 1
    BY <1>1 DEF Oldest
  <2> QED
    BY <2>1
<1>3. ASSUME NEW e \in Oldest(S, n), NEW f \in Oldest(S, n), e < f PROVE rank[e] < rank[f]
  <2>1. e \in S /\ f \in S /\ e \in Nat /\ f \in Nat /\ \A h \in S : h < e => h < f
    BY <1>3 DEF Oldest
  <2>2. Before(e) \in SUBSET Before(f)
    BY <2>1
  <2>3. e \in Before(f) /\ e \notin Before(e)
    BY <1>3, <2>1
  <2>4. /\ Cardinality(Before(e)) <= Cardinality(Before(f))
        /\ Cardinality(Before(e)) # Cardinality(Before(f))
    BY <1>1, <2>1, <2>2, <2>3, FS_Subset
  <2> QED
    BY <1>1, <2>1, <2>4
<1>4. rank \in Injection(Oldest(S, n), 0 .. n - 1)
  <2>1. ASSUME NEW e \in Oldest(S, n), NEW f \in Oldest(S, n), rank[e] = rank[f] PROVE e = f
    <3>1. e \in Nat /\ f \in Nat /\ rank[e] \in Nat /\ rank[f] \in Nat
      BY <1>2 DEF Oldest
    <3>2. ~(e < f) /\ ~(f < e)
      BY <1>3, <2>1, <3>1
    <3> QED
      BY <3>1, <3>2
  <2> QED
    BY <1>2, <2>1 DEF Injection, IsInjective
<1>5. IsFiniteSet(0 .. n - 1) /\ Cardinality(0 .. n - 1) = n
  BY FS_Interval
<1> QED
  BY <1>4, <1>5, FS_Injection

Hand(b) == {e \in Events : work[b][e] # "none"}

HandsInv == \A b \in Batches : IsFiniteSet(Hand(b)) /\ Cardinality(Hand(b)) <= BatchSize

\* A hand only shrinks, except when a batch takes up what its query returned.
LEMMA HandStep ==
  ASSUME TypeOK, BatchInv, [Next]_vars, NEW c \in Batches
  PROVE  Hand(c)' \in SUBSET Hand(c) \/ Hand(c)' \in SUBSET getPendingEvents(BatchSize)
<1> USE DEF TypeOK, ProcessTypeOK
<1>1. ASSUME UNCHANGED work PROVE Hand(c)' \in SUBSET Hand(c)
  BY <1>1 DEF Hand
<1>2. ASSUME NEW b \in Batches, ExecutePendingEvents(b)
      PROVE  Hand(c)' \in SUBSET Hand(c) \/ Hand(c)' \in SUBSET getPendingEvents(BatchSize)
  <2>1. CASE UNCHANGED work
    BY <1>1, <2>1
  <2>2. CASE work' = [work EXCEPT ![b] =
                        [e \in Events |-> IF e \in getPendingEvents(BatchSize)
                                          THEN "marking" ELSE "none"]]
    <3>1. CASE c = b
      BY <2>2, <3>1 DEF Hand
    <3>2. CASE c # b
      BY <2>2, <3>2 DEF Hand
    <3> QED
      BY <3>1, <3>2
  <2> QED
    BY <1>2, <2>1, <2>2 DEF ExecutePendingEvents
<1>3. ASSUME NEW b \in Batches, NEW e \in Events, ProcessEvent(b, e)
      PROVE  Hand(c)' \in SUBSET Hand(c)
  BY <1>3, WorkerStep DEF Hand
<1>4. CASE BootFailed \/ Crash \/ Exit
  <2>1. work' = NoWork
    BY <1>4, EndStep DEF Vanish
  <2>2. \A e \in Events : work'[c][e] = "none"
    BY <2>1 DEF NoWork
  <2> QED
    BY <2>2 DEF Hand
<1> QED
  BY <1>1, <1>2, <1>3, <1>4, StepCases, FetchStep, ResetStep
     DEF ProcessPendingEvents, EndBatch, CreatePriceUpdateEvent, processVars

LEMMA InitHands == Init => HandsInv
<1> SUFFICES ASSUME Init, NEW b \in Batches PROVE Hand(b) = {}
  BY FS_EmptySet, BatchSizeAssumption DEF HandsInv
<1> QED
  BY DEF Init, NoWork, Hand

LEMMA NextHands == TypeOK /\ BatchInv /\ HandsInv /\ [Next]_vars => HandsInv'
<1> SUFFICES ASSUME TypeOK, BatchInv, HandsInv, [Next]_vars, NEW c \in Batches
             PROVE  IsFiniteSet(Hand(c)') /\ Cardinality(Hand(c)') <= BatchSize
  BY DEF HandsInv
<1>1. ASSUME NEW S, IsFiniteSet(S), Cardinality(S) <= BatchSize, Hand(c)' \in SUBSET S
      PROVE  IsFiniteSet(Hand(c)') /\ Cardinality(Hand(c)') <= BatchSize
  <2>1. /\ IsFiniteSet(Hand(c)') /\ Cardinality(Hand(c)') <= Cardinality(S)
        /\ Cardinality(Hand(c)') \in Nat /\ Cardinality(S) \in Nat
    BY <1>1, FS_Subset, FS_CardinalityType
  <2> QED
    BY <1>1, <2>1, BatchSizeAssumption
<1>2. /\ IsFiniteSet(getPendingEvents(BatchSize))
      /\ Cardinality(getPendingEvents(BatchSize)) <= BatchSize
  <2>1. RowsWith("PENDING") \in SUBSET Nat /\ BatchSize \in Nat
    BY EventsAssumption, BatchSizeAssumption DEF RowsWith
  <2> QED
    BY <2>1, OldestIsBounded DEF getPendingEvents
<1>3. IsFiniteSet(Hand(c)) /\ Cardinality(Hand(c)) <= BatchSize
  BY DEF HandsInv
<1> QED
  BY <1>1, <1>2, <1>3, HandStep

----------------------------------------------------------------------------
\* The rows that are PROCESSING, hence the events that may move while counted.

LEMMA ProcessingIsBounded ==
  ASSUME IsFiniteSet(Events), TypeOK, BatchInv, StrandedOnlyByLoss, HandsInv
  PROVE  Cardinality(RowsWith("PROCESSING")) <= Slack
<1>1. /\ IsFiniteSet(stranded) /\ Cardinality(stranded) \in Nat /\ BatchSize \in Nat
      /\ RowsWith("PROCESSING") \in SUBSET Events
  BY FS_Subset, FS_CardinalityType, BatchSizeAssumption DEF TypeOK, HistoryTypeOK, RowsWith
<1>2. CASE \A b \in Batches : batch[b] # "running"
  <2>1. \A e \in Events : ~InHand(e)
    BY <1>2 DEF BatchInv, InHand
  <2>2. RowsWith("PROCESSING") \in SUBSET stranded
    BY <2>1 DEF RowsWith, StrandedOnlyByLoss
  <2>3. /\ Cardinality(RowsWith("PROCESSING")) <= Cardinality(stranded)
        /\ Cardinality(RowsWith("PROCESSING")) \in Nat
    BY <1>1, <2>2, FS_Subset, FS_CardinalityType
  <2> QED
    BY <1>1, <2>3 DEF Slack
<1>3. ASSUME NEW b \in Batches, batch[b] = "running"
      PROVE  Cardinality(RowsWith("PROCESSING")) <= Slack
  <2>1. \A e \in Events : InHand(e) => e \in Hand(b)
    BY <1>3 DEF BatchInv, InHand, Hand
  <2>2. RowsWith("PROCESSING") \in SUBSET (Hand(b) \cup stranded)
    BY <2>1 DEF RowsWith, StrandedOnlyByLoss
  <2>3. /\ IsFiniteSet(Hand(b)) /\ Cardinality(Hand(b)) \in Nat
        /\ Cardinality(Hand(b)) <= BatchSize
    BY FS_CardinalityType DEF HandsInv
  <2>4. Cardinality(Hand(b) \cap stranded) \in Nat
    BY <2>3, FS_Intersection, FS_CardinalityType
  <2>5. /\ IsFiniteSet(Hand(b) \cup stranded)
        /\ Cardinality(Hand(b) \cup stranded) <= BatchSize + Cardinality(stranded)
        /\ Cardinality(Hand(b) \cup stranded) \in Nat
    <3>1. /\ IsFiniteSet(Hand(b) \cup stranded)
          /\ Cardinality(Hand(b) \cup stranded) =
               Cardinality(Hand(b)) + Cardinality(stranded) - Cardinality(Hand(b) \cap stranded)
      BY <1>1, <2>3, FS_Union
    <3>2. Cardinality(Hand(b) \cup stranded) \in Nat
      BY <3>1, FS_CardinalityType
    <3> QED
      BY <1>1, <2>3, <2>4, <3>1, <3>2
  <2>6. /\ Cardinality(RowsWith("PROCESSING")) <= Cardinality(Hand(b) \cup stranded)
        /\ Cardinality(RowsWith("PROCESSING")) \in Nat
    BY <2>2, <2>5, FS_Subset, FS_CardinalityType
  <2> QED
    BY <1>1, <2>5, <2>6 DEF Slack
<1> QED
  BY <1>2, <1>3

\* A row that is stranded stays on the list.
LEMMA StrandedGrows ==
  ASSUME [Next]_vars
  PROVE  stranded \subseteq stranded'
<1>1. CASE \E b \in Batches, e \in Events : ProcessEvent(b, e)
  BY <1>1 DEF ProcessEvent, Marked, Reconnected, Sent, Published, Failed, history
<1>2. CASE BootFailed \/ Crash \/ Exit
  BY <1>2 DEF BootFailed, Crash, Exit, Die
<1>3. CASE UNCHANGED history
  BY <1>3 DEF history
<1> QED
  BY <1>1, <1>2, <1>3, StepCases, BatchStep
     DEF CreatePriceUpdateEvent, RetryFailedEvents, FetchFailed, ResetNext, history

----------------------------------------------------------------------------
\* What has been counted so far is not far off.

OutboxInv == TypeOK /\ BatchInv /\ StrandedOnlyByLoss /\ HandsInv

ProbeInv ==
    /\ ProbeTypeOK
    /\ VerdictIsComplete
    /\ awaited # {} => \A s \in Counts \ awaited : counted[s] # Unanswered
    /\ awaited # {} => steady \subseteq Queued /\ Queued \subseteq ever
    /\ awaited # {} /\ "PENDING" \notin awaited =>
         /\ Cardinality(steady) <= counted["PENDING"] + Slack
         /\ counted["PENDING"] <= Cardinality(ever)
    /\ awaited # {} /\ "PROCESSING" \notin awaited => counted["PROCESSING"] <= Slack

LEMMA SlackType == IsFiniteSet(Events) /\ TypeOK => Slack \in Nat
  BY FS_Subset, FS_CardinalityType, BatchSizeAssumption DEF TypeOK, HistoryTypeOK, Slack

LEMMA SizeOfEvents ==
  ASSUME IsFiniteSet(Events), NEW S \in SUBSET Events, NEW T \in SUBSET S
  PROVE  /\ Cardinality(S) \in Nat /\ Cardinality(T) \in Nat
         /\ Cardinality(T) <= Cardinality(S)
<1>1. IsFiniteSet(S)
  BY FS_Subset
<1> QED
  BY <1>1, FS_Subset, FS_CardinalityType

\* The two sides of the bound, at the moment the PENDING rows are counted.
LEMMA QueueCounted ==
  ASSUME IsFiniteSet(Events), OutboxInv, ProbeInv, awaited # {}
  PROVE  /\ Cardinality(RowsWith("PENDING")) \in Nat /\ Cardinality(RowsWith("PROCESSING")) \in Nat
         /\ Cardinality(steady) \in Nat /\ Cardinality(ever) \in Nat
         /\ Cardinality(steady) <= Cardinality(RowsWith("PENDING")) + Slack
         /\ Cardinality(RowsWith("PENDING")) <= Cardinality(ever)
<1>1. /\ steady \in SUBSET Queued /\ Queued \in SUBSET ever /\ ever \in SUBSET Events
      /\ RowsWith("PENDING") \in SUBSET Events /\ RowsWith("PROCESSING") \in SUBSET Events
  BY DEF ProbeInv, ProbeTypeOK, RowsWith
<1>2. /\ IsFiniteSet(RowsWith("PENDING")) /\ IsFiniteSet(RowsWith("PROCESSING"))
      /\ Cardinality(RowsWith("PENDING")) \in Nat /\ Cardinality(RowsWith("PROCESSING")) \in Nat
  BY <1>1, FS_Subset, FS_CardinalityType
<1>3. Cardinality(RowsWith("PROCESSING")) <= Slack /\ Slack \in Nat
  BY ProcessingIsBounded, SlackType DEF OutboxInv
<1>4. /\ Cardinality(Queued) \in Nat
      /\ Cardinality(Queued) <=
           Cardinality(RowsWith("PENDING")) + Cardinality(RowsWith("PROCESSING"))
  <2>1. Cardinality(RowsWith("PENDING") \cap RowsWith("PROCESSING")) \in Nat
    BY <1>2, FS_Intersection, FS_CardinalityType
  <2> QED
    BY <1>2, <2>1, FS_Union, FS_CardinalityType DEF Queued
<1>5. Queued \in SUBSET Events /\ RowsWith("PENDING") \in SUBSET ever
  BY <1>1 DEF Queued
<1>6. Cardinality(steady) \in Nat /\ Cardinality(steady) <= Cardinality(Queued)
  BY <1>1, <1>5, SizeOfEvents
<1>7. Cardinality(ever) \in Nat /\ Cardinality(RowsWith("PENDING")) <= Cardinality(ever)
  BY <1>1, <1>5, SizeOfEvents
<1> QED
  BY <1>2, <1>3, <1>4, <1>6, <1>7

LEMMA InitProbe == HealthInit => ProbeInv
  BY DEF HealthInit, ProbeInv, ProbeTypeOK, NoCounts, VerdictIsComplete

LEMMA NextProbe ==
  ASSUME IsFiniteSet(Events)
  PROVE  OutboxInv /\ OutboxInv' /\ ProbeInv /\ [HealthNext]_healthVars => ProbeInv'
<1> SUFFICES ASSUME OutboxInv, OutboxInv', ProbeInv, [HealthNext]_healthVars PROVE ProbeInv'
  OBVIOUS
<1>1. CASE checkOutbox
  <2>1. Queued \subseteq Events /\ Queued' = Queued
    BY <1>1 DEF checkOutbox, vars, tableVars, Queued, RowsWith
  <2> QED
    BY <1>1, <2>1 DEF checkOutbox, ProbeInv, ProbeTypeOK, NoCounts, Counts, VerdictIsComplete
<1>2. ASSUME NEW s \in Counts, CountAnswers(s) PROVE ProbeInv'
  <2>1. UNCHANGED <<Slack, Queued, steady, ever>>
    BY <1>2 DEF CountAnswers, vars, tableVars, history, Slack, Queued, RowsWith
  <2>2. /\ awaited # {} /\ awaited' = awaited \ {s} /\ awaited \subseteq Counts
        /\ counted' = [counted EXCEPT ![s] = Cardinality(RowsWith(s))]
        /\ counted \in [Counts -> Nat \cup {Unanswered}]
        /\ verdict' \in {"none", "up", "down"} /\ (awaited' # {} => verdict' = "none")
    BY <1>2 DEF CountAnswers, isHealthy, ProbeInv, ProbeTypeOK
  <2>3. Cardinality(RowsWith(s)) \in Nat
    BY <2>2, QueueCounted DEF Counts
  <2>4. ProbeTypeOK'
    BY <2>1, <2>2, <2>3 DEF ProbeInv, ProbeTypeOK
  <2>5. \A r \in Counts \ awaited' : counted'[r] # Unanswered
    BY <2>2, <2>3 DEF ProbeInv, Unanswered
  <2>6. VerdictIsComplete'
    BY <2>2, <2>5 DEF VerdictIsComplete
  <2>7. CASE s = "PENDING"
    BY <2>1, <2>2, <2>4, <2>7, <2>5, <2>6, QueueCounted DEF ProbeInv, Counts
  <2>8. CASE s = "PROCESSING"
    <3>1. Cardinality(RowsWith("PROCESSING")) <= Slack
      BY ProcessingIsBounded DEF OutboxInv
    <3> QED
      BY <2>1, <2>2, <2>4, <2>8, <2>5, <2>6, <3>1 DEF ProbeInv, Counts
  <2> QED
    BY <2>7, <2>8 DEF Counts
<1>3. CASE CountThrows
  BY <1>3 DEF CountThrows, ProbeInv, ProbeTypeOK, VerdictIsComplete
<1>4. CASE OutboxStep
  <2>1. ProbeTypeOK'
    BY <1>4 DEF OutboxStep, ProbeInv, ProbeTypeOK, Queued, RowsWith
  <2>2. VerdictIsComplete'
    BY <1>4 DEF OutboxStep, ProbeInv, VerdictIsComplete
  <2>3. CASE awaited' = {}
    BY <2>1, <2>3, <2>2 DEF ProbeInv
  <2>4. CASE awaited' # {}
    <3>1. /\ awaited # {} /\ awaited' = awaited /\ UNCHANGED counted
          /\ steady' = steady \cap Queued' /\ ever' = ever \cup Queued'
      BY <1>4, <2>4 DEF OutboxStep
    <3>2. /\ steady \in SUBSET Events /\ ever' \in SUBSET Events
          /\ counted \in [Counts -> Nat \cup {Unanswered}]
      BY <2>1 DEF ProbeInv, ProbeTypeOK
    <3>3. steady' \in SUBSET steady /\ ever \in SUBSET ever'
      BY <3>1
    <3>4. /\ Cardinality(steady) \in Nat /\ Cardinality(steady') \in Nat
          /\ Cardinality(steady') <= Cardinality(steady)
      BY <3>2, <3>3, SizeOfEvents
    <3>5. /\ Cardinality(ever) \in Nat /\ Cardinality(ever') \in Nat
          /\ Cardinality(ever) <= Cardinality(ever')
      BY <3>2, <3>3, SizeOfEvents
    <3>6. Slack \in Nat /\ Slack' \in Nat /\ Slack <= Slack'
      <4>1. stranded' \in SUBSET Events /\ stranded \in SUBSET stranded'
        BY <1>4, StrandedGrows DEF OutboxStep, OutboxInv, TypeOK, HistoryTypeOK
      <4>2. /\ Cardinality(stranded) \in Nat /\ Cardinality(stranded') \in Nat
            /\ Cardinality(stranded) <= Cardinality(stranded')
        BY <4>1, SizeOfEvents
      <4> QED
        BY <4>2, BatchSizeAssumption DEF Slack
    <3>7. \A s \in Counts \ awaited : counted[s] # Unanswered /\ counted[s] \in Nat
      BY <3>1, <3>2 DEF ProbeInv
    <3> QED
      BY <2>1, <2>2, <3>1, <3>4, <3>5, <3>6, <3>7 DEF ProbeInv, Counts
  <2> QED
    BY <2>3, <2>4
<1>5. CASE UNCHANGED healthVars
  <2>1. UNCHANGED <<Slack, Queued, awaited, counted, verdict, steady, ever>>
    BY <1>5 DEF healthVars, probeVars, vars, tableVars, history, Slack, Queued, RowsWith
  <2> QED
    BY <2>1 DEF ProbeInv, ProbeTypeOK, VerdictIsComplete
<1> QED
  BY <1>1, <1>2, <1>3, <1>4, <1>5 DEF HealthNext

----------------------------------------------------------------------------
\* The verdict.

LEMMA VerdictStep ==
  ASSUME IsFiniteSet(Events), OutboxInv, ProbeInv, HealthNext, verdict' # verdict
  PROVE  /\ verdict' = "up" => Cardinality(steady) < MaxPending + Slack
         /\ verdict' = "down" => MaxPending <= Cardinality(ever) + Slack
<1>1. CASE checkOutbox \/ CountThrows \/ OutboxStep
  BY <1>1 DEF checkOutbox, CountThrows, OutboxStep
<1>2. ASSUME NEW s \in Counts, CountAnswers(s)
      PROVE  /\ verdict' = "up" => Cardinality(steady) < MaxPending + Slack
             /\ verdict' = "down" => MaxPending <= Cardinality(ever) + Slack
  <2>1. CASE awaited' # {}
    BY <1>2, <2>1 DEF CountAnswers
  <2>2. CASE awaited' = {}
    <3>1. /\ awaited = {s} /\ verdict' = isHealthy(counted')
          /\ counted' = [counted EXCEPT ![s] = Cardinality(RowsWith(s))]
          /\ \A r \in Counts \ {s} : counted[r] \in Nat
          /\ counted \in [Counts -> Nat \cup {Unanswered}]
      BY <1>2, <2>2 DEF CountAnswers, ProbeInv, ProbeTypeOK
    <3>2. /\ Cardinality(steady) \in Nat /\ Cardinality(ever) \in Nat /\ Slack \in Nat
          /\ counted'["PENDING"] \in Nat /\ counted'["PROCESSING"] \in Nat
      BY <3>1, QueueCounted, SlackType DEF Counts, OutboxInv
    <3>3. /\ Cardinality(steady) <= counted'["PENDING"] + Slack
          /\ counted'["PENDING"] <= Cardinality(ever)
      <4>1. CASE s = "PENDING"
        BY <3>1, <4>1, QueueCounted DEF Counts
      <4>2. CASE s = "PROCESSING"
        BY <3>1, <4>2 DEF ProbeInv, Counts
      <4> QED
        BY <4>1, <4>2 DEF Counts
    <3>4. counted'["PROCESSING"] <= Slack
      <4>1. CASE s = "PENDING"
        BY <3>1, <4>1 DEF ProbeInv, Counts
      <4>2. CASE s = "PROCESSING"
        BY <3>1, <4>2, ProcessingIsBounded DEF OutboxInv, Counts
      <4> QED
        BY <4>1, <4>2 DEF Counts
    <3> QED
      BY <3>1, <3>2, <3>3, <3>4, MaxPendingAssumption DEF isHealthy
  <2> QED
    BY <2>1, <2>2
<1> QED
  BY <1>1, <1>2 DEF HealthNext

LEMMA HealthIsOutbox == HealthSpec => Spec
<1>1. HealthInit => Init
  BY DEF HealthInit
<1>2. [HealthNext]_healthVars => [Next]_vars
  BY DEF HealthNext, healthVars, checkOutbox, CountAnswers, CountThrows, OutboxStep
<1> QED
  BY <1>1, <1>2, PTL DEF HealthSpec, Spec

LEMMA ProbeInvariant ==
  ASSUME IsFiniteSet(Events)
  PROVE  HealthSpec => [](OutboxInv /\ ProbeInv)
<1>1. Spec => []OutboxInv
  BY TypeCorrect, InitBatch, NextBatch, InitStranded, NextStranded, InitHands, NextHands, PTL
     DEF Spec, OutboxInv
<1>2. OutboxInv /\ OutboxInv' /\ ProbeInv /\ [HealthNext]_healthVars => ProbeInv'
  BY NextProbe
<1> QED
  BY <1>1, <1>2, HealthIsOutbox, InitProbe, PTL DEF HealthSpec

\* What is awaited, the counts and the verdict keep their types, and what was queued
\* all the time is part of what was queued at some time.
THEOREM ProbeTypeCorrect ==
  ASSUME IsFiniteSet(Events)
  PROVE  HealthSpec => []ProbeTypeOK
<1>1. ProbeInv => ProbeTypeOK
  BY DEF ProbeInv
<1> QED
  BY <1>1, ProbeInvariant, PTL

\* A health request never answers "up" or "down" before each of its counts has
\* answered, whatever counts throw and whatever the outbox does meanwhile.
THEOREM VerdictNeedsEveryCount ==
  ASSUME IsFiniteSet(Events)
  PROVE  HealthSpec => []VerdictIsComplete
<1>1. ProbeInv => VerdictIsComplete
  BY DEF ProbeInv
<1> QED
  BY <1>1, ProbeInvariant, PTL

\* An outbox that is overloaded, or far from it, for the whole of a health request
\* is reported as such, but for one batch and the stranded rows.
THEOREM VerdictIsNear ==
  ASSUME IsFiniteSet(Events)
  PROVE  HealthSpec => VerdictIsOffByABatch
<1>1. OutboxInv /\ ProbeInv /\ [HealthNext]_healthVars =>
        [verdict' # verdict =>
           /\ verdict' = "up" => Cardinality(steady) < MaxPending + Slack
           /\ verdict' = "down" => MaxPending <= Cardinality(ever) + Slack]_healthVars
  BY VerdictStep
<1> QED
  BY <1>1, ProbeInvariant, PTL DEF HealthSpec, VerdictIsOffByABatch

============================================================================
