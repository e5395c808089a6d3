------------------------------- MODULE Health -------------------------------
(***************************************************************************)
(* GET /health/outbox while the outbox is at work.  OutboxService.getStats  *)
(* asks for its counts in separate statements that answer in any order, and *)
(* events move between them; the verdict of OutboxHealthIndicator compares  *)
(* the sum of two of them with a limit.                                     *)
(*                                                                          *)
(* Abstracted: the counts of PUBLISHED and FAILED rows, which are reported  *)
(* but decide nothing; the wording of the answer.                           *)
(***************************************************************************)
EXTENDS OutboxProcessor

CONSTANT MaxPending     \* the second argument of isHealthy, 1000

ASSUME MaxPendingAssumption == MaxPending \in Nat

VARIABLES
    awaited,    \* the counts that have not answered yet; {} when no request is in progress
    counted,    \* counted[s]: what the count of the rows with status s answered, or Unanswered
    verdict,    \* the last answer: "up", "down" when overloaded, "error" when a count threw
    steady,     \* the events that have been queued all the time since the request
    ever        \* the events that have been queued at some time since the request

probeVars == <<awaited, counted, verdict, steady, ever>>
healthVars == <<vars, probeVars>>

Counts == {"PENDING", "PROCESSING"}
Unanswered == -1

Queued == RowsWith("PENDING") \cup RowsWith("PROCESSING")

ProbeTypeOK ==
    /\ awaited \subseteq Counts
    /\ counted \in [Counts -> Nat \cup {Unanswered}]
    /\ verdict \in {"none", "up", "down", "error"}
    /\ steady \subseteq ever
    /\ ever \subseteq Events

NoCounts == [s \in Counts |-> Unanswered]

HealthInit ==
    /\ Init
    /\ awaited = {}
    /\ counted = NoCounts
    /\ verdict = "none"
    /\ steady = {}
    /\ ever = {}

\* The request arrives and isHealthy calls getProcessorStats.
checkOutbox ==
    /\ app = "up"
    /\ awaited = {}
    /\ awaited' = Counts
    /\ counted' = NoCounts
    /\ verdict' = "none"
    /\ steady' = Queued
    /\ ever' = Queued
    /\ UNCHANGED vars

\* Mutant: nothing is returned for an outbox that is overloaded.
isHealthyOrNothing(stats) ==
    IF stats["PENDING"] + stats["PROCESSING"] < MaxPending THEN "up" ELSE "undefined"

\* What isHealthy makes of the counts.
isHealthy(stats) == IF stats["PENDING"] + stats["PROCESSING"] < MaxPending THEN "up" ELSE "down"

\* A count answers; with the last one Promise.all resolves.
CountAnswers(s) ==
    /\ s \in awaited
    /\ counted' = [counted EXCEPT ![s] = Cardinality(RowsWith(s))]
    /\ awaited' = awaited \ {s}
    /\ verdict' = IF awaited' = {} THEN isHealthy(counted') ELSE "none"
    /\ UNCHANGED <<vars, steady, ever>>

\* Mutant: getStats waits with allSettled and leaves a hole where a count threw.
CountMissing ==
    /\ \E s \in awaited : awaited' = awaited \ {s}
    /\ verdict' = IF awaited' = {} THEN isHealthy(counted) ELSE "none"
    /\ UNCHANGED <<vars, counted, steady, ever>>

\* A count throws, as it always may, and Promise.all rejects at once.
CountThrows ==
    /\ awaited # {}
    /\ awaited' = {}
    /\ verdict' = "error"
    /\ UNCHANGED <<vars, counted, steady, ever>>

\* Meanwhile the outbox goes on; a request dies with its process.
OutboxStep ==
    /\ Next
    /\ awaited' = IF app' = "down" THEN {} ELSE awaited
    /\ steady' = IF awaited = {} THEN steady ELSE steady \cap Queued'
    /\ ever' = IF awaited = {} THEN ever ELSE ever \cup Queued'
    /\ UNCHANGED <<counted, verdict>>

HealthNext ==
    \/ checkOutbox
    \/ \E s \in Counts : CountAnswers(s)
    \/ CountThrows
    \/ OutboxStep

HealthSpec == HealthInit /\ [][HealthNext]_healthVars

----------------------------------------------------------------------------
\* An outbox is called healthy or overloaded only when every count of this request
\* has answered, never from some of them after another one has thrown.
VerdictIsComplete ==
    verdict \in {"up", "down"} => awaited = {} /\ \A s \in Counts : counted[s] # Unanswered

\* How far the sum may be off: by the events that move while it is taken.
Slack == BatchSize + Cardinality(stranded)

\* The report is never off by more than one batch and the stranded rows: an outbox
\* that held that much more than the limit all the time is not called healthy, and
\* one that never held that much less is not called overloaded.
VerdictIsOffByABatch ==
    [][verdict' # verdict =>
         /\ verdict' = "up" => Cardinality(steady) < MaxPending + Slack
         /\ verdict' = "down" => MaxPending <= Cardinality(ever) + Slack]_healthVars

============================================================================
