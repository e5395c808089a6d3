--------------------------- MODULE CircuitBreaker ---------------------------
(***************************************************************************)
(* One circuit of CircuitBreakerService, as MockPriceService uses it: the   *)
(* tokens of a price batch call execute concurrently, so that calls overlap *)
(* and their results arrive in any order.                                   *)
(*                                                                          *)
(* Time is counted in ticks.  Of lastFailureTime only its age matters, up   *)
(* to RecoveryTimeout; of failureCount only whether it has reached the      *)
(* threshold, so it stops counting there.  Neither bound hides a behaviour. *)
(* Date.now() and setTimeout are taken to run at the same, steady rate.     *)
(***************************************************************************)
EXTENDS Integers

CONSTANTS
    Calls,              \* the calls of execute that may be in flight together
    FailureThreshold,   \* options.failureThreshold
    SuccessThreshold,   \* options.successThreshold
    RecoveryTimeout,    \* options.recoveryTimeout, in ticks
    Timeout             \* options.timeout, in ticks

ASSUME OptionsAssumption ==
    /\ FailureThreshold \in Nat \ {0}
    /\ SuccessThreshold \in Nat \ {0}
    /\ RecoveryTimeout \in Nat \ {0}
    /\ Timeout \in Nat \ {0}

VARIABLES
    state,          \* circuit.state
    failureCount,   \* circuit.failureCount, at most FailureThreshold
    successCount,   \* circuit.successCount
    sinceFailure,   \* the age of circuit.lastFailureTime; Null when it is null
    age             \* age[c]: how long call c has been running; Null when it is not

vars == <<state, failureCount, successCount, sinceFailure, age>>

Null == -1

TypeOK ==
    /\ state \in {"CLOSED", "OPEN", "HALF_OPEN"}
    /\ failureCount \in 0..FailureThreshold
    /\ successCount \in Nat
    /\ sinceFailure \in {Null} \cup 0..RecoveryTimeout
    /\ age \in [Calls -> {Null} \cup 0..Timeout]

\* createCircuit, and getOrCreateCircuit on the first call.
Init ==
    /\ state = "CLOSED"
    /\ failureCount = 0
    /\ successCount = 0
    /\ sinceFailure = Null
    /\ age = [c \in Calls |-> Null]

InFlight(c) == age[c] # Null

Finish(c) == age' = [age EXCEPT ![c] = Null]

\* Mutant: only the failure that opens the circuit is dated.
DatedAtFirst == IF sinceFailure = Null THEN 0 ELSE sinceFailure

\* Mutant: a failure is not dated at all.
Undated == sinceFailure

\* The date a failure gives lastFailureTime: now.
Dated == 0

shouldAttemptReset == sinceFailure # Null /\ sinceFailure >= RecoveryTimeout

\* execute, up to the start of the operation.  On an open circuit that is not
\* due for a reset it throws instead, which changes nothing.
Execute(c) ==
    /\ ~InFlight(c)
    /\ \/ state # "OPEN" /\ UNCHANGED state
       \/ state = "OPEN" /\ shouldAttemptReset /\ state' = "HALF_OPEN"
    /\ age' = [age EXCEPT ![c] = 0]
    /\ UNCHANGED <<failureCount, successCount, sinceFailure>>

\* Mutant: a success does not forget the failures before it.
SuccessKeepsFailures ==
    /\ UNCHANGED <<failureCount, sinceFailure>>
    /\ \/ /\ state = "HALF_OPEN"
          /\ successCount + 1 < SuccessThreshold
          /\ successCount' = successCount + 1
          /\ UNCHANGED state
       \/ /\ state = "HALF_OPEN"
          /\ successCount + 1 >= SuccessThreshold
          /\ successCount' = 0
          /\ state' = "CLOSED"
       \/ /\ state # "HALF_OPEN"
          /\ UNCHANGED <<state, successCount>>

onSuccess ==
    /\ failureCount' = 0
    /\ UNCHANGED sinceFailure
    /\ \/ /\ state = "HALF_OPEN"
          /\ successCount + 1 < SuccessThreshold
          /\ successCount' = successCount + 1
          /\ UNCHANGED state
       \/ /\ state = "HALF_OPEN"
          /\ successCount + 1 >= SuccessThreshold
          /\ successCount' = 0
          /\ state' = "CLOSED"
       \/ /\ state # "HALF_OPEN"
          /\ UNCHANGED <<state, successCount>>

CountFailure ==
    failureCount' = IF failureCount < FailureThreshold THEN failureCount + 1 ELSE failureCount

\* Mutant: the circuit that reopens keeps the successes of its recovery attempt.
FailureKeepsSuccesses ==
    /\ CountFailure
    /\ sinceFailure' = Dated
    /\ UNCHANGED successCount
    /\ state' = IF state = "HALF_OPEN" \/ failureCount' >= FailureThreshold THEN "OPEN" ELSE state

onFailure ==
    /\ CountFailure
    /\ sinceFailure' = Dated
    /\ \/ /\ state = "HALF_OPEN"
          /\ state' = "OPEN"
          /\ successCount' = 0
       \/ /\ state # "HALF_OPEN"
          /\ state' = IF failureCount' >= FailureThreshold THEN "OPEN" ELSE state
          /\ UNCHANGED successCount

\* The operation wins the race of executeWithTimeout and resolves ...
Succeed(c) ==
    /\ InFlight(c)
    /\ onSuccess
    /\ Finish(c)

\* ... or it rejects, or the timer wins.  After that the operation may still be
\* running, but its result goes nowhere.
Fail(c) ==
    /\ InFlight(c)
    /\ onFailure
    /\ Finish(c)

\* Mutant: executeWithTimeout awaits the operation without the timer.
TickUntimed ==
    /\ age' = [c \in Calls |-> IF InFlight(c) THEN age[c] + 1 ELSE Null]
    /\ sinceFailure' = IF sinceFailure \in 0..(RecoveryTimeout - 1)
                       THEN sinceFailure + 1 ELSE sinceFailure
    /\ UNCHANGED <<state, failureCount, successCount>>

\* Time passes; a timer that is due fires first.
Tick ==
    /\ \A c \in Calls : age[c] < Timeout
    /\ age' = [c \in Calls |-> IF InFlight(c) THEN age[c] + 1 ELSE Null]
    /\ sinceFailure' = IF sinceFailure \in 0..(RecoveryTimeout - 1)
                       THEN sinceFailure + 1 ELSE sinceFailure
    /\ UNCHANGED <<state, failureCount, successCount>>

Next ==
    \/ \E c \in Calls : Execute(c) \/ Succeed(c) \/ Fail(c)
    \/ Tick

Spec == Init /\ [][Next]_vars

\* Time passes, a call ends in its timeout at the latest, and the price cycle,
\* which runs every few seconds, keeps calling.
Fairness ==
    /\ WF_vars(Tick)
    /\ WF_vars(\E c \in Calls : Execute(c))
    /\ \A c \in Calls : WF_vars(Succeed(c) \/ Fail(c))

FairSpec == Spec /\ Fairness

----------------------------------------------------------------------------
\* A circuit that lets everything through has not seen failureThreshold failures
\* since its last success, in whatever order the results of calls came in.
ClosedBelowThreshold == state = "CLOSED" => failureCount < FailureThreshold

\* Successes are counted within one recovery attempt: none is carried over into
\* the next one, or into the next time the circuit opens.
SuccessesOfThisAttempt ==
    successCount # 0 => state = "HALF_OPEN" /\ successCount < SuccessThreshold

\* A circuit that is not closed knows when it failed last.  An open one without a
\* date would never be due for a reset, and the prices would stand still.
OpenIsDated == state # "CLOSED" => sinceFailure # Null

\* A call that is still in flight when a recovery attempt begins, and whose result
\* may then be mistaken for a probe's, has been running for all of the recovery
\* time: no failure, however late, shortens the wait of the circuit.
OnlyOldCallsOverlap ==
    [][state = "OPEN" /\ state' = "HALF_OPEN" =>
         \A c \in Calls : InFlight(c) => age[c] >= RecoveryTimeout]_vars

\* When a recovery attempt begins, no call from before is still in flight, so a
\* late result is never mistaken for a probe's.
AttemptsStartQuiet ==
    [][state = "OPEN" /\ state' = "HALF_OPEN" => \A c \in Calls : ~InFlight(c)]_vars

\* Once the price service stops failing, the circuit closes for good.
Recovers == <>[][\A c \in Calls : ~Fail(c)]_vars => <>[](state = "CLOSED")

============================================================================
