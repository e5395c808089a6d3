------------------------ MODULE CircuitBreakerProofs ------------------------
(***************************************************************************)
(* Proofs about CircuitBreaker, for every number of overlapping calls and   *)
(* for all thresholds and timeouts that the configuration allows.           *)
(***************************************************************************)
EXTENDS CircuitBreaker, TLAPS

LEMMA InitType == Init => TypeOK
  BY OptionsAssumption DEF Init, TypeOK, Null

LEMMA NextType == TypeOK /\ [Next]_vars => TypeOK'
<1> SUFFICES ASSUME TypeOK, [Next]_vars PROVE TypeOK'
  OBVIOUS
<1> USE OptionsAssumption DEF TypeOK, Null
<1>1. ASSUME NEW c \in Calls, Execute(c) PROVE TypeOK'
  BY <1>1 DEF Execute
<1>2. ASSUME NEW c \in Calls, Succeed(c) PROVE TypeOK'
  BY <1>2 DEF Succeed, onSuccess, Finish
<1>3. ASSUME NEW c \in Calls, Fail(c) PROVE TypeOK'
  BY <1>3 DEF Fail, onFailure, CountFailure, Dated, Finish
<1>4. CASE Tick
  BY <1>4 DEF Tick, InFlight
<1>5. CASE UNCHANGED vars
  BY <1>5 DEF vars
<1> QED
  BY <1>1, <1>2, <1>3, <1>4, <1>5 DEF Next

\* The circuit's variables keep their types.
THEOREM TypeCorrect == Spec => []TypeOK
  BY InitType, NextType, PTL DEF Spec

----------------------------------------------------------------------------
\* The counters, whatever the timeouts.

CountInv == ClosedBelowThreshold /\ SuccessesOfThisAttempt

LEMMA InitCount == Init => CountInv
  BY OptionsAssumption DEF Init, CountInv, ClosedBelowThreshold, SuccessesOfThisAttempt

LEMMA NextCount == TypeOK /\ CountInv /\ [Next]_vars => CountInv'
<1> SUFFICES ASSUME TypeOK, CountInv, [Next]_vars PROVE CountInv'
  OBVIOUS
<1> USE OptionsAssumption DEF TypeOK, CountInv, ClosedBelowThreshold, SuccessesOfThisAttempt
<1>1. ASSUME NEW c \in Calls, Execute(c) PROVE CountInv'
  BY <1>1 DEF Execute
<1>2. ASSUME NEW c \in Calls, Succeed(c) PROVE CountInv'
  BY <1>2 DEF Succeed, onSuccess
<1>3. ASSUME NEW c \in Calls, Fail(c) PROVE CountInv'
  BY <1>3 DEF Fail, onFailure, CountFailure
<1>4. CASE Tick \/ UNCHANGED vars
  BY <1>4 DEF Tick, vars
<1> QED
  BY <1>1, <1>2, <1>3, <1>4 DEF Next

LEMMA CountInvariant == Spec => []CountInv
  BY TypeCorrect, InitCount, NextCount, PTL DEF Spec

\* A closed circuit is below its failure threshold, however results are ordered.
THEOREM ClosedMeansBelowThreshold == Spec => []ClosedBelowThreshold
<1>1. CountInv => ClosedBelowThreshold
  BY DEF CountInv
<1> QED
  BY <1>1, CountInvariant, PTL

\* Successes never carry over from one recovery attempt to another.
THEOREM SuccessesAreOfThisAttempt == Spec => []SuccessesOfThisAttempt
<1>1. CountInv => SuccessesOfThisAttempt
  BY DEF CountInv
<1> QED
  BY <1>1, CountInvariant, PTL

----------------------------------------------------------------------------
\* The date of the last failure: it is set before the circuit opens and never
\* cleared, not even when the circuit closes.

LEMMA NextDated == TypeOK /\ OpenIsDated /\ [Next]_vars => OpenIsDated'
<1> SUFFICES ASSUME TypeOK, OpenIsDated, [Next]_vars PROVE OpenIsDated'
  OBVIOUS
<1> USE OptionsAssumption DEF TypeOK, OpenIsDated, Null
<1>1. ASSUME NEW c \in Calls, Execute(c) PROVE OpenIsDated'
  BY <1>1 DEF Execute
<1>2. ASSUME NEW c \in Calls, Succeed(c) PROVE OpenIsDated'
  BY <1>2 DEF Succeed, onSuccess
<1>3. ASSUME NEW c \in Calls, Fail(c) PROVE OpenIsDated'
  BY <1>3 DEF Fail, onFailure, Dated
<1>4. CASE Tick \/ UNCHANGED vars
  BY <1>4 DEF Tick, vars
<1> QED
  BY <1>1, <1>2, <1>3, <1>4 DEF Next

\* A circuit that is open, or tried again, knows when it failed last, so that the
\* time of its next attempt comes.
THEOREM OpenKnowsItsDate == Spec => []OpenIsDated
<1>1. Init => OpenIsDated
  BY DEF Init, OpenIsDated
<1> QED
  BY <1>1, TypeCorrect, NextDated, PTL DEF Spec

----------------------------------------------------------------------------
\* Calls from before a recovery attempt.  By default calls time out before the
\* circuit is due for a reset (5 s and 30 s), but nothing demands it.

CallsAreShort == Timeout < RecoveryTimeout

\* No call starts while the circuit is open, so every call in flight then is at
\* least as old as the last failure.
OpenInv ==
    state = "OPEN" => \A c \in Calls : InFlight(c) => sinceFailure <= age[c]

LEMMA NextOpen == TypeOK /\ OpenInv /\ [Next]_vars => OpenInv'
<1> SUFFICES ASSUME TypeOK, OpenInv, [Next]_vars PROVE OpenInv'
  OBVIOUS
<1> USE OptionsAssumption DEF TypeOK, OpenInv, InFlight, Null
<1>1. ASSUME NEW c \in Calls, Execute(c) PROVE OpenInv'
  BY <1>1 DEF Execute
<1>2. ASSUME NEW c \in Calls, Succeed(c) PROVE OpenInv'
  BY <1>2 DEF Succeed, onSuccess, Finish
<1>3. ASSUME NEW c \in Calls, Fail(c) PROVE OpenInv'
  BY <1>3 DEF Fail, onFailure, CountFailure, Dated, Finish
<1>4. CASE Tick
  BY <1>4 DEF Tick
<1>5. CASE UNCHANGED vars
  BY <1>5 DEF vars
<1> QED
  BY <1>1, <1>2, <1>3, <1>4, <1>5 DEF Next

LEMMA InitOpen == Init => OpenInv
  BY DEF Init, OpenInv

\* An attempt begins in a call of execute, when the last failure is old enough.
LEMMA AttemptIsDue ==
  ASSUME TypeOK, [Next]_vars, state = "OPEN", state' = "HALF_OPEN"
  PROVE  sinceFailure >= RecoveryTimeout
<1>1. shouldAttemptReset
  BY DEF Next, vars, Execute, Succeed, onSuccess, Fail, onFailure, Tick
<1> QED
  BY <1>1 DEF shouldAttemptReset

\* Whatever the options, a call that overlaps the beginning of a recovery attempt
\* is at least as old as the recovery time.
THEOREM OverlapIsOld == Spec => OnlyOldCallsOverlap
<1>1. TypeOK /\ OpenInv /\ [Next]_vars =>
        [state = "OPEN" /\ state' = "HALF_OPEN" =>
           \A c \in Calls : InFlight(c) => age[c] >= RecoveryTimeout]_vars
  <2> SUFFICES ASSUME TypeOK, OpenInv, [Next]_vars, state = "OPEN", state' = "HALF_OPEN",
                      NEW c \in Calls, InFlight(c)
               PROVE  age[c] >= RecoveryTimeout
    OBVIOUS
  <2>1. age[c] \in 0..Timeout /\ sinceFailure <= age[c]
    BY DEF TypeOK, OpenInv, InFlight
  <2> QED
    BY <2>1, AttemptIsDue, OptionsAssumption DEF TypeOK, Null
<1> QED
  BY <1>1, TypeCorrect, InitOpen, NextOpen, PTL DEF Spec, OnlyOldCallsOverlap

\* With calls that time out before that, no late result is taken for a probe's.
THEOREM AttemptsAreQuiet ==
  ASSUME CallsAreShort
  PROVE  Spec => AttemptsStartQuiet
<1>1. TypeOK /\ OpenInv /\ [Next]_vars =>
        [state = "OPEN" /\ state' = "HALF_OPEN" => \A c \in Calls : ~InFlight(c)]_vars
  <2> SUFFICES ASSUME TypeOK, OpenInv, [Next]_vars, state = "OPEN", state' = "HALF_OPEN",
                      NEW c \in Calls, InFlight(c)
               PROVE  FALSE
    OBVIOUS
  <2>1. age[c] \in 0..Timeout /\ sinceFailure <= age[c]
    BY DEF TypeOK, OpenInv, InFlight
  <2> QED
    BY <2>1, AttemptIsDue, CallsAreShort, OptionsAssumption DEF CallsAreShort, TypeOK, Null
<1> QED
  BY <1>1, TypeCorrect, InitOpen, NextOpen, PTL DEF Spec, AttemptsStartQuiet

============================================================================
