----------------------------- MODULE EnvConfig -----------------------------
(***************************************************************************)
(* How a numeric setting gets from its text in process.env or in .env into  *)
(* the configuration.  The validation reads it with Number(), the factories *)
(* of the configuration read process.env again with parseInt or parseFloat, *)
(* and ConfigModule writes what was validated back into process.env, but    *)
(* only for variables that were not there.                                  *)
(*                                                                          *)
(* Abstracted: a text is the number it spells and the way it spells it;     *)
(* values are counted in hundredths.  Settings that are strings are read    *)
(* the same way twice and left out.  So are PORT, which the application     *)
(* takes from what was validated and not from app.port, and DB_PORT, which  *)
(* nothing uses.  No setting bears on another, so one variable is set in    *)
(* either place.                                                            *)
(***************************************************************************)
EXTENDS Integers

CONSTANTS
    EnvTexts,   \* texts a variable may have in the environment
    FileTexts,  \* texts it may have in .env
    Huge        \* the numbers String() writes with an exponent begin here, at 10^21

VARIABLES
    phase,      \* of the process: "off", "validated", "running" or "refused"
    environ,    \* environ[v]: the text of v in process.env
    file,       \* file[v]: the text of v in .env
    config      \* config[v]: what the configuration holds for v

vars == <<phase, environ, file, config>>

\* What the validation and the configuration agree to take when nothing is set.
Default ==
    [PRICE_UPDATE_INTERVAL_SECONDS |-> 500, PRICE_UPDATE_BATCH_SIZE |-> 500,
     PRICE_UPDATE_THRESHOLD_PERCENT |-> 10,
     PRICE_SERVICE_FAILURE_THRESHOLD |-> 500, PRICE_SERVICE_SUCCESS_THRESHOLD |-> 300,
     PRICE_SERVICE_RECOVERY_TIMEOUT_MS |-> 3000000, PRICE_SERVICE_TIMEOUT_MS |-> 500000,
     OUTBOX_BATCH_SIZE |-> 5000, OUTBOX_MAX_RETRIES |-> 300,
     OUTBOX_PROCESSING_INTERVAL_MS |-> 100000, OUTBOX_RETRY_INTERVAL_MS |-> 3000000]

Settings == DOMAIN Default

Percentages == {"PRICE_UPDATE_THRESHOLD_PERCENT"}
Seconds == {"PRICE_SERVICE_RECOVERY_TIMEOUT_MS", "PRICE_SERVICE_TIMEOUT_MS", "OUTBOX_RETRY_INTERVAL_MS"}

\* @Min and @Max.
Lowest(v) ==
    IF v \in Percentages THEN 0
    ELSE IF v \in Seconds THEN 100000
    ELSE IF v = "OUTBOX_PROCESSING_INTERVAL_MS" THEN 10000 ELSE 100

InRange(v, n) ==
    /\ Lowest(v) <= n
    /\ v \in Percentages => n <= 10000

----------------------------------------------------------------------------
\* Texts: 12.34 is plain, 12e2 is scientific, 0x0c is hex.  "whole" is what the
\* digits spell up to the first character that is none.
Plain(w, f) == [form |-> "plain", whole |-> w, number |-> 100 * w + f]
Scientific(w, factor) == [form |-> "scientific", whole |-> w, number |-> 100 * w * factor]
Hex(n) == [form |-> "hex", whole |-> 0, number |-> 100 * n]
Word == [form |-> "word", whole |-> 0, number |-> 0]
Empty == [form |-> "empty", whole |-> 0, number |-> 0]
Missing == [form |-> "missing", whole |-> 0, number |-> 0]

\* Number(text) reads all of it, hex and exponents included, and "" as 0.
Valid(v, text) == text.form = "missing" \/ (text.form # "word" /\ InRange(v, text.number))

\* parseInt(text, 10) stops at the first character that is no digit; parseFloat
\* reads fractions and exponents as well, but no hex.  "||" replaces "".
Read(v, text) ==
    IF text.form \in {"missing", "empty"} THEN Default[v]
    ELSE IF v \in Percentages /\ text.form # "hex" THEN text.number
    ELSE 100 * text.whole

Leading[n \in Nat] == IF n < 10 THEN n ELSE Leading[n \div 10]

\* String(n), which writes a huge number like 2.5e+21.
Written(n) ==
    IF n < Huge THEN Plain(n \div 100, n % 100)
    ELSE [form |-> "scientific", whole |-> Leading[n], number |-> n]

----------------------------------------------------------------------------
NoTexts == [v \in Settings |-> Missing]

Texts(S) == {NoTexts} \cup {[NoTexts EXCEPT ![v] = text] : v \in Settings, text \in S}

Init ==
    /\ phase = "off"
    /\ environ \in Texts(EnvTexts)
    /\ file \in Texts(FileTexts)
    /\ config = [v \in Settings |-> 0]

\* What validate() is given: the file, overridden by the environment.
Given(v) == IF environ[v] = Missing THEN file[v] ELSE environ[v]

\* assignVarsToProcess, with the defaults that validate() fills in.
WrittenBack(v) ==
    IF environ[v] # Missing THEN environ[v]
    ELSE Written(IF file[v] = Missing THEN Default[v] ELSE file[v].number)

Validate ==
    /\ phase = "off"
    /\ \A v \in Settings : Valid(v, Given(v))
    /\ phase' = "validated"
    /\ environ' = [v \in Settings |-> WrittenBack(v)]
    /\ UNCHANGED <<file, config>>

\* validate() throws, and the application does not start.
Refuse ==
    /\ phase = "off"
    /\ \E v \in Settings : ~Valid(v, Given(v))
    /\ phase' = "refused"
    /\ UNCHANGED <<environ, file, config>>

\* The factories of load: [...] read process.env.
Load ==
    /\ phase = "validated"
    /\ phase' = "running"
    /\ config' = [v \in Settings |-> Read(v, environ[v])]
    /\ UNCHANGED <<environ, file>>

Next == Validate \/ Refuse \/ Load

Spec == Init /\ [][Next]_vars

----------------------------------------------------------------------------
\* The application does not run with a setting outside the range the validation
\* demands of it.
RunsInRange == phase = "running" => \A v \in Settings : InRange(v, config[v])

============================================================================
