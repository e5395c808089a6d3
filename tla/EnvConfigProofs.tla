-------------------------- MODULE EnvConfigProofs --------------------------
(***************************************************************************)
(* Where the two readings of a setting agree, for all texts: variables of   *)
(* the environment have to be spelled as plain decimals; those of .env may  *)
(* be spelled in any way, because what was validated is written back, but   *)
(* only below the numbers that String() writes with an exponent.            *)
(***************************************************************************)
EXTENDS EnvConfig, TLAPS

IsPlain(text) == \E w \in Nat, f \in 0..99 : text = Plain(w, f)

PlainEnvironment == \A text \in EnvTexts : IsPlain(text)
NumbersInFile ==
    /\ \A text \in FileTexts : text.form # "missing" /\ text.number \in 0 .. Huge - 1
    /\ Huge \in Nat /\ \A v \in Settings : Default[v] < Huge

\* What Number() and String() do to a number without an exponent and back.
LEMMA WrittenIsPlain ==
  ASSUME NEW n \in Nat, n < Huge
  PROVE  IsPlain(Written(n)) /\ Written(n).number = n
<1>1. n \div 100 \in Nat /\ n % 100 \in 0..99 /\ n = 100 * (n \div 100) + (n % 100)
  OBVIOUS
<1>2. IsPlain(Plain(n \div 100, n % 100))
  BY <1>1 DEF IsPlain
<1>3. Plain(n \div 100, n % 100).number = n
  BY <1>1 DEF Plain
<1> QED
  BY <1>2, <1>3 DEF Written

\* The bounds are whole numbers, so a fraction can be dropped.
LEMMA PlainIsReadInRange ==
  ASSUME NEW v \in Settings, NEW text, IsPlain(text), InRange(v, text.number)
  PROVE  InRange(v, Read(v, text))
<1>1. PICK w \in Nat, f \in 0..99 : text = Plain(w, f)
  BY DEF IsPlain
<1>2. text.form = "plain" /\ text.whole = w /\ text.number = 100 * w + f
  BY <1>1 DEF Plain
<1>3. Read(v, text) = 100 * w + f \/ (v \notin Percentages /\ Read(v, text) = 100 * w)
  BY <1>2 DEF Read
<1> QED
  BY <1>2, <1>3 DEF InRange, Lowest, Percentages, Seconds

LEMMA DefaultsAreInRange ==
  ASSUME NEW v \in Settings
  PROVE  Default[v] \in Nat /\ InRange(v, Default[v])
  BY DEF Settings, Default, InRange, Lowest, Percentages, Seconds

LEMMA TextsOfSet ==
  ASSUME NEW S, NEW texts \in Texts(S), NEW v \in Settings
  PROVE  texts[v] \in S \cup {Missing}
  BY DEF Texts, NoTexts

\* Before the validation texts are as they were given; after it they are plain and
\* in range.
ReadInv ==
    /\ phase = "off" => environ \in Texts(EnvTexts) /\ file \in Texts(FileTexts)
    /\ phase = "validated" =>
         \A v \in Settings : IsPlain(environ[v]) /\ InRange(v, environ[v].number)
    /\ RunsInRange

LEMMA ValidatedIsPlain ==
  ASSUME PlainEnvironment, NumbersInFile, ReadInv, Validate, NEW v \in Settings
  PROVE  IsPlain(WrittenBack(v)) /\ InRange(v, WrittenBack(v).number)
<1>1. environ \in Texts(EnvTexts) /\ file \in Texts(FileTexts) /\ Valid(v, Given(v))
  BY DEF ReadInv, Validate
<1>2. environ[v] \in EnvTexts \cup {Missing} /\ file[v] \in FileTexts \cup {Missing}
  BY <1>1, TextsOfSet
<1>3. CASE environ[v] # Missing
  <2>1. IsPlain(environ[v])
    BY <1>2, <1>3 DEF PlainEnvironment
  <2>2. environ[v].form = "plain"
    BY <2>1 DEF IsPlain, Plain
  <2> QED
    BY <1>1, <1>3, <2>1, <2>2 DEF Given, Valid, WrittenBack
<1>4. CASE environ[v] = Missing /\ file[v] = Missing
  BY <1>4, DefaultsAreInRange, WrittenIsPlain DEF WrittenBack, NumbersInFile
<1>5. CASE environ[v] = Missing /\ file[v] # Missing
  <2>1. file[v].form # "missing" /\ file[v].number \in Nat /\ file[v].number < Huge
    BY <1>2, <1>5 DEF NumbersInFile
  <2>2. WrittenBack(v) = Written(file[v].number)
    BY <1>5 DEF WrittenBack
  <2>3. InRange(v, file[v].number)
    BY <1>1, <1>5, <2>1 DEF Given, Valid
  <2> QED
    BY <2>1, <2>2, <2>3, WrittenIsPlain
<1> QED
  BY <1>3, <1>4, <1>5

\* If every variable of the environment is spelled as a plain decimal, and those of
\* .env spell numbers that String() writes without an exponent, the application
\* only runs with settings in the range that the validation demands.
THEOREM PlainTextsStayInRange ==
  ASSUME PlainEnvironment, NumbersInFile
  PROVE  Spec => []RunsInRange
<1>1. Init => ReadInv
  BY DEF Init, ReadInv, RunsInRange
<1>2. ReadInv /\ [Next]_vars => ReadInv'
  <2> SUFFICES ASSUME ReadInv, [Next]_vars PROVE ReadInv'
    OBVIOUS
  <2>1. CASE Validate
    <3>1. phase' = "validated" /\ \A v \in Settings : environ'[v] = WrittenBack(v)
      BY <2>1 DEF Validate
    <3> QED
      BY <2>1, <3>1, ValidatedIsPlain DEF ReadInv, RunsInRange
  <2>2. CASE Refuse
    BY <2>2 DEF Refuse, ReadInv, RunsInRange
  <2>3. CASE Load
    <3>1. \A v \in Settings : InRange(v, Read(v, environ[v]))
      BY <2>3, PlainIsReadInRange DEF Load, ReadInv
    <3> QED
      BY <2>3, <3>1 DEF Load, ReadInv, RunsInRange
  <2>4. CASE UNCHANGED vars
    BY <2>4 DEF vars, ReadInv, RunsInRange
  <2> QED
    BY <2>1, <2>2, <2>3, <2>4 DEF Next
<1>3. ReadInv => RunsInRange
  BY DEF ReadInv
<1> QED
  BY <1>1, <1>2, <1>3, PTL DEF Spec

============================================================================
