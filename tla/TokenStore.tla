----------------------------- MODULE TokenStore -----------------------------
(***************************************************************************)
(* The tokens table under its writers: the REST endpoints of                *)
(* TokenController with TokenService, and rows inserted by hand; and its    *)
(* slow reader, the price cycle, which takes every token's symbol at its    *)
(* start and uses it as the Kafka key of the events it creates later (the   *)
(* rest of the cycle is PriceUpdate).                                       *)
(*                                                                          *)
(* A request is one SQL statement, hence one step.  A request that is       *)
(* refused, by the pipe, by an index or a key of the table, or because      *)
(* PostgreSQL does not store the value, changes nothing, and neither does   *)
(* one that only reads: they are stuttering steps, and so is every POST,    *)
(* for none is accepted (README, 7).  A database that fails has applied the *)
(* statement or not, which is the same step or none.                        *)
(*                                                                          *)
(* Abstracted: of a row only the unique symbol and priority, the column     *)
(* that decides the order of the price cycle; what requests are answered.   *)
(* Ids are never reused.                                                    *)
(***************************************************************************)
EXTENDS Integers

CONSTANTS
    Tokens,     \* ids of tokens
    Symbols,    \* values of the unique column symbol
    Priorities  \* values of priority a request may set

ASSUME PrioritiesAssumption == Priorities \subseteq Int /\ 0 \in Priorities /\ -1 \notin Priorities
ASSUME SymbolsAssumption == "unset" \notin Symbols

VARIABLES
    token,      \* token[t]: the row with id t, Absent when there is none
    snapshot,   \* snapshot[t]: the symbol the cycle in progress read for t and has yet to use
    inCycle,    \* a price cycle is in progress
    keys        \* <<Kafka key, token>> of the events the cycle has created

vars == <<token, snapshot, inCycle, keys>>

Unset == "unset"
NoPriority == -1
Absent == [symbol |-> Unset, priority |-> NoPriority]

Row == [symbol : Symbols, priority : Priorities]
Listed(t) == token[t] # Absent

TypeOK ==
    /\ token \in [Tokens -> Row \cup {Absent}]
    /\ snapshot \in [Tokens -> Symbols \cup {Unset}]
    /\ inCycle \in BOOLEAN
    /\ keys \subseteq Symbols \X Tokens

NoSymbols == [t \in Tokens |-> Unset]

Init ==
    /\ token = [t \in Tokens |-> Absent]
    /\ snapshot = NoSymbols
    /\ inCycle = FALSE
    /\ keys = {}

\* The unique index on symbol, for a row of t.
Taken(s, t) == s \in Symbols /\ \E u \in Tokens \ {t} : token[u].symbol = s

----------------------------------------------------------------------------
\* TokenController and TokenService.

\* What a PATCH may mention.
Bodies == [symbol : Symbols \cup {Unset}, priority : Priorities \cup {NoPriority}]

\* Mutant: a field that is not mentioned is written as it is.
PatchedRaw(row, body) ==
    [symbol |-> IF body.symbol = Unset THEN row.symbol ELSE body.symbol,
     priority |-> body.priority]

\* What PATCH writes.  UpdateTokenDto inherits the initial values of
\* CreateTokenDto, so a priority that is not mentioned becomes 0.
Patched(row, body) ==
    [symbol |-> IF body.symbol = Unset THEN row.symbol ELSE body.symbol,
     priority |-> IF body.priority = NoPriority THEN 0 ELSE body.priority]

\* PATCH: P2025 when the row is gone, P2002 when another row has the symbol.
Update(t, body) ==
    /\ Listed(t)
    /\ ~Taken(body.symbol, t)
    /\ token' = [token EXCEPT ![t] = Patched(@, body)]
    /\ UNCHANGED <<snapshot, inCycle, keys>>

\* DELETE.
Remove(t) ==
    /\ Listed(t)
    /\ token' = [token EXCEPT ![t] = Absent]
    /\ UNCHANGED <<snapshot, inCycle, keys>>

\* A row written past the service, as the integration test does.
Insert(t, row) ==
    /\ ~Listed(t) /\ snapshot[t] = Unset /\ t \notin {k[2] : k \in keys}
    /\ ~Taken(row.symbol, t)
    /\ token' = [token EXCEPT ![t] = row]
    /\ UNCHANGED <<snapshot, inCycle, keys>>

----------------------------------------------------------------------------
\* The price cycle, as far as symbols go.

\* findAll answers: one statement, so the symbols in it are distinct.
TokensRead ==
    /\ ~inCycle
    /\ \E t \in Tokens : Listed(t)
    /\ inCycle' = TRUE
    /\ snapshot' = [t \in Tokens |-> IF Listed(t) THEN token[t].symbol ELSE Unset]
    /\ UNCHANGED <<token, keys>>

\* Mutant: the key is the symbol of the row that the transaction returns.
AnnouncedAsNow(t) ==
    /\ snapshot[t] # Unset
    /\ snapshot' = [snapshot EXCEPT ![t] = Unset]
    /\ keys' = IF Listed(t) THEN keys \cup {<<token[t].symbol, t>>} ELSE keys
    /\ UNCHANGED <<token, inCycle>>

\* The update of t ends, with an event under the symbol the cycle has read,
\* unless the token is gone or its price has not changed enough.
Announced(t) ==
    /\ snapshot[t] # Unset
    /\ snapshot' = [snapshot EXCEPT ![t] = Unset]
    /\ \/ Listed(t) /\ keys' = keys \cup {<<snapshot[t], t>>}
       \/ UNCHANGED keys
    /\ UNCHANGED <<token, inCycle>>

CycleEnds ==
    /\ inCycle
    /\ snapshot = NoSymbols
    /\ inCycle' = FALSE
    /\ keys' = {}
    /\ UNCHANGED <<token, snapshot>>

----------------------------------------------------------------------------
Next ==
    \/ \E t \in Tokens :
         \/ \E body \in Bodies : Update(t, body)
         \/ \E row \in Row : Insert(t, row)
         \/ Remove(t)
         \/ Announced(t)
    \/ TokensRead \/ CycleEnds

Spec == Init /\ [][Next]_vars

----------------------------------------------------------------------------
\* Two tokens never share a Kafka key within one price cycle, although symbols
\* may be handed from one token to another by PATCH while the cycle runs.
KeysApartInACycle == \A j, k \in keys : j[1] = k[1] => j[2] = k[2]

============================================================================
