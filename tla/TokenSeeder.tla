----------------------------- MODULE TokenSeeder -----------------------------
(***************************************************************************)
(* The seed script: it counts the tokens and, when there are none, inserts  *)
(* its own rows in one transaction.                                         *)
(*                                                                          *)
(* Abstracted: of the rows only the unique address of the tokens, the       *)
(* column that decides how the transaction ends; runs that overlap, since   *)
(* each fails on its own rows whatever the others do.                       *)
(***************************************************************************)
EXTENDS Integers

CONSTANT Env    \* {"db"} when calls of the database may throw, or {}

VARIABLES
    occupied,   \* the tokens table has rows
    seeder      \* where the script is: "idle", "counting", "seeding", "done" or "failed"

vars == <<occupied, seeder>>

Init ==
    /\ occupied = FALSE
    /\ seeder = "idle"

SeedTokens == 1..3

\* Buffer.from(text, "hex") stops at the first character that is no hex digit;
\* in "0x..." that is the second, and half a byte is dropped.
FromHex(text) == IF text.prefix = "0x" THEN "" ELSE text.digits

SeedAddress(i) == FromHex([prefix |-> "0x", digits |-> i])

DatabaseThrows == "db" \in Env

----------------------------------------------------------------------------
\* Somebody else writes tokens or removes them.
Others ==
    /\ occupied' = ~occupied
    /\ UNCHANGED seeder

Seed ==
    /\ seeder = "idle"
    /\ seeder' = "counting"
    /\ UNCHANGED occupied

\* token.count() answers; with tokens in the table there is nothing to do.
Counted ==
    /\ seeder = "counting"
    /\ \/ seeder' = IF occupied THEN "done" ELSE "seeding"
       \/ DatabaseThrows /\ seeder' = "failed"
    /\ UNCHANGED occupied

\* An insert violates the index on the address, or a call throws: the
\* transaction is rolled back and seed() rejects.
RolledBack ==
    /\ seeder = "seeding"
    /\ DatabaseThrows \/ \E i, j \in SeedTokens : i # j /\ SeedAddress(i) = SeedAddress(j)
    /\ seeder' = "failed"
    /\ UNCHANGED occupied

\* The transaction commits, which takes three addresses.
Committed ==
    /\ seeder = "seeding"
    /\ \A i, j \in SeedTokens : i # j => SeedAddress(i) # SeedAddress(j)
    /\ occupied' = TRUE
    /\ seeder' = "done"

\* process.exit(0) or process.exit(1); the script may be run again.
Exit ==
    /\ seeder \in {"done", "failed"}
    /\ seeder' = "idle"
    /\ UNCHANGED occupied

Next == Others \/ Seed \/ Counted \/ RolledBack \/ Committed \/ Exit

Spec == Init /\ [][Next]_vars

----------------------------------------------------------------------------
\* A run of the seed script on an empty database plants its tokens.
SeedSucceeds == seeder # "failed"

=============================================================================
