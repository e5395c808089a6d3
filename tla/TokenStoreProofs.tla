-------------------------- MODULE TokenStoreProofs --------------------------
(***************************************************************************)
(* Proofs about TokenStore, for every set of tokens, symbols and            *)
(* priorities, and any order of requests, inserts and cycles.               *)
(***************************************************************************)
EXTENDS TokenStore, TLAPS

----------------------------------------------------------------------------
\* The rows and the keys.

TableOK ==
    /\ token \in [Tokens -> Row \cup {Absent}]
    /\ snapshot \in [Tokens -> Symbols \cup {Unset}]
    /\ keys \subseteq Symbols \X Tokens

\* The unique index: no two rows have one symbol.
IndexInv ==
    \A t, u \in Tokens :
        token[t].symbol = token[u].symbol /\ token[t].symbol \in Symbols => t = u

\* What the cycle has read is as distinct as the rows were, and each token has
\* either been announced or is still to come.
CycleInv ==
    /\ \A t, u \in Tokens : snapshot[t] = snapshot[u] /\ snapshot[t] # Unset => t = u
    /\ \A t \in Tokens : \A k \in keys : snapshot[t] # k[1] /\ (k[2] = t => snapshot[t] = Unset)
    /\ ~inCycle => keys = {} /\ \A t \in Tokens : snapshot[t] = Unset
    /\ KeysApartInACycle

KeyInv == TableOK /\ IndexInv /\ CycleInv

LEMMA RowSymbol ==
  /\ Absent.symbol = Unset /\ Unset \notin Symbols
  /\ \A row \in Row : row.symbol \in Symbols /\ row.priority \in Priorities /\ row # Absent
<1>1. Absent.symbol = Unset /\ Unset \notin Symbols
  BY SymbolsAssumption DEF Absent, Unset
<1>2. ASSUME NEW row \in Row PROVE row.symbol \in Symbols /\ row.priority \in Priorities
  BY <1>2 DEF Row
<1> QED
  BY <1>1, <1>2

LEMMA PatchedRow ==
  ASSUME NEW row \in Row, NEW body \in Bodies
  PROVE  /\ Patched(row, body) \in Row
         /\ Patched(row, body).symbol = IF body.symbol = Unset THEN row.symbol ELSE body.symbol
  BY PrioritiesAssumption DEF Row, Bodies, Patched, NoPriority, Unset

\* A table in which one row was written, with a symbol no other row has.
LEMMA OneRowWritten ==
  ASSUME TableOK, IndexInv, NEW t \in Tokens, NEW row \in Row \cup {Absent},
         token' = [token EXCEPT ![t] = row],
         \A u \in Tokens \ {t} : row.symbol \in Symbols => token[u].symbol # row.symbol
  PROVE  token' \in [Tokens -> Row \cup {Absent}] /\ IndexInv'
<1>1. token' \in [Tokens -> Row \cup {Absent}]
  BY DEF TableOK
<1>2. token'[t] = row /\ \A u \in Tokens \ {t} : token'[u] = token[u]
  BY DEF TableOK
<1>3. IndexInv'
  BY <1>2 DEF IndexInv
<1> QED
  BY <1>1, <1>3

\* The requests and the inserts keep the index.
LEMMA WritesKeepIndex ==
  ASSUME TableOK, IndexInv, NEW t \in Tokens,
         \/ \E body \in Bodies : Update(t, body)
         \/ \E row \in Row : Insert(t, row)
         \/ Remove(t)
  PROVE  token' \in [Tokens -> Row \cup {Absent}] /\ IndexInv'
<1>1. ASSUME NEW body \in Bodies, Update(t, body)
      PROVE  token' \in [Tokens -> Row \cup {Absent}] /\ IndexInv'
  <2>1. Listed(t) /\ ~Taken(body.symbol, t)
    BY <1>1 DEF Update
  <2>2. token[t] \in Row
    BY <2>1 DEF Listed, TableOK
  <2>3. token' = [token EXCEPT ![t] = Patched(token[t], body)]
    BY <1>1 DEF Update, TableOK
  <2>4. ASSUME NEW u \in Tokens \ {t} PROVE token[u].symbol # Patched(token[t], body).symbol
    <3>1. CASE body.symbol = Unset
      BY <2>2, <3>1, PatchedRow, RowSymbol DEF IndexInv
    <3>2. CASE body.symbol # Unset
      <4>1. body.symbol \in Symbols
        BY <3>2 DEF Bodies
      <4> QED
        BY <2>1, <2>2, <3>2, <4>1, PatchedRow DEF Taken
    <3> QED
      BY <3>1, <3>2
  <2>5. PICK row \in Row : row = Patched(token[t], body)
    BY <2>2, PatchedRow
  <2> QED
    BY <2>3, <2>4, <2>5, OneRowWritten
<1>2. CASE Remove(t)
  BY <1>2, RowSymbol, OneRowWritten DEF Remove
<1>3. ASSUME NEW row \in Row, Insert(t, row)
      PROVE  token' \in [Tokens -> Row \cup {Absent}] /\ IndexInv'
  BY <1>3, RowSymbol, OneRowWritten DEF Insert, Taken
<1> QED
  BY <1>1, <1>2, <1>3

\* Outside the cycle nothing touches what it has read and announced.
LEMMA CycleRests ==
  ASSUME CycleInv, UNCHANGED <<snapshot, inCycle, keys>>
  PROVE  CycleInv'
  BY DEF CycleInv, KeysApartInACycle

\* What the cycle reads, announces and forgets.
LEMMA CycleKept ==
  ASSUME TableOK, IndexInv, CycleInv,
         TokensRead \/ CycleEnds \/ \E t \in Tokens : Announced(t)
  PROVE  /\ snapshot' \in [Tokens -> Symbols \cup {Unset}]
         /\ keys' \subseteq Symbols \X Tokens
         /\ CycleInv'
<1>1. CASE TokensRead
  <2>1. keys' = {} /\ keys = {} /\ inCycle'
    BY <1>1 DEF TokensRead, CycleInv
  <2>2. \A t \in Tokens : snapshot'[t] = IF Listed(t) THEN token[t].symbol ELSE Unset
    BY <1>1 DEF TokensRead
  <2>3. \A t \in Tokens : Listed(t) => token[t].symbol \in Symbols
    BY RowSymbol DEF Listed, TableOK
  <2>4. snapshot' \in [Tokens -> Symbols \cup {Unset}]
    BY <1>1, <2>3 DEF TokensRead
  <2>5. \A t, u \in Tokens : snapshot'[t] = snapshot'[u] /\ snapshot'[t] # Unset => t = u
    BY <2>2, <2>3 DEF IndexInv
  <2> QED
    BY <2>1, <2>4, <2>5 DEF CycleInv, KeysApartInACycle
<1>2. CASE CycleEnds
  <2>1. keys' = {} /\ UNCHANGED snapshot /\ snapshot = NoSymbols
    BY <1>2 DEF CycleEnds
  <2>2. \A t \in Tokens : snapshot'[t] = Unset
    BY <2>1 DEF NoSymbols
  <2> QED
    BY <2>1, <2>2 DEF CycleInv, KeysApartInACycle, TableOK
<1>3. ASSUME NEW t \in Tokens, Announced(t)
      PROVE  /\ snapshot' \in [Tokens -> Symbols \cup {Unset}]
             /\ keys' \subseteq Symbols \X Tokens
             /\ CycleInv'
  <2>1. /\ snapshot[t] # Unset /\ snapshot[t] \in Symbols
        /\ snapshot' \in [Tokens -> Symbols \cup {Unset}]
        /\ snapshot'[t] = Unset /\ \A u \in Tokens \ {t} : snapshot'[u] = snapshot[u]
        /\ keys' = keys \/ keys' = keys \cup {<<snapshot[t], t>>}
        /\ UNCHANGED inCycle
    BY <1>3 DEF Announced, TableOK
  <2>2. keys' \subseteq Symbols \X Tokens
    BY <2>1 DEF TableOK
  <2>3. inCycle
    BY <1>3 DEF Announced, CycleInv
  <2>4. \A u, v \in Tokens : snapshot'[u] = snapshot'[v] /\ snapshot'[u] # Unset => u = v
    BY <2>1 DEF CycleInv
  <2>5. ASSUME NEW u \in Tokens, NEW k \in keys'
        PROVE  snapshot'[u] # k[1] /\ (k[2] = u => snapshot'[u] = Unset)
    <3>1. k \in keys \/ k = <<snapshot[t], t>>
      BY <2>1
    <3>2. CASE k \in keys
      BY <2>1, <2>2, <3>2, RowSymbol DEF CycleInv
    <3>3. CASE k = <<snapshot[t], t>>
      BY <2>1, <3>3 DEF CycleInv
    <3> QED
      BY <3>1, <3>2, <3>3
  <2>6. KeysApartInACycle'
    BY <2>1 DEF CycleInv, KeysApartInACycle
  <2> QED
    BY <2>1, <2>2, <2>3, <2>4, <2>5, <2>6 DEF CycleInv
<1> QED
  BY <1>1, <1>2, <1>3

LEMMA InitKey == Init => KeyInv
<1> SUFFICES ASSUME Init PROVE KeyInv
  OBVIOUS
<1>1. \A t \in Tokens : token[t] = Absent /\ snapshot[t] = Unset
  BY DEF Init, NoSymbols
<1>2. TableOK
  BY DEF Init, NoSymbols, TableOK
<1> QED
  BY <1>1, <1>2, RowSymbol DEF Init, KeyInv, IndexInv, CycleInv, KeysApartInACycle

LEMMA NextKey == KeyInv /\ [Next]_vars => KeyInv'
<1> SUFFICES ASSUME KeyInv, [Next]_vars PROVE KeyInv'
  OBVIOUS
<1>1. CASE \E t \in Tokens : \/ \E body \in Bodies : Update(t, body)
                             \/ \E row \in Row : Insert(t, row)
                             \/ Remove(t)
  <2>1. UNCHANGED <<snapshot, inCycle, keys>>
    BY <1>1 DEF Update, Insert, Remove
  <2> QED
    BY <1>1, <2>1, WritesKeepIndex, CycleRests DEF KeyInv, TableOK
<1>2. CASE TokensRead \/ CycleEnds \/ \E t \in Tokens : Announced(t)
  <2>1. UNCHANGED token
    BY <1>2 DEF TokensRead, CycleEnds, Announced
  <2> QED
    BY <1>2, <2>1, CycleKept DEF KeyInv, TableOK, IndexInv
<1>3. ASSUME UNCHANGED <<token, snapshot, inCycle, keys>> PROVE KeyInv'
  BY <1>3, CycleRests DEF KeyInv, TableOK, IndexInv
<1> QED
  BY <1>1, <1>2, <1>3 DEF Next, vars

\* Within a cycle no two tokens share a Kafka key, however symbols change hands.
THEOREM KeysStayApart == Spec => []KeysApartInACycle
<1>1. KeyInv => KeysApartInACycle
  BY DEF KeyInv, CycleInv
<1> QED
  BY <1>1, InitKey, NextKey, PTL DEF Spec

----------------------------------------------------------------------------
\* Type correctness, from the parts above.

LEMMA NextInCycle == inCycle \in BOOLEAN /\ [Next]_vars => (inCycle \in BOOLEAN)'
<1> SUFFICES ASSUME inCycle \in BOOLEAN, [Next]_vars PROVE inCycle' \in BOOLEAN
  OBVIOUS
<1>1. CASE TokensRead \/ CycleEnds
  BY <1>1 DEF TokensRead, CycleEnds
<1>2. CASE UNCHANGED inCycle
  BY <1>2
<1> QED
  BY <1>1, <1>2 DEF Next, Update, Insert, Remove, Announced, vars

\* Whatever is requested, every row has a symbol and a priority of its own, or is
\* absent, and what the cycle has read and announced are symbols.
THEOREM TypeCorrect == Spec => []TypeOK
<1>1. Init => inCycle \in BOOLEAN
  BY Zenon DEF Init
<1>2. KeyInv /\ inCycle \in BOOLEAN => TypeOK
  BY DEF KeyInv, TableOK, TypeOK
<1> QED
  BY <1>1, <1>2, InitKey, NextKey, NextInCycle, PTL DEF Spec

============================================================================
