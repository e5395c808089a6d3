----------------------------- MODULE PriceFeed -----------------------------
(***************************************************************************)
(* What the price service promises of each token, without cycles, batches   *)
(* or transactions: the stored price and the price announced last change in *)
(* one step, from one to the other by a change worth announcing, and only   *)
(* while the token is listed.                                               *)
(***************************************************************************)
CONSTANTS
    Tokens,     \* the tokens that may ever exist
    Prices,     \* the prices there are
    NoPrice,    \* a token has no price row
    NoFeed,     \* what a token without a price is taken to have been announced at
    Changes     \* the pairs <<old, new>> of prices worth an event

VARIABLES
    token,      \* token[t]: whether t is there
    price,      \* price[t]: the stored price of t
    feed        \* feed[t]: the price of t announced last

Init ==
    /\ token = [t \in Tokens |-> "unknown"]
    /\ price = [t \in Tokens |-> NoPrice]
    /\ feed = [t \in Tokens |-> NoFeed]

\* A token is listed, with its first price or without.
List(t) ==
    /\ token[t] = "unknown"
    /\ token' = [token EXCEPT ![t] = "listed"]
    /\ \/ \E p \in Prices : /\ price' = [price EXCEPT ![t] = p]
                            /\ feed' = [feed EXCEPT ![t] = p]
       \/ UNCHANGED <<price, feed>>

\* It is removed for good, and its price with it.
Delist(t) ==
    /\ token[t] = "listed"
    /\ token' = [token EXCEPT ![t] = "removed"]
    /\ price' = [price EXCEPT ![t] = NoPrice]
    /\ UNCHANGED feed

\* Its price changes, by enough, compared with what was announced last.
Change(t) ==
    /\ token[t] = "listed"
    /\ \E p \in Prices : /\ <<feed[t], p>> \in Changes
                         /\ price' = [price EXCEPT ![t] = p]
                         /\ feed' = [feed EXCEPT ![t] = p]
    /\ UNCHANGED token

Next == \E t \in Tokens : List(t) \/ Delist(t) \/ Change(t)

Spec == Init /\ [][Next]_<<token, price, feed>>

============================================================================
