---------------------------- MODULE AtLeastOnce ----------------------------
(***************************************************************************)
(* What a transactional outbox promises of each event, without saying how:  *)
(* it is sent at least once before it counts as published, at most MaxSends *)
(* times in all, and never again once it is published, abandoned or lost.   *)
(* Every event goes its own way, and several may take a step at once.       *)
(***************************************************************************)
EXTENDS Naturals

CONSTANTS
    Events,     \* the events that may ever be created
    MaxSends    \* how often one event may reach the topic

VARIABLES
    phase,      \* phase[e]: what has become of e
    sends       \* sends[e]: how often e has reached the topic

Phases == {"absent", "open", "published", "abandoned", "lost"}

Init ==
    /\ phase = [e \in Events |-> "absent"]
    /\ sends = [e \in Events |-> 0]

Move(e, from, to) == phase[e] = from /\ phase'[e] = to

Rest(e) == phase'[e] = phase[e] /\ sends'[e] = sends[e]

Create(e) == Move(e, "absent", "open") /\ sends'[e] = sends[e]

Send(e) ==
    /\ Move(e, "open", "open")
    /\ sends[e] < MaxSends
    /\ sends'[e] = sends[e] + 1

Publish(e) == Move(e, "open", "published") /\ sends[e] > 0 /\ sends'[e] = sends[e]

GiveUp(e) == Move(e, "open", "abandoned") /\ sends'[e] = sends[e]

Lose(e) == Move(e, "open", "lost") /\ sends'[e] = sends[e]

Next ==
    /\ phase' \in [Events -> Phases]
    /\ sends' \in [Events -> Nat]
    /\ \A e \in Events :
         Rest(e) \/ Create(e) \/ Send(e) \/ Publish(e) \/ GiveUp(e) \/ Lose(e)

Spec == Init /\ [][Next]_<<phase, sends>>

============================================================================
