-------------------------------- MODULE Intake --------------------------------
(***************************************************************************)
(* What the platform adapters promise the rest of the service: a message    *)
(* that is to be run becomes one inbox item on one route, however often its *)
(* event arrives; the platform is told that it need not deliver an event    *)
(* again only when the item is durable, or when there is nothing to run;    *)
(* and the sender gets at most one notice about it.                         *)
(***************************************************************************)
EXTENDS Integers

CONSTANTS
    Msgs,      \* platform messages
    Runnable,  \* those that pass the adapter's filters
    Routes     \* conversations they can be filed under

VARIABLES
    recorded,  \* pairs <<message, route>>: the inbox items
    settled,   \* messages the platform will not deliver again
    notices    \* message -> notices queued for its sender

vars == <<recorded, settled, notices>>

Durable(m) == \E r \in Routes : <<m, r>> \in recorded

Record(m, r) ==
    /\ m \in Runnable /\ ~Durable(m)
    /\ recorded' = recorded \cup {<<m, r>>}
    /\ UNCHANGED <<settled, notices>>

Settle(m) ==
    /\ m \in Runnable => Durable(m)
    /\ settled' = settled \cup {m}
    /\ UNCHANGED <<recorded, notices>>

Tell(m) ==
    /\ Durable(m) /\ notices[m] = 0
    /\ notices' = [notices EXCEPT ![m] = 1]
    /\ UNCHANGED <<recorded, settled>>

Init == recorded = {} /\ settled = {} /\ notices = [m \in Msgs |-> 0]

Next == \E m \in Msgs : Settle(m) \/ Tell(m) \/ \E r \in Routes : Record(m, r)

Spec == Init /\ [][Next]_vars
=============================================================================
