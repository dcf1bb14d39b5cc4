----------------------------- MODULE Conversation -----------------------------
(***************************************************************************)
(* What the users of a conversation are promised: a prompt takes its place  *)
(* behind the ones before it, or is turned away at once; the prompts of a   *)
(* conversation are answered one at a time and in their order; each ends    *)
(* once, answered, declined or withdrawn, and stays so.  HostStore is shown *)
(* to implement it, and with it RouteRunner and DeliveryLane.               *)
(***************************************************************************)
EXTENDS Integers

CONSTANTS
    Prompts,  \* platform messages
    Routes    \* conversations

VARIABLES
    place,    \* prompt -> [route, seq]
    phase     \* prompt -> "waiting", "answering", "answered", "declined", "withdrawn"

vars == <<place, phase>>

Earlier(p, q) == place[p].route = place[q].route /\ place[p].seq < place[q].seq

Arrive(p, r, to) ==
    LET arrived == DOMAIN place \cup {p}
    IN  /\ p \notin DOMAIN place
        /\ DOMAIN place' = arrived /\ \A q \in DOMAIN place : place'[q] = place[q]
        /\ place'[p].route = r
        /\ \A q \in DOMAIN place : place[q].route = r => place[q].seq < place'[p].seq
        /\ phase' = [q \in arrived |-> IF q = p THEN to ELSE phase[q]]

Accept(p, r) == Arrive(p, r, "waiting")
TurnAway(p, r) == Arrive(p, r, "declined")

Become(S, to) ==
    /\ phase' = [p \in DOMAIN phase |-> IF p \in S THEN to ELSE phase[p]]
    /\ UNCHANGED place

(* The first prompt that is not over is taken up when nothing is before it. *)
Begin(p) ==
    /\ phase[p] = "waiting"
    /\ \A q \in DOMAIN phase :
         q # p /\ phase[q] \in {"waiting", "answering"} /\ place[q].route = place[p].route
         => Earlier(p, q)
    /\ Become({p}, "answering")

Answer(p) == phase[p] = "answering" /\ Become({p}, "answered")
Decline(p) == phase[p] \in {"waiting", "answering"} /\ Become({p}, "declined")

(* A stop withdraws waiting prompts together, or the one being taken up.    *)
Withdraw(S) ==
    /\ \A p \in S : phase[p] = "waiting"
    /\ \A p, q \in S : place[p].route = place[q].route
    /\ Become(S, "withdrawn")

GiveUp(p) == phase[p] = "answering" /\ Become({p}, "withdrawn")

Init == place = [p \in {} |-> 0] /\ phase = [p \in {} |-> "waiting"]

Next ==
    \/ \E p \in Prompts, r \in Routes : Accept(p, r) \/ TurnAway(p, r)
    \/ \E p \in DOMAIN phase : Begin(p) \/ Answer(p) \/ Decline(p) \/ GiveUp(p)
    \/ \E S \in SUBSET DOMAIN phase : Withdraw(S)

Spec == Init /\ [][Next]_vars
=============================================================================
