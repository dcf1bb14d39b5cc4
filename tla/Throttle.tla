------------------------------ MODULE Throttle ------------------------------
(***************************************************************************)
(* Service.throttle (internal/conversation/delivery.go) for one             *)
(* destination: callers reserve the next slot under limiterMu, wait for it  *)
(* without the lock, and give it back when their context ends first.  The   *)
(* callers are the notice loop and the turn that owns the route, whose      *)
(* preview calls end with the turn and whose lane calls end with the        *)
(* service.  Time is counted in ticks and timers fire on time.              *)
(***************************************************************************)
EXTENDS Integers, Sequences

CONSTANTS
    Callers,    \* goroutines that may call the destination
    Spacing,    \* Service.spacing
    MaxTime,    \* bound: ticks
    MaxCalls,   \* bound: dispatched calls
    MaxGiveUps  \* bound: waits cut short

ASSUME ThrottleAssumption == Spacing \in Nat \ {0}

VARIABLES
    now,
    last,    \* limiterLast[dest]; a negative time stands for the zero time
    wait,    \* caller -> [on, slot, mine]: the slot it waits for, the last it saw
    sent,    \* times of the platform calls, in their order
    gaveUps  \* waits cut short so far

throttleVars == <<now, last, wait, sent, gaveUps>>

NotWaiting == [on |-> FALSE, slot |-> 0, mine |-> 0]

ThrottleTypeOK ==
    /\ now \in Nat /\ last \in Int
    /\ wait \in [Callers -> [on : BOOLEAN, slot : Int, mine : Int]]
    /\ sent \in Seq(Int) /\ gaveUps \in Nat
    /\ \A c \in Callers : wait[c].on => now <= wait[c].slot

(* The slot behind the last one is taken, and waited for.                   *)
Reserve(c) ==
    /\ wait' = [wait EXCEPT ![c] = [on |-> TRUE, slot |-> last + Spacing, mine |-> last]]
    /\ last' = last + Spacing
    /\ UNCHANGED sent

(* Faulty pass: a call that need not wait is not remembered.                *)
PassUnrecorded ==
    /\ sent' = Append(sent, now)
    /\ UNCHANGED <<last, wait>>

(* The last call is long enough ago.                                        *)
PassNow ==
    /\ last' = now
    /\ sent' = Append(sent, now)
    /\ UNCHANGED wait

Call(c) ==
    /\ ~wait[c].on /\ Len(sent) < MaxCalls
    /\ IF last + Spacing > now THEN Reserve(c) ELSE PassNow
    /\ UNCHANGED <<now, gaveUps>>

(* The wait is over: the platform is called.                                *)
Dispatch(c) ==
    /\ wait[c].on /\ now = wait[c].slot
    /\ sent' = Append(sent, now)
    /\ wait' = [wait EXCEPT ![c] = NotWaiting]
    /\ UNCHANGED <<now, last, gaveUps>>

(* The context ends first: the caller restores what it found.               *)
GiveUp(c) ==
    /\ wait[c].on /\ gaveUps < MaxGiveUps
    /\ last' = wait[c].mine
    /\ wait' = [wait EXCEPT ![c] = NotWaiting]
    /\ gaveUps' = gaveUps + 1
    /\ UNCHANGED <<now, sent>>

(* Time passes while no timer is due.                                       *)
Tick ==
    /\ now < MaxTime
    /\ \A c \in Callers : wait[c].on => now < wait[c].slot
    /\ now' = now + 1
    /\ UNCHANGED <<last, wait, sent, gaveUps>>

ThrottleInit ==
    /\ now = 0 /\ last = -Spacing /\ gaveUps = 0
    /\ wait = [c \in Callers |-> NotWaiting]
    /\ sent = <<>>

ThrottleNext == Tick \/ \E c \in Callers : Call(c) \/ Dispatch(c) \/ GiveUp(c)

ThrottleSpec == ThrottleInit /\ [][ThrottleNext]_throttleVars

-----------------------------------------------------------------------------
(* As long as no wait was cut short, consecutive calls are Spacing apart,   *)
(* however the callers interleave (delivery.go: throttle).                  *)
SpacedUntilGiveUp ==
    gaveUps = 0 => \A i \in 1 .. Len(sent) - 1 : sent[i + 1] - sent[i] >= Spacing

(* What giving a slot back costs: each wait cut short lets at most one more *)
(* call into a window of Spacing.                                           *)
CrowdingBounded ==
    \A i \in 1 .. Len(sent) - 1 - gaveUps : sent[i + 1 + gaveUps] - sent[i] >= Spacing

(* "throttle enforces the minimum spacing between platform calls per        *)
(* destination" (delivery.go, on throttle).                                 *)
(* It does not hold: a slot given back is taken twice.                      *)
SpacingEnforced ==
    \A i \in 1 .. Len(sent) - 1 : sent[i + 1] - sent[i] >= Spacing
=============================================================================
