-------------------------- MODULE ProjectionProofs --------------------------
(***************************************************************************)
(* The end of a turn, for every output cap, preview size, number of         *)
(* resubscriptions and text.  The inductive invariant follows what the four *)
(* goroutines share: which subscriptions each place of consume leaves open, *)
(* how much of the run's text each copy of it may hold, which reason is on  *)
(* record before a run can be interrupted for it, and when the result that  *)
(* the runner waited for is the run's.                                      *)
(***************************************************************************)
EXTENDS Projection, TLAPS

Statuses == {"running"} \cup Ended
Consuming == {"read", "cut", "watch", "swap", "close"}

ProjectionTyped ==
    /\ run \in [status: Statuses, text: Nat, sent: Nat]
    /\ cause \in {"none", "limit", "stop", "shutdown"}
    /\ turn \in {"wait", "cancel", "close", "join", "compose", "mark", "planned", "parked"}
    /\ consumer \in Consuming \cup {"gone"} /\ flusher \in {"plan", "tick", "edit", "gone"}
    /\ sub \in Nat /\ held \in Nat /\ resyncs \in Nat /\ open \subseteq Nat
    /\ live \in Nat /\ lastSeen \in Nat /\ editing \in Nat /\ shown \in Nat
    /\ dirty \in BOOLEAN /\ limit \in BOOLEAN /\ stopFlag \in BOOLEAN
    /\ canceled \in BOOLEAN /\ shutdown \in BOOLEAN

(* The turn is past stop(): both loops are gone.                            *)
Joined == turn \in {"compose", "mark", "planned", "parked"}
Composed == turn \in {"mark", "planned", "parked"}

(* Only the current subscription is open, but for the moments in which a    *)
(* fresh one replaces it; numbers tell which one is newer.                  *)
Subscribed ==
    /\ consumer \in {"read", "cut", "close"} => sub = resyncs + 1
    /\ consumer \in {"watch", "swap"} => sub = resyncs
    /\ consumer \in {"read", "cut", "watch", "gone"} => open \subseteq {sub}
    /\ consumer = "swap" => open \subseteq {sub, sub + 1}
    /\ consumer = "close" => open \subseteq {resyncs, sub}

(* stop() has closed the one it had read; if that is not the current one,   *)
(* the current one is newer.                                                *)
Stopping ==
    /\ turn # "wait" /\ turn # "cancel" => held <= sub
    /\ turn = "join" \/ Joined => held \notin open
    /\ Joined => consumer = "gone" /\ flusher = "gone" /\ open = {}

(* What has been seen was sent, and what is shown was seen.                 *)
TextsOK ==
    /\ lastSeen <= run.sent /\ run.sent <= run.text /\ live <= lastSeen
    /\ editing <= lastSeen /\ editing <= PreviewUnits
    /\ shown <= lastSeen /\ shown <= PreviewUnits

(* A reason is on record before the run is interrupted for it.              *)
ReasonsOK ==
    /\ consumer = "cut" \/ cause = "limit" => limit
    /\ ~Composed /\ (stopper = "flagged" \/ cause = "stop") => stopFlag

(* The result is the run's unless a shutdown did not wait for it.           *)
ResultOK ==
    /\ turn # "wait" => result \in Ended
    /\ turn # "wait" /\ (~shutdown \/ result # "interrupted") => run.status = result

(* An answer from the run's text was composed after the end of the run.     *)
AnswerOK ==
    Composed /\ answer.label # "unavailable" =>
        /\ run.status = result
        /\ answer.label = "whole" => run.status = "completed" /\ answer.text = run.text
        /\ result = "interrupted" =>
              /\ answer.text = Lesser(lastSeen, MaxOutput)
              /\ cause = "limit" => answer.label = "limit"
              /\ cause = "stop" => answer.label \in {"stopped", "limit"}

PlannedOK == turn = "planned" => run.status = result

ProjectionInv ==
    /\ ProjectionTyped /\ Subscribed /\ Stopping /\ TextsOK
    /\ ReasonsOK /\ ResultOK /\ AnswerOK /\ PlannedOK

LEMMA InitProjectionInv == Init => ProjectionInv
<1> SUFFICES ASSUME Init PROVE ProjectionInv
  OBVIOUS
<1>1. ProjectionTyped
  <2>1. run \in [status: Statuses, text: Nat, sent: Nat] /\ sub \in Nat /\ open \subseteq Nat
    BY DEF Init, Statuses
  <2>2. consumer \in Consuming \cup {"gone"} /\ flusher \in {"plan", "tick", "edit", "gone"}
    BY DEF Init, Consuming
  <2> QED BY <2>1, <2>2 DEF Init, ProjectionTyped
<1>2. Subscribed /\ Stopping
  BY DEF Init, Subscribed, Stopping, Joined
<1>3. TextsOK
  BY ProjectionAssumption DEF Init, TextsOK
<1>4. ReasonsOK /\ ResultOK /\ AnswerOK /\ PlannedOK
  BY DEF Init, ReasonsOK, ResultOK, AnswerOK, PlannedOK, Composed, Blank
<1> QED BY <1>1, <1>2, <1>3, <1>4 DEF ProjectionInv

-----------------------------------------------------------------------------
(* The run streams, and the watch service delivers.                         *)
LEMMA RunSteps ==
    ASSUME ProjectionInv, Stream \/ RunEnds
    PROVE  ProjectionInv'
<1>1. CASE Stream
  <2>1. PICK n \in run.text + 1 .. MaxText : run' = [run EXCEPT !.text = n]
    BY <1>1 DEF Stream
  <2>2. run.status = "running" /\ run'.status = "running"
    BY <1>1, <2>1 DEF Stream, ProjectionInv, ProjectionTyped
  <2>3. run'.text = n /\ run'.sent = run.sent /\ run.text <= n /\ n \in Nat
    BY <2>1, ProjectionAssumption DEF ProjectionInv, ProjectionTyped
  <2>4. ProjectionTyped'
    BY <1>1, <2>1, <2>3 DEF Stream, ProjectionInv, ProjectionTyped, consumerVars, textVars, flushVars, turnVars, stopVars
  <2>5. Subscribed' /\ Stopping' /\ ReasonsOK'
    BY <1>1 DEF Stream, ProjectionInv, Subscribed, Stopping, ReasonsOK, Joined, Composed, consumerVars, textVars, flushVars, turnVars, stopVars
  <2>6. TextsOK'
    BY <1>1, <2>3 DEF Stream, ProjectionInv, ProjectionTyped, TextsOK, consumerVars, textVars, flushVars, turnVars, stopVars
  <2>7. ResultOK' /\ AnswerOK' /\ PlannedOK'
    BY <1>1, <2>2, <2>3 DEF Stream, ProjectionInv, ResultOK, AnswerOK, PlannedOK, Ended, Joined, Composed, consumerVars, textVars, flushVars, turnVars, stopVars
  <2> QED BY <2>4, <2>5, <2>6, <2>7 DEF ProjectionInv
<1>2. CASE RunEnds
  <2>1. PICK s \in Ended : run' = [run EXCEPT !.status = s]
    BY <1>2 DEF RunEnds
  <2>2. run.status = "running"
    BY <1>2 DEF RunEnds
  <2>3. run'.text = run.text /\ run'.sent = run.sent /\ run' \in [status: Statuses, text: Nat, sent: Nat]
    BY <2>1 DEF ProjectionInv, ProjectionTyped, Statuses
  <2> QED
    BY <1>2, <2>2, <2>3 DEF RunEnds, ProjectionInv, ProjectionTyped, Subscribed, Stopping, TextsOK,
       ReasonsOK, ResultOK, AnswerOK, PlannedOK, Joined, Composed, Ended, consumerVars, textVars, flushVars, turnVars, stopVars
<1> QED BY <1>1, <1>2

-----------------------------------------------------------------------------
(* consume.  While it reads, the turn is not past the join.                 *)
LEMMA SetLiveKeeps ==
    ASSUME ProjectionInv, consumer = "read", NEW n \in Nat, SetLive(n),
           NEW sent \in Nat, run.sent <= sent, n <= sent, sent <= run.text,
           run' = [run EXCEPT !.sent = sent], n = 0 \/ n = sent,
           UNCHANGED <<cause, sub, resyncs, open, flushVars, turnVars, stopVars, shutdown>>
    PROVE  ProjectionInv'
<1>1. consumer' \in {"read", "cut"} /\ limit' \in BOOLEAN /\ (limit => limit')
      /\ (consumer' = "cut" => limit')
  BY DEF SetLive, ProjectionInv, ProjectionTyped
<1>2. /\ live' \in Nat /\ lastSeen' \in Nat /\ dirty' \in BOOLEAN
      /\ lastSeen <= lastSeen' /\ live' <= lastSeen' /\ lastSeen' <= sent
  <2>1. /\ live \in Nat /\ lastSeen \in Nat /\ dirty \in BOOLEAN /\ run.sent \in Nat
        /\ live <= lastSeen /\ lastSeen <= run.sent
    BY DEF ProjectionInv, ProjectionTyped, TextsOK
  <2>2. CASE UNCHANGED <<live, lastSeen, dirty>>
    BY <2>1, <2>2
  <2>3. CASE /\ live' = n /\ dirty' = (dirty \/ n # live)
             /\ lastSeen' = IF n # 0 THEN n ELSE lastSeen
    <3>1. dirty' \in BOOLEAN
      BY <2>3
    <3>2. lastSeen' = n \/ (lastSeen' = lastSeen /\ n = 0)
      BY <2>3
    <3>3. n # 0 => lastSeen <= n
      BY <2>1
    <3> QED BY <2>1, <2>3, <3>1, <3>2, <3>3
  <2> QED BY <2>2, <2>3 DEF SetLive
<1>3. run'.sent = sent /\ run'.text = run.text /\ run'.status = run.status
      /\ run' \in [status: Statuses, text: Nat, sent: Nat]
  BY DEF ProjectionInv, ProjectionTyped
<1>4. ProjectionTyped'
  BY <1>1, <1>2, <1>3 DEF ProjectionInv, ProjectionTyped, Consuming, flushVars, turnVars, stopVars
<1>5. Subscribed' /\ Stopping'
  BY <1>1 DEF ProjectionInv, Subscribed, Stopping, Joined, flushVars, turnVars
<1>6. TextsOK'
  BY <1>2, <1>3, ProjectionAssumption DEF ProjectionInv, ProjectionTyped, TextsOK, flushVars
<1>7. ReasonsOK' /\ ResultOK' /\ AnswerOK' /\ PlannedOK'
  BY <1>1, <1>3 DEF ProjectionInv, ReasonsOK, ResultOK, AnswerOK, PlannedOK, Stopping, Joined,
                    Composed, turnVars, stopVars
<1> QED BY <1>4, <1>5, <1>6, <1>7 DEF ProjectionInv

(* Subscriptions are opened, swapped in and closed.                         *)
LEMMA Resubscribes ==
    ASSUME ProjectionInv, Rewatch \/ CloseOld
    PROVE  ProjectionInv'
<1>1. open' \subseteq Nat /\ consumer' \in Consuming \cup {"gone"}
  <2>1. CASE Rewatch
    <3>1. resyncs + 1 \in Nat /\ open \subseteq Nat
      BY DEF ProjectionInv, ProjectionTyped
    <3> QED BY <2>1, <3>1 DEF Rewatch, Consuming
  <2>2. CASE CloseOld
    BY <2>2 DEF CloseOld, ProjectionInv, ProjectionTyped, Consuming
  <2> QED BY <2>1, <2>2
<1>2. consumer \in {"watch", "close"} /\ consumer' \in {"swap", "read", "gone"}
  BY DEF Rewatch, CloseOld
<1>3. Subscribed'
  BY <1>1 DEF Rewatch, CloseOld, ProjectionInv, ProjectionTyped, Subscribed
<1>4. Stopping'
  BY <1>1 DEF Rewatch, CloseOld, ProjectionInv, ProjectionTyped, Subscribed, Stopping, Joined,
              flushVars, turnVars
<1> QED
  BY <1>1, <1>2, <1>3, <1>4
     DEF Rewatch, CloseOld, ProjectionInv, ProjectionTyped, TextsOK, ReasonsOK, ResultOK,
         AnswerOK, PlannedOK, Composed, runVars, textVars, flushVars, turnVars, stopVars

LEMMA ConsumerSteps ==
    ASSUME ProjectionInv, ConsumerStep \/ NextFails
    PROVE  ProjectionInv'
<1>1. CASE SeeText
  <2>1. PICK n \in {m \in run.sent .. run.text : m > 0} :
            SetLive(n) /\ run' = [run EXCEPT !.sent = n]
    BY <1>1 DEF SeeText
  <2>2. n \in Nat /\ run.sent <= n /\ n <= run.text
    BY <2>1 DEF ProjectionInv, ProjectionTyped
  <2> QED BY <1>1, <2>1, <2>2, SetLiveKeeps DEF SeeText
<1>2. CASE LoseLive
  <2>1. /\ run' = [run EXCEPT !.sent = run.sent]
        /\ run.sent \in Nat /\ run.sent <= run.text /\ 0 <= run.sent
    BY <1>2 DEF LoseLive, runVars, ProjectionInv, ProjectionTyped, TextsOK
  <2>2. run.sent <= run.sent /\ 0 \in Nat
    BY <2>1
  <2> QED BY <1>2, <2>1, <2>2, SetLiveKeeps DEF LoseLive, runVars
<1>3. CASE Rewatch \/ CloseOld
  BY <1>3, Resubscribes
<1>4. CASE SeeEnd
  BY <1>4, ProjectionAssumption
     DEF SeeEnd, ProjectionInv, ProjectionTyped, Subscribed, Stopping, TextsOK, ReasonsOK,
         ResultOK, AnswerOK, PlannedOK, Joined, Composed, Statuses, Ended, Consuming, runVars, textVars, flushVars, turnVars, stopVars
<1>5. CASE CutRun
  BY <1>5, ProjectionAssumption
     DEF CutRun, Interrupted, ProjectionInv, ProjectionTyped, Subscribed, Stopping, TextsOK, ReasonsOK,
         ResultOK, AnswerOK, PlannedOK, Joined, Composed, Statuses, Ended, Consuming, runVars, textVars, flushVars, turnVars, stopVars
<1>6. CASE Swap
  BY <1>6, ProjectionAssumption
     DEF Swap, ProjectionInv, ProjectionTyped, Subscribed, Stopping, TextsOK, ReasonsOK,
         ResultOK, AnswerOK, PlannedOK, Joined, Composed, Statuses, Ended, Consuming, runVars, textVars, flushVars, turnVars, stopVars
<1>7. CASE NextFails
  BY <1>7, ProjectionAssumption
     DEF NextFails, Done, ProjectionInv, ProjectionTyped, Subscribed, Stopping, TextsOK, ReasonsOK,
         ResultOK, AnswerOK, PlannedOK, Joined, Composed, Statuses, Ended, Consuming, runVars, textVars, flushVars, turnVars, stopVars
<1> QED BY <1>1, <1>2, <1>3, <1>4, <1>5, <1>6, <1>7 DEF ConsumerStep

-----------------------------------------------------------------------------
(* flushLoop.                                                               *)
LEMMA FlusherSteps ==
    ASSUME ProjectionInv, FlusherStep
    PROVE  ProjectionInv'
<1>1. CASE Tick
  <2>1. /\ editing' \in Nat /\ editing' <= lastSeen /\ editing' <= PreviewUnits
        /\ flusher \in {"tick"} /\ flusher' \in {"tick", "edit"}
    BY <1>1, ProjectionAssumption
       DEF Tick, Lesser, ProjectionInv, ProjectionTyped, TextsOK
  <2>2. ProjectionTyped'
    BY <1>1, <2>1, ZenonT(30) DEF Tick, ProjectionInv, ProjectionTyped, runVars, consumerVars, turnVars, stopVars
  <2>3. Subscribed' /\ Stopping' /\ TextsOK'
    BY <1>1, <2>1 DEF Tick, ProjectionInv, Subscribed, Stopping, TextsOK, Joined, runVars,
                      consumerVars, turnVars
  <2> QED
    BY <1>1, <2>2, <2>3 DEF Tick, ProjectionInv, ReasonsOK, ResultOK, AnswerOK, PlannedOK, Composed,
                            runVars, consumerVars, turnVars, stopVars
<1>2. CASE EnsurePreview
  BY <1>2
     DEF EnsurePreview, ProjectionInv, ProjectionTyped, Subscribed, Stopping, TextsOK, ReasonsOK,
         ResultOK, AnswerOK, PlannedOK, Joined, Composed, Statuses, Ended, Consuming, runVars, consumerVars, textVars, turnVars, stopVars
<1>3. CASE Edit
  BY <1>3
     DEF Edit, Done, ProjectionInv, ProjectionTyped, Subscribed, Stopping, TextsOK, ReasonsOK,
         ResultOK, AnswerOK, PlannedOK, Joined, Composed, Statuses, Ended, Consuming, runVars, consumerVars, textVars, turnVars, stopVars
<1>4. CASE FlushDone
  BY <1>4
     DEF FlushDone, Done, ProjectionInv, ProjectionTyped, Subscribed, Stopping, TextsOK, ReasonsOK,
         ResultOK, AnswerOK, PlannedOK, Joined, Composed, Statuses, Ended, Consuming, runVars, consumerVars, textVars, turnVars, stopVars
<1> QED BY <1>1, <1>2, <1>3, <1>4 DEF FlusherStep

-----------------------------------------------------------------------------
(* The stop and the shutdown.                                               *)
LEMMA StopSteps ==
    ASSUME ProjectionInv,
           SetStopFlag \/ InterruptForStop \/ InterruptAtShutdown \/ CancelService
    PROVE  ProjectionInv'
<1>1. CASE SetStopFlag
  BY <1>1
     DEF SetStopFlag, ProjectionInv, ProjectionTyped, Subscribed, Stopping, TextsOK, ReasonsOK,
         ResultOK, AnswerOK, PlannedOK, Joined, Composed, Statuses, Ended, Consuming, runVars, consumerVars, textVars, flushVars, turnVars, stopVars
<1>2. CASE InterruptForStop
  BY <1>2
     DEF InterruptForStop, Interrupted, ProjectionInv, ProjectionTyped, Subscribed, Stopping, TextsOK, ReasonsOK,
         ResultOK, AnswerOK, PlannedOK, Joined, Composed, Statuses, Ended, Consuming, runVars, consumerVars, textVars, flushVars, turnVars, stopVars
<1>3. CASE InterruptAtShutdown
  BY <1>3
     DEF InterruptAtShutdown, Interrupted, ProjectionInv, ProjectionTyped, Subscribed, Stopping, TextsOK, ReasonsOK,
         ResultOK, AnswerOK, PlannedOK, Joined, Composed, Statuses, Ended, Consuming, runVars, consumerVars, textVars, flushVars, turnVars, stopVars
<1>4. CASE CancelService
  BY <1>4
     DEF CancelService, ProjectionInv, ProjectionTyped, Subscribed, Stopping, TextsOK, ReasonsOK,
         ResultOK, AnswerOK, PlannedOK, Joined, Composed, Statuses, Ended, Consuming, runVars, consumerVars, textVars, flushVars, turnVars, stopVars
<1> QED BY <1>1, <1>2, <1>3, <1>4

-----------------------------------------------------------------------------
(* The runner.  What composeFinal renders of a run that was waited for.     *)
LEMMA FinalOf ==
    ASSUME ProjectionInv, turn = "compose", run.status = result, NEW finalized \in BOOLEAN
    PROVE  LET final == Final(finalized)
           IN  /\ final.label = "whole" => run.status = "completed" /\ final.text = run.text
               /\ result = "interrupted" =>
                     /\ final.text = Lesser(lastSeen, MaxOutput)
                     /\ cause = "limit" => final.label = "limit"
                     /\ cause = "stop" => final.label \in {"stopped", "limit"}
<1>1. CASE result = "completed"
  BY <1>1 DEF Final
<1>2. CASE result = "interrupted"
  BY <1>2 DEF Final, ProjectionInv, ReasonsOK, Composed
<1>3. CASE result = "failed"
  BY <1>3 DEF Final
<1> QED BY <1>1, <1>2, <1>3 DEF ProjectionInv, ResultOK, Ended

LEMMA TurnSteps ==
    ASSUME ProjectionInv, TurnStep
    PROVE  ProjectionInv'
<1>1. CASE Wait
  BY <1>1
     DEF Wait, ProjectionInv, ProjectionTyped, Subscribed, Stopping, TextsOK, ReasonsOK,
         ResultOK, AnswerOK, PlannedOK, Joined, Composed, Statuses, Ended, Consuming, runVars, consumerVars, textVars, flushVars, stopVars
<1>2. CASE Cancel
  BY <1>2
     DEF Cancel, ProjectionInv, ProjectionTyped, Subscribed, Stopping, TextsOK, ReasonsOK,
         ResultOK, AnswerOK, PlannedOK, Joined, Composed, Statuses, Ended, Consuming, runVars, consumerVars, textVars, flushVars, stopVars
<1>3. CASE CloseHeld
  BY <1>3
     DEF CloseHeld, ProjectionInv, ProjectionTyped, Subscribed, Stopping, TextsOK, ReasonsOK,
         ResultOK, AnswerOK, PlannedOK, Joined, Composed, Statuses, Ended, Consuming, runVars, consumerVars, textVars, flushVars, stopVars
<1>4. CASE Join
  BY <1>4
     DEF Join, ProjectionInv, ProjectionTyped, Subscribed, Stopping, TextsOK, ReasonsOK,
         ResultOK, AnswerOK, PlannedOK, Joined, Composed, Statuses, Ended, Consuming, runVars, consumerVars, textVars, flushVars, stopVars
<1>5. CASE Mark
  BY <1>5
     DEF Mark, ProjectionInv, ProjectionTyped, Subscribed, Stopping, TextsOK, ReasonsOK,
         ResultOK, AnswerOK, PlannedOK, Joined, Composed, Statuses, Ended, Consuming, runVars, consumerVars, textVars, flushVars, stopVars
<1>6. CASE Compose
  <2>1. /\ turn = "compose" /\ turn' = "mark" /\ stopFlag' = FALSE
        /\ UNCHANGED <<runVars, consumerVars, open, textVars, flushVars, held, result, canceled,
                       stopper, shutdown>>
    BY <1>6 DEF Compose
  <2>2. AnswerOK'
    <3>1. CASE answer'.label = "unavailable"
      BY <3>1 DEF AnswerOK
    <3>2. ASSUME ~shutdown, NEW finalized \in BOOLEAN, answer' = Final(finalized)
          PROVE  AnswerOK'
      <4>1. run.status = result
        BY <2>1, <3>2 DEF ProjectionInv, ResultOK
      <4> QED BY <2>1, <3>2, <4>1, FinalOf DEF AnswerOK, Lesser, runVars, textVars
    <3> QED BY <1>6, <3>1, <3>2 DEF Compose
  <2>3. ProjectionTyped' /\ Subscribed' /\ Stopping' /\ TextsOK'
    BY <2>1 DEF ProjectionInv, ProjectionTyped, Subscribed, Stopping, TextsOK, Joined, runVars,
                consumerVars, textVars, flushVars
  <2>4. ReasonsOK' /\ ResultOK' /\ PlannedOK'
    BY <2>1 DEF ProjectionInv, ReasonsOK, ResultOK, PlannedOK, Composed, runVars, consumerVars,
                textVars
  <2> QED BY <2>2, <2>3, <2>4 DEF ProjectionInv
<1> QED BY <1>1, <1>2, <1>3, <1>4, <1>5, <1>6 DEF TurnStep

-----------------------------------------------------------------------------
LEMMA ProjectionInvariant == Spec => []ProjectionInv
<1>1. ProjectionInv /\ [Next]_vars => ProjectionInv'
  <2> SUFFICES ASSUME ProjectionInv, [Next]_vars PROVE ProjectionInv'
    OBVIOUS
  <2>1. CASE UNCHANGED vars
    BY <2>1 DEF vars, ProjectionInv, ProjectionTyped, Subscribed, Stopping, TextsOK, ReasonsOK,
       ResultOK, AnswerOK, PlannedOK, Joined, Composed, runVars, consumerVars, textVars,
       flushVars, turnVars, stopVars
  <2> QED BY <2>1, RunSteps, ConsumerSteps, FlusherSteps, StopSteps, TurnSteps DEF Next
<1> QED BY <1>1, InitProjectionInv, PTL DEF Spec

(* An answer that is planned is of the run's end: whole only for all that a *)
(* completed run produced, and a partial one between what the user has been *)
(* shown in this turn and what the run has streamed.                        *)
THEOREM AnswerHolds == Spec => []AnswerIsTheRuns
<1>1. ProjectionInv => AnswerIsTheRuns
  BY ProjectionAssumption
     DEF ProjectionInv, ProjectionTyped, TextsOK, AnswerOK, PlannedOK, Composed, AnswerIsTheRuns,
         Lesser
<1> QED BY <1>1, ProjectionInvariant, PTL

(* The user is told what ended the run: the output cap, or the stop unless  *)
(* the cap was reached as well.                                             *)
THEOREM ReasonHolds == Spec => []ReasonTold
<1>1. ProjectionInv => ReasonTold
  BY DEF ProjectionInv, AnswerOK, PlannedOK, Composed, ReasonTold
<1> QED BY <1>1, ProjectionInvariant, PTL

(* No subscription outlives the turn, whichever resubscription crosses the  *)
(* stop.                                                                    *)
THEOREM SubscriptionsHold == Spec => []SubscriptionsClosed
<1>1. ProjectionInv => SubscriptionsClosed
  BY DEF ProjectionInv, Stopping, Joined, SubscriptionsClosed
<1> QED BY <1>1, ProjectionInvariant, PTL

=============================================================================
