------------------------------ MODULE Projection ------------------------------
(***************************************************************************)
(* One turn from its owned run to its planned answer: projection.go, and    *)
(* the end of runPrompt with composeFinal (turn.go).  Four goroutines share *)
(* the projection: consume follows the run through a watch subscription and *)
(* enforces the output cap, flushLoop edits the preview, the runner waits,  *)
(* stops both and plans the answer, and the Ingest call of a !stop may      *)
(* interrupt the run at any moment.  Shutdown may cancel everything.  A     *)
(* turn that is taken up again, after a failed MarkTerminal or a restart,   *)
(* has a preview but no live text and is not modelled.                      *)
(*                                                                          *)
(* A text is its length.  The run and the watch service are external: what  *)
(* a run has streamed reaches a subscription in order, with gaps, and a     *)
(* subscription may die at any time.  Where the preview message is and what *)
(* an edit of unknown outcome does to it is DeliveryLane's.                 *)
(***************************************************************************)
EXTENDS Integers, FiniteSets

CONSTANTS
    MaxOutput,        \* config.MaxOutputBytes
    PreviewUnits,     \* text a preview shows at most
    maxWatchResyncs,
    MaxText           \* bound: text a run streams

ASSUME ProjectionAssumption ==
    /\ MaxOutput \in Nat \ {0} /\ PreviewUnits \in 1 .. MaxOutput
    /\ maxWatchResyncs \in Nat /\ MaxText \in Nat

VARIABLES
    run,       \* [status, text, sent]: the run, what it streamed and what of
               \* that the watch service delivered
    cause,     \* why the run was interrupted, the first reason
    turn,      \* where the runner is
    held,      \* the subscription that stop() has read
    result,    \* Result.Status as the runner got it
    answer,    \* [label, text]: what composeFinal renders
    consumer,  \* where consume is
    sub,       \* projection.sub; subscriptions are numbered, 0 for nil
    open,      \* subscriptions not closed
    resyncs,
    live, lastSeen, dirty, limit,
    flusher,   \* where flushLoop is
    editing,   \* the text of the edit under way
    shown,     \* the text of the preview message
    stopper,   \* where interruptRoute of a !stop is
    stopFlag,
    canceled,  \* projection.ctx
    shutdown   \* Service.ctx

runVars == <<run, cause>>
consumerVars == <<consumer, sub, resyncs>>
textVars == <<live, lastSeen, dirty, limit>>
flushVars == <<flusher, editing, shown>>
turnVars == <<turn, held, result, answer, canceled>>
stopVars == <<stopper, stopFlag>>
vars == <<runVars, consumerVars, open, textVars, flushVars, turnVars, stopVars, shutdown>>

Ended == {"completed", "failed", "interrupted"}

Lesser(m, n) == IF m < n THEN m ELSE n
Done == canceled \/ shutdown
Blank == [label |-> "none", text |-> 0]

-----------------------------------------------------------------------------
(* The run.                                                                 *)

Interrupted(reason) ==
    IF run.status = "running" /\ cause = "none" THEN reason ELSE cause

Stream ==
    /\ run.status = "running"
    /\ \E n \in run.text + 1 .. MaxText : run' = [run EXCEPT !.text = n]
    /\ UNCHANGED <<cause, consumerVars, open, textVars, flushVars, turnVars, stopVars, shutdown>>

(* An interrupt may come too late to keep a run from completing.            *)
RunEnds ==
    /\ run.status = "running"
    /\ \E s \in Ended : run' = [run EXCEPT !.status = s]
    /\ UNCHANGED <<cause, consumerVars, open, textVars, flushVars, turnVars, stopVars, shutdown>>

-----------------------------------------------------------------------------
(* consume.                                                                 *)

(* setLive: the first text over the cap is dropped and the run interrupted. *)
SetLive(n) ==
    IF n > MaxOutput /\ ~limit
    THEN limit' = TRUE /\ consumer' = "cut" /\ UNCHANGED <<live, lastSeen, dirty>>
    ELSE /\ live' = n /\ dirty' = (dirty \/ n # live)
         /\ lastSeen' = IF n # 0 THEN n ELSE lastSeen
         /\ consumer' = "read" /\ UNCHANGED limit

(* Next returns an update of the run: a live prefix, or its finalized text. *)
SeeText ==
    /\ consumer = "read" /\ sub \in open
    /\ \E n \in {m \in run.sent .. run.text : m > 0} :
          SetLive(n) /\ run' = [run EXCEPT !.sent = n]
    /\ UNCHANGED <<cause, sub, resyncs, open, flushVars, turnVars, stopVars, shutdown>>

(* LiveUnavailable                                                          *)
LoseLive ==
    /\ consumer = "read" /\ sub \in open
    /\ SetLive(0)
    /\ UNCHANGED <<runVars, sub, resyncs, open, flushVars, turnVars, stopVars, shutdown>>

(* The durable snapshot shows the run terminal.                             *)
SeeEnd ==
    /\ consumer = "read" /\ sub \in open /\ run.status \in Ended
    /\ consumer' = "gone"
    /\ UNCHANGED <<runVars, sub, resyncs, open, textVars, flushVars, turnVars, stopVars, shutdown>>

(* setLive interrupts after it has released the lock.                       *)
CutRun ==
    /\ consumer = "cut"
    /\ cause' = Interrupted("limit")
    /\ consumer' = "read"
    /\ UNCHANGED <<run, sub, resyncs, open, textVars, flushVars, turnVars, stopVars, shutdown>>

(* Next fails: the subscription died or was closed, or the context is done. *)
NextFails ==
    /\ consumer = "read"
    /\ consumer' = IF Done \/ resyncs = maxWatchResyncs THEN "gone" ELSE "watch"
    /\ resyncs' = IF consumer' = "watch" THEN resyncs + 1 ELSE resyncs
    /\ UNCHANGED <<runVars, sub, open, textVars, flushVars, turnVars, stopVars, shutdown>>

(* The backoff, then Watch.                                                 *)
Rewatch ==
    /\ consumer = "watch"
    /\ \/ consumer' = "swap" /\ open' = open \cup {resyncs + 1}
       \/ consumer' = "gone" /\ UNCHANGED open
    /\ UNCHANGED <<runVars, sub, resyncs, textVars, flushVars, turnVars, stopVars, shutdown>>

(* The fresh subscription replaces the old one, which is closed then.       *)
Swap ==
    /\ consumer = "swap"
    /\ sub' = resyncs + 1
    /\ consumer' = "close"
    /\ UNCHANGED <<runVars, resyncs, open, textVars, flushVars, turnVars, stopVars, shutdown>>

CloseOld ==
    /\ consumer = "close"
    /\ open' = {x \in open : x >= sub}
    /\ consumer' = "read"
    /\ UNCHANGED <<runVars, sub, resyncs, textVars, flushVars, turnVars, stopVars, shutdown>>

-----------------------------------------------------------------------------
(* flushLoop.                                                               *)

(* ensurePreviewRow: denied, not next in the lane, failed, or created.  The *)
(* create is not canceled.                                                  *)
EnsurePreview ==
    /\ flusher = "plan"
    /\ flusher' \in {"tick", "gone"}
    /\ UNCHANGED <<runVars, consumerVars, open, textVars, editing, shown, turnVars, stopVars, shutdown>>

Tick ==
    /\ flusher = "tick"
    /\ dirty' = FALSE
    /\ IF dirty THEN flusher' = "edit" /\ editing' = Lesser(live, PreviewUnits)
                ELSE UNCHANGED <<flusher, editing>>
    /\ UNCHANGED <<runVars, consumerVars, open, live, lastSeen, limit, shown, turnVars, stopVars, shutdown>>

(* The edit lands or fails; with the context done it may be given up.       *)
Edit ==
    /\ flusher = "edit"
    /\ shown' \in {editing, shown}
    /\ flusher' \in IF Done THEN {"tick", "gone"} ELSE {"tick"}
    /\ UNCHANGED <<runVars, consumerVars, open, textVars, editing, turnVars, stopVars, shutdown>>

FlushDone ==
    /\ flusher = "tick" /\ Done
    /\ flusher' = "gone"
    /\ UNCHANGED <<runVars, consumerVars, open, textVars, editing, shown, turnVars, stopVars, shutdown>>

-----------------------------------------------------------------------------
(* interruptRoute for a !stop, and Shutdown.                                *)

(* Faulty interruptRoute: the flag is set after the run was interrupted.    *)
InterruptBeforeFlag ==
    /\ turn \notin {"planned", "parked"}
    /\ \/ /\ stopper = "none" /\ stopper' = "interrupted"
          /\ cause' = Interrupted("stop") /\ UNCHANGED stopFlag
       \/ /\ stopper = "interrupted" /\ stopper' = "done"
          /\ stopFlag' = TRUE /\ UNCHANGED cause
    /\ UNCHANGED <<run, consumerVars, open, textVars, flushVars, turnVars, shutdown>>

SetStopFlag ==
    /\ stopper = "none" /\ turn \notin {"planned", "parked"}
    /\ stopper' = "flagged"
    /\ stopFlag' = TRUE
    /\ UNCHANGED <<runVars, consumerVars, open, textVars, flushVars, turnVars, shutdown>>

InterruptForStop ==
    /\ stopper = "flagged"
    /\ stopper' = "done"
    /\ cause' = Interrupted("stop")
    /\ UNCHANGED <<run, stopFlag, consumerVars, open, textVars, flushVars, turnVars, shutdown>>

(* Shutdown interrupts the owned run and lets it settle; later it cancels   *)
(* the service's context, settled or not.                                   *)
InterruptAtShutdown ==
    /\ ~shutdown
    /\ cause' = Interrupted("shutdown")
    /\ UNCHANGED <<run, consumerVars, open, textVars, flushVars, turnVars, stopVars, shutdown>>

CancelService ==
    /\ ~shutdown
    /\ shutdown' = TRUE
    /\ UNCHANGED <<runVars, consumerVars, open, textVars, flushVars, turnVars, stopVars>>

-----------------------------------------------------------------------------
(* The runner.                                                              *)

(* wait: the result of the run, or, in a shutdown, no longer than a while.  *)
Wait ==
    /\ turn = "wait"
    /\ \/ run.status \in Ended /\ result' = run.status
       \/ shutdown /\ result' = "interrupted"
    /\ turn' = "cancel"
    /\ UNCHANGED <<runVars, consumerVars, open, textVars, flushVars, held, answer, canceled, stopVars, shutdown>>

(* Faulty stop: the subscription is closed, the context is not canceled.    *)
StopWithoutCancel ==
    /\ turn = "cancel"
    /\ turn' = "close" /\ held' = sub
    /\ UNCHANGED <<runVars, consumerVars, open, textVars, flushVars, result, answer, canceled, stopVars, shutdown>>

(* stop: cancel, and read the subscription.                                 *)
Cancel ==
    /\ turn = "cancel"
    /\ canceled' = TRUE
    /\ turn' = "close" /\ held' = sub
    /\ UNCHANGED <<runVars, consumerVars, open, textVars, flushVars, result, answer, stopVars, shutdown>>

CloseHeld ==
    /\ turn = "close"
    /\ open' = open \ {held}
    /\ turn' = "join"
    /\ UNCHANGED <<runVars, consumerVars, textVars, flushVars, held, result, answer, canceled, stopVars, shutdown>>

(* Faulty stop: a subscription swapped in meanwhile is forgotten.           *)
JoinOnly ==
    /\ turn = "join" /\ consumer = "gone" /\ flusher = "gone"
    /\ turn' = "compose"
    /\ UNCHANGED <<runVars, consumerVars, open, textVars, flushVars, held, result, answer, canceled, stopVars, shutdown>>

(* wg.Wait, and a subscription that was swapped in meanwhile is closed too. *)
Join ==
    /\ turn = "join" /\ consumer = "gone" /\ flusher = "gone"
    /\ open' = IF sub # held THEN open \ {sub} ELSE open
    /\ turn' = "compose"
    /\ UNCHANGED <<runVars, consumerVars, textVars, flushVars, held, result, answer, canceled, stopVars, shutdown>>

(* composeFinal with the committed text of the run, of which there is none  *)
(* for a run that was interrupted.                                          *)
Final(finalized) ==
    CASE result = "completed" /\ (~finalized \/ run.text = 0) -> [label |-> "empty", text |-> 0]
      [] result = "completed" /\ run.text > MaxOutput -> [label |-> "limit", text |-> MaxOutput]
      [] result = "completed" -> [label |-> "whole", text |-> run.text]
      [] result = "interrupted" ->
            [label |-> IF limit THEN "limit" ELSE IF stopFlag THEN "stopped" ELSE "restart",
             text |-> Lesser(lastSeen, MaxOutput)]
      [] OTHER -> [label |-> "failed", text |-> 0]

(* consumeStopFlag, committedText (which a shutdown cuts off), composeFinal.*)
Compose ==
    /\ turn = "compose"
    /\ \/ answer' = [label |-> "unavailable", text |-> 0]
       \/ ~shutdown /\ \E finalized \in BOOLEAN : answer' = Final(finalized)
    /\ stopFlag' = FALSE
    /\ turn' = "mark"
    /\ UNCHANGED <<runVars, consumerVars, open, textVars, flushVars, held, result, canceled, stopper, shutdown>>

(* Faulty MarkTerminal: it is not bound to the service's context.           *)
MarkAnyway ==
    /\ turn = "mark"
    /\ turn' \in {"planned", "parked"}
    /\ UNCHANGED <<runVars, consumerVars, open, textVars, flushVars, held, result, answer, canceled, stopVars, shutdown>>

(* MarkTerminal, which fails once the service's context is done.            *)
Mark ==
    /\ turn = "mark"
    /\ turn' \in IF shutdown THEN {"parked"} ELSE {"planned", "parked"}
    /\ UNCHANGED <<runVars, consumerVars, open, textVars, flushVars, held, result, answer, canceled, stopVars, shutdown>>

-----------------------------------------------------------------------------
(* newProjection: without a subscription there is neither loop.             *)
Init ==
    /\ run = [status |-> "running", text |-> 0, sent |-> 0] /\ cause = "none"
    /\ turn = "wait" /\ held = 0 /\ result = "none" /\ answer = Blank
    /\ \/ sub = 1 /\ consumer = "read" /\ flusher = "plan"
       \/ sub = 0 /\ consumer = "gone" /\ flusher = "gone"
    /\ open = {sub} \ {0} /\ resyncs = 0
    /\ live = 0 /\ lastSeen = 0 /\ dirty = FALSE /\ limit = FALSE
    /\ editing = 0 /\ shown = 0
    /\ stopper = "none" /\ stopFlag = FALSE
    /\ canceled = FALSE /\ shutdown = FALSE

ConsumerStep == SeeText \/ LoseLive \/ SeeEnd \/ CutRun \/ Rewatch \/ Swap \/ CloseOld
FlusherStep == EnsurePreview \/ Tick \/ Edit \/ FlushDone
TurnStep == Wait \/ Cancel \/ CloseHeld \/ Join \/ Compose \/ Mark

Next ==
    \/ Stream \/ RunEnds
    \/ ConsumerStep \/ NextFails
    \/ FlusherStep
    \/ SetStopFlag \/ InterruptForStop \/ InterruptAtShutdown \/ CancelService
    \/ TurnStep

Spec == Init /\ [][Next]_vars

(* Goroutines are scheduled, the ticker ticks, platform calls and the run   *)
(* have deadlines, and Next returns when its context is done or its         *)
(* subscription closed.  Nothing makes the watch service send anything.     *)
Fairness ==
    /\ WF_vars(RunEnds) /\ WF_vars(TurnStep)
    /\ WF_vars(CutRun) /\ WF_vars(Rewatch) /\ WF_vars(Swap) /\ WF_vars(CloseOld)
    /\ WF_vars(NextFails /\ (Done \/ sub \notin open))
    /\ WF_vars(EnsurePreview) /\ WF_vars(Edit) /\ WF_vars(FlushDone)

FairSpec == Spec /\ Fairness

-----------------------------------------------------------------------------
(* "A completed answer only ever comes from committed text" (turn.go): what *)
(* is planned without a label is all that the completed run produced.  A    *)
(* partial answer shows nothing that this run has not streamed, and what    *)
(* the user has seen of it in this turn is not taken away ("prefix shown so *)
(* far", operations.md).  A shutdown that gives up on the run leaves it to the    *)
(* recovery: no answer is planned for a run that goes on.                   *)
AnswerIsTheRuns ==
    turn = "planned" =>
        /\ run.status = result
        /\ answer.label = "whole" => run.status = "completed" /\ answer.text = run.text
        /\ run.status = "interrupted" /\ answer.label # "unavailable" =>
               answer.text \in shown .. run.text

(* The user is told the reason that ended the run, whenever the stop, the   *)
(* cap and the end of the run cross each other.                             *)
ReasonTold ==
    turn = "planned" /\ run.status = "interrupted" /\ answer.label # "unavailable" =>
        /\ cause = "limit" => answer.label = "limit"
        /\ cause = "stop" => answer.label \in {"stopped", "limit"}

(* A subscription swapped in while the turn stops is closed as well: none   *)
(* is open once the turn goes on.                                           *)
SubscriptionsClosed ==
    turn \in {"compose", "mark", "planned", "parked"} => open = {}

(* The turn ends with its run, whatever the watch service does.             *)
TurnEnds == <>(turn \in {"planned", "parked"})

(* "Accepted 32 KiB prefix" (operations.md): an answer that the output cap  *)
(* cut has all the text that is allowed.                                    *)
(* It does not hold: the update that crosses the cap is dropped whole.      *)
CapKeepsPrefix ==
    turn = "planned" /\ answer.label = "limit" => answer.text = MaxOutput
=============================================================================
