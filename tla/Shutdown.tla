------------------------------- MODULE Shutdown -------------------------------
(***************************************************************************)
(* Service.Shutdown (internal/conversation/service.go) and the end of Serve *)
(* (internal/app/app.go) against what goes on in the process meanwhile:     *)
(* handlers that passed the closing check, a scheduler in the middle of a   *)
(* scan, runners anywhere between that check and the planned answer, and a  *)
(* preview whose creation nothing cancels.  A shutdown has a budget; after  *)
(* it the service context is canceled, which every write but the one of a   *)
(* created message observes.  The scan in progress goes on whatever happens *)
(* meanwhile: it may start a runner that nobody waits for, and one that the *)
(* WaitGroup does not bear.                                                 *)
(*                                                                          *)
(* A turn is kept to what a shutdown can tell apart: its prompt, its run,   *)
(* its handle, and where it waits.  RouteRunner has the rest of it, and     *)
(* what a restart makes of the records left behind.                         *)
(***************************************************************************)
EXTENDS Integers, FiniteSets

CONSTANTS
    Conversations,
    MaxPrompts,     \* bound: prompts of a route
    Workers,        \* limits.MaxModelWorkers: turns at a time
    Abandoned,      \* routes whose first prompt an earlier process admitted and left
    MaxFaults       \* bound: failed writes and submissions

Prompts == Conversations \X (1 .. MaxPrompts)
NoPrompt == <<>>

ASSUME ShutdownAssumption ==
    /\ MaxPrompts \in Nat /\ Workers \in Nat \ {0} /\ MaxFaults \in Nat
    /\ Abandoned \subseteq Conversations

VARIABLES
    shut,       \* where Shutdown and Serve stand
    snapshot,   \* prompts whose handle Shutdown has yet to interrupt
    result,     \* what Shutdown returns: "none" before it knows
    cancelled,  \* Service.ctx is canceled
    waiter,     \* the goroutine that waits for the runners
    scheduler,  \* "idle", "query", "scan", "gone"
    keys,       \* routes the scan found and has yet to look at
    ingest,     \* the prompt a handler is about to commit
    inbox,      \* prompt -> "none", "queued", "admitting", "admitted", "terminal"
    runs,       \* prompt -> state of its run
    goroutine,  \* route -> [pc, prompt]
    handles,    \* Service.handles: prompts whose handle is published
    creating,   \* route -> the creation of its preview
    faults

stopping == <<shut, snapshot, result, cancelled>>
scanning == <<scheduler, keys>>
turns == <<inbox, runs, goroutine, handles, creating>>
shutVars == <<stopping, waiter, scanning, ingest, turns, faults>>

NoRunner == [pc |-> "none", prompt |-> NoPrompt]
(* The runner holds one of the slots of the semaphore.                      *)
InTurn == {"start", "submit", "receipt", "await", "backoff", "recover", "publish",
           "owned", "grace", "stop", "plan"}
closing == shut # "serving"

Fault == faults < MaxFaults /\ faults' = faults + 1
TurnAt(r, pc) == goroutine' = [goroutine EXCEPT ![r].pc = pc]
Leave(r) == goroutine' = [goroutine EXCEPT ![r] = NoRunner]
WorkOf(r) == {p \in Prompts : p[1] = r /\ inbox[p] \in {"queued", "admitting", "admitted"}}

(* A handle is interrupted, or the context of a run is canceled: the run    *)
(* still has to settle.                                                     *)
Ended(ps) == [p \in Prompts |-> IF p \in ps /\ runs[p] = "running" THEN "ending" ELSE runs[p]]

-----------------------------------------------------------------------------
(* Ingest: the closing check, and the commit some time later.               *)
CheckIngest(p) ==
    /\ ~closing /\ ingest = NoPrompt /\ inbox[p] = "none"
    /\ p[2] > 1 => inbox[<<p[1], p[2] - 1>>] # "none"
    /\ ingest' = p
    /\ UNCHANGED <<stopping, waiter, scanning, turns, faults>>

CommitIngest ==
    /\ ingest # NoPrompt
    /\ inbox' = IF shut = "closed" THEN inbox ELSE [inbox EXCEPT ![ingest] = "queued"]
    /\ ingest' = NoPrompt
    /\ UNCHANGED <<stopping, waiter, scanning, runs, goroutine, handles, creating, faults>>

(* Faulty: the loop looks at nothing when it is woken.                      *)
BeginScanAlways ==
    /\ scheduler = "idle"
    /\ scheduler' = "query"
    /\ UNCHANGED <<stopping, waiter, keys, ingest, turns, faults>>

(* The scheduler's loop: the end of the service and the closing check.      *)
BeginScan ==
    /\ scheduler = "idle"
    /\ scheduler' = IF closing \/ cancelled THEN "gone" ELSE "query"
    /\ UNCHANGED <<stopping, waiter, keys, ingest, turns, faults>>

(* RoutesWithWork observes the context; what it found is used later.        *)
QueryRoutes ==
    /\ scheduler = "query"
    /\ IF cancelled
       THEN scheduler' = "idle" /\ UNCHANGED keys
       ELSE scheduler' = "scan" /\ keys' = {r \in Conversations : WorkOf(r) # {}}
    /\ UNCHANGED <<stopping, waiter, ingest, turns, faults>>

(* The WaitGroup counts a runner from before it starts, and from then on;   *)
(* nothing asks whether the service is closing or its context canceled.     *)
StartRunner(r) ==
    /\ scheduler = "scan" /\ r \in keys /\ goroutine[r].pc = "none"
    /\ keys' = keys \ {r}
    /\ TurnAt(r, "check")
    /\ UNCHANGED <<stopping, waiter, scheduler, ingest, inbox, runs, handles, creating, faults>>

(* The routes left are running, parked, or too many; the query failed.      *)
EndScan ==
    /\ scheduler = "scan"
    /\ scheduler' = "idle" /\ keys' = {}
    /\ UNCHANGED <<stopping, waiter, ingest, turns, faults>>

-----------------------------------------------------------------------------
(* Faulty: only the end of the service is looked for.                       *)
CheckContextOnly(r) ==
    /\ goroutine[r].pc = "check"
    /\ IF cancelled THEN Leave(r) ELSE TurnAt(r, "read")
    /\ UNCHANGED <<stopping, scanning, ingest, inbox, runs, handles, creating, faults>>

(* runRoute: the closing check before each item of work.                    *)
CheckClosing(r) ==
    /\ goroutine[r].pc = "check"
    /\ IF closing \/ cancelled THEN Leave(r) ELSE TurnAt(r, "read")
    /\ UNCHANGED <<stopping, scanning, ingest, inbox, runs, handles, creating, faults>>

(* NextWork: the first of the route.                                        *)
NextWork(r) ==
    /\ goroutine[r].pc = "read"
    /\ IF cancelled \/ WorkOf(r) = {} THEN Leave(r)
       ELSE LET n == CHOOSE k \in 1 .. MaxPrompts :
                       /\ <<r, k>> \in WorkOf(r)
                       /\ \A j \in 1 .. MaxPrompts : <<r, j>> \in WorkOf(r) => k <= j
            IN  goroutine' = [goroutine EXCEPT ![r] = [pc |-> "acquire", prompt |-> <<r, n>>]]
    /\ UNCHANGED <<stopping, scanning, ingest, inbox, runs, handles, creating, faults>>

(* runPrompt waits for a model worker.                                      *)
AcquireWorker(r) ==
    /\ goroutine[r].pc = "acquire"
    /\ \/ /\ Cardinality({q \in Conversations : goroutine[q].pc \in InTurn}) < Workers
          /\ TurnAt(r, "start")
       \/ cancelled /\ Leave(r)
    /\ UNCHANGED <<stopping, scanning, ingest, inbox, runs, handles, creating, faults>>

(* A write of the turn observes the context; it fails when that is canceled. *)
WriteFails(r) == (cancelled /\ UNCHANGED faults) \/ Fault

(* Faulty: the context of the run is not released.                          *)
ReturnLeaking(r, pcs) ==
    LET p == goroutine[r].prompt
    IN  /\ handles' = handles \ {p}
        /\ runs' = runs
        /\ \E pc \in pcs : IF pc = "none" THEN Leave(r)
                           ELSE goroutine' = [goroutine EXCEPT ![r] = [NoRunner EXCEPT !.pc = pc]]

(* The end of runPrompt releases its slot, its handle and the context of    *)
(* its run.  A failure parks the route or, when work arrived, looks again.  *)
Return(r, pcs) ==
    LET p == goroutine[r].prompt
    IN  /\ handles' = handles \ {p}
        /\ runs' = Ended({p})
        /\ \E pc \in pcs : IF pc = "none" THEN Leave(r)
                           ELSE goroutine' = [goroutine EXCEPT ![r] = [NoRunner EXCEPT !.pc = pc]]

ReturnParked(r) == Return(r, {"none", "check"})

(* Phase 1 begins with the transition of a queued prompt; an admitted one   *)
(* is recovered.                                                            *)
StartTurn(r) ==
    LET p == goroutine[r].prompt
    IN  /\ goroutine[r].pc = "start"
        /\ \/ /\ inbox[p] = "queued" /\ ~cancelled
              /\ inbox' = [inbox EXCEPT ![p] = "admitting"]
              /\ TurnAt(r, "submit")
              /\ UNCHANGED <<runs, handles, faults>>
           \/ /\ inbox[p] \in {"queued", "admitting"} /\ WriteFails(r)
              /\ ReturnParked(r) /\ UNCHANGED inbox
           \/ /\ inbox[p] = "admitting" /\ ~cancelled
              /\ TurnAt(r, "submit")
              /\ UNCHANGED <<inbox, runs, handles, faults>>
           \/ /\ inbox[p] = "admitted"
              /\ TurnAt(r, "recover")
              /\ UNCHANGED <<inbox, runs, handles, faults>>
        /\ UNCHANGED <<stopping, scanning, ingest, creating>>

(* admit: the keyed lookup, then the submission, which no shutdown cancels; *)
(* a failed one is followed by a wait that is.                              *)
Submit(r) ==
    LET p == goroutine[r].prompt
    IN  /\ goroutine[r].pc = "submit"
        /\ \/ /\ runs[p] # "none" /\ ~cancelled
              /\ inbox' = [inbox EXCEPT ![p] = "admitted"]
              /\ TurnAt(r, "recover")
              /\ UNCHANGED <<runs, handles, faults>>
           \/ /\ runs[p] = "none" /\ ~cancelled
              /\ runs' = [runs EXCEPT ![p] = "running"]
              /\ TurnAt(r, "receipt")
              /\ UNCHANGED <<inbox, handles, faults>>
           \/ /\ runs[p] = "none" /\ Fault
              /\ TurnAt(r, "backoff")
              /\ UNCHANGED <<inbox, runs, handles>>
           \/ WriteFails(r) /\ ReturnParked(r) /\ UNCHANGED inbox
        /\ UNCHANGED <<stopping, scanning, ingest, creating>>

Backoff(r) ==
    /\ goroutine[r].pc = "backoff"
    /\ IF cancelled THEN Return(r, {"none"})
       ELSE TurnAt(r, "submit") /\ UNCHANGED <<runs, handles>>
    /\ UNCHANGED <<stopping, scanning, ingest, inbox, creating, faults>>

(* MarkAdmitted; the run executes already.                                  *)
RecordReceipt(r) ==
    LET p == goroutine[r].prompt
    IN  /\ goroutine[r].pc = "receipt"
        /\ \/ /\ ~cancelled
              /\ inbox' = [inbox EXCEPT ![p] = "admitted"]
              /\ TurnAt(r, "publish") /\ UNCHANGED faults
           \/ WriteFails(r) /\ TurnAt(r, "await") /\ UNCHANGED inbox
        /\ UNCHANGED <<stopping, scanning, ingest, runs, handles, creating>>

(* A run without a receipt is waited for, but never past shutdown.          *)
AwaitUnrecorded(r) ==
    /\ goroutine[r].pc = "await"
    /\ runs[goroutine[r].prompt] = "over" \/ cancelled
    /\ ReturnParked(r)
    /\ UNCHANGED <<stopping, scanning, ingest, inbox, creating, faults>>

(* recoverHandle: a run that is over, or an abandoned one, which is resumed *)
(* and settles without a model call; the lease of another is waited for.    *)
RecoverHandle(r) ==
    LET p == goroutine[r].prompt
    IN  /\ goroutine[r].pc = "recover"
        /\ \/ /\ runs[p] \in {"over", "abandoned"} /\ ~cancelled
              /\ runs' = [runs EXCEPT ![p] = IF @ = "abandoned" THEN "ending" ELSE @]
              /\ TurnAt(r, "publish") /\ UNCHANGED <<handles, faults>>
           \/ cancelled /\ Return(r, {"none"}) /\ UNCHANGED faults
           \/ Fault /\ ReturnParked(r)
        /\ UNCHANGED <<stopping, scanning, ingest, inbox, creating>>

PublishHandle(r) ==
    /\ goroutine[r].pc = "publish"
    /\ handles' = handles \cup {goroutine[r].prompt}
    /\ TurnAt(r, "owned")
    /\ UNCHANGED <<stopping, scanning, ingest, inbox, runs, creating, faults>>

-----------------------------------------------------------------------------
(* The preview of an owned run.  Its creation is detached from every        *)
(* context, and its record is written with contexts of its own.             *)
StartPreview(r) ==
    /\ goroutine[r].pc = "owned" /\ creating[r] = "none" /\ ~cancelled
    /\ creating' = [creating EXCEPT ![r] = "calling"]
    /\ UNCHANGED <<stopping, waiter, scanning, ingest, inbox, runs, goroutine, handles, faults>>

PreviewLands(r) ==
    /\ creating[r] = "calling"
    /\ creating' = [creating EXCEPT ![r] = "landed"]
    /\ UNCHANGED <<stopping, waiter, scanning, ingest, inbox, runs, goroutine, handles, faults>>

(* persistCreated, which fails for good once the store is closed.           *)
PersistCreated(r) ==
    /\ creating[r] = "landed"
    /\ \/ /\ creating' = [creating EXCEPT ![r] = IF shut = "closed" THEN "lost" ELSE "none"]
          /\ UNCHANGED faults
       \/ Fault /\ creating' = [creating EXCEPT ![r] = "lost"]
    /\ UNCHANGED <<stopping, waiter, scanning, ingest, inbox, runs, goroutine, handles>>

(* wait: for the run, or for the end of the service and then five seconds   *)
(* more, after which the run is taken for interrupted.                      *)
WaitRun(r) ==
    LET p == goroutine[r].prompt
    IN  /\ \/ goroutine[r].pc \in {"owned", "grace"} /\ runs[p] = "over" /\ TurnAt(r, "stop")
           \/ goroutine[r].pc = "owned" /\ cancelled /\ TurnAt(r, "grace")
           \/ goroutine[r].pc = "grace" /\ TurnAt(r, "stop")
        /\ UNCHANGED <<stopping, scanning, ingest, inbox, runs, handles, creating, faults>>

(* stop waits for the preview.                                              *)
StopProjection(r) ==
    /\ goroutine[r].pc = "stop" /\ creating[r] \in {"none", "lost"}
    /\ TurnAt(r, "plan")
    /\ UNCHANGED <<stopping, scanning, ingest, inbox, runs, handles, creating, faults>>

(* MarkTerminal; the prompt is left to a restart when that fails.           *)
MarkTerminal(r) ==
    LET p == goroutine[r].prompt
    IN  /\ goroutine[r].pc = "plan"
        /\ \/ /\ ~cancelled
              /\ inbox' = [inbox EXCEPT ![p] = "terminal"]
              /\ Return(r, {"check"}) /\ UNCHANGED faults
           \/ WriteFails(r) /\ ReturnParked(r) /\ UNCHANGED inbox
        /\ UNCHANGED <<stopping, scanning, ingest, creating>>

(* A run comes to its end; one whose context ended, soon.                   *)
RunEnds(p) ==
    /\ runs[p] \in {"running", "ending"}
    /\ runs' = [runs EXCEPT ![p] = "over"]
    /\ UNCHANGED <<stopping, waiter, scanning, ingest, inbox, goroutine, handles, creating, faults>>

(* Only runners leave the WaitGroup: the last one wakes who waits for it.   *)
RunnersDone == \A r \in Conversations : goroutine[r].pc = "none"
WakeWaiter == waiter' = IF waiter = "asleep" /\ RunnersDone' THEN "woken" ELSE waiter

Runner(r) ==
    /\ \/ CheckClosing(r) \/ NextWork(r) \/ AcquireWorker(r) \/ StartTurn(r)
       \/ Submit(r) \/ Backoff(r) \/ RecordReceipt(r) \/ AwaitUnrecorded(r)
       \/ RecoverHandle(r) \/ PublishHandle(r) \/ WaitRun(r)
       \/ StopProjection(r) \/ MarkTerminal(r)
    /\ WakeWaiter

Preview(r) == PreviewLands(r) \/ PersistCreated(r)

-----------------------------------------------------------------------------
(* Shutdown: closing and the handles of that moment.                        *)
Close ==
    /\ shut = "serving"
    /\ shut' = "interrupt" /\ snapshot' = handles
    /\ UNCHANGED <<result, cancelled, waiter, scanning, ingest, turns, faults>>

(* The last one interrupted, a goroutine begins to wait for the runners.    *)
Interrupt ==
    /\ shut = "interrupt"
    /\ IF snapshot = {}
       THEN shut' = "wait" /\ waiter' = "called" /\ UNCHANGED <<snapshot, runs>>
       ELSE \E p \in snapshot :
              /\ snapshot' = snapshot \ {p}
              /\ runs' = Ended({p})
              /\ UNCHANGED <<shut, waiter>>
    /\ UNCHANGED <<result, cancelled, scanning, ingest, inbox, goroutine, handles, creating, faults>>

Running == shut \notin {"closed", "panicked"}

(* WaitGroup.Wait returns at once without runners, and else when the last   *)
(* of them has woken it, unless another one is counted by then.             *)
WaitForRunners ==
    /\ Running
    /\ \/ /\ waiter = "called"
          /\ waiter' = IF RunnersDone THEN "done" ELSE "asleep"
       \/ /\ waiter = "woken" /\ RunnersDone
          /\ waiter' = "done"
    /\ UNCHANGED <<stopping, scanning, ingest, turns, faults>>

(* That other one makes it panic ("WaitGroup is reused before previous Wait *)
(* has returned"), and with it the process dies.                            *)
Panic ==
    /\ Running /\ waiter = "woken" /\ ~RunnersDone
    /\ shut' = "panicked" /\ cancelled' = TRUE
    /\ scheduler' = "gone" /\ keys' = {} /\ ingest' = NoPrompt
    /\ runs' = [p \in Prompts |-> IF runs[p] \in {"running", "ending"} THEN "abandoned" ELSE runs[p]]
    /\ goroutine' = [r \in Conversations |-> NoRunner] /\ handles' = {}
    /\ creating' = [r \in Conversations |-> IF creating[r] = "none" THEN "none" ELSE "lost"]
    /\ UNCHANGED <<snapshot, result, waiter, inbox, faults>>

(* The wait is over, or the budget is.                                      *)
Settle ==
    /\ shut = "wait"
    /\ \/ waiter = "done" /\ result' = "ok"
       \/ result' = "late"
    /\ shut' = "cancel"
    /\ UNCHANGED <<snapshot, cancelled, waiter, scanning, ingest, turns, faults>>

Cancel ==
    /\ shut = "cancel"
    /\ shut' = "cancelled" /\ cancelled' = TRUE
    /\ UNCHANGED <<snapshot, result, waiter, scanning, ingest, turns, faults>>

(* The wait is over by now, or five seconds more for runners that a         *)
(* platform call holds up.                                                  *)
LastWait ==
    /\ shut = "cancelled"
    /\ shut' = "loops"
    /\ UNCHANGED <<snapshot, result, cancelled, waiter, scanning, ingest, turns, faults>>

LoopsDone ==
    /\ shut = "loops" /\ scheduler = "gone"
    /\ shut' = "returned"
    /\ UNCHANGED <<snapshot, result, cancelled, waiter, scanning, ingest, turns, faults>>

(* Serve returns: the watches, and at last the store.                       *)
CloseStore ==
    /\ shut = "returned"
    /\ shut' = "closed"
    /\ UNCHANGED <<snapshot, result, cancelled, waiter, scanning, ingest, turns, faults>>

Stop == Interrupt \/ Settle \/ Cancel \/ LastWait \/ LoopsDone \/ CloseStore

Left(p) == p[1] \in Abandoned /\ p[2] = 1

ShutInit ==
    /\ shut = "serving" /\ snapshot = {} /\ result = "none" /\ cancelled = FALSE
    /\ waiter = "none" /\ scheduler = "idle" /\ keys = {} /\ ingest = NoPrompt
    /\ inbox = [p \in Prompts |-> IF Left(p) THEN "admitted" ELSE "none"]
    /\ runs = [p \in Prompts |-> IF Left(p) THEN "abandoned" ELSE "none"]
    /\ goroutine = [r \in Conversations |-> NoRunner] /\ handles = {}
    /\ creating = [r \in Conversations |-> "none"] /\ faults = 0

ShutNext ==
    \/ Close \/ Stop \/ WaitForRunners \/ Panic
    \/ \E p \in Prompts : CheckIngest(p) \/ RunEnds(p)
    \/ CommitIngest \/ BeginScan \/ QueryRoutes \/ EndScan
    \/ \E r \in Conversations : StartRunner(r) \/ Runner(r) \/ StartPreview(r) \/ Preview(r)

ShutSpec == ShutInit /\ [][ShutNext]_shutVars

(* Timers fire, goroutines go on and calls of the platform time out.  No    *)
(* run needs to end, not even one that was interrupted.                     *)
FairShutSpec ==
    /\ ShutSpec
    /\ WF_shutVars(Stop)
    /\ WF_shutVars(BeginScan) /\ WF_shutVars(QueryRoutes) /\ WF_shutVars(EndScan)
    /\ \A r \in Conversations : WF_shutVars(Runner(r)) /\ WF_shutVars(Preview(r))

-----------------------------------------------------------------------------
(* A shutdown without an error has settled everything ("waits for           *)
(* settlement until the deadline", service.go): every run that this process *)
(* started is over and, unless a write failed, its answer is planned and    *)
(* what it created is recorded; and nobody begins anything any more.  A     *)
(* runner that the scan in progress starts when nobody waits any more gets  *)
(* to the closing check and no further.                                     *)
CleanMeansSettled ==
    (result = "ok") =>
        /\ \A p \in Prompts : runs[p] \notin {"running", "ending"} \/ faults > 0
        /\ \A p \in Prompts : (runs[p] = "over" /\ faults = 0) => inbox[p] = "terminal"
        /\ \A r \in Conversations : goroutine[r].pc \in {"none", "check"}
        /\ \A r \in Conversations : creating[r] = "none" \/ (creating[r] = "lost" /\ faults > 0)

(* No run is left to itself: while one executes, its route's runner is      *)
(* there to wait for it and to end it.                                      *)
NoStrayRun ==
    \A p \in Prompts :
        runs[p] = "running" =>
            /\ goroutine[p[1]].prompt = p
            /\ goroutine[p[1]].pc \in {"receipt", "await", "publish", "owned", "grace", "stop", "plan"}

(* Whatever the runners do, the process comes to its end, and unless the    *)
(* WaitGroup ends it, by closing its store.                                 *)
ShutdownEnds == closing ~> (shut \in {"closed", "panicked"})

(* Shutdown "waits for settlement until the deadline. It returns an error   *)
(* when work did not settle in time" (service.go).                          *)
(* It does not hold: the wait of a WaitGroup that a scan in progress uses   *)
(* again panics instead.                                                    *)
ShutdownReturns == shut # "panicked"

(* "Shutdown (SIGINT/SIGTERM) stops ingestion, interrupts owned runs"       *)
(* (docs/operations.md): when it begins to wait, no owned run goes on       *)
(* uninterrupted.                                                           *)
(* It does not hold: a handle may be published after the snapshot.          *)
OwnedInterrupted ==
    shut = "wait" => \A p \in handles : runs[p] # "running"
=============================================================================
