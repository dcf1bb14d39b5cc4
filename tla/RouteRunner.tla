----------------------------- MODULE RouteRunner -----------------------------
(***************************************************************************)
(* internal/conversation over the host database: the goroutines that ingest *)
(* platform events, the one runner per route that the scheduler starts      *)
(* (scheduler.go, turn.go, controls.go), and the agent runtime they submit  *)
(* runs to.  Every step is one database transaction or one critical section *)
(* of Service.mu; between two steps everything else may happen, a crash     *)
(* included.  The lane of deliveries is HostStore's contract here; its own  *)
(* callers are not split any further.                                       *)
(*                                                                          *)
(* The agent runtime is external (eino-agent): it commits a keyed receipt   *)
(* with each run, runs in this process under a lease, and a run abandoned   *)
(* by a crash can be resumed, which settles it as interrupted.              *)
(***************************************************************************)
EXTENDS HostStore

CONSTANTS
    MaxRunning,     \* limits.max_running_conversations
    MaxWorkers,     \* size of Service.sem, the model worker slots
    MaxFaults       \* bound: crashes and transient errors in a behaviour

ASSUME RunnerAssumption == MaxRunning \in Nat \ {0} /\ MaxWorkers \in Nat \ {0}

VARIABLES
    runs,      \* agent database: run -> [route, gen, key, status, owned, resumed]
    runner,    \* route -> the locals of its runRoute goroutine
    handles,   \* Service.handles: route -> run it can interrupt, or NoRun
    stopFlags, \* Service.stopFlags: runs a user stop was aimed at
    parked,    \* Service.parked: routes whose rescheduling is delayed
    changed,   \* routes with ingests[key] # seen: an ingest since seen was read
    ingesting, \* message -> what its Ingest call still has to do
    hit,       \* runs that were interrupted (Handle.Interrupt was called)
    told,      \* prompts whose planned answer says that the user stopped it
    faults     \* crashes and transient errors so far

agentVars == <<runs, hit>>
schedVars == <<parked, changed, ingesting>>
vars == <<storeVars, agentVars, schedVars, runner, handles, stopFlags, told, faults>>

Idle == [pc |-> "idle", gen |-> 0, work |-> NoMsg, seen |-> "none",
         run |-> NoRun, stop |-> FALSE]

PromptPcs == {"lookup", "submit", "refuse", "receipt", "settle", "recover",
              "own", "replay", "wait", "finish", "release"}
StopPcs == {"stop", "target", "stopLookup", "stopRun", "stopDone"}
Pcs == {"idle", "loop", "pick", "prompt", "drain"} \cup PromptPcs \cup StopPcs

Running == {"running"}
Terminal == {"completed", "failed", "interrupted"}
Run == [route: Routes, gen: Nat, key: Msgs, status: Running \cup Terminal,
        owned: BOOLEAN, resumed: BOOLEAN]

-----------------------------------------------------------------------------
Goto(r, pc) == runner' = [runner EXCEPT ![r].pc = pc]

(* park: refused, and the loop runs again, when an ingest arrived since     *)
(* seen was read; otherwise the runner returns and the route waits.         *)
Park(r) ==
    IF r \in changed
    THEN Goto(r, "loop") /\ UNCHANGED parked
    ELSE /\ runner' = [runner EXCEPT ![r] = Idle]
         /\ parked' = parked \cup {r}

Fault == faults < MaxFaults /\ faults' = faults + 1

At(r, pc) == runner[r].pc = pc
Work(r) == runner[r].work

(* The run committed under an admission key in a session, or none.          *)
Receipts(r, gen, m) ==
    {x \in DOMAIN runs : runs[x].route = r /\ runs[x].gen = gen /\ runs[x].key = m}

-----------------------------------------------------------------------------
(* Service.Ingest: commit, then act on the committed disposition.           *)

IngestCommit(m, r) ==
    /\ Ingest(m, r)
    /\ ingesting' = [ingesting EXCEPT ![m] =
                        CASE inbox'[m].state = "rejected" -> "none"
                          [] inbox'[m].state = "pending" -> "interrupt"
                          [] OTHER -> "unpark"]
    /\ UNCHANGED <<agentVars, runner, handles, stopFlags, parked, changed, told, faults>>

(* interruptRoute: the owned handle of the route, when it matches the frozen*)
(* target or when no target run is known.                                   *)
IngestInterrupt(m) ==
    LET h == handles[inbox[m].route]
        targetRun == inbox[m].targetRun
        hits == IF h # NoRun /\ targetRun \in {NoRun, h} THEN {h} ELSE {}
    IN  /\ ingesting[m] = "interrupt"
        /\ ingesting' = [ingesting EXCEPT ![m] = "unpark"]
        /\ stopFlags' = stopFlags \cup hits
        /\ hit' = hit \cup hits
        /\ UNCHANGED <<storeVars, runs, runner, handles, parked, changed, told, faults>>

(* unpark, then the caller answers the platform.                            *)
IngestUnpark(m) ==
    /\ ingesting[m] = "unpark"
    /\ ingesting' = [ingesting EXCEPT ![m] = "none"]
    /\ parked' = parked \ {inbox[m].route}
    /\ changed' = changed \cup {inbox[m].route}
    /\ UNCHANGED <<storeVars, agentVars, runner, handles, stopFlags, told, faults>>

-----------------------------------------------------------------------------
(* The scheduler.                                                           *)

(* Faulty RoutesWithWork: an active prompt is not work.                     *)
HasWaiting(r) ==
    \/ ItemsIn(r, {"queued", "pending"}) # {}
    \/ \E k \in DOMAIN deliveries :
          deliveries[k].route = r /\ deliveries[k].status = "pending"

HasWork(r) ==
    \/ ItemsIn(r, Unfinished) # {}
    \/ \E k \in DOMAIN deliveries :
          deliveries[k].route = r /\ deliveries[k].status = "pending"

RunningRoutes == {r \in Routes : ~At(r, "idle")}

Startable(r) ==
    /\ At(r, "idle") /\ HasWork(r) /\ r \notin parked
    /\ Cardinality(RunningRoutes) < MaxRunning

LoopWith(gen) == [Idle EXCEPT !.pc = "loop", !.gen = gen]

(* The runner starts, and reads the conversation before it loops.           *)
StartRunner(r) ==
    /\ Startable(r)
    /\ runner' = [runner EXCEPT ![r] = LoopWith(conv[r].gen)]
    /\ UNCHANGED <<storeVars, agentVars, schedVars, handles, stopFlags, told, faults>>

RouteUnavailable(r) ==
    /\ Startable(r) /\ Fault
    /\ parked' = parked \cup {r}
    /\ UNCHANGED <<storeVars, agentVars, runner, changed, ingesting, handles, stopFlags, told>>

ParkExpires(r) ==
    /\ r \in parked
    /\ parked' = parked \ {r}
    /\ UNCHANGED <<storeVars, agentVars, runner, handles, stopFlags, changed,
                   ingesting, told, faults>>
-----------------------------------------------------------------------------
(* runRoute: observe the ingest counter first, then the conversation, then  *)
(* the next work.  A conversation that cannot be read is used as it was.    *)

ObserveRoute(r) ==
    /\ At(r, "loop")
    /\ changed' = changed \ {r}
    /\ \E gen \in {conv[r].gen, runner[r].gen} :
          /\ runner' = [runner EXCEPT ![r] = [Idle EXCEPT !.pc = "pick", !.gen = gen]]
          /\ IF gen = conv[r].gen THEN UNCHANGED faults ELSE Fault
    /\ UNCHANGED <<storeVars, agentVars, parked, ingesting, handles, stopFlags, told>>

PickWork(r) ==
    /\ At(r, "pick")
    /\ \/ \E m \in DOMAIN inbox :
            /\ IsNextWork(m, r)
            /\ runner' = [runner EXCEPT
                            ![r].pc = IF inbox[m].kind = "stop" THEN "stop" ELSE "prompt",
                            ![r].work = m,
                            ![r].seen = inbox[m].state,
                            ![r].run = inbox[m].run]
       \/ ItemsIn(r, Unfinished) = {} /\ Goto(r, "drain")
    /\ UNCHANGED <<storeVars, agentVars, schedVars, handles, stopFlags, told, faults>>

(* drainDeliveries, one lane step at a time, until the lane is clear,       *)
(* blocked or waiting for a retry.                                          *)
DrainRow(r) ==
    /\ At(r, "drain")
    /\ \E k \in Unresolved(r) : LaneStep(k)
    /\ UNCHANGED <<agentVars, schedVars, runner, handles, stopFlags, told, faults>>

LaneClear(r) ==
    /\ At(r, "drain") /\ Unresolved(r) = {}
    /\ runner' = [runner EXCEPT ![r] = IF r \in changed THEN LoopWith(runner[r].gen)
                                       ELSE Idle]
    /\ UNCHANGED <<storeVars, agentVars, schedVars, handles, stopFlags, told, faults>>

LaneWaits(r) ==
    /\ At(r, "drain")
    /\ \E k \in Unresolved(r) :
          IsNext(k) /\ (Blocked(deliveries[k]) \/ deliveries[k].attempts > 0)
    /\ Park(r)
    /\ UNCHANGED <<storeVars, agentVars, changed, ingesting, handles, stopFlags, told, faults>>

(* A read of either database fails: workPark.                               *)
ReadFails(r) ==
    /\ runner[r].pc \in {"pick", "prompt", "lookup", "recover", "drain"} \cup StopPcs
    /\ Fault
    /\ Park(r)
    /\ UNCHANGED <<storeVars, agentVars, changed, ingesting, handles, stopFlags, told>>

-----------------------------------------------------------------------------
(* runPrompt, with a model worker slot held from here to its return.        *)

AcquiresSlot(r) ==
    /\ At(r, "prompt")
    /\ Cardinality({q \in Routes : runner[q].pc \in PromptPcs}) < MaxWorkers
    /\ UNCHANGED <<agentVars, ingesting, changed, handles, stopFlags, told>>

Stale(r) == inbox[Work(r)].gen # runner[r].gen

(* An item of another generation than the conversation that was read is     *)
(* never run: an unguarded transition cancels it.                           *)
StaleGeneration(r) ==
    /\ AcquiresSlot(r) /\ Stale(r)
    /\ Transition(Work(r), States, "canceled")
    /\ Goto(r, "loop") /\ UNCHANGED <<parked, faults>>

(* The guarded transitions of a queued item conflict when a stop canceled it*)
(* after NextWork returned it.                                              *)
BeginPrompt(r) ==
    /\ AcquiresSlot(r) /\ ~Stale(r) /\ runner[r].seen = "queued"
    /\ IF inbox[Work(r)].state = "queued"
       THEN /\ Transition(Work(r), {"queued"}, "admitting")
            /\ Goto(r, "lookup") /\ UNCHANGED parked
       ELSE Park(r) /\ UNCHANGED storeVars
    /\ UNCHANGED faults

(* Whether the rejection is recorded is not looked at.                      *)
HistoryLimit(r) ==
    /\ AcquiresSlot(r) /\ ~Stale(r) /\ runner[r].seen = "queued"
    /\ \/ /\ inbox[Work(r)].state = "queued" /\ UNCHANGED faults
          /\ Transition(Work(r), {"queued"}, "rejected")
       \/ inbox[Work(r)].state # "queued" /\ UNCHANGED <<storeVars, faults>>
       \/ Fault /\ UNCHANGED storeVars
    /\ Goto(r, "loop") /\ UNCHANGED parked

ResumePrompt(r) ==
    /\ AcquiresSlot(r) /\ ~Stale(r) /\ runner[r].seen \in Active
    /\ Goto(r, IF runner[r].seen = "admitting" THEN "lookup" ELSE "recover")
    /\ UNCHANGED <<storeVars, parked, faults>>

(* Faulty admit: every attempt submits without looking the receipt up.      *)
LookupNothing(r) ==
    /\ At(r, "lookup")
    /\ IncrementAttempts(Work(r))
    /\ Goto(r, IF inbox'[Work(r)].attempts > MaxAdmissionAttempts
               THEN "refuse" ELSE "submit")
    /\ UNCHANGED <<agentVars, schedVars, handles, stopFlags, told, faults>>

(* admit: the authoritative lookup comes before every attempt.              *)
LookupReceipt(r) ==
    LET m == Work(r)
        found == Receipts(r, runner[r].gen, m)
    IN  /\ At(r, "lookup")
        /\ \/ \E x \in found :
                /\ MarkAdmitted(m, x)
                /\ runner' = [runner EXCEPT ![r].pc = "recover", ![r].run = x]
           \/ /\ found = {}
              /\ IncrementAttempts(m)
              /\ Goto(r, IF inbox'[m].attempts > MaxAdmissionAttempts
                         THEN "refuse" ELSE "submit")
        /\ UNCHANGED <<agentVars, schedVars, handles, stopFlags, told, faults>>

(* A refusal is written, or that fails, which is not looked at.  runPrompt  *)
(* goes on with an empty receipt, for which there is no run to recover: the *)
(* route is parked.                                                         *)
RefuseAdmission(r) ==
    /\ At(r, "refuse")
    /\ \/ Transition(Work(r), {"admitting"}, "rejected") /\ UNCHANGED faults
       \/ Fault /\ UNCHANGED storeVars
    /\ Park(r)
    /\ UNCHANGED <<agentVars, changed, ingesting, handles, stopFlags, told>>

(* runtime.Start: the receipt and the run commit together.                  *)
NewRun(r, x, owned) ==
    runs' = [y \in DOMAIN runs \cup {x} |->
                IF y = x THEN [route |-> r, gen |-> runner[r].gen, key |-> Work(r),
                               status |-> "running", owned |-> owned, resumed |-> FALSE]
                ELSE runs[y]]

SessionBusy(r) ==
    \E x \in DOMAIN runs : /\ runs[x].route = r /\ runs[x].gen = runner[r].gen
                           /\ runs[x].status \in Running

SubmitAccepted(r) ==
    /\ At(r, "submit") /\ ~SessionBusy(r)
    /\ \E x \in RunIds \ DOMAIN runs :
          /\ NewRun(r, x, TRUE)
          /\ runner' = [runner EXCEPT ![r].pc = "receipt", ![r].run = x]
    /\ UNCHANGED <<storeVars, schedVars, handles, stopFlags, hit, told, faults>>

(* The session is busy with a run, or still leased to an abandoned one.     *)
SubmitBusy(r) ==
    /\ At(r, "submit")
    /\ IF SessionBusy(r) THEN UNCHANGED faults ELSE Fault
    /\ Goto(r, "lookup")
    /\ UNCHANGED <<storeVars, agentVars, schedVars, handles, stopFlags, told>>

SubmitInvalid(r) ==
    /\ At(r, "submit")
    /\ Goto(r, "refuse")
    /\ UNCHANGED <<storeVars, agentVars, schedVars, handles, stopFlags, told, faults>>

(* Another error: the receipt may or may not have been committed.           *)
SubmitFails(r) ==
    /\ At(r, "submit") /\ Fault
    /\ \/ UNCHANGED runs
       \/ ~SessionBusy(r) /\ \E x \in RunIds \ DOMAIN runs : NewRun(r, x, FALSE)
    /\ Goto(r, "lookup")
    /\ UNCHANGED <<storeVars, schedVars, handles, stopFlags, hit, told>>

PersistReceipt(r) ==
    /\ At(r, "receipt")
    /\ MarkAdmitted(Work(r), runner[r].run)
    /\ Goto(r, "own")
    /\ UNCHANGED <<agentVars, schedVars, handles, stopFlags, told, faults>>

(* The receipt could not be persisted: let the run settle, then park.       *)
PersistReceiptFails(r) ==
    /\ At(r, "receipt") /\ Fault
    /\ Goto(r, "settle")
    /\ UNCHANGED <<storeVars, agentVars, schedVars, handles, stopFlags, told>>

SettleUnrecorded(r) ==
    /\ At(r, "settle") /\ runs[runner[r].run].status \in Terminal
    /\ Park(r)
    /\ UNCHANGED <<storeVars, agentVars, changed, ingesting, handles, stopFlags, told, faults>>

(* recoverHandle: a terminal run gives a static handle, an abandoned one is *)
(* resumed once its lease is over.                                          *)
ResumeRun(x) == runs' = [runs EXCEPT ![x].owned = TRUE, ![x].resumed = TRUE]

RecoverHandle(r) ==
    LET x == runner[r].run
    IN  /\ At(r, "recover")
        /\ \/ runs[x].status \in Terminal /\ UNCHANGED runs
           \/ runs[x].status \in Running /\ ~runs[x].owned /\ ResumeRun(x)
        /\ Goto(r, "own")
        /\ UNCHANGED <<storeVars, schedVars, handles, stopFlags, hit, told, faults>>

OwnHandle(r) ==
    /\ At(r, "own")
    /\ handles' = [handles EXCEPT ![r] = runner[r].run]
    /\ Goto(r, "replay")
    /\ UNCHANGED <<storeVars, agentVars, schedVars, stopFlags, told, faults>>

(* Faulty handoff: the stops frozen before the handle was owned are missed. *)
ReplayNothing(r) ==
    /\ At(r, "replay")
    /\ Goto(r, "wait")
    /\ UNCHANGED <<storeVars, agentVars, schedVars, handles, stopFlags, told, faults>>

(* PendingStops: a stop frozen against this item before the handle was owned.*)
ReplayStops(r) ==
    LET x == runner[r].run
        aimed == {c \in ItemsIn(r, {"pending"}) :
                    inbox[c].kind = "stop" /\ (inbox[c].target = Work(r) \/ inbox[c].targetRun = x)}
        hits == IF aimed = {} THEN {} ELSE {x}
    IN  /\ At(r, "replay")
        /\ stopFlags' = stopFlags \cup hits
        /\ hit' = hit \cup hits
        /\ Goto(r, "wait")
        /\ UNCHANGED <<storeVars, runs, schedVars, handles, told, faults>>

(* An error of PendingStops is ignored.                                     *)
StopsUnread(r) ==
    /\ At(r, "replay") /\ Fault
    /\ Goto(r, "wait")
    /\ UNCHANGED <<storeVars, agentVars, schedVars, handles, stopFlags, told>>

(* projection.wait and consumeStopFlag.                                     *)
RunDone(r) ==
    LET x == runner[r].run
    IN  /\ At(r, "wait") /\ runs[x].status \in Terminal
        /\ runner' = [runner EXCEPT ![r].pc = "finish", ![r].stop = x \in stopFlags]
        /\ stopFlags' = stopFlags \ {x}
        /\ UNCHANGED <<storeVars, agentVars, schedVars, handles, told, faults>>

(* composeFinal, as far as the user is told that the answer was stopped: not*)
(* when the output limit cut it or its text cannot be read.                 *)
SaysStopped(status, userStop, otherwise) ==
    status = "interrupted" /\ userStop /\ ~otherwise

FinishPrompt(r) ==
    /\ At(r, "finish")
    /\ \E n \in 1 .. MaxChunks : MarkTerminal(Work(r), n)
    /\ \E otherwise \in BOOLEAN :
          told' = IF SaysStopped(runs[runner[r].run].status, runner[r].stop, otherwise)
                  THEN told \cup {Work(r)} ELSE told
    /\ Goto(r, "release")
    /\ UNCHANGED <<agentVars, schedVars, handles, stopFlags, faults>>

FinishFails(r) ==
    /\ At(r, "finish") /\ Fault
    /\ handles' = [handles EXCEPT ![r] = NoRun]
    /\ Park(r)
    /\ UNCHANGED <<storeVars, agentVars, changed, ingesting, stopFlags, told>>

ReleaseHandle(r) ==
    /\ At(r, "release")
    /\ handles' = [handles EXCEPT ![r] = NoRun]
    /\ Goto(r, "loop")
    /\ UNCHANGED <<storeVars, agentVars, schedVars, stopFlags, told, faults>>

-----------------------------------------------------------------------------
(* settleStop                                                               *)

SettleStop(r) ==
    /\ At(r, "stop")
    /\ CancelQueuedUpTo(r, inbox[Work(r)].cutoff)
    /\ Goto(r, "target")
    /\ UNCHANGED <<agentVars, schedVars, handles, stopFlags, told, faults>>

(* Faulty settleStop: only an admitted target is still to be ended.         *)
ReadTargetAdmitted(r) ==
    LET t == inbox[Work(r)].target
    IN  /\ At(r, "target")
        /\ runner' = [runner EXCEPT
                ![r].pc = IF t # NoMsg /\ inbox[t].state = "admitted"
                          THEN "stopRun" ELSE "stopDone",
                ![r].run = IF t = NoMsg THEN NoRun ELSE inbox[t].run]
        /\ UNCHANGED <<storeVars, agentVars, schedVars, handles, stopFlags, told, faults>>

ReadTarget(r) ==
    LET t == inbox[Work(r)].target
    IN  /\ At(r, "target")
        /\ runner' = [runner EXCEPT
                ![r].pc = IF t = NoMsg THEN "stopDone"
                          ELSE CASE inbox[t].state = "admitting" -> "stopLookup"
                                 [] inbox[t].state = "admitted" -> "stopRun"
                                 [] OTHER -> "stopDone",
                ![r].run = IF t = NoMsg THEN NoRun ELSE inbox[t].run]
        /\ UNCHANGED <<storeVars, agentVars, schedVars, handles, stopFlags, told, faults>>

(* Faulty settleStop: an admitting target is canceled without a lookup.     *)
CancelUnresolved(r) ==
    LET t == inbox[Work(r)].target
    IN  /\ At(r, "stopLookup")
        /\ IF inbox[t].state = "admitting"
           THEN Transition(t, {"admitting"}, "canceled")
           ELSE UNCHANGED storeVars
        /\ Goto(r, "stopDone")
        /\ UNCHANGED <<agentVars, schedVars, handles, stopFlags, told, faults>>

(* The keyed receipt of an admitting target is resolved before it is        *)
(* interrupted; a target that never started is canceled without a run.      *)
ResolveTarget(r) ==
    LET t == inbox[Work(r)].target
        found == Receipts(r, runner[r].gen, t)
    IN  /\ At(r, "stopLookup")
        /\ \/ \E x \in found :
                /\ MarkAdmitted(t, x)
                /\ runner' = [runner EXCEPT ![r].pc = "stopRun", ![r].run = x]
           \/ /\ found = {}
              /\ IF inbox[t].state = "admitting"
                 THEN Transition(t, {"admitting"}, "canceled")
                 ELSE UNCHANGED storeVars
              /\ Goto(r, "stopDone")
        /\ UNCHANGED <<agentVars, schedVars, handles, stopFlags, told, faults>>

(* Faulty settleRun: it does not wait for the run to end.                   *)
SettleWithoutWaiting(r) ==
    LET x == runner[r].run
    IN  /\ At(r, "stopRun")
        /\ stopFlags' = stopFlags \cup {x}
        /\ hit' = IF handles[r] = x THEN hit \cup {x} ELSE hit
        /\ Goto(r, "stopDone")
        /\ UNCHANGED <<storeVars, runs, schedVars, handles, told, faults>>

(* settleRun: flag the run, interrupt it if this process owns it, resume it *)
(* if it is abandoned, and go on only when it is terminal; park when the    *)
(* lease of an abandoned run is not over in time.                           *)
SettleRun(r) ==
    LET x == runner[r].run
    IN  /\ At(r, "stopRun")
        /\ stopFlags' = stopFlags \cup {x}
        /\ hit' = IF handles[r] = x THEN hit \cup {x} ELSE hit
        /\ \/ runs[x].status \in Terminal /\ Goto(r, "stopDone") /\ UNCHANGED <<runs, parked>>
           \/ /\ runs[x].status \in Running /\ ~runs[x].owned
              /\ \/ ResumeRun(x) /\ UNCHANGED <<runner, parked>>
                 \/ Park(r) /\ UNCHANGED runs
        /\ UNCHANGED <<storeVars, changed, ingesting, handles, told, faults>>

CompleteControl(r) ==
    /\ At(r, "stopDone")
    /\ Transition(Work(r), {"pending"}, "complete")
    /\ Goto(r, "loop")
    /\ UNCHANGED <<agentVars, schedVars, handles, stopFlags, told, faults>>

-----------------------------------------------------------------------------
(* The agent runtime, and the process.                                      *)

(* A run this process executes ends; a resumed one only as interrupted.     *)
RunSettles(x) ==
    /\ runs[x].status \in Running /\ runs[x].owned
    /\ \E status \in IF runs[x].resumed THEN {"interrupted"} ELSE Terminal :
          runs' = [runs EXCEPT ![x].status = status]
    /\ UNCHANGED <<storeVars, hit, schedVars, runner, handles, stopFlags, told, faults>>

(* The process dies and starts again: both databases stay, everything in    *)
(* memory is gone, and the runs it executed are abandoned.                  *)
Crash ==
    /\ Fault
    /\ runner' = [r \in Routes |-> Idle]
    /\ handles' = [r \in Routes |-> NoRun]
    /\ stopFlags' = {} /\ parked' = {} /\ changed' = {}
    /\ ingesting' = [m \in Msgs |-> "none"]
    /\ runs' = [x \in DOMAIN runs |->
                  IF runs[x].status \in Running THEN [runs[x] EXCEPT !.owned = FALSE]
                  ELSE runs[x]]
    /\ UNCHANGED <<storeVars, hit, told>>

RunnerInit ==
    /\ Init
    /\ runs = [x \in {} |-> {}]
    /\ runner = [r \in Routes |-> Idle]
    /\ handles = [r \in Routes |-> NoRun]
    /\ stopFlags = {} /\ parked = {} /\ changed = {} /\ hit = {}
    /\ ingesting = [m \in Msgs |-> "none"]
    /\ told = {}
    /\ faults = 0

IngestStep(m) == IngestInterrupt(m) \/ IngestUnpark(m)

PromptStep(r) ==
    \/ StaleGeneration(r) \/ BeginPrompt(r) \/ HistoryLimit(r) \/ ResumePrompt(r)
    \/ LookupReceipt(r) \/ RefuseAdmission(r)
    \/ SubmitAccepted(r) \/ SubmitBusy(r) \/ SubmitInvalid(r) \/ SubmitFails(r)
    \/ PersistReceipt(r) \/ PersistReceiptFails(r) \/ SettleUnrecorded(r)
    \/ RecoverHandle(r) \/ OwnHandle(r) \/ ReplayStops(r) \/ StopsUnread(r)
    \/ RunDone(r) \/ FinishPrompt(r) \/ FinishFails(r) \/ ReleaseHandle(r)

StopStep(r) ==
    \/ SettleStop(r) \/ ReadTarget(r) \/ ResolveTarget(r)
    \/ SettleRun(r) \/ CompleteControl(r)

LaneDrain(r) == DrainRow(r) \/ LaneClear(r) \/ LaneWaits(r)

RunnerStep(r) ==
    \/ ObserveRoute(r) \/ PickWork(r) \/ ReadFails(r)
    \/ PromptStep(r) \/ StopStep(r) \/ LaneDrain(r)

RunnerNext ==
    \/ \E m \in Msgs, r \in Routes : IngestCommit(m, r)
    \/ \E m \in Msgs : IngestStep(m)
    \/ \E r \in Routes : StartRunner(r) \/ RouteUnavailable(r) \/ ParkExpires(r) \/ RunnerStep(r)
    \/ \E x \in DOMAIN runs : RunSettles(x)
    \/ Crash

RunnerSpec == RunnerInit /\ [][RunnerNext]_vars

(* Goroutines are scheduled, the one-second tick rescans, parks expire, and *)
(* runs end (the turn has a deadline).  A lane that waits for retry_at is   *)
(* parked exactly until then, so an attempt that keeps being due is made.   *)
(* A lease ends, so an abandoned run that is asked for again and again is   *)
(* resumed.                                                                 *)
(* Nothing makes an event arrive or a fault happen, and faults are finite.  *)
Fairness ==
    /\ \A m \in Msgs : WF_vars(IngestStep(m))
    /\ \A r \in Routes : /\ WF_vars(StartRunner(r))
                         /\ WF_vars(ParkExpires(r))
                         /\ WF_vars(RunnerStep(r))
                         /\ SF_vars(DrainRow(r))
                         /\ SF_vars(SettleRun(r) /\ runs' # runs)
    /\ \A x \in RunIds : WF_vars(x \in DOMAIN runs /\ RunSettles(x))

FairRunnerSpec == RunnerSpec /\ Fairness

-----------------------------------------------------------------------------
(* Properties.                                                              *)

(* Admission is exactly once: whatever fails or crashes, a message never    *)
(* gets a second run, and its run is in the session of its own generation.  *)
OneRunPerMessage ==
    \A x, y \in DOMAIN runs :
        /\ runs[x].key = runs[y].key => x = y
        /\ runs[x].gen = inbox[runs[x].key].gen

(* A prompt the user was told is refused or canceled has never run, and one *)
(* that ran keeps its receipt.                                              *)
OnlyAcceptedRun ==
    \A x \in DOMAIN runs :
        LET item == inbox[runs[x].key]
        IN  /\ item.state \in {"admitting", "admitted", "terminal"}
            /\ item.run \in {NoRun, x}

(* No stop is lost between the two sides: while the runner waits for a run, *)
(* every pending stop frozen against its item, whose Ingest call has got    *)
(* past interruptRoute, has interrupted that run.                           *)
StopReachesTarget ==
    \A r \in Routes, c \in DOMAIN inbox :
        /\ At(r, "wait") /\ inbox[c].state = "pending"
        /\ inbox[c].target = Work(r) /\ ingesting[c] # "interrupt"
        => handles[r] \in hit

(* A stop is reported settled only when its target is over.                 *)
StopEndsTarget ==
    \A c \in DOMAIN inbox, x \in DOMAIN runs :
        inbox[c].state = "complete" /\ inbox[c].target = runs[x].key
            => runs[x].status \in Terminal

(* Every store step of the runners is one the store's contract allows.      *)
ImplementsHostStore == Spec

(* Every accepted event is settled in the end: prompts run, are refused or  *)
(* canceled, stops complete.                                                *)
EventsSettle ==
    \A m \in Msgs :
        (m \in DOMAIN inbox) ~> (m \in DOMAIN inbox /\ inbox[m].state \in Finished)

(* An accepted prompt is canceled only by a stop that arrived after it.     *)
CanceledOnlyByStop ==
    \A m \in DOMAIN inbox :
        inbox[m].state = "canceled" =>
            \E c \in DOMAIN inbox :
                /\ inbox[c].kind = "stop" /\ inbox[c].route = inbox[m].route
                /\ inbox[m].seq <= inbox[c].cutoff

(* A stop labels no answer but those of prompts that arrived before it.     *)
StopNeverRelabels ==
    \A m \in DOMAIN inbox :
        m \in told =>
            \E c \in DOMAIN inbox :
                /\ inbox[c].kind = "stop" /\ inbox[c].route = inbox[m].route
                /\ inbox[m].seq <= inbox[c].cutoff

(* "The flag must be set even when no handle is owned (after a restart), so  *)
(* the finalizing turn labels the outcome as a user stop." (controls.go):   *)
(* the turn that plans the answer of an interrupted run knows of the stop   *)
(* that was completed against it.                                           *)
(* It does not hold: the flag is lost with the process, or consumed by a    *)
(* turn whose answer is not saved.                                          *)
StopLabelsAnswer ==
    \A r \in Routes, c \in DOMAIN inbox :
        /\ At(r, "finish") /\ runs[runner[r].run].status = "interrupted"
        /\ inbox[c].state = "complete" /\ inbox[c].target = Work(r)
        => runner[r].stop

=============================================================================
