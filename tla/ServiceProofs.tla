--------------------------- MODULE ServiceProofs ----------------------------
(***************************************************************************)
(* The conversation service: which routes have a runner (Scheduler), and    *)
(* how all of them come to an end (Shutdown).                               *)
(***************************************************************************)
EXTENDS Scheduler, Shutdown, WellFoundedInduction, TLAPS

-----------------------------------------------------------------------------
(***************************************************************************)
(* Parking never swallows an ingest, for every number of routes, slots and  *)
(* counters, and with concurrent Ingest calls.                              *)
(***************************************************************************)

(* The values the argument compares.                                        *)
CountsTyped ==
    /\ ingests \in [Routes -> Nat] /\ inflight \in [Routes -> Nat]
    /\ runner \in [Routes -> [pc : RunnerPcs, seen : Nat]]
    /\ parked \in [Routes -> {"no", "held", "over"}]

(* A runner is active for as long as it runs: its counter is not dropped.   *)
RunnersActive == \A r \in Routes : runner[r].pc # "off" => r \in active

(* Between reading its counter and parking on it.                           *)
Deciding(r) == runner[r].pc \in {"work", "idle", "park", "giveup"}

(* The counter only grows meanwhile, and a commit the runner did not see    *)
(* either has yet to reach unpark or has made the counter differ.           *)
CounterTells ==
    \A r \in Routes :
        Deciding(r) =>
            /\ runner[r].seen <= ingests[r]
            /\ r \in news => inflight[r] > 0 \/ runner[r].seen < ingests[r]

ParkInv == CountsTyped /\ RunnersActive /\ CounterTells /\ NoMissedIngest

-----------------------------------------------------------------------------
LEMMA InitParkInv == SchedInit => ParkInv
BY DEF SchedInit, ParkInv, CountsTyped, RunnersActive, CounterTells, Deciding,
       NoMissedIngest, Off, RunnerPcs

(* Eviction keeps the counter of an active route.                           *)
LEMMA EvictKeepsActive ==
    ASSUME NEW counts \in [Routes -> Nat], NEW held
    PROVE  /\ Evict(counts, held) \in [Routes -> Nat]
           /\ \A r \in Routes : r \in active => Evict(counts, held)[r] = counts[r]
BY DEF Evict

(* The scheduler hands a route over with its entry cleared and leaves the   *)
(* counters alone.                                                          *)
LEMMA SchedulerKeepsParkInv ==
    ASSUME ParkInv, SchedulerStep \/ QueryFails
    PROVE  ParkInv'
<1>1. CASE BeginPass \/ Query \/ VisitFull \/ EndPass \/ QueryFails
  <2>1. UNCHANGED <<queue, active, parked, ingests, runner>>
    BY <1>1 DEF BeginPass, Query, VisitFull, EndPass, QueryFails, queue
  <2> QED
    BY <2>1 DEF ParkInv, CountsTyped, RunnersActive, CounterTells, Deciding,
                NoMissedIngest, queue
<1>2. CASE VisitRoute
  <2> DEFINE key == Head(sched.keys)
  <2>1. UNCHANGED <<news, inflight, ingests>>
    BY <1>2 DEF VisitRoute, queue
  <2>2. CASE UNCHANGED <<active, parked, runner>>
    BY <2>1, <2>2 DEF ParkInv, CountsTyped, RunnersActive, CounterTells,
                      Deciding, NoMissedIngest
  <2>3. CASE /\ active' = active \cup {key}
             /\ parked' = [parked EXCEPT ![key] = "no"]
             /\ runner' = [runner EXCEPT ![key] = [pc |-> "start", seen |-> 0]]
    BY <2>1, <2>3 DEF ParkInv, CountsTyped, RunnersActive, CounterTells,
                      Deciding, NoMissedIngest, RunnerPcs
  <2> QED BY <1>2, <2>2, <2>3 DEF VisitRoute
<1> QED BY <1>1, <1>2 DEF SchedulerStep

(* A commit is announced by inflight until unpark has counted it.           *)
LEMMA CommitKeepsParkInv ==
    ASSUME ParkInv, NEW q \in Routes, IngestCommit(q)
    PROVE  ParkInv'
BY DEF ParkInv, CountsTyped, RunnersActive, CounterTells, Deciding,
       NoMissedIngest, IngestCommit, scan

(* unpark clears the park and moves the counter of a running route on.      *)
LEMMA UnparkKeepsParkInv ==
    ASSUME ParkInv, NEW q \in Routes, Unpark(q)
    PROVE  ParkInv'
<1> DEFINE held == [parked EXCEPT ![q] = "no"]
           counts == [ingests EXCEPT ![q] = @ + 1]
<1>1. counts \in [Routes -> Nat]
  BY DEF ParkInv, CountsTyped
<1>2. /\ ingests' = Evict(counts, held) /\ parked' = held
      /\ inflight' = [inflight EXCEPT ![q] = @ - 1] /\ inflight[q] > 0
      /\ UNCHANGED <<news, active, runner>>
  BY DEF Unpark
<1> HIDE DEF held, counts
<1>3. /\ ingests' \in [Routes -> Nat]
      /\ \A r \in Routes : r \in active => ingests'[r] = counts[r]
  BY <1>1, <1>2, EvictKeepsActive
<1> USE DEF held, counts
<1>4. CountsTyped'
  <2>1. inflight' \in [Routes -> Nat] /\ parked' \in [Routes -> {"no", "held", "over"}]
    BY <1>2 DEF ParkInv, CountsTyped
  <2>2. runner' \in [Routes -> [pc : RunnerPcs, seen : Nat]]
    BY <1>2 DEF ParkInv, CountsTyped
  <2> QED BY <1>3, <2>1, <2>2 DEF CountsTyped
<1>5. RunnersActive'
  BY <1>2 DEF ParkInv, RunnersActive
<1>6. CounterTells'
  <2> SUFFICES ASSUME NEW r \in Routes, Deciding(r)'
               PROVE  /\ runner'[r].seen <= ingests'[r]
                      /\ r \in news' => inflight'[r] > 0 \/ runner'[r].seen < ingests'[r]
    BY DEF CounterTells
  <2>1. Deciding(r) /\ r \in active
    BY <1>2 DEF Deciding, ParkInv, RunnersActive
  <2>2. ingests'[r] = counts[r]
    BY <1>3, <2>1
  <2>3. CASE r = q
    BY <1>2, <2>1, <2>2, <2>3 DEF ParkInv, CounterTells, CountsTyped
  <2>4. CASE r # q
    BY <1>2, <2>1, <2>2, <2>4 DEF ParkInv, CounterTells, CountsTyped
  <2> QED BY <2>3, <2>4
<1>7. NoMissedIngest'
  BY <1>2 DEF ParkInv, NoMissedIngest, CountsTyped
<1> QED BY <1>4, <1>5, <1>6, <1>7 DEF ParkInv

(* A runner parks only on an unchanged counter.                             *)
LEMMA RunnerKeepsParkInv ==
    ASSUME ParkInv, NEW q \in Routes, RunnerStep(q)
    PROVE  ParkInv'
<1> USE DEF ParkInv, CountsTyped, RunnersActive, CounterTells, Deciding,
            NoMissedIngest, RunnerPcs
<1>1. CASE Start(q)
  BY <1>1 DEF Start, RunnerAt, ReadSeen
<1>2. CASE Look(q)
  BY <1>2 DEF Look, ReadSeen
<1>3. CASE Work(q)
  BY <1>3 DEF Work, RunnerAt
<1>4. CASE FindNothing(q)
  BY <1>4 DEF FindNothing, RunnerAt, queue
<1>5. CASE Park(q)
  BY <1>5 DEF Park, RunnerAt, queue
<1>6. CASE Exit(q)
  BY <1>6 DEF Exit, Off, queue
<1> QED BY <1>1, <1>2, <1>3, <1>4, <1>5, <1>6 DEF RunnerStep

(* NoMissedIngest holds whatever the limits are: a route is never left      *)
(* parked over an ingest that its runner did not see, unless that Ingest    *)
(* call is still about to clear the park.                                   *)
THEOREM IngestsNeverMissed == SchedSpec => []NoMissedIngest
<1>1. ParkInv /\ [SchedNext]_schedVars => ParkInv'
  <2> SUFFICES ASSUME ParkInv, [SchedNext]_schedVars PROVE ParkInv'
    OBVIOUS
  <2>1. CASE UNCHANGED schedVars
    BY <2>1 DEF schedVars, queue, ParkInv, CountsTyped, RunnersActive, CounterTells,
                Deciding, NoMissedIngest
  <2>2. ASSUME NEW q \in Routes, ParkExpires(q)
        PROVE  ParkInv'
    BY <2>2 DEF ParkExpires, queue, ParkInv, CountsTyped, RunnersActive,
                CounterTells, Deciding, NoMissedIngest
  <2> QED
    BY <2>1, <2>2, SchedulerKeepsParkInv, CommitKeepsParkInv,
       UnparkKeepsParkInv, RunnerKeepsParkInv DEF SchedNext
<1>2. ParkInv => NoMissedIngest
  BY DEF ParkInv
<1> QED BY <1>1, <1>2, InitParkInv, PTL DEF SchedSpec

-----------------------------------------------------------------------------
(* Theorems about Shutdown, for any number of conversations, prompts,       *)
(* workers and faults, and any moment at which the process is told to stop. *)

Serving == {"serving", "interrupt", "wait", "cancel"}
(* The runner has a prompt; it has one that executes.                       *)
Holding == {"acquire"} \cup InTurn
Executing == {"receipt", "await", "publish", "owned", "grace", "stop", "plan"}
TurnPcs == {"none", "check", "read"} \cup Holding
Unfinished == {"queued", "admitting", "admitted"}
RunStates == {"none", "abandoned", "running", "ending", "over"}

TurnsTyped ==
    /\ inbox \in [Prompts -> {"none", "terminal"} \cup Unfinished]
    /\ runs \in [Prompts -> RunStates]
    /\ goroutine \in [Conversations -> [pc : TurnPcs, prompt : Prompts \cup {NoPrompt}]]
    /\ creating \in [Conversations -> {"none", "calling", "landed", "lost"}]
    /\ faults \in Nat

(* Every write observes the cancellation that comes when the wait of the    *)
(* shutdown is over, which is when it knows what to report: that all went   *)
(* well only when the goroutine that waits has told so.                     *)
StopInOrder ==
    /\ shut \in Serving <=> ~cancelled
    /\ shut \in Serving \ {"cancel"} => result = "none"
    /\ waiter # "none" => closing
    /\ result = "ok" => waiter = "done"

(* A prompt that a handler has yet to commit is nobody's.                   *)
IngestOpen == ingest # NoPrompt => ingest \in Prompts /\ inbox[ingest] = "none"

(* A prompt is its runner's for as long as it is not finished.              *)
HoldsItsOwn(r) ==
    goroutine[r].pc \in Holding =>
        /\ goroutine[r].prompt \in Prompts /\ goroutine[r].prompt[1] = r
        /\ inbox[goroutine[r].prompt] \in Unfinished

(* The runner does not go on before the creation of its preview is over.    *)
PreviewHeld(r) ==
    /\ creating[r] \in {"calling", "landed"} => goroutine[r].pc \in {"owned", "grace", "stop"}
    /\ creating[r] = "lost" => faults > 0 \/ ~Running

Has(r, p) == goroutine[r].prompt = p

RunsHeld(r) ==
    \A p \in Prompts :
        p[1] = r /\ runs[p] = "running" => Has(r, p) /\ goroutine[r].pc \in Executing

(* Without faults, what executed is finished, or on its way to it: its      *)
(* runner has it, and stops waiting for it only when it is over.            *)
OnItsWay(r) ==
    faults = 0 /\ (~cancelled \/ result = "ok") =>
        /\ goroutine[r].pc \notin {"await", "backoff", "grace"}
        /\ \A p \in Prompts :
             p[1] = r =>
                /\ runs[p] \in {"running", "ending", "over"} =>
                       inbox[p] = "terminal" \/ (Has(r, p) /\ goroutine[r].pc \in Executing)
                /\ inbox[p] = "terminal" => runs[p] = "over"
                /\ Has(r, p) /\ goroutine[r].pc \in {"stop", "plan"} => runs[p] = "over"

(* The wait is over when every runner is gone and every preview recorded.   *)
(* What starts later is a runner that finds the service closing.            *)
AllGone ==
    waiter = "done" =>
        \A r \in Conversations :
            /\ goroutine[r].pc \in {"none", "check"}
            /\ creating[r] = "none" \/ (creating[r] = "lost" /\ faults > 0)

RouteInv(r) == HoldsItsOwn(r) /\ PreviewHeld(r) /\ RunsHeld(r) /\ OnItsWay(r)

ShutInv ==
    /\ TurnsTyped /\ StopInOrder /\ IngestOpen /\ AllGone
    /\ \A r \in Conversations : RouteInv(r)

-----------------------------------------------------------------------------
(* The records of the model.                                                *)

LEMMA PromptShape ==
    ASSUME NEW p \in Prompts
    PROVE  p[1] \in Conversations /\ p[2] \in 1 .. MaxPrompts /\ p = <<p[1], p[2]>>
BY DEF Prompts

LEMMA TurnsTo ==
    ASSUME TurnsTyped, NEW r \in Conversations, NEW pc \in TurnPcs, TurnAt(r, pc)
    PROVE  /\ goroutine' \in [Conversations -> [pc : TurnPcs, prompt : Prompts \cup {NoPrompt}]]
           /\ goroutine'[r].pc = pc /\ goroutine'[r].prompt = goroutine[r].prompt
           /\ \A q \in Conversations \ {r} : goroutine'[q] = goroutine[q]
BY DEF TurnsTyped, TurnAt

LEMMA Leaves ==
    ASSUME TurnsTyped, NEW r \in Conversations, Leave(r)
    PROVE  /\ goroutine' \in [Conversations -> [pc : TurnPcs, prompt : Prompts \cup {NoPrompt}]]
           /\ goroutine'[r].pc = "none" /\ goroutine'[r].prompt = NoPrompt
           /\ \A q \in Conversations \ {r} : goroutine'[q] = goroutine[q]
BY DEF TurnsTyped, Leave, NoRunner, TurnPcs

(* A handle that is interrupted and a context that is canceled touch only   *)
(* the runs they are for.                                                   *)
LEMMA EndedRuns ==
    ASSUME TurnsTyped, NEW ps
    PROVE  /\ Ended(ps) \in [Prompts -> RunStates]
           /\ \A p \in Prompts : Ended(ps)[p] = "running" => runs[p] = "running" /\ p \notin ps
           /\ \A p \in Prompts : Ended(ps)[p] # runs[p] => /\ p \in ps
                                                          /\ runs[p] = "running" /\ Ended(ps)[p] = "ending"
BY DEF TurnsTyped, Ended, RunStates

(* The end of runPrompt.                                                    *)
LEMMA Returns ==
    ASSUME TurnsTyped, NEW r \in Conversations, NEW pcs, pcs \subseteq {"none", "check"},
           Return(r, pcs)
    PROVE  /\ goroutine' \in [Conversations -> [pc : TurnPcs, prompt : Prompts \cup {NoPrompt}]]
           /\ goroutine'[r].pc \in {"none", "check"} /\ goroutine'[r].prompt = NoPrompt
           /\ \A q \in Conversations \ {r} : goroutine'[q] = goroutine[q]
           /\ runs' = Ended({goroutine[r].prompt})
<1>1. PICK pc \in pcs :
          IF pc = "none" THEN Leave(r)
          ELSE goroutine' = [goroutine EXCEPT ![r] = [NoRunner EXCEPT !.pc = pc]]
  BY DEF Return
<1>2. pc \in {"none", "check"} /\ runs' = Ended({goroutine[r].prompt})
  BY <1>1 DEF Return
<1>3. CASE pc = "none"
  BY <1>1, <1>2, <1>3, Leaves
<1>4. CASE pc = "check"
  <2>1. goroutine' = [goroutine EXCEPT ![r] = [pc |-> "check", prompt |-> NoPrompt]]
    BY <1>1, <1>4 DEF NoRunner
  <2> QED BY <2>1, <1>2 DEF TurnsTyped, TurnPcs
<1> QED BY <1>2, <1>3, <1>4

-----------------------------------------------------------------------------
LEMMA InitShutInv == ShutInit => ShutInv
<1> SUFFICES ASSUME ShutInit PROVE ShutInv
  OBVIOUS
<1>1. TurnsTyped
  BY DEF ShutInit, TurnsTyped, Unfinished, RunStates, NoRunner, TurnPcs
<1>2. \A r \in Conversations : goroutine[r].pc = "none" /\ creating[r] = "none"
  BY DEF ShutInit, NoRunner
<1>3. \A p \in Prompts : runs[p] \in {"none", "abandoned"} /\ inbox[p] # "terminal"
  BY DEF ShutInit
<1>4. \A r \in Conversations : RouteInv(r)
  BY <1>2, <1>3 DEF RouteInv, HoldsItsOwn, PreviewHeld, RunsHeld, OnItsWay, Holding, InTurn
<1> QED BY <1>1, <1>4 DEF ShutInit, ShutInv, StopInOrder, Serving, IngestOpen, AllGone, closing

(* What a runner does concerns its own route, and the one who waits for it. *)
(* It may wake that one, but the wait is not over as long as it runs.       *)
LEMMA StepOfRoute ==
    ASSUME ShutInv, NEW r \in Conversations,
           waiter' = "done" <=> waiter = "done", waiter = "none" => waiter' = "none",
           waiter = "done" => goroutine'[r].pc \in {"none", "check"},
           UNCHANGED <<stopping, ingest, creating>>,
           TurnsTyped', faults' >= faults,
           \A q \in Conversations \ {r} : goroutine'[q] = goroutine[q],
           \A p \in Prompts : p[1] # r => inbox'[p] = inbox[p] /\ runs'[p] = runs[p],
           \A p \in Prompts : inbox[p] = "none" => inbox'[p] = "none",
           RouteInv(r)'
    PROVE  ShutInv'
<1>1. StopInOrder' /\ AllGone'
  <2>1. StopInOrder'
    BY DEF ShutInv, StopInOrder, closing, stopping
  <2>2. faults \in Nat /\ faults' \in Nat
    BY DEF ShutInv, TurnsTyped
  <2>3. AllGone'
    BY <2>2 DEF ShutInv, AllGone
  <2> QED BY <2>1, <2>3
<1>2. IngestOpen'
  BY DEF ShutInv, IngestOpen
<1>3. ASSUME NEW q \in Conversations, q # r PROVE RouteInv(q)'
  <2>1. goroutine'[q] = goroutine[q] /\ creating'[q] = creating[q] /\ RouteInv(q)
    BY <1>3 DEF ShutInv
  <2>2. \A p \in Prompts : p[1] = q => inbox'[p] = inbox[p] /\ runs'[p] = runs[p]
    BY <1>3
  <2>3. shut' = shut /\ cancelled' = cancelled /\ result' = result
    BY DEF stopping
  <2>4. faults \in Nat /\ faults' \in Nat
    BY DEF ShutInv, TurnsTyped
  <2>5. HoldsItsOwn(q)'
    BY <2>1, <2>2 DEF RouteInv, HoldsItsOwn
  <2>6. PreviewHeld(q)'
    BY <2>1, <2>3, <2>4 DEF RouteInv, PreviewHeld, Running
  <2>7. RunsHeld(q)'
    BY <2>1, <2>2 DEF RouteInv, RunsHeld, Has
  <2>8. OnItsWay(q)'
    BY <2>1, <2>2, <2>3, <2>4 DEF RouteInv, OnItsWay, Has
  <2> QED BY <2>5, <2>6, <2>7, <2>8 DEF RouteInv
<1> QED BY <1>1, <1>2, <1>3 DEF ShutInv

(* What is known of a runner that is somewhere.                             *)
LEMMA Busy ==
    ASSUME ShutInv, NEW r \in Conversations, goroutine[r].pc \notin {"none", "check"}
    PROVE  /\ waiter # "done" /\ result # "ok" /\ TurnsTyped /\ RouteInv(r)
           /\ goroutine[r].pc \in Holding =>
                /\ goroutine[r].prompt \in Prompts /\ goroutine[r].prompt[1] = r
                /\ inbox[goroutine[r].prompt] \in Unfinished
BY DEF ShutInv, AllGone, StopInOrder, RouteInv, HoldsItsOwn

(* A runner that moves may wake the one who waits, and no more.             *)
LEMMA Wakes ==
    ASSUME WakeWaiter
    PROVE  (waiter' = "done" <=> waiter = "done") /\ (waiter = "none" => waiter' = "none")
BY DEF WakeWaiter

(* A step within a turn, with what it writes about its prompt and its run.  *)
LEMMA MoveKeeps ==
    ASSUME ShutInv, NEW r \in Conversations, NEW pc \in Holding, NEW p, WakeWaiter,
           goroutine[r].pc \in Holding, p = goroutine[r].prompt,
           TurnAt(r, pc), UNCHANGED <<stopping, ingest, creating>>,
           faults' \in Nat, faults' >= faults,
           inbox' \in [Prompts -> {"none", "terminal"} \cup Unfinished],
           runs' \in [Prompts -> RunStates],
           \A q \in Prompts \ {p} : inbox'[q] = inbox[q] /\ runs'[q] = runs[q],
           inbox'[p] \in Unfinished,
           creating[r] \in {"calling", "landed"} => pc \in {"owned", "grace", "stop"},
           runs'[p] = "running" => pc \in Executing,
           faults' = 0 /\ ~cancelled =>
                /\ pc \notin {"await", "backoff", "grace"}
                /\ runs'[p] \in {"running", "ending", "over"} => pc \in Executing
                /\ pc \in {"stop", "plan"} => runs'[p] = "over"
    PROVE  ShutInv'
<1>1. /\ waiter # "done" /\ result # "ok" /\ TurnsTyped /\ RouteInv(r)
      /\ p \in Prompts /\ p[1] = r /\ inbox[p] \in Unfinished
  BY Busy DEF Holding, InTurn
<1>2. pc \in TurnPcs
  BY DEF TurnPcs
<1>3. /\ goroutine' \in [Conversations -> [pc : TurnPcs, prompt : Prompts \cup {NoPrompt}]]
      /\ goroutine'[r].pc = pc /\ goroutine'[r].prompt = p
      /\ \A q \in Conversations \ {r} : goroutine'[q] = goroutine[q]
  BY <1>1, <1>2, TurnsTo
<1>4. TurnsTyped'
  BY <1>1, <1>3 DEF TurnsTyped
<1>5. HoldsItsOwn(r)'
  BY <1>1, <1>3 DEF HoldsItsOwn
<1>6. PreviewHeld(r)'
  BY <1>1, <1>3, <1>4 DEF RouteInv, PreviewHeld, Running, stopping, TurnsTyped
<1>7. RunsHeld(r)'
  BY <1>1, <1>3 DEF RouteInv, RunsHeld, Has
<1>8. OnItsWay(r)'
  <2> SUFFICES ASSUME (faults = 0 /\ (~cancelled \/ result = "ok"))' PROVE
        /\ pc \notin {"await", "backoff", "grace"}
        /\ \A q \in Prompts :
             q[1] = r =>
                /\ runs'[q] \in {"running", "ending", "over"} =>
                       inbox'[q] = "terminal" \/ (q = p /\ pc \in Executing)
                /\ inbox'[q] = "terminal" => runs'[q] = "over"
                /\ q = p /\ pc \in {"stop", "plan"} => runs'[q] = "over"
    BY <1>3 DEF OnItsWay, Has
  <2>1. faults' = 0 /\ ~cancelled /\ faults = 0
    BY <1>1 DEF stopping, TurnsTyped
  <2>2. inbox'[p] # "terminal"
    BY DEF Unfinished
  <2>3. \A q \in Prompts : q # p /\ q[1] = r =>
            /\ inbox'[q] = inbox[q] /\ runs'[q] = runs[q]
            /\ runs[q] \in {"running", "ending", "over"} => inbox[q] = "terminal"
            /\ inbox[q] = "terminal" => runs[q] = "over"
    BY <1>1, <2>1 DEF RouteInv, OnItsWay, Has
  <2> QED BY <2>1, <2>2, <2>3
<1>9. \A q \in Prompts : inbox[q] = "none" => inbox'[q] = "none"
  BY <1>1 DEF Unfinished
<1> QED
  BY <1>1, <1>3, <1>4, <1>5, <1>6, <1>7, <1>8, <1>9, Wakes, StepOfRoute DEF RouteInv

(* The end of a turn: without a fault and in time, that of a finished one.  *)
LEMMA ReturnKeeps ==
    ASSUME ShutInv, NEW r \in Conversations, NEW pcs, pcs \subseteq {"none", "check"}, NEW p,
           WakeWaiter,
           goroutine[r].pc \in Holding \ {"owned", "grace", "stop"}, p = goroutine[r].prompt,
           Return(r, pcs), UNCHANGED <<stopping, ingest, creating>>,
           faults' \in Nat, faults' >= faults,
           inbox' \in [Prompts -> {"none", "terminal"} \cup Unfinished],
           \A q \in Prompts \ {p} : inbox'[q] = inbox[q],
           faults' = 0 /\ ~cancelled => inbox'[p] = "terminal" /\ goroutine[r].pc = "plan"
    PROVE  ShutInv'
<1>1. /\ waiter # "done" /\ result # "ok" /\ TurnsTyped /\ RouteInv(r)
      /\ p \in Prompts /\ p[1] = r /\ inbox[p] \in Unfinished
  BY Busy DEF Holding, InTurn
<1>2. /\ goroutine' \in [Conversations -> [pc : TurnPcs, prompt : Prompts \cup {NoPrompt}]]
      /\ goroutine'[r].pc \in {"none", "check"}
      /\ \A q \in Conversations \ {r} : goroutine'[q] = goroutine[q]
      /\ runs' = Ended({p})
  BY <1>1, Returns
<1>3. /\ runs' \in [Prompts -> RunStates]
      /\ \A q \in Prompts : runs'[q] = "running" => runs[q] = "running" /\ q # p
      /\ \A q \in Prompts : q # p => runs'[q] = runs[q]
      /\ runs[p] # "running" => runs'[p] = runs[p]
  BY <1>1, <1>2, EndedRuns
<1>4. TurnsTyped'
  BY <1>1, <1>2, <1>3 DEF TurnsTyped
<1>5. HoldsItsOwn(r)'
  BY <1>2 DEF HoldsItsOwn, Holding, InTurn
<1>6. PreviewHeld(r)'
  BY <1>1, <1>2, <1>4 DEF RouteInv, PreviewHeld, Running, stopping, TurnsTyped
<1>7. RunsHeld(r)'
  BY <1>1, <1>3 DEF RouteInv, RunsHeld, Has
<1>8. OnItsWay(r)'
  <2> SUFFICES ASSUME (faults = 0 /\ (~cancelled \/ result = "ok"))' PROVE
        \A q \in Prompts :
             q[1] = r =>
                /\ runs'[q] \in {"running", "ending", "over"} => inbox'[q] = "terminal"
                /\ inbox'[q] = "terminal" => runs'[q] = "over"
    BY <1>2 DEF OnItsWay, Has
  <2>1. faults' = 0 /\ ~cancelled /\ faults = 0
    BY <1>1 DEF stopping, TurnsTyped
  <2>2. inbox'[p] = "terminal" /\ runs[p] = "over" /\ runs'[p] = "over"
    BY <1>1, <1>3, <2>1 DEF RouteInv, OnItsWay, Has
  <2>3. \A q \in Prompts : q # p /\ q[1] = r =>
            /\ inbox'[q] = inbox[q] /\ runs'[q] = runs[q]
            /\ runs[q] \in {"running", "ending", "over"} => inbox[q] = "terminal"
            /\ inbox[q] = "terminal" => runs[q] = "over"
    BY <1>1, <1>3, <2>1 DEF RouteInv, OnItsWay, Has
  <2> QED BY <2>2, <2>3
<1>9. \A q \in Prompts : inbox[q] = "none" => inbox'[q] = "none"
  BY <1>1 DEF Unfinished
<1> QED
  BY <1>1, <1>2, <1>3, <1>4, <1>5, <1>6, <1>7, <1>8, <1>9, Wakes, StepOfRoute, ZenonT(30) DEF RouteInv

(* Before a turn and after it a runner has no run.                          *)
LEMMA IdleKeeps ==
    ASSUME ShutInv, NEW r \in Conversations, WakeWaiter \/ UNCHANGED waiter,
           goroutine[r].pc \in {"none", "check", "read", "acquire"},
           waiter = "done" => goroutine'[r].pc \in {"none", "check"},
           UNCHANGED <<stopping, ingest, creating, inbox, runs, faults>>,
           goroutine' \in [Conversations -> [pc : TurnPcs, prompt : Prompts \cup {NoPrompt}]],
           \A q \in Conversations \ {r} : goroutine'[q] = goroutine[q],
           goroutine'[r].pc \in {"none", "check", "read", "acquire"},
           goroutine'[r].pc = "acquire" => goroutine'[r].prompt \in WorkOf(r)
    PROVE  ShutInv'
<1>1. TurnsTyped /\ RouteInv(r)
  BY DEF ShutInv
<1>2. TurnsTyped'
  BY <1>1 DEF TurnsTyped
<1>3. HoldsItsOwn(r)'
  BY DEF HoldsItsOwn, WorkOf, Unfinished, Holding, InTurn
<1>4. \A p \in Prompts : p[1] = r => runs[p] # "running"
  BY <1>1 DEF RouteInv, RunsHeld, Executing
<1>5. PreviewHeld(r)'
  BY <1>1 DEF RouteInv, PreviewHeld, Running, stopping
<1>6. RunsHeld(r)'
  BY <1>4 DEF RunsHeld
<1>7. OnItsWay(r)'
  BY <1>1 DEF RouteInv, OnItsWay, stopping, Executing, Has
<1>8. faults' >= faults
  BY <1>1 DEF TurnsTyped
<1>9. (waiter' = "done" <=> waiter = "done") /\ (waiter = "none" => waiter' = "none")
  BY Wakes
<1> QED BY <1>2, <1>3, <1>5, <1>6, <1>7, <1>8, <1>9, StepOfRoute DEF RouteInv

-----------------------------------------------------------------------------
(* A nonempty set of numbers has a least one.                               *)
LEMMA LeastOf ==
    ASSUME NEW S \in SUBSET Nat, S # {}
    PROVE  \E x \in S : \A y \in S : x <= y
<1> DEFINE R == {ss \in Nat \X Nat : ss[1] < ss[2]}
<1>1. IsWellFoundedOn(R, Nat)
  BY NatLessThanWellFounded DEF OpToRel
<1>2. \E x \in S : \A y \in S : ~(<<y, x>> \in R)
  <2> HIDE DEF R
  <2> QED BY <1>1, WFMin
<1>3. PICK x \in S : \A y \in S : ~(<<y, x>> \in R)
  BY <1>2
<1>4. ASSUME NEW y \in S PROVE x <= y
  <2>1. x \in Nat /\ y \in Nat /\ ~(y < x)
    BY <1>3
  <2> QED BY <2>1
<1> QED BY <1>4

(* NextWork finds the first of a route that has work.                       *)
LEMMA FirstWork ==
    ASSUME NEW r \in Conversations, WorkOf(r) # {}
    PROVE  \E k \in 1 .. MaxPrompts :
              /\ <<r, k>> \in WorkOf(r)
              /\ \A j \in 1 .. MaxPrompts : <<r, j>> \in WorkOf(r) => k <= j
<1> DEFINE S == {k \in 1 .. MaxPrompts : <<r, k>> \in WorkOf(r)}
<1>1. S \in SUBSET Nat
  BY ShutdownAssumption
<1>2. S # {}
  <2>1. PICK p : p \in WorkOf(r)
    OBVIOUS
  <2>2. p[2] \in 1 .. MaxPrompts /\ p = <<r, p[2]>>
    BY <2>1, PromptShape DEF WorkOf
  <2> QED BY <2>1, <2>2
<1>3. \E x \in S : \A y \in S : x <= y
  <2> HIDE DEF S
  <2> QED BY <1>1, <1>2, LeastOf
<1> QED BY <1>3

LEMMA BeforeTurn ==
    ASSUME ShutInv, NEW r \in Conversations,
           StartRunner(r) \/ ((CheckClosing(r) \/ NextWork(r)) /\ WakeWaiter)
    PROVE  ShutInv'
<1>1. TurnsTyped
  BY DEF ShutInv
<1>2. CASE StartRunner(r)
  <2>1. "check" \in TurnPcs
    BY DEF TurnPcs
  <2>2. goroutine[r].pc = "none" /\ TurnAt(r, "check") /\ UNCHANGED waiter
        /\ UNCHANGED <<stopping, ingest, creating, inbox, runs, faults>>
    BY <1>2 DEF StartRunner
  <2> QED BY <1>1, <2>1, <2>2, TurnsTo, IdleKeeps
<1>3. CASE CheckClosing(r) /\ WakeWaiter
  <2>1. /\ goroutine[r].pc = "check" /\ (Leave(r) \/ (~closing /\ TurnAt(r, "read")))
        /\ UNCHANGED <<stopping, ingest, creating, inbox, runs, faults>>
    BY <1>3 DEF CheckClosing
  <2>2. "read" \in TurnPcs
    BY DEF TurnPcs
  <2>3. CASE Leave(r)
    BY <1>1, <1>3, <2>1, <2>3, Leaves, IdleKeeps
  <2>4. CASE ~closing /\ TurnAt(r, "read")
    <3>1. waiter # "done"
      BY <2>4 DEF ShutInv, StopInOrder
    <3> QED BY <1>1, <1>3, <2>1, <2>2, <2>4, <3>1, TurnsTo, IdleKeeps
  <2> QED BY <2>1, <2>3, <2>4
<1>4. CASE NextWork(r) /\ WakeWaiter
  <2>1. /\ goroutine[r].pc = "read"
        /\ UNCHANGED <<stopping, ingest, creating, inbox, runs, faults>>
    BY <1>4 DEF NextWork
  <2>2. waiter # "done"
    BY <2>1, Busy
  <2>3. CASE cancelled \/ WorkOf(r) = {}
    <3>1. Leave(r)
      BY <1>4, <2>3 DEF NextWork
    <3> QED BY <1>1, <1>4, <2>1, <2>2, <3>1, Leaves, IdleKeeps
  <2>4. CASE ~(cancelled \/ WorkOf(r) = {})
    <3> DEFINE n == CHOOSE k \in 1 .. MaxPrompts :
                       /\ <<r, k>> \in WorkOf(r)
                       /\ \A j \in 1 .. MaxPrompts : <<r, j>> \in WorkOf(r) => k <= j
    <3>1. n \in 1 .. MaxPrompts /\ <<r, n>> \in WorkOf(r)
      BY <2>4, FirstWork
    <3>2. goroutine' = [goroutine EXCEPT ![r] = [pc |-> "acquire", prompt |-> <<r, n>>]]
      BY <1>4, <2>4 DEF NextWork
    <3> HIDE DEF n
    <3>3. <<r, n>> \in Prompts /\ "acquire" \in TurnPcs
      BY <3>1 DEF WorkOf, TurnPcs, Holding
    <3>4. /\ goroutine' \in [Conversations -> [pc : TurnPcs, prompt : Prompts \cup {NoPrompt}]]
          /\ goroutine'[r].pc = "acquire" /\ goroutine'[r].prompt = <<r, n>>
          /\ \A q \in Conversations \ {r} : goroutine'[q] = goroutine[q]
      BY <1>1, <3>2, <3>3 DEF TurnsTyped
    <3> QED BY <1>4, <2>1, <2>2, <3>1, <3>4, IdleKeeps
  <2> QED BY <2>3, <2>4
<1> QED BY <1>2, <1>3, <1>4

(* A canceled context fails every write, and so may a fault.                *)
LEMMA WriteFailing ==
    ASSUME TurnsTyped, NEW r, WriteFails(r) \/ Fault
    PROVE  /\ faults' \in Nat /\ faults' >= faults
           /\ Fault \/ cancelled
           /\ Fault => faults' # 0
BY DEF TurnsTyped, WriteFails, Fault

LEMMA StartsOfTurn ==
    ASSUME ShutInv, NEW r \in Conversations, WakeWaiter,
           AcquireWorker(r) \/ StartTurn(r) \/ Submit(r) \/ Backoff(r)
    PROVE  ShutInv'
<1> DEFINE p == goroutine[r].prompt
<1>1. /\ goroutine[r].pc \in {"acquire", "start", "submit", "backoff"}
      /\ UNCHANGED <<stopping, ingest, creating>>
  BY DEF AcquireWorker, StartTurn, Submit, Backoff
<1>2. /\ result # "ok" /\ TurnsTyped /\ RouteInv(r)
      /\ p \in Prompts /\ p[1] = r /\ inbox[p] \in Unfinished
  BY <1>1, Busy DEF Holding, InTurn
<1>3. goroutine[r].pc \in Holding \ {"owned", "grace", "stop"}
  BY <1>1 DEF Holding, InTurn
<1>4. /\ runs[p] # "running" /\ creating[r] \notin {"calling", "landed"}
      /\ faults = 0 /\ ~cancelled => runs[p] \in {"none", "abandoned"} /\ goroutine[r].pc # "backoff"
  <2>1. runs[p] \in RunStates
    BY <1>2 DEF TurnsTyped
  <2> QED BY <2>1, <1>1, <1>2 DEF RouteInv, RunsHeld, OnItsWay, PreviewHeld, Executing, Unfinished, RunStates, Has
<1>5. /\ faults \in Nat /\ faults >= faults
      /\ inbox \in [Prompts -> {"none", "terminal"} \cup Unfinished]
      /\ runs \in [Prompts -> RunStates]
  BY <1>2 DEF TurnsTyped
<1>6. {"start", "submit", "recover", "backoff", "receipt"} \subseteq Holding
      /\ {"receipt"} \subseteq Executing
      /\ {"admitting", "admitted"} \subseteq Unfinished /\ "running" \in RunStates
  BY DEF Holding, InTurn, Executing, Unfinished, RunStates
<1> HIDE DEF p
<1>7. ASSUME NEW pc \in {"start", "submit", "recover"}, TurnAt(r, pc),
             UNCHANGED <<runs, faults>>,
             NEW i \in Unfinished, inbox' = [inbox EXCEPT ![p] = i]
      PROVE  ShutInv'
  <2>1. /\ inbox' \in [Prompts -> {"none", "terminal"} \cup Unfinished]
        /\ inbox'[p] \in Unfinished /\ \A q \in Prompts \ {p} : inbox'[q] = inbox[q]
    BY <1>2, <1>5, <1>7
  <2> QED BY <1>1, <1>2, <1>3, <1>4, <1>5, <1>6, <1>7, <2>1, MoveKeeps DEF p
<1>8. inbox = [inbox EXCEPT ![p] = inbox[p]]
  BY <1>5
<1>9. ASSUME NEW pcs, pcs \subseteq {"none", "check"}, Return(r, pcs), UNCHANGED inbox,
             WriteFails(r) \/ (cancelled /\ UNCHANGED faults)
      PROVE  ShutInv'
  <2>1. faults' \in Nat /\ faults' >= faults /\ ~(faults' = 0 /\ ~cancelled)
    BY <1>2, <1>5, <1>9, WriteFailing
  <2> QED BY <1>1, <1>3, <1>5, <1>9, <2>1, ReturnKeeps
<1>10. CASE AcquireWorker(r)
  <2>1. UNCHANGED <<inbox, runs, faults>> /\ goroutine[r].pc = "acquire"
        /\ (TurnAt(r, "start") \/ Leave(r))
    BY <1>10 DEF AcquireWorker
  <2>2. CASE TurnAt(r, "start")
    BY <1>2, <1>7, <1>8, <2>1, <2>2
  <2>3. CASE Leave(r)
    <3>1. waiter # "done"
      BY <2>1, Busy
    <3> QED BY <1>1, <1>2, <2>1, <2>3, <3>1, Leaves, IdleKeeps
  <2> QED BY <2>1, <2>2, <2>3
<1>11. CASE StartTurn(r)
  <2>1. \/ TurnAt(r, "submit") /\ inbox' = [inbox EXCEPT ![p] = "admitting"] /\ UNCHANGED <<runs, faults>>
        \/ WriteFails(r) /\ ReturnParked(r) /\ UNCHANGED inbox
        \/ TurnAt(r, "submit") /\ UNCHANGED <<inbox, runs, faults>>
        \/ TurnAt(r, "recover") /\ UNCHANGED <<inbox, runs, faults>>
    BY <1>11 DEF StartTurn, p
  <2> QED BY <2>1, <1>2, <1>6, <1>7, <1>8, <1>9 DEF ReturnParked
<1>12. CASE Submit(r)
  <2>1. \/ TurnAt(r, "recover") /\ inbox' = [inbox EXCEPT ![p] = "admitted"] /\ UNCHANGED <<runs, faults>>
        \/ /\ ~cancelled /\ runs' = [runs EXCEPT ![p] = "running"]
           /\ TurnAt(r, "receipt") /\ UNCHANGED <<inbox, faults>>
        \/ Fault /\ TurnAt(r, "backoff") /\ UNCHANGED <<inbox, runs>>
        \/ WriteFails(r) /\ ReturnParked(r) /\ UNCHANGED inbox
    BY <1>12 DEF Submit, p
  <2>2. CASE /\ runs' = [runs EXCEPT ![p] = "running"]
             /\ TurnAt(r, "receipt") /\ UNCHANGED <<inbox, faults>>
    <3>1. /\ runs' \in [Prompts -> RunStates] /\ runs'[p] = "running"
          /\ \A q \in Prompts \ {p} : runs'[q] = runs[q]
      BY <1>2, <1>5, <1>6, <2>2
    <3> QED BY <1>1, <1>2, <1>3, <1>4, <1>5, <1>6, <2>2, <3>1, MoveKeeps DEF p
  <2>3. CASE Fault /\ TurnAt(r, "backoff") /\ UNCHANGED <<inbox, runs>>
    <3>1. faults' \in Nat /\ faults' >= faults /\ faults' # 0
      BY <1>2, <2>3, WriteFailing
    <3> QED BY <1>1, <1>2, <1>3, <1>4, <1>5, <1>6, <2>3, <3>1, MoveKeeps DEF p
  <2> QED BY <2>1, <2>2, <2>3, <1>6, <1>7, <1>9 DEF ReturnParked
<1>13. CASE Backoff(r)
  <2>1. /\ UNCHANGED <<inbox, faults>>
        /\ \/ cancelled /\ Return(r, {"none"})
           \/ TurnAt(r, "submit") /\ UNCHANGED <<runs, handles>>
    BY <1>13 DEF Backoff
  <2> QED BY <2>1, <1>2, <1>7, <1>8, <1>9
<1> QED BY <1>10, <1>11, <1>12, <1>13

LEMMA RunOfTurn ==
    ASSUME ShutInv, NEW r \in Conversations, WakeWaiter,
           \/ RecordReceipt(r) \/ AwaitUnrecorded(r) \/ RecoverHandle(r) \/ PublishHandle(r)
    PROVE  ShutInv'
<1> DEFINE p == goroutine[r].prompt
<1>1. /\ goroutine[r].pc \in {"receipt", "await", "recover", "publish"}
      /\ UNCHANGED <<stopping, ingest, creating>>
  BY DEF RecordReceipt, AwaitUnrecorded, RecoverHandle, PublishHandle
<1>2. /\ result # "ok" /\ TurnsTyped /\ RouteInv(r)
      /\ p \in Prompts /\ p[1] = r /\ inbox[p] \in Unfinished
  BY <1>1, Busy DEF Holding, InTurn
<1>3. goroutine[r].pc \in Holding \ {"owned", "grace", "stop"}
  BY <1>1 DEF Holding, InTurn
<1>4. /\ creating[r] \notin {"calling", "landed"}
      /\ faults = 0 /\ ~cancelled => goroutine[r].pc # "await"
  BY <1>1, <1>2 DEF RouteInv, OnItsWay, PreviewHeld
<1>5. /\ faults \in Nat /\ faults >= faults
      /\ inbox \in [Prompts -> {"none", "terminal"} \cup Unfinished]
      /\ runs \in [Prompts -> RunStates]
  BY <1>2 DEF TurnsTyped
<1>6. /\ {"publish", "await", "owned"} \subseteq Holding /\ {"publish", "await", "owned"} \subseteq Executing
      /\ "admitted" \in Unfinished /\ "ending" \in RunStates
  BY DEF Holding, InTurn, Executing, Unfinished, RunStates
<1> HIDE DEF p
<1>7. ASSUME NEW pcs, pcs \subseteq {"none", "check"}, Return(r, pcs), UNCHANGED inbox,
             \/ Fault
             \/ (cancelled \/ goroutine[r].pc = "await") /\ UNCHANGED faults
      PROVE  ShutInv'
  <2>1. faults' \in Nat /\ faults' >= faults /\ ~(faults' = 0 /\ ~cancelled)
    BY <1>2, <1>4, <1>5, <1>7, WriteFailing
  <2> QED BY <1>1, <1>3, <1>5, <1>7, <2>1, ReturnKeeps
<1>8. CASE RecordReceipt(r)
  <2>1. UNCHANGED runs /\ goroutine[r].pc = "receipt"
    BY <1>8 DEF RecordReceipt
  <2>2. CASE inbox' = [inbox EXCEPT ![p] = "admitted"] /\ TurnAt(r, "publish") /\ UNCHANGED faults
    <3>1. /\ inbox' \in [Prompts -> {"none", "terminal"} \cup Unfinished]
          /\ inbox'[p] \in Unfinished /\ \A q \in Prompts \ {p} : inbox'[q] = inbox[q]
      BY <1>2, <1>5, <1>6, <2>2
    <3> QED BY <1>1, <1>2, <1>3, <1>4, <1>5, <1>6, <2>1, <2>2, <3>1, MoveKeeps DEF p
  <2>3. CASE WriteFails(r) /\ TurnAt(r, "await") /\ UNCHANGED inbox
    <3>1. faults' \in Nat /\ faults' >= faults /\ ~(faults' = 0 /\ ~cancelled)
      BY <1>2, <2>3, WriteFailing
    <3> QED BY <1>1, <1>2, <1>3, <1>4, <1>5, <1>6, <2>1, <2>3, <3>1, MoveKeeps DEF p
  <2> QED BY <1>8, <2>2, <2>3 DEF RecordReceipt, p
<1>9. CASE AwaitUnrecorded(r)
  <2>1. goroutine[r].pc = "await" /\ Return(r, {"none", "check"}) /\ UNCHANGED <<inbox, faults>>
    BY <1>9 DEF AwaitUnrecorded, ReturnParked
  <2> QED BY <2>1, <1>7
<1>10. CASE RecoverHandle(r)
  <2>1. \/ /\ runs[p] \in {"over", "abandoned"}
           /\ runs' = [runs EXCEPT ![p] = IF @ = "abandoned" THEN "ending" ELSE @]
           /\ TurnAt(r, "publish") /\ UNCHANGED <<inbox, faults>>
        \/ cancelled /\ Return(r, {"none"}) /\ UNCHANGED <<inbox, faults>>
        \/ Fault /\ ReturnParked(r) /\ UNCHANGED inbox
    BY <1>10 DEF RecoverHandle, p
  <2>2. CASE /\ runs[p] \in {"over", "abandoned"}
             /\ runs' = [runs EXCEPT ![p] = IF @ = "abandoned" THEN "ending" ELSE @]
             /\ TurnAt(r, "publish") /\ UNCHANGED <<inbox, faults>>
    <3>1. /\ runs' \in [Prompts -> RunStates] /\ runs'[p] # "running"
          /\ \A q \in Prompts \ {p} : runs'[q] = runs[q]
      BY <1>2, <1>5, <1>6, <2>2 DEF RunStates
    <3> QED BY <1>1, <1>2, <1>3, <1>4, <1>5, <1>6, <2>2, <3>1, MoveKeeps DEF p
  <2> QED BY <2>1, <2>2, <1>7 DEF ReturnParked
<1>11. CASE PublishHandle(r)
  <2>1. TurnAt(r, "owned") /\ UNCHANGED <<inbox, runs, faults>>
    BY <1>11 DEF PublishHandle
  <2> QED BY <1>1, <1>2, <1>3, <1>4, <1>5, <1>6, <2>1, MoveKeeps DEF p
<1> QED BY <1>8, <1>9, <1>10, <1>11

LEMMA EndOfTurn ==
    ASSUME ShutInv, NEW r \in Conversations, WakeWaiter,
           WaitRun(r) \/ StopProjection(r) \/ MarkTerminal(r)
    PROVE  ShutInv'
<1> DEFINE p == goroutine[r].prompt
<1>1. /\ goroutine[r].pc \in {"owned", "grace", "stop", "plan"}
      /\ UNCHANGED <<stopping, ingest, creating>>
  BY DEF WaitRun, StopProjection, MarkTerminal
<1>2. /\ result # "ok" /\ TurnsTyped /\ RouteInv(r)
      /\ p \in Prompts /\ p[1] = r /\ inbox[p] \in Unfinished
  BY <1>1, Busy DEF Holding, InTurn
<1>3. goroutine[r].pc \in Holding
  BY <1>1 DEF Holding, InTurn
<1>4. faults = 0 /\ ~cancelled =>
        /\ goroutine[r].pc # "grace"
        /\ goroutine[r].pc \in {"stop", "plan"} => runs[p] = "over"
  BY <1>2 DEF RouteInv, OnItsWay, Has
<1>5. /\ faults \in Nat /\ faults >= faults
      /\ inbox \in [Prompts -> {"none", "terminal"} \cup Unfinished]
      /\ runs \in [Prompts -> RunStates]
  BY <1>2 DEF TurnsTyped
<1>6. {"grace", "stop", "plan"} \subseteq Holding /\ {"grace", "stop", "plan"} \subseteq Executing
  BY DEF Holding, InTurn, Executing
<1> HIDE DEF p
<1>7. CASE WaitRun(r)
  <2>1. /\ UNCHANGED <<inbox, runs, faults>>
        /\ \/ runs[p] = "over" /\ TurnAt(r, "stop")
           \/ cancelled /\ TurnAt(r, "grace")
           \/ goroutine[r].pc = "grace" /\ TurnAt(r, "stop")
    BY <1>7 DEF WaitRun, p
  <2> QED BY <1>1, <1>2, <1>3, <1>4, <1>5, <1>6, <2>1, MoveKeeps DEF p
<1>8. CASE StopProjection(r)
  <2>1. /\ UNCHANGED <<inbox, runs, faults>> /\ goroutine[r].pc = "stop"
        /\ creating[r] \in {"none", "lost"} /\ TurnAt(r, "plan")
    BY <1>8 DEF StopProjection
  <2> QED BY <1>1, <1>2, <1>3, <1>4, <1>5, <1>6, <2>1, MoveKeeps DEF p
<1>9. CASE MarkTerminal(r)
  <2>1. /\ goroutine[r].pc = "plan"
        /\ \/ inbox' = [inbox EXCEPT ![p] = "terminal"] /\ Return(r, {"check"}) /\ UNCHANGED faults
           \/ WriteFails(r) /\ Return(r, {"none", "check"}) /\ UNCHANGED inbox
    BY <1>9 DEF MarkTerminal, ReturnParked, p
  <2>2. CASE inbox' = [inbox EXCEPT ![p] = "terminal"] /\ Return(r, {"check"}) /\ UNCHANGED faults
    <3>1. /\ inbox' \in [Prompts -> {"none", "terminal"} \cup Unfinished]
          /\ inbox'[p] = "terminal" /\ \A q \in Prompts \ {p} : inbox'[q] = inbox[q]
      BY <1>2, <1>5, <2>2
    <3> QED BY <1>1, <1>2, <1>3, <1>5, <2>1, <2>2, <3>1, ReturnKeeps DEF p
  <2>3. CASE WriteFails(r) /\ Return(r, {"none", "check"}) /\ UNCHANGED inbox
    <3>1. faults' \in Nat /\ faults' >= faults /\ ~(faults' = 0 /\ ~cancelled)
      BY <1>2, <2>3, WriteFailing
    <3> QED BY <1>1, <1>3, <1>5, <2>1, <2>3, <3>1, ReturnKeeps DEF p
  <2> QED BY <2>1, <2>2, <2>3
<1> QED BY <1>7, <1>8, <1>9

-----------------------------------------------------------------------------
(* The preview, the run, handlers and the scheduler.                        *)

LEMMA PreviewSteps ==
    ASSUME ShutInv, NEW r \in Conversations, StartPreview(r) \/ Preview(r)
    PROVE  ShutInv'
<1>1. TurnsTyped /\ RouteInv(r)
  BY DEF ShutInv
<1>2. UNCHANGED <<stopping, waiter, ingest, inbox, runs, goroutine>>
  BY DEF StartPreview, Preview, PreviewLands, PersistCreated
<1>3. faults' \in Nat /\ faults' >= faults
  BY <1>1 DEF StartPreview, Preview, PreviewLands, PersistCreated, TurnsTyped, Fault
<1>4. /\ creating' \in [Conversations -> {"none", "calling", "landed", "lost"}]
      /\ \A q \in Conversations \ {r} : creating'[q] = creating[q]
  BY <1>1 DEF StartPreview, Preview, PreviewLands, PersistCreated, TurnsTyped
<1>5. /\ creating'[r] \in {"calling", "landed"} => goroutine[r].pc \in {"owned", "grace", "stop"}
      /\ creating'[r] = "lost" => faults' > 0 \/ ~Running
  BY <1>1, <1>4 DEF StartPreview, Preview, PreviewLands, PersistCreated, TurnsTyped, RouteInv, PreviewHeld, Running, Fault
<1>6. waiter # "done"
  <2>1. goroutine[r].pc = "owned" \/ creating[r] \in {"calling", "landed"}
    BY DEF StartPreview, Preview, PreviewLands, PersistCreated
  <2>2. goroutine[r].pc \notin {"none", "check"}
    BY <1>1, <2>1 DEF RouteInv, PreviewHeld
  <2> QED BY <2>2, Busy
<1>7. TurnsTyped' /\ StopInOrder' /\ IngestOpen' /\ AllGone'
  BY <1>2, <1>3, <1>4, <1>6 DEF ShutInv, TurnsTyped, StopInOrder, IngestOpen, AllGone, closing, stopping
<1>8. ASSUME NEW q \in Conversations PROVE RouteInv(q)'
  <2>1. RouteInv(q)
    BY DEF ShutInv
  <2>2. HoldsItsOwn(q)' /\ RunsHeld(q)'
    BY <1>2, <2>1 DEF RouteInv, HoldsItsOwn, RunsHeld, Has
  <2>3. PreviewHeld(q)'
    BY <1>1, <1>2, <1>3, <1>4, <1>5, <2>1 DEF RouteInv, PreviewHeld, Running, stopping, TurnsTyped
  <2>4. OnItsWay(q)'
    BY <1>1, <1>2, <1>3, <2>1 DEF RouteInv, OnItsWay, Has, stopping, TurnsTyped
  <2> QED BY <2>2, <2>3, <2>4 DEF RouteInv
<1> QED BY <1>7, <1>8 DEF ShutInv

(* A run ends by itself, or is told to.                                     *)
LEMMA RunSettles ==
    ASSUME ShutInv, runs' \in [Prompts -> RunStates],
           \A p \in Prompts :
               runs'[p] # runs[p] => /\ runs[p] \in {"running", "ending"}
                                     /\ runs'[p] \in {"ending", "over"},
           UNCHANGED <<result, cancelled, ingest, inbox, goroutine, creating, faults>>,
           StopInOrder', AllGone', Running' <=> Running
    PROVE  ShutInv'
<1>1. TurnsTyped' /\ IngestOpen'
  BY DEF ShutInv, TurnsTyped, IngestOpen
<1>2. ASSUME NEW q \in Conversations PROVE RouteInv(q)'
  <2>1. RouteInv(q) /\ TurnsTyped
    BY DEF ShutInv
  <2>2. HoldsItsOwn(q)' /\ PreviewHeld(q)'
    BY <2>1 DEF RouteInv, HoldsItsOwn, PreviewHeld
  <2>3. RunsHeld(q)'
    BY <2>1 DEF RouteInv, RunsHeld, Has
  <2>4. OnItsWay(q)'
    BY <2>1 DEF RouteInv, OnItsWay, Has
  <2> QED BY <2>2, <2>3, <2>4 DEF RouteInv
<1> QED BY <1>1, <1>2 DEF ShutInv

(* The scheduler between its runners.                                       *)
LEMMA NothingMoves ==
    ASSUME ShutInv, UNCHANGED <<stopping, waiter, ingest, turns, faults>> PROVE ShutInv'
BY DEF ShutInv, TurnsTyped, StopInOrder, IngestOpen, AllGone, closing, Running, RouteInv,
       HoldsItsOwn, PreviewHeld, RunsHeld, OnItsWay, Has, stopping, turns

LEMMA RunsAndIngests ==
    ASSUME ShutInv,
           \/ \E p \in Prompts : CheckIngest(p) \/ RunEnds(p)
           \/ CommitIngest \/ BeginScan \/ QueryRoutes \/ EndScan
    PROVE  ShutInv'
<1>1. TurnsTyped
  BY DEF ShutInv
<1>2. ASSUME NEW p \in Prompts, RunEnds(p) PROVE ShutInv'
  <2>1. runs[p] \in {"running", "ending"} /\ runs' = [runs EXCEPT ![p] = "over"]
    BY <1>2 DEF RunEnds
  <2>2. UNCHANGED <<shut, result, cancelled, waiter, ingest, inbox, goroutine, creating, faults>>
    BY <1>2 DEF RunEnds, stopping
  <2>3. runs' \in [Prompts -> RunStates]
    BY <1>1, <2>1 DEF TurnsTyped, RunStates
  <2>4. \A q \in Prompts : runs'[q] # runs[q] =>
            runs[q] \in {"running", "ending"} /\ runs'[q] \in {"ending", "over"}
    BY <1>1, <2>1 DEF TurnsTyped
  <2>5. StopInOrder' /\ AllGone' /\ (Running' <=> Running)
    BY <2>2 DEF ShutInv, StopInOrder, AllGone, Running, closing
  <2> QED BY <2>2, <2>3, <2>4, <2>5, RunSettles
<1>3. ASSUME NEW p \in Prompts, CheckIngest(p) PROVE ShutInv'
  <2>1. inbox[p] = "none" /\ ingest' = p /\ UNCHANGED <<stopping, waiter, turns, faults>>
    BY <1>3 DEF CheckIngest
  <2>2. TurnsTyped' /\ StopInOrder' /\ IngestOpen' /\ AllGone'
    BY <2>1 DEF ShutInv, TurnsTyped, StopInOrder, IngestOpen, AllGone, closing, stopping, turns
  <2>3. \A q \in Conversations : RouteInv(q)'
    BY <2>1 DEF ShutInv, RouteInv, HoldsItsOwn, PreviewHeld, Running, RunsHeld, OnItsWay, Has, stopping, turns
  <2> QED BY <2>2, <2>3 DEF ShutInv
<1>4. CASE CommitIngest
  <2>1. /\ ingest \in Prompts /\ inbox[ingest] = "none" /\ ingest' = NoPrompt
        /\ inbox' = IF shut = "closed" THEN inbox ELSE [inbox EXCEPT ![ingest] = "queued"]
        /\ UNCHANGED <<stopping, waiter, runs, goroutine, creating, faults>>
    BY <1>4 DEF CommitIngest, ShutInv, IngestOpen
  <2>2. /\ inbox' \in [Prompts -> {"none", "terminal"} \cup Unfinished]
        /\ \A p \in Prompts : inbox'[p] # inbox[p] => inbox[p] = "none" /\ inbox'[p] = "queued"
    BY <1>1, <2>1 DEF TurnsTyped, Unfinished
  <2>3. TurnsTyped' /\ StopInOrder' /\ IngestOpen' /\ AllGone'
    BY <2>1, <2>2 DEF ShutInv, TurnsTyped, StopInOrder, IngestOpen, AllGone, closing, stopping
  <2>4. ASSUME NEW q \in Conversations PROVE RouteInv(q)'
    <3>1. RouteInv(q)
      BY DEF ShutInv
    <3>2. HoldsItsOwn(q)'
      BY <2>1, <2>2, <3>1 DEF RouteInv, HoldsItsOwn, Unfinished
    <3>3. PreviewHeld(q)' /\ RunsHeld(q)'
      BY <2>1, <3>1 DEF RouteInv, PreviewHeld, Running, RunsHeld, Has, stopping
    <3>4. OnItsWay(q)'
      BY <2>1, <2>2, <3>1 DEF RouteInv, OnItsWay, Has, stopping
    <3> QED BY <3>2, <3>3, <3>4 DEF RouteInv
  <2> QED BY <2>3, <2>4 DEF ShutInv
<1>5. CASE BeginScan \/ QueryRoutes \/ EndScan
  <2>1. UNCHANGED <<stopping, waiter, ingest, turns, faults>>
    BY <1>5 DEF BeginScan, QueryRoutes, EndScan
  <2> QED BY <2>1, NothingMoves
<1> QED BY <1>2, <1>3, <1>4, <1>5

(* A step of the shutdown that touches no runner.                           *)
LEMMA TurnsKept ==
    ASSUME ShutInv, UNCHANGED <<ingest, turns, faults>>, StopInOrder', AllGone',
           ~Running => ~Running',
           (~cancelled \/ result = "ok")' => ~cancelled \/ result = "ok"
    PROVE  ShutInv'
<1>1. TurnsTyped' /\ IngestOpen'
  BY DEF ShutInv, TurnsTyped, IngestOpen, turns
<1>2. ASSUME NEW q \in Conversations PROVE RouteInv(q)'
  <2>1. RouteInv(q)
    BY DEF ShutInv
  <2>2. HoldsItsOwn(q)' /\ RunsHeld(q)'
    BY <2>1 DEF RouteInv, HoldsItsOwn, RunsHeld, Has, turns
  <2>3. PreviewHeld(q)'
    BY <2>1 DEF RouteInv, PreviewHeld, turns
  <2>4. OnItsWay(q)'
    BY <2>1 DEF RouteInv, OnItsWay, Has, turns
  <2> QED BY <2>2, <2>3, <2>4 DEF RouteInv
<1> QED BY <1>1, <1>2 DEF ShutInv

(* Shutdown: what is interrupted still has to settle, and the wait for the  *)
(* runners begins when the last one is.                                     *)
LEMMA Interrupts ==
    ASSUME ShutInv, Close \/ Interrupt PROVE ShutInv'
<1>1. TurnsTyped
  BY DEF ShutInv
<1>2. /\ shut \in {"serving", "interrupt"} /\ shut' \in Serving \ {"serving", "cancel"}
      /\ UNCHANGED <<result, cancelled, ingest, inbox, goroutine, creating, faults>>
      /\ waiter' \in {waiter, "called"}
      /\ runs' = runs \/ \E p : runs' = Ended({p})
  BY DEF Close, Interrupt, Serving, turns
<1>3. StopInOrder' /\ (Running' <=> Running)
  BY <1>2 DEF ShutInv, StopInOrder, Serving, Running, closing
<1>4. AllGone'
  BY <1>2 DEF ShutInv, AllGone
<1>5. /\ runs' \in [Prompts -> RunStates]
      /\ \A q \in Prompts : runs'[q] # runs[q] =>
             runs[q] \in {"running", "ending"} /\ runs'[q] \in {"ending", "over"}
  <2>1. CASE runs' = runs
    BY <1>1, <2>1 DEF TurnsTyped
  <2>2. ASSUME NEW p, runs' = Ended({p})
        PROVE  /\ runs' \in [Prompts -> RunStates]
               /\ \A q \in Prompts : runs'[q] # runs[q] => runs[q] = "running" /\ runs'[q] = "ending"
    BY <1>1, <2>2, EndedRuns
  <2> QED BY <1>2, <2>1, <2>2
<1> QED BY <1>2, <1>3, <1>4, <1>5, RunSettles

(* The wait for the runners is over when the one who waits finds none.      *)
LEMMA WaitKeeps ==
    ASSUME ShutInv, WaitForRunners PROVE ShutInv'
<1>1. /\ Running /\ waiter # "none" /\ waiter # "done"
      /\ waiter' # "none" /\ waiter' = "done" => RunnersDone
      /\ UNCHANGED <<stopping, ingest, turns, faults>>
  BY DEF WaitForRunners
<1>2. StopInOrder' /\ (Running' <=> Running)
  BY <1>1 DEF ShutInv, StopInOrder, Running, closing, stopping
<1>3. AllGone'
  <2> SUFFICES ASSUME RunnersDone, NEW r \in Conversations
               PROVE  /\ goroutine[r].pc \in {"none", "check"}
                      /\ creating[r] = "none" \/ (creating[r] = "lost" /\ faults > 0)
    BY <1>1 DEF AllGone, turns
  <2>1. goroutine[r].pc = "none" /\ PreviewHeld(r)
    BY DEF RunnersDone, ShutInv, RouteInv
  <2>2. creating[r] \in {"none", "calling", "landed", "lost"}
    BY DEF ShutInv, TurnsTyped
  <2> QED BY <1>1, <2>1, <2>2 DEF PreviewHeld
<1> QED BY <1>1, <1>2, <1>3, TurnsKept DEF stopping

(* Nothing of this process survives a panic.                                *)
LEMMA PanicKeeps ==
    ASSUME ShutInv, Panic PROVE ShutInv'
<1>1. TurnsTyped /\ StopInOrder
  BY DEF ShutInv
<1>2. /\ shut' = "panicked" /\ cancelled' = TRUE /\ ingest' = NoPrompt
      /\ waiter = "woken" /\ UNCHANGED <<result, waiter, inbox, faults>>
      /\ runs' = [p \in Prompts |-> IF runs[p] \in {"running", "ending"} THEN "abandoned" ELSE runs[p]]
      /\ goroutine' = [r \in Conversations |-> NoRunner]
      /\ creating' = [r \in Conversations |-> IF creating[r] = "none" THEN "none" ELSE "lost"]
  BY DEF Panic
<1>3. TurnsTyped'
  BY <1>1, <1>2 DEF TurnsTyped, NoRunner, TurnPcs, RunStates
<1>4. StopInOrder' /\ IngestOpen' /\ AllGone' /\ result # "ok"
  BY <1>1, <1>2 DEF StopInOrder, IngestOpen, AllGone, Serving, closing
<1>5. ASSUME NEW r \in Conversations PROVE RouteInv(r)'
  <2>1. goroutine'[r].pc = "none" /\ creating'[r] \in {"none", "lost"}
    BY <1>2 DEF NoRunner
  <2>2. \A p \in Prompts : runs'[p] # "running"
    BY <1>2
  <2> QED BY <1>2, <1>4, <2>1, <2>2
          DEF RouteInv, HoldsItsOwn, PreviewHeld, RunsHeld, OnItsWay, Running, Holding, InTurn
<1> QED BY <1>3, <1>4, <1>5 DEF ShutInv

LEMMA StopSteps ==
    ASSUME ShutInv, Close \/ Stop \/ WaitForRunners \/ Panic PROVE ShutInv'
<1>1. CASE Settle
  <2>1. /\ shut = "wait" /\ shut' = "cancel"
        /\ result' = "ok" => waiter = "done"
        /\ UNCHANGED <<cancelled, waiter, ingest, turns, faults>>
    BY <1>1 DEF Settle
  <2>2. ~cancelled /\ StopInOrder'
    BY <2>1 DEF ShutInv, StopInOrder, Serving, closing
  <2>3. AllGone' /\ Running
    BY <2>1 DEF ShutInv, AllGone, Running, turns
  <2> QED BY <2>1, <2>2, <2>3, TurnsKept
<1>2. CASE Cancel
  <2>1. /\ shut = "cancel" /\ shut' = "cancelled" /\ cancelled' = TRUE
        /\ UNCHANGED <<result, waiter, ingest, turns, faults>>
    BY <1>2 DEF Cancel
  <2>2. ~cancelled /\ StopInOrder'
    BY <2>1 DEF ShutInv, StopInOrder, Serving, closing
  <2>3. AllGone' /\ Running
    BY <2>1 DEF ShutInv, AllGone, Running, turns
  <2> QED BY <2>1, <2>2, <2>3, TurnsKept
<1>3. CASE LastWait \/ LoopsDone \/ CloseStore
  <2>1. /\ shut \notin Serving /\ shut' \notin Serving /\ shut \notin {"closed", "panicked"}
        /\ UNCHANGED <<result, cancelled, waiter, ingest, turns, faults>>
    BY <1>3 DEF LastWait, LoopsDone, CloseStore, Serving
  <2>2. StopInOrder' /\ AllGone' /\ Running
    BY <2>1 DEF ShutInv, StopInOrder, AllGone, Running, Serving, closing, turns
  <2> QED BY <2>1, <2>2, TurnsKept
<1> QED BY <1>1, <1>2, <1>3, Interrupts, WaitKeeps, PanicKeeps DEF Stop

LEMMA NextShutInv == ShutInv /\ [ShutNext]_shutVars => ShutInv'
<1> SUFFICES ASSUME ShutInv, [ShutNext]_shutVars PROVE ShutInv'
  OBVIOUS
<1>1. CASE UNCHANGED shutVars
  BY <1>1, NothingMoves DEF shutVars
<1>2. ASSUME NEW r \in Conversations, StartRunner(r) \/ Runner(r) \/ StartPreview(r) \/ Preview(r)
      PROVE  ShutInv'
  BY <1>2, BeforeTurn, StartsOfTurn, RunOfTurn, EndOfTurn, PreviewSteps DEF Runner
<1> QED BY <1>1, <1>2, RunsAndIngests, StopSteps DEF ShutNext

-----------------------------------------------------------------------------
(* A run that executes has its runner, which waits for it or ends it, at    *)
(* every moment of a shutdown and whatever fails.                           *)
THEOREM NoStrayRunHolds == ShutSpec => []NoStrayRun
<1>1. ShutInv => NoStrayRun
  BY PromptShape DEF ShutInv, RouteInv, RunsHeld, Has, Executing, NoStrayRun
<1> QED BY <1>1, InitShutInv, NextShutInv, PTL DEF ShutSpec

(* A shutdown that returns no error left nothing behind: no run executes,   *)
(* every answer is planned and every preview recorded, unless a write       *)
(* failed, and the runner that a scan started when nobody waited any more   *)
(* begins nothing, before the context is canceled and after.                *)
THEOREM CleanShutdownHolds == ShutSpec => []CleanMeansSettled
<1>1. ASSUME ShutInv PROVE CleanMeansSettled
  <2> SUFFICES ASSUME result = "ok"
               PROVE  /\ \A p \in Prompts : runs[p] \notin {"running", "ending"} \/ faults > 0
                      /\ \A p \in Prompts : (runs[p] = "over" /\ faults = 0) => inbox[p] = "terminal"
                      /\ \A r \in Conversations : goroutine[r].pc \in {"none", "check"}
                      /\ \A r \in Conversations : creating[r] = "none" \/ (creating[r] = "lost" /\ faults > 0)
    BY DEF CleanMeansSettled
  <2>1. \A r \in Conversations :
            /\ goroutine[r].pc \in {"none", "check"}
            /\ creating[r] = "none" \/ (creating[r] = "lost" /\ faults > 0)
    BY <1>1 DEF ShutInv, StopInOrder, AllGone
  <2>2. ASSUME NEW p \in Prompts, faults = 0
        PROVE  runs[p] \in {"running", "ending", "over"} => inbox[p] = "terminal" /\ runs[p] = "over"
    <3>1. p[1] \in Conversations /\ goroutine[p[1]].pc \in {"none", "check"}
      BY <2>1, PromptShape
    <3>2. OnItsWay(p[1])
      BY <1>1, <3>1 DEF ShutInv, RouteInv
    <3> QED BY <2>2, <3>1, <3>2 DEF OnItsWay, Executing
  <2>3. faults = 0 \/ faults > 0
    BY <1>1 DEF ShutInv, TurnsTyped
  <2> QED BY <2>1, <2>2, <2>3
<1> QED BY <1>1, InitShutInv, NextShutInv, PTL DEF ShutSpec
=============================================================================
