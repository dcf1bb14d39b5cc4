# Verification of eino-channels

TLA+ modules, TLC configurations and TLAPS proofs about the conversation
service of this repository: one process that takes messages from Slack and
Discord, runs them one at a time per conversation through an agent runtime, and
delivers the answers. Paths below are relative to `src/`; `internal/` is left
out where it is clear.

- [Inventory](#inventory) — the parts, their state, and what is hard about them
- [Modules](#modules) — what models what
- [Runs](#runs) — what TLC checks, with the bounds and the fairness
- [Proofs](#proofs) — what TLAPS proves, and along which argument
- [Findings](#findings) — where the code does not do what is written about it
- [Not modelled](#not-modelled) and [Plan](#plan)

## Inventory

| Part | State | Operations | What makes it correct |
|---|---|---|---|
| Inbox, conversations (`state/inbox.go`, `conversations.go`) | SQLite tables `inbox`, `conversations` on one connection, so transactions are serial | `Ingest` with a policy per kind (prompt, `!stop`, `!new`, `!help`), `NextWork`, guarded transitions, `MarkAdmitted`, `MarkTerminal`, rotation of the generation | an event is recorded once and never reopened; a route has a total order; at most one prompt is active; bounds hold; a rotation strands nothing |
| Deliveries (`state/deliveries.go`) | table `deliveries`, unique by run and chunk | planning (preview, answer), intent, acknowledgement, failure, operator resolution | rows belong to the event of their run; the text is kept while it may be needed; the lane of a route is served in order |
| Ingestion (`conversation/service.go`) | `handles`, `stopFlags`, `ingests`, `parked` under `Service.mu` | `Ingest`: commit, then interrupt the owned run (stop), then unpark | a stop reaches its target and nothing else; no wakeup is lost |
| Scheduler (`scheduler.go`) | `active`, `parked`, a cursor | starts at most `max_running_conversations` runners, one per route; `runRoute` loops over the work of its route | one runner per route; a parked route with work is taken up again |
| Turn (`turn.go`) | the goroutine's locals | admission by a keyed receipt with authoritative lookup, recovery of abandoned runs, planning of the answer | a message gets one run, whatever crashes; a refused one gets none |
| Controls (`controls.go`) | – | settle a stop: cancel the queue up to the cutoff, end the target, complete | idempotent; complete only when the target is over |
| Lane (`delivery.go`, `projection.go`) | the goroutine's locals; the platform's messages | create with a recorded intent, edit, reconcile, drain, preview | never a blind second create; what is acknowledged is shown; order on the platform |
| Operator (`app/delivery.go`) | the same database, under the exclusive lock | resend, associate a message | only blocked rows; never marks an answer delivered |
| Agent runtime (`agentbridge`, eino-agent) | its own SQLite database: runs, receipts, leases | start, lookup, interrupt, resume | external |
| Slack, Discord adapters | thread bindings, channel cache | normalise events, call the platform | an event is acknowledged only when durable |
| Preview projection (`projection.go`) | `live`, `lastSeen`, `dirty`, `limitInterrupt`, the subscription, under its lock | `consume`, `flushLoop`, `wait`, `stop`; then `composeFinal` | the planned answer is the committed one or a labelled part of it; no goroutine and no subscription is left |
| Call spacing (`delivery.go`, `throttle`) | `limiterLast` per destination | reserve a slot, wait, give it back | calls are a spacing apart |
| Notices (`service.go`) | the channel `notices` | `Notify`, `noticeLoop` | never hold up a caller; end |
| Shutdown (`service.go`, `app/app.go`) | `closing`, `wg`, the service context | refuse events, interrupt, wait, cancel, wait again | what it reports is true; nothing begins behind it |
| State directory (`state/store.go`) | the lock file, two databases, `schema_version` | `Open` with the migrations, `Close` | one process at a time; a migration is whole or absent |
| Rendering (`render/text.go`) | the chunker's locals | `Chunk`, escaping, preview | chunks fit a message, carry text and balance fences |
| Configuration, redaction | – | pure functions | – |

Interaction: `serve` opens the state directory and holds its lock. An adapter
turns a platform event into an inbound message (Discord first finds or creates
its thread) and calls `Service.Ingest`, which commits one transaction
and pokes the scheduler. The scheduler starts the goroutine `runRoute`, which
alone works on its route: stops first, then prompts, then the delivery lane.
The turn of a prompt talks to the agent runtime and starts the preview loop,
which owns the lane until the turn ends. All goroutines share the host database
and the maps under `Service.mu`. After a crash both databases are there and
everything else is gone.

What is hard: the window between the commit of a stop and the interruption of
a run, against the window between the receipt of a run and the publication of
its handle; a crash or a failed write between any two of *submit*, *receipt*,
*run*, *answer*, *create*, *recorded*; calls without an answer that land later;
parking against arriving events; rotation against unfinished work. PROJECT.json
lists these hazards at their lines, with the properties that watch them. Others
are smaller and just as hard to test: a subscription that is replaced while the turn closes it; a slot
given back behind another's back; a cursor that is reset by every arrival; a
handle published after the snapshot of a shutdown; a runner started when the
shutdown no longer waits for any; a copy of an event handled next to the first
one, before a thread is bound.

## Modules

```
Conversation                              (abstract: what users are promised)
     ^ refined by
Deliveries ── HostStore ─┬─ RouteRunner      MCRouteRunner
                         ├─ DeliveryLane     MCDeliveryLane
                         └─ MCHostStore

HostStoreProofs ── HostStoreOrderProofs ─┬─ RouteRunnerProofs
                                         └─ DeliveryLaneProofs

Intake                                    (abstract: what adapters promise)
     ^ refined by
     ├─ SlackIngress ────┐
     └─ DiscordIngress ──┤
        Scheduler ───────┼─ MCParts          ServiceProofs  (Scheduler, Shutdown)
        Shutdown ────────┤                   PlatformProofs (adapters, Throttle, Chunker)
        Throttle ────────┤                   StateDirProofs
        Chunker ─────────┤
        StateDir ────────┘

Projection                                   ProjectionProofs
```

**Deliveries** — the table `deliveries` and its transactions. A row is keyed by
run and chunk (the UNIQUE constraint). Texts are abstracted to revisions: 0 is
the preview's placeholder, 1 the committed text (`finalRevision`); `text` says
whether `desired_text` is still there. `retry_at`, `first_attempt_at` and
`audit` are left out: they delay an attempt or end the window of automated
attempts, which the callers choose freely. `SetDesired` is a test helper and is
left out.

**HostStore** — `conversations`, `inbox` and `deliveries` with one action per
transaction, guarded by what its callers check before they call it. It is the
*abstract specification* of the host database: what the rest of the service may
rely on and must keep to. Most invariants are about it, and the proofs about the
modules below it rest on its proofs. The inbox
is a function from platform messages (dedup keys) to rows, so a redelivered
event is a stuttering step. `content` abstracts the prompt's body to whether it
is still stored. Attempts beyond the limit are not counted apart.

| Action | Code |
|---|---|
| `Ingest` (`IngestRejected`, `IngestPrompt`, `IngestStop`, `IngestNew`, `IngestHelp`) | `Ingest` and the admission policies, `inbox.go:63-188`, with `rotateGenerationTx` |
| `StartAdmitting`, `RejectHistory`, `RejectAdmission`, `CountAttempt`, `RecordReceipt`, `CancelStale`, `FinishRun`, `PreviewRun` | the transactions of `turn.go` and `projection.go` |
| `SettleQueued`, `CancelTarget`, `CompleteStop` | the transactions of `controls.go` |
| `IntendCreate` … `GiveUp` | the transactions of `delivery.go` |
| `ResolveStep` | `delivery resolve`, and the reconciliation by nonce |

**RouteRunner** — ingestion, scheduler, turn and controls split into their real
steps: a step is one transaction, one call of the runtime, or one critical
section of `Service.mu`. `runner[r].pc` is where `runRoute` stands; its other
fields are the locals that survive from one step to the next, so that what was
read can be stale when it is used. `changed` abstracts `ingests[key] # seen`.
The runtime keeps `runs` with their admission key; `owned` says that this
process executes the run, and a crash clears it. `Fault` bounds crashes, failed
writes and failed reads together. Of the composed answer only `told` is kept:
that it says the user stopped it.

**DeliveryLane** — the owner of a lane (the preview loop of the running turn,
or the drain) against the platform and the operator. `posted` is what the
platform shows, `wire` the calls nobody waits for any more and which may still
land at any time; `epoch` counts the operator's resends, which is what the
nonces of a row are told apart by. An operator associates only a message of the
row: that is what `--confirm-inspected` or the API check is for. Prompts arrive
and are admitted by HostStore's actions. The branches for a row without desired
text (`delivery.go:150-153`, `203-206`) are left out: `PayloadKept` shows that
no unresolved row is without text.

Both details are shown to implement HostStore's `Spec` (property
`ImplementsHostStore`); the variables of HostStore are theirs too, so the
refinement mapping is the identity.

**Conversation** — the abstract specification above the database: a prompt
takes its place behind the others or is turned away; prompts of a conversation
are answered one at a time and in order; each ends once. HostStore implements it
(`KeepsConversation`), with the mapping that reads a prompt's place from its
route and sequence number and its phase from the state and outcome of its row.
`admitting` and `admitted` are both *answering*; controls are not seen.

**Scheduler** — `schedulerLoop`, `startRunnable`, `park`, `unpark` and the part
of `runRoute` that decides between work, parking and leaving. `sched` is where a
pass stands (cursor, keys of the batch, whether to go on), `ingests` the counter
table that is evicted beyond `MaxIngestEntries`, `inflight` the `Ingest` calls
between commit and `unpark`, `news` a ghost: a commit the runner of the route did
not see. What the work is does not matter here, so `work` is a set of routes that
changes by commits and by runners.

**Throttle** — one destination, its callers and a clock of ticks. A timer fires
on its tick; a caller whose context ends first may do so at any tick.

**Intake**, **SlackIngress**, **DiscordIngress** — from an event to an inbox
row. `Intake` promises that a message becomes one item on one route, that an
event is settled with the platform only when its item is durable, and one notice
at most. Slack's adapter handles one envelope at a time and acknowledges after
the commit; what is not acknowledged comes again. Discord's events are handled
side by side and never acknowledged; the deduplication key of a mention in a text
channel names a thread that is still to be found, created and bound, step by
step, with calls that fail after they took effect. In both, `slackItems` and
`discordItems` are the inbox kept to what this level sees; the mapping to `Intake` gives `recorded` from it,
and `settled` from Slack's acknowledgements.

**Shutdown** — `Service.Shutdown` with the end of `Serve`, against handlers that
passed the closing check, a scheduler within a pass and runners at every point
at which they wait or look at a context. A turn is reduced to its prompt, run and
handle. The scheduler's pass is four steps (the closing check, the query, a runner
for a route it found, the end of the batch), and after the first of them nothing
looks at `closing` or the context, so a runner may start at any moment of the
shutdown. `waiter` is the goroutine that waits for the `WaitGroup`, apart from
`Shutdown` itself: the last runner wakes it, it goes on later, `Shutdown` learns of
it later still, and cancels after that. A runner that starts once the waiter is
through is counted by nobody and meets its closing check; one that starts between
the wake-up and the waiter's next step makes `Wait` panic (`Panic`), which ends the
process. The `WaitGroup` is external: its panics at the first `Add` and at the end
of `Wait` are one outcome. The waits, the cancellation between them and the closing
of the store are steps of `Stop`.

**Projection** — one turn from its owned run to its planned answer: `consume`,
`flushLoop`, the waiting turn with `composeFinal`, a `!stop` and a shutdown. It is
one turn of one process: a turn taken up again after a failed `MarkTerminal` or a
restart has a preview on the platform but no live text, and is not modelled. Texts
are lengths; `run.sent` is how far the watch service delivered, with gaps, and
`open` the subscriptions nobody has closed.

**StateDir** — `Open` and `Close` step by step for several processes, any step
of which fails or kills its process. `version` and `tables` are kept apart, so
that a migration could be half done.

**Chunker** — `Chunk` line by line and piece by piece, a piece cut wherever
`splitUnits` may cut for some text. Text is counted in units; of a chunk it is
kept whether a fence in it lacks its other end.

**MCParts** — the seven modules that share no state in these models, in one run:
`part` says at the start which of them moves, and the others stay as they began.
Nothing one of them does depends on another, so their interleaving would show no
more about any of them. Their names carry a prefix where two would clash
(`SchedInit`, `SlackNext`, `dirVars`), so that the run checks the properties of
the modules as they stand there. Fairness is that of `FairSchedSpec`,
`FairShutSpec` and `FairSlackSpec`, each for as long as its part moves.

The modules named **…Proofs** hold the theorems and nothing else, see
[Proofs](#proofs).

A definition named after a faulty variant ("Faulty …" in its comment) is not
part of any specification. It is what a plausible bug would make of the
definition after it, and for every property of a run there is one under which TLC
finds the property violated.

## Runs

`tlc -config <run>.cfg <module>.tla`. Symmetry is used for messages, routes and
runs (the actions treat them alike), never with liveness. The instances bound the
events, the faults and the answers, so nearly all of them come to rest, and none
treats that as a deadlock; that work is not left lying is what the liveness
properties say.

| Run | Bounds | Checks |
|---|---|---|
| HostStoreQueue | 2 routes, 3 events, 2 runs, 1 chunk, queue 1, global 2 | `TypeOK`, `SeqTotalOrder`, `WorkInOrder`, `RotationStrandsNothing`, `RowsBelong`, `StopLeavesNothing`, `CapacityHeld`, `PayloadKept`, `KeepsConversation` |
| LaneOrder | 2 answers of 1 or 2 chunks, 1 attempt, 1 fault | `PostedInOrder`, `AnswerPlanned`, `LaneInOrder`, `NothingUndone` |
| LaneFaults | 2 one-chunk answers, 2 attempts, 2 faults, 6 message ids, 3 nonces | `NoBlindCreate`, `AckedIsShown`, `ImplementsHostStore` |
| LaneLiveness | 2 one-chunk answers, 2 attempts, 1 fault, fair | `LaneSettles` |
| RunnerRaces | 1 route, 3 events, 2 runs, no faults | `StopReachesTarget` |
| RunnerCrashes | 1 route, 2 events, 2 admission attempts, 2 faults | `OneRunPerMessage`, `OnlyAcceptedRun`, `StopEndsTarget`, `ImplementsHostStore` |
| RunnerLiveness | 1 route, 2 events, 1 fault, fair | `EventsSettle` |
| ProjectionRaces | cap 2, preview 1, run of 3 units, 1 resubscription, fair | `AnswerIsTheRuns`, `ReasonTold`, `SubscriptionsClosed`, `TurnEnds` |
| Parts: scheduler | 2 routes, 1 slot, batch 1, no room in the counter table, 1 ingest in flight, 1 failing query, fair | `NoMissedIngest`, `ServedInTurn` |
| Parts: throttle | 2 callers, spacing 2, 10 ticks, 4 calls, 2 waits cut short | `CrowdingBounded` |
| Parts: shutdown | 2 routes, 1 prompt of each, 1 worker, 1 abandoned run, 1 fault, runs may never end, fair | `CleanMeansSettled`, `NoStrayRun`, `ShutdownEnds` |
| Parts: state directory | 2 daemons, 1 operator, 1 schema version | `OneProcess`, `OpenedIsMigrated` |
| Parts: chunker | budget 24, 10 kinds of lines, texts of any number of them | `WithinBudget`, `BalancedWhenTracked` |
| Parts: Slack | 3 messages, 1 envelope of each at a time, 2 faults, fair | `SlackKeepsPromise`, `MessagesRecorded` |
| Parts: Discord | 3 messages, 2 handlers, 2 copies of each, 2 faults, 1 deleted thread | `DiscordKeepsPromise` |
| LateStop, StaleRotation, LeftoverIntents | as the run of the same module, or smaller | each one statement of the repository that does not hold, see [Findings](#findings) |

Why these bounds are enough to be interesting. Three events are a prompt, a
control against it and a prompt behind them, the smallest instance in which a
stop can hit the wrong prompt or a rotation can strand one; a queue of one plus
the active prompt overflows with the third. Two routes are only needed where
routes share something, the global bound and the order of rows across routes;
the runners of different routes share nothing but slots. Two chunks and two
answers make four rows, so a lane has a first, a middle and a last one. Two
attempts give a retry and an exhausted row. Two faults give a crash during the
recovery from a crash. With two admission attempts a prompt is really submitted
twice. The message ids and nonces are enough for every create of these
instances, resends included: `HasRoom` and `RecordIntent` name the two bounds in
their guards, and the theorems hold with and without room. A batch and a slot fewer
than routes make the cursor matter, and a counter table without room makes every ingest evict. Three
units against a cap of two and a preview of one make every comparison of a text
with a limit come out both ways. Two handlers race for the binding, one of
them with a thread that was deleted meanwhile. A budget of 24 is the smallest the chunker's constants
allow (the reserve of 12 and a fence of a quarter), and its lines lie on both
sides of every limit; `PlatformProofs` removes the bound.

**Fairness.** `FairRunnerSpec`: a goroutine that can go on does (WF on the
steps of `Ingest` and of each runner); the scheduler starts a runner for a route
with work (WF on `StartRunner`: wake-ups and a one-second tick rescan); a park
ends (WF); a run ends (WF: the turn has a deadline); a lane step that keeps
being possible is made (SF on `DrainRow`: a park for a retry ends when the retry
is due); a lease ends (SF on resuming the target of a stop: 5 seconds against
retries every 15). Nothing makes an event arrive or a fault occur, and faults
are finite. `FairLaneSpec`: the owner of the lane goes on, the daemon is started
again, prompts are admitted, and a row whose retry is due is taken again (SF on
`TakeRow`). The cursor of the scan is not in
RouteRunner, so fairness between routes is an assumption there; `Scheduler` shows
when it holds: `ServedInTurn` under weak fairness of the scheduler, the runners,
unpark and the ends of parks, once no more ingest resets the cursor.
SlackIngress: the event loop and a restarted process go on, and Slack repeats an
envelope as long as it has no acknowledgement (it really gives up after some
retries; then nobody sends the message again). Shutdown: `Serve` itself, the
scheduler's pass, the runners and previews go on, but no run has to end, no
fault has to come and the waiter need not wake up. Projection: a run ends, and goroutines go on; a subscription
fails only when it is closed or its context is over, and delivers nothing unless
it likes to.

**What they show.** The store keeps its promises for every order of its
transactions. The runner, with all its stale reads, keeps to the store's
contract, crashes and failed calls included. A stop that arrives while its target is being
admitted is not lost: either `Ingest` finds the handle or the turn finds the
pending stop. A run is never started twice for a message, because every attempt
begins with a lookup. A chunk is shown twice only by an operator's resend.
`AckedIsShown` and `PostedInOrder` name their exceptions: a call that was given
up may land late and overwrite a newer text, and a resend puts a message behind
later ones. A parked
route is never left behind by an ingest, also when its counter was evicted. Every
wait cut short costs at most one call too many in a window of the spacing. A
message is filed once and under one thread although its key is known only after
calls that may be repeated. A shutdown that reports success has settled every
owned run, and a runner that starts behind its back gets no further than the
closing check; one that does not still closes its database, unless the `WaitGroup`
panics. The answer of a completed run is its committed text, and a cut one is a
part of what was streamed, with the reason that ended the run. Within one turn of
one process it is also never less than what the preview showed; a turn taken up
again after a failed `MarkTerminal` or a restart has no live text, and its answer
may show less than the preview did.
`StopReachesTarget` is checked without faults, because an error of
`PendingStops` is ignored (`turn.go:117`) and the stop then waits for the end of
the run.

## Proofs

Every theorem holds for all values of the constants: any number of routes,
messages, runs, chunks, ids, nonces, callers and processes, and all limits. The
assumptions are those named in the modules: `NoRun` and `NoMsg` are no run and no
message, limits are natural numbers, an answer has at most `MaxChunks` ≥ 1
chunks, ids and nonces are positive numbers (0 stands for the empty string), a
chunk's budget is at least 24 units, `SlackAbout`, `DiscordAbout` and `HomeOf` say of
every message what its event shows. They bound nothing that the code leaves open.

| Module | Theorem | States |
|---|---|---|
| HostStoreProofs | `TypeCorrect` | `Spec => []TypeOK` |
| | `OrderCorrect` | `Spec => []SeqTotalOrder` |
| | `TablesAgree` | `Spec => []RowsBelong` |
| | `PayloadCorrect` | `Spec => []PayloadKept` |
| | `RotationCorrect` | `Spec => []RotationStrandsNothing` |
| | `HistoryCorrect` | `Spec => NothingUndone` |
| HostStoreOrderProofs | `WorkOrderCorrect` | `Spec => []WorkInOrder` |
| | `StopCorrect` | `Spec => []StopLeavesNothing` |
| | `AnswerCorrect` | `Spec => []AnswerPlanned` |
| | `LaneCorrect` | `Spec => []LaneInOrder` |
| | `CapacityCorrect` | `Spec => []CapacityHeld` |
| | `ConversationKept` | `Spec => KeepsConversation` |
| RouteRunnerProofs | `RunnersImplement` | `RunnerSpec => ImplementsHostStore` |
| | `OneRunHolds` | `RunnerSpec => []OneRunPerMessage` |
| | `AcceptedRunHolds` | `RunnerSpec => []OnlyAcceptedRun` |
| | `StopEndsHolds` | `RunnerSpec => []StopEndsTarget` |
| | `StopReachesHolds` | `RunnerSpec => [](faults = 0 => StopReachesTarget)` |
| DeliveryLaneProofs | `CallersImplement` | `LaneSpec => ImplementsHostStore` |
| | `NoBlindCreateHolds` | `LaneSpec => []NoBlindCreate` |
| | `AckedIsShownHolds` | `LaneSpec => []AckedIsShown` |
| | `PostedInOrderHolds` | `LaneSpec => []PostedInOrder` |
| ProjectionProofs | `AnswerHolds` | `ProjectionSpec => []AnswerIsTheRuns` |
| | `ReasonHolds` | `ProjectionSpec => []ReasonTold` |
| | `SubscriptionsHold` | `ProjectionSpec => []SubscriptionsClosed` |
| ServiceProofs | `IngestsNeverMissed` | `SchedSpec => []NoMissedIngest` |
| | `NoStrayRunHolds` | `ShutSpec => []NoStrayRun` |
| | `CleanShutdownHolds` | `ShutSpec => []CleanMeansSettled` |
| PlatformProofs | `SpacingHolds` | `ThrottleSpec => []SpacedUntilGiveUp` |
| | `CrowdingHolds` | `ThrottleSpec => []CrowdingBounded` |
| | `WithinBudgetHolds` | `ChunkSpec => []WithinBudget` |
| | `BalancedHolds` | `ChunkSpec => []BalancedWhenTracked` |
| | `SlackPromiseKept` | `SlackSpec => SlackKeepsPromise` |
| | `DiscordPromiseKept` | `DiscordSpec => DiscordKeepsPromise` |
| StateDirProofs | `OneProcessHolds` | `DirSpec => []OneProcess` |
| | `MigrationAlwaysWhole` | `DirSpec => []MigrationIsWhole` |
| | `OpenedAlwaysMigrated` | `DirSpec => []OpenedIsMigrated` |
| | `NewerStaysUntouched` | `DirSpec => NewerUntouched` |

### The tables

The inductive invariant is the conjunction
`Inv == TypeOK /\ SeqTotalOrder /\ RowsBelong /\ PayloadKept /\ RotationStrandsNothing`.
None of the last three is inductive alone. `RotationStrandsNothing` survives the
planning of an answer only because the row takes the generation of an item that
is itself current, and survives the acknowledgement of a row because the row's
route has a conversation — which follows from the row belonging to an item
(`RowsBelong`) and the item to a conversation (`SeqTotalOrder`). `RowsBelong`
survives a receipt because a run is named once. `NothingUndone` needs
`PayloadKept` for the acknowledged revisions (`acked <= desired`).

The argument is by *frames*. A transaction does one of five things to the
tables: it inserts an event and advances the counter of its route
(`IngestFrame`), changes items without touching their identity (`ItemStep`,
`InboxFrame`), records a run (`RunStep`), changes one row within what an
acknowledgement, a retry or a resolution may do (`RowStep`), or plans rows for an
item (`PlanStep`). One lemma per frame shows that the frame keeps `Inv`, one
lemma per action shows that the action is an instance of its frame, and the step
theorem combines them.

### The order of work

`OrderInv` adds to `Inv` what order rests on. `KindsFit`: only prompts are queued
or have a run, and a receipt is not taken back. `WorkInOrder` itself. And
`StopsReach`, without which `StopLeavesNothing` is not inductive: nothing of a
route up to the cutoff of an accepted stop is queued, a prompt there that is still
being admitted is the target this stop is pending for, and later events are
numbered past the cutoff.

`LaneInv` adds the lane. `LaneReached`: no row behind an unresolved one has a
message or an intent or is blocked. `PreviewOnly`: before its run ends an event has
at most its first row. Both are needed for the planning of an answer: it reopens
the preview's row and adds rows behind it, and nothing later may have been reached
by then. `DesiredKnown` and `AnswerPlanned` say what these rows are to show. For
`CapacityHeld` the proof counts what waits.

`ConversationKept` is a refinement step by step: a prompt's place is its route and
sequence number, its phase the state of its row. Each transaction makes exactly
one prompt `Become` the next phase, or is `Invisible`; `WorkInOrder` gives the
guards of the abstract steps (nothing before it is unanswered).

### The runners

Each step of a runner, of ingestion and of a crash is first shown to be a step of
the store or to leave the tables alone (`RunnersImplement`), so that every store
theorem holds for `RunnerSpec`. The step is an instance of the store's
action only if what was read earlier is still true, which is the work:
`RunnerInv` is `OrderInv` with the types, `Books` and `RunnersOK`. `RunnersOK`
states for every place a runner can stand at what it may rely on there: which
generation the active items of its route have, that the item it holds is still
the work of the route and in which state, that the run it carries is a run of that
item, which stop it settles. `Books` relates the tables to the runtime: a run is of
an accepted message and the only one of it, a receipt names it, an answer follows
its end (`RunsAgree`); a stop's target is an earlier prompt of its route that had been
taken up, and its frozen run is the target's (`StopsAim`); a completed stop's target is
over (`StopEndsTarget`).

`StopReachesHolds` says `faults = 0` because an error of `PendingStops` is ignored
(`turn.go:117`): then nobody replays the stop, and it waits for the end of the run.
It is the only theorem with such a hypothesis; it is what the run `RunnerRaces`
checks.

### The lane

`CallersInv` is `LaneInv` with the types and four parts. `PlatformOK`: the platform
numbers its messages, and a late edit names a message of its row. `Known`: of all
creates of a row that took effect or still may, no two share a nonce, and a row whose
current nonce was sent has its message recorded or keeps its intent, so that it is
reconciled before anything is sent again; a resolved row shows what it
acknowledges. `Owns`: what the owner of a lane may rely on between its read of the
row and the transaction that records the outcome, at each place it can stand and with
every answer the platform may have given. And `PostedInOrder` itself (`InOrder`), of
which the step is: a message that appears is the newest, and by `LaneReached` no row
behind its own has been reached. This covers creates that land after they were given
up, since the lane does not go past a row with an intent.

### The smaller parts

*Projection*: `ProjectionInv` relates the text observed to what the run has
produced, the text flushed to what was observed, and the reasons a turn holds to
the causes there were, for each of its goroutines separately. *Scheduler*: a runner
that has read its counter and not yet parked has read no more than the counter is
now, and a commit it did not see is either on its way to `unpark` or has made the
counter larger; eviction spares active routes, so the comparison in `park` is between
values of one counter. *Shutdown* (`ShutInv`): a run that executes is held by its
runner, which waits for it or ends it; once the waiter is through (`AllGone`), every
runner is gone or stands at its closing check, which turns it away because the waiter
exists only while the service is closing (`StopInOrder`); and as long as nothing failed
a runner stops waiting only when its run is over, so what executed is finished or on
its way to it. `AllGone` is about the waiter, not about the result: the runner that
starts between the end of the wait, the result and the cancellation is covered at each
of these moments. *Throttle*: as
long as no wait was cut short, all slots and calls are pairwise a spacing apart
and none lies behind the last reservation. With waits cut short, `SlotInv` divides slots and calls into epochs, one more with every wait cut short;
within an epoch they are a spacing apart, so a window with more calls than epochs
would hold two of one epoch, by the pigeonhole principle. *StateDir*: every
open pool belongs to the holder of the lock, at every step of `Open`, `Close` and
their failures, and a process past the migration sees the version of this binary;
the tables are those of the version because they are written in one transaction.
*Chunker*: a chunk always leaves room to
close the open fence, five units with the end of a line. `Limits` states what
`limit` must hold back for that, `WriteFits` that a piece within the limit keeps
it, also after a flush that opens the fence again, and `FenceFits` that a tracked
fence is never longer than a quarter of the budget. For balance, `Tracked` says
that what the chunker takes to be the open fence is the open fence. *Adapters*: the
refinements of `Intake` are shown step by step, as that of `Conversation`.
`SlackInv` says that the envelope in hand has its message in the inbox by the time
it is acknowledged, and that a notice is asked for only by the one that put it
there. `DiscordInv` says where a message is filed once it has a place (`PlaceOf`: the
thread it was bound to first, or the channel it was sent to), that every handler
about to record holds that place, and that at most one copy of a message is about
to tell of it.

### What is not proved

Only model-checked are liveness under fairness (`LaneSettles`, `EventsSettle`,
`TurnEnds`, `ServedInTurn`, `ShutdownEnds`, `MessagesRecorded`), which this prover
cannot treat. Every other property of the passing runs is a theorem. Only proved,
and left out of the runs: `SpacedUntilGiveUp`, `MigrationIsWhole` and `NewerUntouched`.

## Findings

1. **LateStop** — a comment promises that a stop can never relabel a later run
   (`service.go:432-433`). A stop whose target had no run yet, or that only
   canceled queued prompts, carries an empty target run, and `interruptRoute`
   then hits whatever run the route owns by the time it is called.
2. **StaleRotation** — a comment calls an item of another generation possible
   "only through a bug" (`turn.go:50`). `runRoute` reads the conversation and the
   work in two transactions; a `!new` and a prompt in between make it cancel an
   accepted prompt silently.
3. **LeftoverIntents** — the documentation promises `ambiguous_create` for a
   create whose outcome is unknown (`docs/operations.md:43-44`). When the
   leftover intent had used the last attempt (or its window is over, or its
   destination is no longer allowed), the row becomes `failed` instead, without
   reconciliation.

Seven more statements of the repository are definitions of the modules that no run
checks, because they do not hold: TLC refutes each within a minute when it is added
to `RunnerCrashes.cfg`, `Parts.cfg` or `ProjectionRaces.cfg`.

- `RouteRunner!StopLabelsAnswer` — a comment promises that the turn that finalizes
  labels a user stop even after a restart (`controls.go:69`). The flag is in memory
  and consumed before the answer is saved: after a failed save or a crash the
  answer is planned as interrupted by a restart.
- `Scheduler!NoRouteStarves` — a comment promises that the rotated cursor starves
  no route (`inbox.go:226-227`). Every ingest resets the cursor, and one pass looks
  at one batch: a busy route at the front keeps the ones behind it from being seen.
- `Throttle!SpacingEnforced` — `throttle` "enforces the minimum spacing"
  (`delivery.go:15`). A caller that gives up restores the slot it found, behind the
  caller queued after it, and the next one takes the same slot again.
- `Shutdown!OwnedInterrupted` — a shutdown "interrupts owned runs"
  (`docs/operations.md:12`). It interrupts a copy of the handles; one published
  later runs on until the budget of the shutdown is used up.
- `Shutdown!ShutdownReturns` — `Shutdown` "returns an error when work did not settle
  in time" (`service.go:449`). A scan that passed its closing check may start a runner
  just when the last one has left and woken the waiter: the `WaitGroup` is used again
  before `Wait` has returned, and panics.
- `Chunker!EveryChunkBalanced` — "every chunk renders balanced"
  (`render/text.go:74`). A line that opens and closes a fence counts as an opener.
- `Projection!CapKeepsPrefix` — the output cap keeps the "accepted 32 KiB prefix"
  (`docs/operations.md:28`). The update that crosses the cap is dropped whole, and
  the answer shows the text observed before it, which may be none.

## Not modelled

- *Authorization* of events and controls, beyond its outcome (`authorizeControl`,
  allowlists as sets): which actor may do what is not a question these modules ask.
- *Pure functions* of one value, for which unit tests are the better check:
  configuration, redaction, escaping, `Preview`, the parsing of commands and of
  platform payloads, the wording of answers and notices, command-line output.
- *Platform calls* and the agent runtime are external: what an adapter sends and
  how it maps an error are inputs of DeliveryLane; leases, models and tools are
  what RouteRunner and Projection see of them.
- *Notices*, beyond that an event leads to one at most: `Notify` drops what its
  queue has no room for, `noticeLoop` bounds every call with a timeout, and nothing
  depends on whether a notice arrives.
- *Reconnection* of Socket Mode and Gateway sessions and the supervision of the
  adapters by `Serve`, which only restarts `Run`: libraries decide what it does.
- *Files, links and permissions*, which are reasons for a step of `Open` to fail.
- *Lengths of time*: backoffs, deadlines, the hours an attempt may take. A wait
  ends, in whatever order; only Throttle counts ticks.

A database transaction is taken to be atomic and durable (SQLite). PROJECT.json
gives the reason per part.

## Plan

Done: the store, its conversation and its lane; runner, scheduler, spacing,
projection, shutdown; both adapters' ingress; the state directory; the chunker.
Every safety property that a run checks and every refinement is also a theorem.
What is left:

1. liveness, beyond TLC's instances: out of the prover's reach, so the models
   can only be made larger;
2. the refinement of the three parts that RouteRunner abstracts (parking by
   Scheduler, the composed answer by Projection, the handles by Shutdown), which
   today share assumptions with it, stated in the README and not as a mapping.
