---------------------------- MODULE DeliveryLane ----------------------------
(***************************************************************************)
(* The callers of the delivery transactions (internal/conversation          *)
(* delivery.go and projection.go, internal/app delivery.go) and the chat    *)
(* platform they post to.  One goroutine at a time owns the lane of a route:*)
(* the preview loop of the running turn, which the turn stops before it     *)
(* plans the answer, or the drain once no event is left to work on.  Each   *)
(* step is one transaction or one platform call; the process may die        *)
(* between any two, and the operator resolves deliveries while it is down.  *)
(*                                                                          *)
(* Prompts are admitted by HostStore's contract, which RouteRunner details. *)
(* The platform is external: a call lands, is refused, or times out with an *)
(* unknown outcome and may then land at any later time or never.  Ids are   *)
(* given to messages in the order they appear.  retry_at only delays a row, *)
(* and the attempt window (first_attempt_at) may be over as soon as one     *)
(* attempt was counted.                                                     *)
(***************************************************************************)
EXTENDS HostStore

CONSTANT MaxFaults     \* bound: crashes and failed writes in a behaviour

VARIABLES
    lane,      \* route -> the locals of the goroutine that owns its lane
    posted,    \* the platform's messages: id -> [key, nonce, rev, late]
    wire,      \* calls nobody waits for any more, which may still land
    epoch,     \* row -> resends so far; its nonce, once it has one, is epoch + 1
    serving,   \* the daemon runs; otherwise the operator may hold the lock
    faults

laneVars == <<storeVars, lane, posted, wire, epoch, serving, faults>>

NoKey == <<NoRun, 0>>
Pcs == {"idle", "plan", "next", "live", "turn", "drain",
        "create", "call", "landed", "reconcile", "edit", "edited"}
Owner == [pc: Pcs, work: Msgs \cup {NoMsg}, key: RowKeys \cup {NoKey},
          id: RemoteIds \cup {NoRemote}]
Idle == [pc |-> "idle", work |-> NoMsg, key |-> NoKey, id |-> NoRemote]

Revs == {PlaceholderRev, FinalRev}
Message == [key: RowKeys, nonce: Nonces, rev: Revs, late: BOOLEAN]

(* A call on the wire: a create has no message yet, an edit names one.      *)
Call == [key: RowKeys, id: RemoteIds \cup {NoRemote}, nonce: Nonces \cup {NoNonce}, rev: Revs]

-----------------------------------------------------------------------------
At(r, pc) == serving /\ lane[r].pc = pc
Key(r) == lane[r].key
RowOf(r) == deliveries[Key(r)]
Goto(r, pc) == lane' = [lane EXCEPT ![r].pc = pc]
Fault == faults < MaxFaults /\ faults' = faults + 1

Stays == UNCHANGED <<conv, inbox, epoch, serving>>
Quiet == UNCHANGED <<posted, wire, faults>> /\ Stays

(* Where the owner goes on after createDelivery or editDelivery: the preview*)
(* loop ends, the drain looks at the next row or, when nothing durable      *)
(* changed, parks.                                                          *)
Done(r) == Goto(r, IF lane[r].work # NoMsg THEN "turn" ELSE "drain")
Parks(r) == Goto(r, IF lane[r].work # NoMsg THEN "turn" ELSE "idle")

-----------------------------------------------------------------------------
(* The platform.                                                            *)

FreeId == Cardinality(DOMAIN posted) + 1

(* RemoteIds bounds how many messages the platform takes.                   *)
HasRoom(call) == call.id = NoRemote => FreeId \in RemoteIds

CreateCall(k) ==
    [key |-> k, id |-> NoRemote, nonce |-> deliveries[k].nonce, rev |-> deliveries[k].desired]
EditCall(k, rev) ==
    [key |-> k, id |-> deliveries[k].remote, nonce |-> NoNonce, rev |-> rev]

(* The messages once a call took effect: a create makes one, an edit sets   *)
(* the text of one.                                                         *)
Landed(call, late) ==
    IF call.id = NoRemote
    THEN [id \in DOMAIN posted \cup {FreeId} |->
             IF id = FreeId THEN [key |-> call.key, nonce |-> call.nonce,
                                  rev |-> call.rev, late |-> FALSE]
             ELSE posted[id]]
    ELSE [posted EXCEPT ![call.id].rev = call.rev, ![call.id].late = late]

Lands(call) == HasRoom(call) /\ posted' = Landed(call, FALSE) /\ UNCHANGED wire

(* No answer in time: it took effect, may do so later, or never will.       *)
Unanswered(call) ==
    \/ Lands(call)
    \/ wire' = wire \cup {call} /\ UNCHANGED posted
    \/ UNCHANGED <<posted, wire>>

(* A late edit may overwrite a newer text.                                  *)
LateLanding(call) ==
    /\ HasRoom(call)
    /\ posted' = Landed(call, TRUE)
    /\ wire' = wire \ {call}
    /\ UNCHANGED <<storeVars, lane, epoch, serving, faults>>

-----------------------------------------------------------------------------
(* The turn of an admitted prompt: flushLoop and ensurePreviewRow.          *)

BeginTurn(r, m) ==
    /\ At(r, "idle") /\ m \in ItemsIn(r, {"admitted"})
    /\ lane' = [lane EXCEPT ![r] = [Idle EXCEPT !.pc = "plan", !.work = m]]
    /\ UNCHANGED deliveries /\ Quiet

(* No watch subscription, the destination is not allowed now, the run is    *)
(* already over, or a read fails.                                           *)
SkipPreview(r) ==
    /\ lane[r].pc \in {"plan", "next"} /\ serving
    /\ Goto(r, "turn")
    /\ UNCHANGED deliveries /\ Quiet

PlanStatus(r) ==
    LET m == lane[r].work
    IN  /\ At(r, "plan")
        /\ PlanPreview(inbox[m], m)
        /\ lane' = [lane EXCEPT ![r].pc = "next", ![r].key = <<inbox[m].run, 0>>]
        /\ Quiet

(* Previews are shown only while the run is the next in the lane.           *)
CheckNext(r) ==
    /\ At(r, "next")
    /\ Goto(r, IF ~IsNext(Key(r)) \/ Blocked(RowOf(r)) THEN "turn"
               ELSE IF RowOf(r).remote = NoRemote THEN "create" ELSE "live")
    /\ UNCHANGED deliveries /\ Quiet

(* The run is over: p.cancel() may cut off a preview edit on its way.       *)
StopPreviews(r) ==
    /\ At(r, "live")
    /\ \/ UNCHANGED wire
       \/ wire' = wire \cup {EditCall(Key(r), PlaceholderRev)}
    /\ Goto(r, "turn")
    /\ UNCHANGED <<deliveries, posted, faults>> /\ Stays

PlanAnswer(r) ==
    /\ At(r, "turn")
    /\ FinishRun(lane[r].work)
    /\ lane' = [lane EXCEPT ![r] = Idle]
    /\ UNCHANGED <<posted, wire, epoch, serving, faults>>

-----------------------------------------------------------------------------
(* drainDeliveries                                                          *)

BeginDrain(r) ==
    /\ At(r, "idle")
    /\ ItemsIn(r, Unfinished) = {} /\ Unresolved(r) # {}
    /\ Goto(r, "drain")
    /\ UNCHANGED deliveries /\ Quiet

(* The lane is clear or blocked, its next row waits for a retry, or a read  *)
(* or the platform's check of the destination fails.                        *)
EndDrain(r) ==
    /\ At(r, "drain")
    /\ lane' = [lane EXCEPT ![r] = Idle]
    /\ UNCHANGED deliveries /\ Quiet

(* No adapter, the destination is no longer allowed, or the row is of an    *)
(* older generation.                                                        *)
RefuseRow(r, k) ==
    /\ At(r, "drain") /\ AtHead(k) /\ deliveries[k].route = r
    /\ MarkFailed(k)
    /\ lane' = [lane EXCEPT ![r] = Idle]
    /\ Quiet

(* Faulty drain: any pending row of the route is taken.                     *)
TakeAnyRow(r, k) ==
    /\ At(r, "drain") /\ deliveries[k].route = r
    /\ k \in Unresolved(r) /\ deliveries[k].status = "pending"
    /\ lane' = [lane EXCEPT ![r].key = k,
                            ![r].pc = IF deliveries[k].remote = NoRemote
                                      THEN "create" ELSE "edit"]
    /\ UNCHANGED deliveries /\ Quiet

TakeRow(r, k) ==
    /\ At(r, "drain") /\ AtHead(k) /\ deliveries[k].route = r
    /\ lane' = [lane EXCEPT ![r].key = k,
                            ![r].pc = IF deliveries[k].remote = NoRemote
                                      THEN "create" ELSE "edit"]
    /\ UNCHANGED deliveries /\ Quiet

-----------------------------------------------------------------------------
(* createDelivery and reconcile                                             *)

(* exhausted: all attempts used, or the window since the first one is over. *)
Exhausted(row, windowOver) ==
    row.attempts >= MaxDeliveryAttempts \/ (windowOver /\ row.attempts > 0)

GiveUpRow(r) ==
    /\ serving /\ lane[r].pc \in {"create", "edit"}
    /\ Exhausted(RowOf(r), TRUE)
    /\ MarkFailed(Key(r))
    /\ Done(r) /\ Quiet

(* An intent without a recorded outcome: never create again blindly.        *)
LeftoverIntent(r) ==
    /\ At(r, "create") /\ ~Exhausted(RowOf(r), FALSE)
    /\ RowOf(r).op = "create_intent"
    /\ MarkAmbiguous(Key(r))
    /\ Goto(r, "reconcile") /\ Quiet

(* Faulty createDelivery: a leftover intent is simply tried again.          *)
RecordIntentAgain(r) ==
    /\ At(r, "create") /\ ~Exhausted(RowOf(r), FALSE)
    /\ MarkCreateIntent(Key(r), epoch[Key(r)] + 1)
    /\ Goto(r, "call") /\ Quiet

RecordIntent(r) ==
    /\ At(r, "create") /\ ~Exhausted(RowOf(r), FALSE)
    /\ RowOf(r).op # "create_intent" /\ epoch[Key(r)] + 1 \in Nonces
    /\ MarkCreateIntent(Key(r), epoch[Key(r)] + 1)
    /\ Goto(r, "call") /\ Quiet

(* Deliverer.Create returns an id ...                                       *)
CreateReturns(r) ==
    /\ At(r, "call")
    /\ Lands(CreateCall(Key(r)))
    /\ lane' = [lane EXCEPT ![r].pc = "landed", ![r].id = FreeId]
    /\ UNCHANGED <<deliveries, faults>> /\ Stays

(* Faulty recordFailure: a refused create is counted a second time.         *)
CreateFailsCounted(r) ==
    /\ At(r, "call")
    /\ MarkAttempt(Key(r)) \/ MarkFailed(Key(r))
    /\ Done(r) /\ Quiet

(* ... or a definite error: refused now, or for good ...                    *)
CreateFails(r) ==
    /\ At(r, "call")
    /\ MarkRetryAt(Key(r)) \/ MarkFailed(Key(r))
    /\ Done(r) /\ Quiet

(* ... or nothing.                                                          *)
CreateTimesOut(r) ==
    /\ At(r, "call")
    /\ Unanswered(CreateCall(Key(r)))
    /\ MarkAmbiguous(Key(r))
    /\ Goto(r, "reconcile")
    /\ UNCHANGED faults /\ Stays

PersistCreated(r) ==
    /\ At(r, "landed")
    /\ MarkCreated(Key(r), lane[r].id, RowOf(r).desired)
    /\ lane' = [lane EXCEPT ![r].id = NoRemote,
                            ![r].pc = IF lane[r].work # NoMsg THEN "live" ELSE "drain"]
    /\ Quiet

(* All retries of the write fail: the row stays an intent.                  *)
PersistFails(r) ==
    /\ At(r, "landed") /\ Fault
    /\ lane' = [lane EXCEPT ![r].id = NoRemote,
                            ![r].pc = IF lane[r].work # NoMsg THEN "turn" ELSE "idle"]
    /\ UNCHANGED <<deliveries, posted, wire>> /\ Stays

(* Deliverer.Reconcile: Discord looks for an own message with the nonce, and*)
(* may miss it; Slack never finds one.                                      *)
Reconcile(r) ==
    /\ At(r, "reconcile")
    /\ \/ \E id \in DOMAIN posted :
             /\ posted[id].key = Key(r) /\ posted[id].nonce = RowOf(r).nonce
             /\ AssociateMessage(Key(r), id)
       \/ UNCHANGED deliveries
    /\ Done(r) /\ Quiet

-----------------------------------------------------------------------------
(* editDelivery                                                             *)

EditReturns(r) ==
    /\ At(r, "edit") /\ ~Exhausted(RowOf(r), FALSE)
    /\ Lands(EditCall(Key(r), RowOf(r).desired))
    /\ Goto(r, "edited")
    /\ UNCHANGED <<deliveries, faults>> /\ Stays

PersistEdited(r) ==
    /\ At(r, "edited")
    /\ MarkEdited(Key(r), RowOf(r).desired)
    /\ Done(r) /\ Quiet

PersistEditFails(r) ==
    /\ At(r, "edited") /\ Fault
    /\ Parks(r)
    /\ UNCHANGED <<deliveries, posted, wire>> /\ Stays

EditFails(r) ==
    /\ At(r, "edit") /\ ~Exhausted(RowOf(r), FALSE)
    /\ MarkAttempt(Key(r)) \/ MarkFailed(Key(r))
    /\ Done(r) /\ Quiet

(* Faulty editDelivery: an edit without an answer counts as done.           *)
EditTimesOutAcked(r) ==
    /\ At(r, "edit") /\ ~Exhausted(RowOf(r), FALSE)
    /\ Unanswered(EditCall(Key(r), RowOf(r).desired))
    /\ MarkEdited(Key(r), RowOf(r).desired)
    /\ Done(r)
    /\ UNCHANGED faults /\ Stays

(* Faulty editDelivery: an edit without an answer is not counted.           *)
EditTimesOutUncounted(r) ==
    /\ At(r, "edit") /\ ~Exhausted(RowOf(r), FALSE)
    /\ Unanswered(EditCall(Key(r), RowOf(r).desired))
    /\ MarkRetryAt(Key(r))
    /\ Done(r)
    /\ UNCHANGED faults /\ Stays

(* An edit is idempotent: an unknown outcome is one more counted attempt.   *)
EditTimesOut(r) ==
    /\ At(r, "edit") /\ ~Exhausted(RowOf(r), FALSE)
    /\ Unanswered(EditCall(Key(r), RowOf(r).desired))
    /\ MarkAttempt(Key(r))
    /\ Done(r)
    /\ UNCHANGED faults /\ Stays

(* recordf: the outcome of a failed call cannot be written, and the row     *)
(* stays as it was; an intent that is left behind counts as ambiguous.      *)
OutcomeUnrecorded(r) ==
    /\ serving /\ lane[r].pc \in {"call", "edit"} /\ Fault
    /\ Unanswered(IF lane[r].pc = "call" THEN CreateCall(Key(r))
                  ELSE EditCall(Key(r), RowOf(r).desired))
    /\ Done(r)
    /\ UNCHANGED deliveries /\ Stays

-----------------------------------------------------------------------------
(* The process and the operator.                                            *)

(* It dies, or is stopped: what it was calling may land later.              *)
Crash ==
    /\ serving /\ Fault
    /\ serving' = FALSE
    /\ lane' = [r \in Routes |-> Idle]
    /\ \E given \in SUBSET {r \in Routes : lane[r].pc \in {"call", "edit"}} :
          wire' = wire \cup {IF lane[r].pc = "call" THEN CreateCall(Key(r))
                             ELSE EditCall(Key(r), RowOf(r).desired) : r \in given}
    /\ UNCHANGED <<storeVars, posted, epoch>>

Restart ==
    /\ ~serving
    /\ serving' = TRUE
    /\ UNCHANGED <<storeVars, lane, posted, wire, epoch, faults>>

(* delivery resolve, under the exclusive lock: resend, or associate a       *)
(* message the operator found for the row.                                  *)
ResolveResend(k) ==
    /\ ~serving
    /\ Resend(k)
    /\ epoch' = [epoch EXCEPT ![k] = @ + 1]
    /\ UNCHANGED <<conv, inbox, lane, posted, wire, serving, faults>>

ResolveAssociate(k) ==
    /\ ~serving
    /\ \E id \in DOMAIN posted : posted[id].key = k /\ AssociateMessage(k, id)
    /\ UNCHANGED <<conv, inbox, lane, posted, wire, epoch, serving, faults>>

-----------------------------------------------------------------------------
(* The route runner's other steps, by HostStore's contract.                 *)
Arrive(m, r) ==
    /\ m \notin DOMAIN inbox /\ IngestPrompt(m, r)
    /\ UNCHANGED <<lane, posted, wire, epoch, serving, faults>>

Admit(m) ==
    /\ m \in DOMAIN inbox /\ At(inbox[m].route, "idle")
    /\ \/ StartAdmitting(m)
       \/ inbox[m].run = NoRun /\ \E run \in RunIds : RecordReceipt(m, run)
    /\ UNCHANGED <<lane, posted, wire, epoch, serving, faults>>

LaneInit ==
    /\ Init
    /\ lane = [r \in Routes |-> Idle]
    /\ posted = [id \in {} |-> {}]
    /\ wire = {} /\ epoch = [k \in RowKeys |-> 0]
    /\ serving = TRUE /\ faults = 0

TurnStep(r) ==
    \/ \E m \in Msgs : BeginTurn(r, m)
    \/ SkipPreview(r) \/ PlanStatus(r) \/ CheckNext(r) \/ StopPreviews(r) \/ PlanAnswer(r)

CreateStep(r) ==
    \/ GiveUpRow(r) \/ LeftoverIntent(r) \/ RecordIntent(r)
    \/ CreateReturns(r) \/ CreateFails(r) \/ CreateTimesOut(r)
    \/ PersistCreated(r) \/ PersistFails(r) \/ Reconcile(r)

EditStep(r) ==
    \/ EditReturns(r) \/ PersistEdited(r) \/ PersistEditFails(r)
    \/ EditFails(r) \/ EditTimesOut(r) \/ OutcomeUnrecorded(r)

DrainStep(r) ==
    \/ BeginDrain(r) \/ EndDrain(r)
    \/ \E k \in DOMAIN deliveries : RefuseRow(r, k) \/ TakeRow(r, k)

OwnerStep(r) == TurnStep(r) \/ CreateStep(r) \/ EditStep(r) \/ DrainStep(r)

LaneNext ==
    \/ \E m \in Msgs, r \in Routes : Arrive(m, r)
    \/ \E m \in Msgs : Admit(m)
    \/ \E r \in Routes : OwnerStep(r)
    \/ \E call \in wire : LateLanding(call)
    \/ Crash \/ Restart
    \/ \E k \in DOMAIN deliveries : ResolveResend(k) \/ ResolveAssociate(k)

LaneSpec == LaneInit /\ [][LaneNext]_laneVars

(* The owner of a lane keeps running, prompts are admitted, the daemon is   *)
(* started again, and a row whose retry is due is taken again.              *)
FairLaneSpec ==
    /\ LaneSpec
    /\ WF_laneVars(Restart)
    /\ \A m \in Msgs : WF_laneVars(Admit(m))
    /\ \A r \in Routes :
          /\ WF_laneVars(OwnerStep(r))
          /\ SF_laneVars(\E k \in DOMAIN deliveries : TakeRow(r, k))

-----------------------------------------------------------------------------
(* Properties.                                                              *)

(* Every store step of the lane's owners is one the contract allows.        *)
ImplementsHostStore == Spec

(* No create is ever repeated blindly: under one nonce at most one message  *)
(* of a row exists or may still appear, so only an operator's resend can    *)
(* show a chunk twice.                                                      *)
NoBlindCreate ==
    \A k \in RowKeys, n \in Nonces :
        Cardinality({id \in DOMAIN posted : posted[id].key = k /\ posted[id].nonce = n})
        + Cardinality({c \in wire : c.id = NoRemote /\ c.key = k /\ c.nonce = n}) <= 1

(* A resolved row is on the platform with its desired revision, unless a    *)
(* call given up on landed late and overwrote it.                           *)
AckedIsShown ==
    \A k \in DOMAIN deliveries :
        Resolved(deliveries[k]) =>
            LET shown == posted[deliveries[k].remote]
            IN  shown.key = k /\ (shown.late \/ shown.rev = deliveries[k].desired)

(* On the platform a route's chunks appear in lane order, as long as the    *)
(* operator resent neither of the two.                                      *)
PostedInOrder ==
    \A i, j \in DOMAIN posted :
        LET a == posted[i].key
            b == posted[j].key
        IN  /\ deliveries[a].route = deliveries[b].route /\ Before(a, b)
            /\ epoch[a] = 0 /\ epoch[b] = 0
            => i < j

(* A lane never just stops: a route's unresolved rows are resolved or wait  *)
(* for the operator behind a blocked one.                                   *)
LaneSettles ==
    \A r \in Routes :
        (Unresolved(r) # {}) ~>
            \/ Unresolved(r) = {}
            \/ \E k \in Unresolved(r) : IsNext(k) /\ Blocked(deliveries[k])

(* docs/operations.md: a create that succeeded without a response is        *)
(* recorded as ambiguous_create, so a failed row without a message has none.*)
FailedMeansNotPosted ==
    \A id \in DOMAIN posted :
        LET row == deliveries[posted[id].key]
        IN  row.nonce = posted[id].nonce /\ row.remote = NoRemote => row.status # "failed"

=============================================================================
