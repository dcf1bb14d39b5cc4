------------------------------ MODULE HostStore ------------------------------
(***************************************************************************)
(* The host database of the service (internal/state): conversations, the    *)
(* durable inbox and the deliveries planned from it.  Every action below is *)
(* one committed transaction; their order is arbitrary but each is guarded  *)
(* by what its callers in internal/conversation check before they call it,  *)
(* so Spec is the contract the route runners rely on.  RouteRunner splits   *)
(* those callers into their real steps and is shown to implement this Spec. *)
(*                                                                          *)
(* The inbox is a table from platform messages (their dedup key) to rows.   *)
(* A redelivered message finds its row and changes nothing, so it is a      *)
(* stuttering step.  Prompt bodies are abstracted to whether the row still  *)
(* holds one (`content`); runtime_session_id is fresh on every rotation, so *)
(* <<route, generation>> names it.                                          *)
(***************************************************************************)
EXTENDS Deliveries

CONSTANTS
    NoMsg,                \* stop_target_inbox_id 0: no target
    MaxQueuedPerRoute,    \* limits.max_queued_per_conversation
    MaxPendingGlobal,     \* limits.max_pending_inbox
    MaxAdmissionAttempts, \* maxAdmissionAttempts in turn.go
    MaxDeliveryAttempts,  \* config.DeliveryMaxAttempts
    RemoteIds,            \* the platform's message ids
    Nonces                \* what newNonce returns

ASSUME NoneAssumption == NoRun \notin RunIds /\ NoMsg \notin Msgs
ASSUME LimitsAssumption ==
    /\ MaxQueuedPerRoute \in Nat
    /\ MaxPendingGlobal \in Nat
    /\ MaxAdmissionAttempts \in Nat
    /\ MaxDeliveryAttempts \in Nat
ASSUME IdsAssumption ==
    /\ RemoteIds \subseteq Nat \ {NoRemote}
    /\ Nonces \subseteq Nat \ {NoNonce}

VARIABLES
    conv,    \* route -> [gen, nextSeq]: the conversations table
    inbox    \* message -> row: the inbox table

storeVars == <<conv, inbox, deliveries>>

Active == {"admitting", "admitted"}
Unfinished == {"queued", "admitting", "admitted", "pending"}
Finished == {"terminal", "rejected", "canceled", "complete"}
States == Unfinished \cup Finished
Kinds == {"prompt", "stop", "new", "help"}

Item == [route: Routes, kind: Kinds, state: States, gen: Nat, seq: Nat,
         content: BOOLEAN, run: RunIds \cup {NoRun}, attempts: Nat,
         target: Msgs \cup {NoMsg}, targetRun: RunIds \cup {NoRun}, cutoff: Nat]

ConvRow == [gen: Nat, nextSeq: Nat]

-----------------------------------------------------------------------------
(* Queries over the inbox.                                                  *)

ItemsIn(r, S) ==
    {m \in DOMAIN inbox : inbox[m].route = r /\ inbox[m].state \in S}

AllIn(S) == {m \in DOMAIN inbox : inbox[m].state \in S}

SeqsOf(r) == {inbox[m].seq : m \in {n \in DOMAIN inbox : inbox[n].route = r}}

IsLowest(m, S) == m \in S /\ \A n \in S : inbox[m].seq <= inbox[n].seq

(* NextWork: a pending control first, otherwise the lowest prompt that is   *)
(* active or queued.                                                        *)
IsNextWork(m, r) ==
    LET pending == ItemsIn(r, {"pending"})
    IN  IsLowest(m, IF pending # {} THEN pending
                    ELSE ItemsIn(r, {"queued"} \cup Active))

(* ensureConversationTx: the first event of a route creates it.             *)
ConvOf(r) == IF r \in DOMAIN conv THEN conv[r] ELSE [gen |-> 1, nextSeq |-> 1]

(* Faulty routeBusyTx: the delivery lane is not looked at.                  *)
RouteBusyInbox(r) == ItemsIn(r, Unfinished) # {}

(* routeBusyTx                                                              *)
RouteBusy(r) == ItemsIn(r, Unfinished) # {} \/ Unresolved(r) # {}

-----------------------------------------------------------------------------
(* Ingest: one platform event, recorded once.  Each kind has its admission  *)
(* policy; all of them take the next sequence number of the route.          *)

Arrived(r, kind, state) ==
    [route |-> r, kind |-> kind, state |-> state,
     gen |-> ConvOf(r).gen, seq |-> ConvOf(r).nextSeq,
     content |-> (state = "queued"), run |-> NoRun, attempts |-> 0,
     target |-> NoMsg, targetRun |-> NoRun, cutoff |-> 0]

WithRow(table, m, row) ==
    [x \in DOMAIN table \cup {m} |-> IF x = m THEN row ELSE table[x]]

(* Faulty nextSeqTx: the counter of the conversation is not advanced.       *)
InsertUncounted(m, r, table, item) ==
    /\ inbox' = WithRow(table, m, item)
    /\ conv' = WithRow(conv, r, [gen |-> item.gen, nextSeq |-> item.seq])
    /\ UNCHANGED deliveries

(* nextSeqTx and insertItemTx over the (possibly rotated) conversation.     *)
Insert(m, r, table, item) ==
    /\ inbox' = WithRow(table, m, item)
    /\ conv' = WithRow(conv, r, [gen |-> item.gen, nextSeq |-> item.seq + 1])
    /\ UNCHANGED deliveries

(* An event the adapter or authorizeControl already rejected: a tombstone.  *)
IngestRejected(m, r, kind) ==
    Insert(m, r, inbox, Arrived(r, kind, "rejected"))

(* Faulty policy: the active prompt is not counted.                         *)
OverCapacityQueued(r) ==
    \/ Cardinality(ItemsIn(r, {"queued"})) > MaxQueuedPerRoute
    \/ Cardinality(AllIn({"queued", "pending"})) >= MaxPendingGlobal

OverCapacity(r) ==
    \/ Cardinality(ItemsIn(r, {"queued"} \cup Active)) > MaxQueuedPerRoute
    \/ Cardinality(AllIn({"queued", "pending"})) >= MaxPendingGlobal

(* admitPrompt *)
IngestPrompt(m, r) ==
    Insert(m, r, inbox,
           Arrived(r, "prompt", IF OverCapacity(r) THEN "rejected" ELSE "queued"))

CanceledUpTo(r, cutoff) ==
    {m \in ItemsIn(r, {"queued"}) :
        inbox[m].kind = "prompt" /\ inbox[m].seq <= cutoff}

WithCanceled(S) ==
    [m \in DOMAIN inbox |->
        IF m \in S THEN [inbox[m] EXCEPT !.state = "canceled", !.content = FALSE]
        ELSE inbox[m]]

(* admitStop: freeze the target and the cutoff, cancel what is queued up to *)
(* the cutoff, complete on arrival when there was nothing to stop.  target  *)
(* is the lowest active prompt of the route, or NoMsg.                      *)
StopRow(r, target, cutoff) ==
    [Arrived(r, "stop",
             IF target = NoMsg /\ CanceledUpTo(r, cutoff) = {}
             THEN "complete" ELSE "pending")
        EXCEPT !.target = target,
               !.targetRun = IF target = NoMsg THEN NoRun ELSE inbox[target].run,
               !.cutoff = cutoff]

IngestStop(m, r) ==
    \E cutoff \in {0} \cup SeqsOf(r), target \in DOMAIN inbox \cup {NoMsg} :
        /\ \A seq \in SeqsOf(r) : seq <= cutoff
        /\ IF ItemsIn(r, Active) = {} THEN target = NoMsg
           ELSE IsLowest(target, ItemsIn(r, Active))
        /\ Insert(m, r, WithCanceled(CanceledUpTo(r, cutoff)),
                  StopRow(r, target, cutoff))

(* admitNew and rotateGenerationTx: an idle route gets a new generation.    *)
IngestNew(m, r) ==
    Insert(m, r, inbox,
           IF RouteBusy(r) THEN Arrived(r, "new", "rejected")
           ELSE [Arrived(r, "new", "complete") EXCEPT !.gen = @ + 1])

(* admitHelp *)
IngestHelp(m, r) == Insert(m, r, inbox, Arrived(r, "help", "complete"))

Ingest(m, r) ==
    /\ m \notin DOMAIN inbox
    /\ \/ \E kind \in Kinds \ {"help"} : IngestRejected(m, r, kind)
       \/ IngestPrompt(m, r)
       \/ IngestStop(m, r)
       \/ IngestNew(m, r)
       \/ IngestHelp(m, r)

-----------------------------------------------------------------------------
(* The guarded updates of one item.                                         *)

SetItem(m, item) ==
    /\ inbox' = [inbox EXCEPT ![m] = item]
    /\ UNCHANGED conv

(* Faulty Transition: the update does not look at the old state.            *)
TransitionAny(m, from, to) ==
    /\ SetItem(m, [inbox[m] EXCEPT !.state = to,
                                   !.content = @ /\ to \notin Finished])
    /\ UNCHANGED deliveries

(* Transition: content is cleared when the new state is a finished one.     *)
Transition(m, from, to) ==
    /\ inbox[m].state \in from
    /\ SetItem(m, [inbox[m] EXCEPT !.state = to,
                                   !.content = @ /\ to \notin Finished])
    /\ UNCHANGED deliveries

MarkAdmitted(m, run) ==
    /\ inbox[m].state \in Active
    /\ SetItem(m, [inbox[m] EXCEPT !.state = "admitted", !.run = run])
    /\ UNCHANGED deliveries

(* Counts past the limit are all alike to the callers, so the counter stops *)
(* at the first one.                                                        *)
IncrementAttempts(m) ==
    /\ SetItem(m, [inbox[m] EXCEPT
                     !.attempts = IF @ > MaxAdmissionAttempts THEN @ ELSE @ + 1])
    /\ UNCHANGED deliveries

(* Faulty MarkTerminal: the update is not guarded by the admitted state.    *)
MarkTerminalAny(m, n) ==
    /\ SetItem(m, [inbox[m] EXCEPT !.state = "terminal", !.content = FALSE])
    /\ deliveries' = PlanDeliveries(inbox[m], m, n, FinalRev)

(* MarkTerminal plans the n chunks of the committed text with the item.     *)
MarkTerminal(m, n) ==
    /\ inbox[m].state = "admitted" /\ inbox[m].run # NoRun
    /\ SetItem(m, [inbox[m] EXCEPT !.state = "terminal", !.content = FALSE])
    /\ deliveries' = PlanDeliveries(inbox[m], m, n, FinalRev)

CancelQueuedUpTo(r, cutoff) ==
    /\ inbox' = WithCanceled(CanceledUpTo(r, cutoff))
    /\ UNCHANGED <<conv, deliveries>>
-----------------------------------------------------------------------------
(* The callers of these transactions, with what they check first.           *)

(* Faulty NextWork: the active prompt does not hold back the queue.         *)
FirstQueued(m) == IsLowest(m, ItemsIn(inbox[m].route, {"queued"}))

FirstInLine(m) ==
    IsLowest(m, ItemsIn(inbox[m].route, {"queued"} \cup Active))

(* runPrompt: the queued prompt NextWork returned starts its admission, or  *)
(* is refused because the session reached its history limit.                *)
StartAdmitting(m) == FirstInLine(m) /\ Transition(m, {"queued"}, "admitting")
RejectHistory(m) == FirstInLine(m) /\ Transition(m, {"queued"}, "rejected")

(* admit: out of attempts, or the runtime refused the keyed request.        *)
RejectAdmission(m) == Transition(m, {"admitting"}, "rejected")

CountAttempt(m) == inbox[m].state = "admitting" /\ IncrementAttempts(m)

(* The runtime names one run per admission key, so a receipt always carries *)
(* the same run for the same item.                                          *)
ReceiptFor(m, run) ==
    \/ inbox[m].run = run
    \/ inbox[m].run = NoRun /\ \A n \in DOMAIN inbox : inbox[n].run # run

RecordReceipt(m, run) == ReceiptFor(m, run) /\ MarkAdmitted(m, run)

(* runPrompt gives up on an item of another generation than the one it read.*)
CancelStale(m) ==
    /\ inbox[m].kind = "prompt"
    /\ Transition(m, {"queued", "canceled"}, "canceled")

PreviewRun(m) ==
    /\ inbox[m].state = "admitted"
    /\ PlanPreview(inbox[m], m)
    /\ UNCHANGED <<conv, inbox>>

FinishRun(m) == \E n \in 1 .. MaxChunks : MarkTerminal(m, n)

(* settleStop, for the pending stop c.                                      *)
SettleQueued(c) ==
    /\ inbox[c].state = "pending"
    /\ CancelQueuedUpTo(inbox[c].route, inbox[c].cutoff)

CancelTarget(c) ==
    /\ inbox[c].state = "pending" /\ inbox[c].target # NoMsg
    /\ Transition(inbox[c].target, {"admitting"}, "canceled")

(* Faulty settleStop: an admitting target is left as it is.                 *)
CompleteStopEarly(c) ==
    /\ CanceledUpTo(inbox[c].route, inbox[c].cutoff) = {}
    /\ Transition(c, {"pending"}, "complete")

CompleteStop(c) ==
    /\ CanceledUpTo(inbox[c].route, inbox[c].cutoff) = {}
    /\ inbox[c].target # NoMsg => inbox[inbox[c].target].state # "admitting"
    /\ Transition(c, {"pending"}, "complete")

InboxStep(m) ==
    \/ StartAdmitting(m) \/ RejectHistory(m) \/ RejectAdmission(m)
    \/ CountAttempt(m) \/ (\E run \in RunIds : RecordReceipt(m, run))
    \/ CancelStale(m) \/ PreviewRun(m) \/ FinishRun(m)
    \/ SettleQueued(m) \/ CancelTarget(m) \/ CompleteStop(m)

(* drainDeliveries and the preview touch only the next row of the lane, and *)
(* only while it is pending; an intent is written before every create.      *)
AtHead(k) == IsNext(k) /\ deliveries[k].status = "pending"

CanAttempt(k) == AtHead(k) /\ deliveries[k].attempts < MaxDeliveryAttempts
InFlight(k) == AtHead(k) /\ deliveries[k].op = "create_intent"

IntendCreate(k) ==
    /\ CanAttempt(k) /\ ~InFlight(k)
    /\ \E fresh \in Nonces : MarkCreateIntent(k, fresh)

(* An acknowledgement names the revision that was read before the call: the *)
(* desired one, or an older one when the row was replanned in between.      *)
Acknowledgeable(k) ==
    {deliveries[k].desired} \cup (deliveries[k].acked + 1 .. deliveries[k].desired - 1)

CreateLanded(k) ==
    /\ InFlight(k)
    /\ \E id \in RemoteIds, rev \in Acknowledgeable(k) : MarkCreated(k, id, rev)

CreateUnknown(k) == InFlight(k) /\ MarkAmbiguous(k)
CreateRefused(k) == InFlight(k) /\ MarkRetryAt(k)

EditLanded(k) ==
    /\ AtHead(k) /\ deliveries[k].remote # NoRemote
    /\ \E rev \in Acknowledgeable(k) : MarkEdited(k, rev)

EditRefused(k) ==
    /\ CanAttempt(k) /\ deliveries[k].remote # NoRemote
    /\ MarkAttempt(k)

GiveUp(k) == AtHead(k) /\ MarkFailed(k)

LaneStep(k) ==
    /\ \/ IntendCreate(k) \/ CreateLanded(k) \/ CreateUnknown(k)
       \/ CreateRefused(k) \/ EditLanded(k) \/ EditRefused(k) \/ GiveUp(k)
    /\ UNCHANGED <<conv, inbox>>

(* The operator's delivery resolve, and the reconciliation by nonce.        *)
ResolveStep(k) ==
    /\ (\E id \in RemoteIds : AssociateMessage(k, id)) \/ Resend(k)
    /\ UNCHANGED <<conv, inbox>>

-----------------------------------------------------------------------------
Init ==
    /\ conv = [r \in {} |-> [gen |-> 1, nextSeq |-> 1]]
    /\ inbox = [m \in {} |-> {}]
    /\ deliveries = [k \in {} |-> {}]

Next ==
    \/ \E m \in Msgs, r \in Routes : Ingest(m, r)
    \/ \E m \in DOMAIN inbox : InboxStep(m)
    \/ \E k \in DOMAIN deliveries : LaneStep(k) \/ ResolveStep(k)

Spec == Init /\ [][Next]_storeVars

-----------------------------------------------------------------------------
(* Properties.                                                              *)

(* The tables hold well-formed rows, whatever transactions committed.       *)
TypeOK ==
    /\ DOMAIN conv \subseteq Routes /\ conv \in [DOMAIN conv -> ConvRow]
    /\ DOMAIN inbox \subseteq Msgs /\ inbox \in [DOMAIN inbox -> Item]
    /\ RowsOK

(* Sequence numbers order a route: no two events share one, and every later *)
(* event gets a higher one, whatever was rejected in between.               *)
SeqTotalOrder ==
    \A m \in DOMAIN inbox :
        /\ inbox[m].route \in DOMAIN conv
        /\ inbox[m].seq < conv[inbox[m].route].nextSeq
        /\ \A n \in DOMAIN inbox :
             inbox[n].route = inbox[m].route /\ inbox[n].seq = inbox[m].seq => n = m

(* Once a prompt has started, every earlier prompt of its route is finished:*)
(* at most one prompt of a route is active, and they start in order.        *)
Started(m) == inbox[m].kind = "prompt" /\ (inbox[m].state \in Active \/ inbox[m].run # NoRun)

WorkInOrder ==
    \A m, n \in DOMAIN inbox :
        /\ Started(m) /\ inbox[n].kind = "prompt"
        /\ inbox[n].route = inbox[m].route /\ inbox[n].seq < inbox[m].seq
        => inbox[n].state \in Finished

(* A rotation strands nothing: whatever a route still has to run or deliver *)
(* belongs to its current generation, so the generation checks of runPrompt *)
(* and drainDeliveries never discard accepted work.                         *)
RotationStrandsNothing ==
    /\ \A m \in DOMAIN inbox :
         inbox[m].state \in Unfinished => inbox[m].gen = conv[inbox[m].route].gen
    /\ \A k \in DOMAIN deliveries :
         ~Resolved(deliveries[k]) =>
            deliveries[k].gen = conv[deliveries[k].route].gen

(* The two tables agree: a run belongs to one event only, and every row was *)
(* planned for the event that holds its run, in that event's place of the   *)
(* lane, so no answer is ever delivered under another event.                *)
RowsBelong ==
    /\ \A m, n \in DOMAIN inbox :
         inbox[m].run # NoRun /\ inbox[n].run = inbox[m].run => n = m
    /\ \A k \in DOMAIN deliveries :
         LET row == deliveries[k]
         IN  /\ row.inbox \in DOMAIN inbox
             /\ inbox[row.inbox].run = k[1]
             /\ inbox[row.inbox].route = row.route
             /\ inbox[row.inbox].gen = row.gen
             /\ inbox[row.inbox].seq = row.seq

(* Text is kept exactly as long as it may still be needed: a prompt's until *)
(* it is finished, an answer's until its desired revision is acknowledged;  *)
(* no revision is acknowledged that is newer than the desired one.          *)
PayloadKept ==
    /\ \A m \in DOMAIN inbox :
         inbox[m].content <=> inbox[m].state \in {"queued"} \cup Active
    /\ \A k \in DOMAIN deliveries :
         /\ deliveries[k].acked <= deliveries[k].desired
         /\ ~Resolved(deliveries[k]) => deliveries[k].text

(* A finished run always has its answer planned: chunk 0 wants the committed*)
(* text even when the preview row existed first.                            *)
AnswerPlanned ==
    \A m \in DOMAIN inbox :
        inbox[m].state = "terminal" =>
            /\ <<inbox[m].run, 0>> \in DOMAIN deliveries
            /\ deliveries[<<inbox[m].run, 0>>].desired = FinalRev

(* Messages appear in lane order: when a row has a remote message, or may   *)
(* have one, every earlier row of the route is resolved.                    *)
LaneInOrder ==
    \A j, k \in DOMAIN deliveries :
        /\ deliveries[j].route = deliveries[k].route /\ Before(j, k)
        /\ deliveries[k].remote # NoRemote \/ deliveries[k].op = "create_intent"
        => Resolved(deliveries[j])

(* A settled stop left nothing behind it: no prompt up to its cutoff is     *)
(* waiting or being admitted.                                               *)
StopLeavesNothing ==
    \A c, m \in DOMAIN inbox :
        /\ inbox[c].kind = "stop" /\ inbox[c].state = "complete"
        /\ inbox[m].route = inbox[c].route /\ inbox[m].seq <= inbox[c].cutoff
        => inbox[m].state \notin {"queued", "admitting"}

(* The queue bounds hold whatever is ingested concurrently: one active plus *)
(* MaxQueuedPerRoute queued prompts on a route, MaxPendingGlobal in total.  *)
CapacityHeld ==
    /\ \A r \in Routes :
         Cardinality(ItemsIn(r, {"queued"} \cup Active)) <= MaxQueuedPerRoute + 1
    /\ Cardinality(AllIn({"queued"})) <= MaxPendingGlobal

(* History is append-only: rows are never deleted, a finished event stays as*)
(* it is (a retried platform event is never admitted again), a receipt is   *)
(* never replaced, revisions never go back, a remote message is never lost. *)
NothingUndone ==
    [][ /\ \A m \in DOMAIN inbox :
             /\ m \in DOMAIN inbox'
             /\ inbox[m].state \in Finished => inbox'[m] = inbox[m]
             /\ inbox[m].run # NoRun => inbox'[m].run = inbox[m].run
        /\ \A k \in DOMAIN deliveries :
             /\ k \in DOMAIN deliveries'
             /\ deliveries'[k].desired >= deliveries[k].desired
             /\ deliveries'[k].acked >= deliveries[k].acked
             /\ deliveries[k].remote # NoRemote => deliveries'[k].remote # NoRemote
      ]_storeVars

(* What the tables mean to the users: prompts with their place, and how far *)
(* they are.                                                                *)
Asked == {m \in DOMAIN inbox : inbox[m].kind = "prompt"}

PhaseOf ==
    [queued |-> "waiting", admitting |-> "answering", admitted |-> "answering",
     terminal |-> "answered", rejected |-> "declined", canceled |-> "withdrawn"]

Places == [m \in Asked |-> [route |-> inbox[m].route, seq |-> inbox[m].seq]]
Phases == [m \in Asked |-> PhaseOf[inbox[m].state]]

Talk == INSTANCE Conversation WITH Prompts <- Msgs, place <- Places, phase <- Phases

(* Whatever transactions commit, the users get what Conversation promises:  *)
(* prompts are taken up one at a time and in order, and each ends once.     *)
KeepsConversation == Talk!Spec
=============================================================================
