--------------------------- MODULE HostStoreProofs ---------------------------
(***************************************************************************)
(* The safety properties of the host database, for every value of the       *)
(* constants.  The inductive invariant is the conjunction of five of them:  *)
(* that a rotation strands nothing depends on the two tables agreeing (a    *)
(* row that a plan reopens must be of its event's generation), and that     *)
(* finished events never change depends on what they still hold.            *)
(*                                                                          *)
(* Every transaction is first reduced to a frame, what it may do to an item *)
(* and to a row; the invariants and the action property follow from those.  *)
(***************************************************************************)
EXTENDS HostStore, TLAPS

-----------------------------------------------------------------------------
(* What one update of each table preserves.                                 *)

(* Recording an event: nextSeqTx and insertItemTx keep both tables typed.   *)
LEMMA InsertTyped ==
    ASSUME TypeOK, NEW m \in Msgs, NEW r \in Routes, NEW table, NEW item \in Item,
           table \in [DOMAIN inbox -> Item], Insert(m, r, table, item)
    PROVE  TypeOK'
<1>1. DOMAIN inbox' \subseteq Msgs /\ inbox' \in [DOMAIN inbox' -> Item]
  BY DEF TypeOK, Insert, WithRow
<1>2. [gen |-> item.gen, nextSeq |-> item.seq + 1] \in ConvRow
  BY DEF Item, ConvRow
<1>3. DOMAIN conv' \subseteq Routes /\ conv' \in [DOMAIN conv' -> ConvRow]
  BY <1>2 DEF TypeOK, Insert, WithRow
<1>4. RowsOK'
  BY DEF TypeOK, RowsOK, Insert
<1> QED BY <1>1, <1>3, <1>4 DEF TypeOK

(* A newly arrived event is a well-formed row.                              *)
LEMMA ArrivedTyped ==
    ASSUME TypeOK, NEW r \in Routes, NEW kind \in Kinds, NEW state \in States
    PROVE  Arrived(r, kind, state) \in Item
<1>1. ConvOf(r) \in ConvRow
  BY DEF TypeOK, ConvOf, ConvRow
<1> QED BY <1>1 DEF Arrived, Item, ConvRow

(* Canceling a set of queued prompts keeps the inbox typed.                 *)
LEMMA WithCanceledTyped ==
    ASSUME TypeOK, NEW S
    PROVE  WithCanceled(S) \in [DOMAIN inbox -> Item]
BY ZenonT(30) DEF TypeOK, WithCanceled, Item, States, Finished

(* Updating one item keeps the tables typed.                                *)
LEMMA SetItemTyped ==
    ASSUME TypeOK, NEW m, NEW item, m \in DOMAIN inbox => item \in Item,
           SetItem(m, item), RowsOK'
    PROVE  TypeOK'
BY DEF TypeOK, SetItem

(* A transition to a state of the machine keeps the tables typed.           *)
LEMMA TransitionTyped ==
    ASSUME TypeOK, NEW m, NEW from, NEW to \in States, Transition(m, from, to)
    PROVE  TypeOK'
<1> DEFINE new == [inbox[m] EXCEPT !.state = to, !.content = @ /\ to \notin Finished]
<1>1. m \in DOMAIN inbox => new \in Item
  BY DEF TypeOK, Item
<1>2. RowsOK'
  BY DEF TypeOK, Transition, RowsOK
<1>3. SetItem(m, new)
  BY DEF Transition
<1> QED BY <1>1, <1>2, <1>3, SetItemTyped

(* Updating one delivery keeps the tables typed.                            *)
LEMMA SetRowTyped ==
    ASSUME TypeOK, NEW k \in DOMAIN deliveries, NEW row \in Row,
           SetRow(k, row), UNCHANGED <<conv, inbox>>
    PROVE  TypeOK'
BY DEF TypeOK, SetRow, RowsOK

(* Replanning a row keeps it typed.                                         *)
LEMMA ReplanTyped ==
    ASSUME NEW row \in Row, NEW rev \in {PlaceholderRev, FinalRev}
    PROVE  Replan(row, rev) \in Row
<1>1. rev \in Nat
  BY DEF PlaceholderRev, FinalRev
<1>2. (IF row.remote = NoRemote THEN row.op ELSE "edit_pending") \in Ops
  BY DEF Row, Ops
<1>3. (IF row.status = "acked" /\ row.acked # rev THEN "pending" ELSE row.status) \in Statuses
  BY DEF Row, Statuses
<1> QED BY <1>1, <1>2, <1>3 DEF Replan, Row

(* planDeliveriesTx keeps the table typed.                                  *)
LEMMA PlanTyped ==
    ASSUME TypeOK, NEW m \in DOMAIN inbox, NEW n \in 1 .. MaxChunks,
           NEW rev \in {PlaceholderRev, FinalRev},
           inbox[m].run # NoRun, deliveries' = PlanDeliveries(inbox[m], m, n, rev)
    PROVE  RowsOK'
<1>1. inbox[m] \in Item /\ m \in Msgs /\ inbox[m].run \in RunIds
  BY DEF TypeOK, Item
<1>2. {inbox[m].run} \X (0 .. n - 1) \subseteq RowKeys
  BY <1>1, MaxChunksAssumption DEF RowKeys, Chunks
<1>3. NewRow(inbox[m], m, rev) \in Row
  BY <1>1 DEF NewRow, Row, Item, PlaceholderRev, FinalRev, NeverAcked, NoRemote,
              NoNonce, Statuses, Ops
<1>4. ASSUME NEW k \in DOMAIN deliveries PROVE Replan(deliveries[k], rev) \in Row
  <2>1. deliveries[k] \in Row
    BY DEF TypeOK, RowsOK
  <2> QED BY <2>1, ReplanTyped
<1> QED BY <1>2, <1>3, <1>4 DEF TypeOK, RowsOK, PlanDeliveries

-----------------------------------------------------------------------------
(* Type correctness.                                                        *)

(* Ingest keeps the tables typed.                                           *)
LEMMA IngestTyped ==
    ASSUME TypeOK, NEW m \in Msgs, NEW r \in Routes, Ingest(m, r)
    PROVE  TypeOK'
<1>1. ASSUME NEW kind \in Kinds, IngestRejected(m, r, kind) PROVE TypeOK'
  <2>1. Arrived(r, kind, "rejected") \in Item
    BY ArrivedTyped DEF States, Finished
  <2> QED BY <1>1, <2>1, InsertTyped DEF IngestRejected, TypeOK
<1>2. CASE IngestPrompt(m, r)
  <2> DEFINE state == IF OverCapacity(r) THEN "rejected" ELSE "queued"
  <2>1. state \in States /\ "prompt" \in Kinds
    BY DEF States, Unfinished, Finished, Kinds
  <2>2. Arrived(r, "prompt", state) \in Item
    BY <2>1, ArrivedTyped
  <2> QED BY <1>2, <2>2, InsertTyped DEF IngestPrompt, TypeOK
<1>3. CASE IngestStop(m, r)
  <2>1. PICK cutoff \in {0} \cup SeqsOf(r), target \in DOMAIN inbox \cup {NoMsg} :
             Insert(m, r, WithCanceled(CanceledUpTo(r, cutoff)), StopRow(r, target, cutoff))
    BY <1>3 DEF IngestStop
  <2> DEFINE state == IF target = NoMsg /\ CanceledUpTo(r, cutoff) = {}
                      THEN "complete" ELSE "pending"
  <2>2. Arrived(r, "stop", state) \in Item
    <3>1. state \in States /\ "stop" \in Kinds
      BY DEF States, Unfinished, Finished, Kinds
    <3> QED BY <3>1, ArrivedTyped
  <2>3. cutoff \in Nat /\ target \in Msgs \cup {NoMsg}
    BY DEF SeqsOf, TypeOK, Item
  <2>4. (IF target = NoMsg THEN NoRun ELSE inbox[target].run) \in RunIds \cup {NoRun}
    BY DEF TypeOK, Item
  <2>5. StopRow(r, target, cutoff) \in Item
    BY <2>2, <2>3, <2>4 DEF StopRow, Item
  <2>6. WithCanceled(CanceledUpTo(r, cutoff)) \in [DOMAIN inbox -> Item]
    BY WithCanceledTyped
  <2> QED BY <2>1, <2>5, <2>6, InsertTyped
<1>4. CASE IngestNew(m, r)
  <2>1. Arrived(r, "new", "rejected") \in Item /\ Arrived(r, "new", "complete") \in Item
    BY ArrivedTyped DEF States, Finished, Kinds
  <2>2. [Arrived(r, "new", "complete") EXCEPT !.gen = @ + 1] \in Item
    BY <2>1 DEF Item
  <2> QED BY <1>4, <2>1, <2>2, InsertTyped DEF IngestNew, TypeOK
<1>5. CASE IngestHelp(m, r)
  <2>1. Arrived(r, "help", "complete") \in Item
    BY ArrivedTyped DEF States, Finished, Kinds
  <2> QED BY <1>5, <2>1, InsertTyped DEF IngestHelp, TypeOK
<1> QED BY <1>1, <1>2, <1>3, <1>4, <1>5 DEF Ingest

(* Every transaction on an item keeps the tables typed.                     *)
LEMMA InboxStepTyped ==
    ASSUME TypeOK, NEW m \in DOMAIN inbox, InboxStep(m)
    PROVE  TypeOK'
<1>1. CASE StartAdmitting(m) \/ RejectHistory(m) \/ RejectAdmission(m) \/ CancelStale(m)
           \/ CancelTarget(m) \/ CompleteStop(m)
  BY <1>1, TransitionTyped
     DEF StartAdmitting, RejectHistory, RejectAdmission, CancelStale, CancelTarget,
         CompleteStop, States, Unfinished, Finished
<1>2. CASE CountAttempt(m)
  <2> DEFINE new == [inbox[m] EXCEPT
                       !.attempts = IF @ > MaxAdmissionAttempts THEN @ ELSE @ + 1]
  <2>1. new \in Item
    BY DEF TypeOK, Item
  <2>2. SetItem(m, new) /\ RowsOK'
    BY <1>2 DEF CountAttempt, IncrementAttempts, TypeOK, RowsOK
  <2> QED BY <2>1, <2>2, SetItemTyped
<1>3. ASSUME NEW run \in RunIds, RecordReceipt(m, run) PROVE TypeOK'
  <2> DEFINE new == [inbox[m] EXCEPT !.state = "admitted", !.run = run]
  <2>1. new \in Item
    BY DEF TypeOK, Item, States, Unfinished
  <2>2. SetItem(m, new) /\ RowsOK'
    BY <1>3 DEF RecordReceipt, MarkAdmitted, TypeOK, RowsOK
  <2> QED BY <2>1, <2>2, SetItemTyped
<1>4. CASE PreviewRun(m)
  <2>1. inbox[m].run # NoRun /\ deliveries' = PlanDeliveries(inbox[m], m, 1, PlaceholderRev)
    BY <1>4 DEF PreviewRun, PlanPreview
  <2>2. RowsOK'
    BY <2>1, PlanTyped, MaxChunksAssumption
  <2> QED BY <1>4, <2>2 DEF PreviewRun, TypeOK
<1>5. CASE FinishRun(m)
  <2>1. PICK n \in 1 .. MaxChunks : MarkTerminal(m, n)
    BY <1>5 DEF FinishRun
  <2> DEFINE new == [inbox[m] EXCEPT !.state = "terminal", !.content = FALSE]
  <2>2. new \in Item
    BY ZenonT(30) DEF TypeOK, Item, States, Finished
  <2>3. RowsOK'
    BY <2>1, PlanTyped DEF MarkTerminal
  <2>4. SetItem(m, new)
    BY <2>1 DEF MarkTerminal
  <2> QED BY <2>2, <2>3, <2>4, SetItemTyped
<1>6. CASE SettleQueued(m)
  <2>1. inbox' = WithCanceled(CanceledUpTo(inbox[m].route, inbox[m].cutoff))
    BY <1>6 DEF SettleQueued, CancelQueuedUpTo
  <2>2. inbox' \in [DOMAIN inbox -> Item]
    BY <2>1, WithCanceledTyped
  <2> QED BY <1>6, <2>2 DEF SettleQueued, CancelQueuedUpTo, TypeOK, RowsOK
<1> QED BY <1>1, <1>2, <1>3, <1>4, <1>5, <1>6 DEF InboxStep

(* Every delivery transaction keeps the tables typed.                       *)
LEMMA RowStepTyped ==
    ASSUME TypeOK, NEW k \in DOMAIN deliveries, LaneStep(k) \/ ResolveStep(k)
    PROVE  TypeOK'
<1> USE DEF NoRemote, NoNonce
<1>1. /\ deliveries[k] \in Row
      /\ UNCHANGED <<conv, inbox>>
  BY DEF TypeOK, RowsOK, LaneStep, ResolveStep
<1>2. ASSUME NEW row \in Row, SetRow(k, row) PROVE TypeOK'
  BY <1>1, <1>2, SetRowTyped
<1>3. ASSUME NEW id \in Nat, NEW rev \in Int PROVE AckedRow(deliveries[k], id, rev) \in Row
  <2>1. (IF rev = deliveries[k].desired THEN "acked" ELSE "pending") \in Statuses
    BY DEF Statuses
  <2>2. (IF rev = deliveries[k].desired THEN "acked" ELSE "edit_pending") \in Ops
    BY DEF Ops
  <2> QED BY <1>1, <2>1, <2>2 DEF AckedRow, Row
<1>4. Acknowledgeable(k) \subseteq Int
  BY <1>1 DEF Acknowledgeable, Row
<1>5. PlannedAgain(deliveries[k]) \in Row
  <2>1. (IF deliveries[k].remote = NoRemote THEN "planned" ELSE deliveries[k].op) \in Ops
    BY <1>1 DEF Ops, Row
  <2> QED BY <1>1, <2>1 DEF PlannedAgain, Row
<1>6. CASE IntendCreate(k)
  <2>0. PICK fresh \in Nonces : MarkCreateIntent(k, fresh)
    BY <1>6 DEF IntendCreate
  <2> DEFINE nonce == IF deliveries[k].nonce = NoNonce THEN fresh ELSE deliveries[k].nonce
             attempts == deliveries[k].attempts + 1
             new == [deliveries[k] EXCEPT !.op = "create_intent", !.nonce = nonce,
                                          !.attempts = attempts]
  <2>1. nonce \in Nat /\ attempts \in Nat
    BY <1>1, IdsAssumption DEF Row
  <2>2. SetRow(k, new)
    BY <2>0 DEF MarkCreateIntent
  <2> HIDE DEF nonce, attempts
  <2>3. new \in Row
    BY <1>1, <2>1 DEF Row, Ops
  <2> QED BY <1>2, <2>2, <2>3
<1>7. CASE CreateLanded(k)
  <2>1. PICK id \in RemoteIds, rev \in Acknowledgeable(k) : MarkCreated(k, id, rev)
    BY <1>7 DEF CreateLanded
  <2>2. id \in Nat /\ rev \in Int
    BY <1>4, IdsAssumption
  <2> QED BY <1>2, <1>3, <2>1, <2>2 DEF MarkCreated
<1>8. CASE CreateUnknown(k)
  BY <1>1, <1>2, <1>8 DEF CreateUnknown, MarkAmbiguous, Row, Statuses
<1>9. CASE CreateRefused(k)
  BY <1>2, <1>5, <1>9 DEF CreateRefused, MarkRetryAt
<1>10. CASE EditLanded(k)
  <2>1. deliveries[k].remote \in Nat
    BY <1>1 DEF Row
  <2> QED BY <1>2, <1>3, <1>4, <1>10, <2>1 DEF EditLanded, MarkEdited
<1>11. CASE EditRefused(k)
  <2> DEFINE new == [PlannedAgain(deliveries[k]) EXCEPT !.attempts = @ + 1]
  <2>1. new \in Row
    BY <1>5 DEF Row
  <2>2. SetRow(k, new)
    BY <1>11 DEF EditRefused, MarkAttempt
  <2> QED BY <1>2, <2>1, <2>2
<1>12. CASE GiveUp(k)
  BY <1>1, <1>2, <1>12 DEF GiveUp, MarkFailed, Row, Statuses
<1>13. ASSUME NEW id \in RemoteIds, AssociateMessage(k, id) PROVE TypeOK'
  <2> DEFINE new == [deliveries[k] EXCEPT !.remote = id, !.status = "pending",
                                          !.op = "edit_pending", !.attempts = 0]
  <2>1. new \in Row
    BY <1>1, IdsAssumption DEF Row, Statuses, Ops
  <2>2. SetRow(k, new)
    BY <1>13 DEF AssociateMessage
  <2> QED BY <1>2, <2>1, <2>2
<1>14. CASE Resend(k)
  <2>1. (IF deliveries[k].remote = NoRemote THEN "planned" ELSE "edit_pending") \in Ops
    BY DEF Ops
  <2>2. SetRow(k, [deliveries[k] EXCEPT !.status = "pending",
                     !.op = IF deliveries[k].remote = NoRemote
                            THEN "planned" ELSE "edit_pending",
                     !.nonce = NoNonce, !.attempts = 0])
    BY <1>14 DEF Resend
  <2>3. [deliveries[k] EXCEPT !.status = "pending",
           !.op = IF deliveries[k].remote = NoRemote THEN "planned" ELSE "edit_pending",
           !.nonce = NoNonce, !.attempts = 0] \in Row
    BY <1>1, <2>1 DEF Row, Statuses
  <2> QED BY <1>2, <2>2, <2>3
<1> QED BY <1>6, <1>7, <1>8, <1>9, <1>10, <1>11, <1>12, <1>13, <1>14
        DEF LaneStep, ResolveStep

(* The tables are well-formed in every reachable state.                     *)
THEOREM TypeCorrect == Spec => []TypeOK
<1>1. Init => TypeOK
  BY DEF Init, TypeOK, RowsOK
<1>2. TypeOK /\ [Next]_storeVars => TypeOK'
  <2> SUFFICES ASSUME TypeOK, [Next]_storeVars PROVE TypeOK'
    OBVIOUS
  <2>1. CASE UNCHANGED storeVars
    BY <2>1 DEF storeVars, TypeOK, RowsOK
  <2>2. ASSUME NEW m \in Msgs, NEW r \in Routes, Ingest(m, r) PROVE TypeOK'
    BY <2>2, IngestTyped
  <2>3. ASSUME NEW m \in DOMAIN inbox, InboxStep(m) PROVE TypeOK'
    BY <2>3, InboxStepTyped
  <2>4. ASSUME NEW k \in DOMAIN deliveries, LaneStep(k) \/ ResolveStep(k) PROVE TypeOK'
    BY <2>4, RowStepTyped
  <2> QED BY <2>1, <2>2, <2>3, <2>4 DEF Next
<1> QED BY <1>1, <1>2, PTL DEF Spec

-----------------------------------------------------------------------------
(* The safety invariants and the action property.                           *)

Inv ==
    /\ TypeOK
    /\ SeqTotalOrder
    /\ RowsBelong
    /\ PayloadKept
    /\ RotationStrandsNothing

Holding == {"queued"} \cup Active

-----------------------------------------------------------------------------
(* Frames.                                                                  *)

(* What a transaction on existing items may do to item n.                   *)
ItemStep(n) ==
    /\ inbox'[n].route = inbox[n].route
    /\ inbox'[n].gen = inbox[n].gen
    /\ inbox'[n].seq = inbox[n].seq
    /\ inbox'[n].state \in Unfinished => inbox[n].state \in Unfinished
    /\ inbox'[n].content <=> inbox'[n].state \in Holding
    /\ inbox[n].state \in Finished => inbox'[n] = inbox[n]
    /\ inbox[n].run # NoRun => inbox'[n].run = inbox[n].run

(* At most one item gets a run, and no other item has it.                   *)
RunStep ==
    \A n, o \in DOMAIN inbox :
        n # o /\ inbox'[n].run # NoRun => inbox'[n].run # inbox'[o].run

InboxFrame ==
    /\ conv' = conv
    /\ DOMAIN inbox' = DOMAIN inbox
    /\ \A n \in DOMAIN inbox : ItemStep(n)
    /\ RunStep

(* What a transaction may do to row k; reopens says whether it may want a   *)
(* newer revision than the one it resolved.                                 *)
RowStep(k, reopens) ==
    /\ deliveries'[k].route = deliveries[k].route
    /\ deliveries'[k].gen = deliveries[k].gen
    /\ deliveries'[k].seq = deliveries[k].seq
    /\ deliveries'[k].inbox = deliveries[k].inbox
    /\ deliveries'[k].desired >= deliveries[k].desired
    /\ deliveries'[k].acked >= deliveries[k].acked
    /\ deliveries'[k].acked <= deliveries'[k].desired
    /\ deliveries[k].remote # NoRemote => deliveries'[k].remote # NoRemote
    /\ ~Resolved(deliveries'[k]) =>
          deliveries'[k].text /\ (reopens \/ ~Resolved(deliveries[k]))

(* A transaction that leaves both tables of events alone is a frame.        *)
LEMMA SameFrame ==
    ASSUME Inv, inbox' = inbox, conv' = conv
    PROVE  InboxFrame
BY DEF InboxFrame, ItemStep, RunStep, Inv, RowsBelong, PayloadKept, Holding

(* So is an update of one unfinished item that moves it neither on the      *)
(* route nor back, and keeps its content as long as its state needs it.     *)
LEMMA SetFrame ==
    ASSUME Inv, NEW m \in DOMAIN inbox, NEW item \in Item,
           conv' = conv, inbox' = [inbox EXCEPT ![m] = item],
           inbox[m].state \notin Finished,
           item.route = inbox[m].route, item.gen = inbox[m].gen, item.seq = inbox[m].seq,
           item.run = inbox[m].run, item.content <=> item.state \in Holding
    PROVE  InboxFrame
<1>1. inbox \in [DOMAIN inbox -> Item]
  BY DEF Inv, TypeOK
<1>2. \A n \in DOMAIN inbox : inbox[n].content <=> inbox[n].state \in Holding
  BY DEF Inv, PayloadKept, Holding
<1>3. \A n \in DOMAIN inbox : ItemStep(n)
  BY <1>1, <1>2 DEF ItemStep, Item, States
<1>4. RunStep
  BY <1>1 DEF RunStep, Inv, RowsBelong
<1> QED BY <1>1, <1>3, <1>4 DEF InboxFrame

(* A guarded transition, forwards or into a finished state, is an item step.*)
LEMMA TransitionFrame ==
    ASSUME Inv, NEW m \in DOMAIN inbox, NEW from, NEW to, Transition(m, from, to),
           \/ from = {"queued"} /\ to = "admitting"
           \/ from \subseteq Unfinished \cup {to} /\ to \in Finished
    PROVE  InboxFrame /\ UNCHANGED deliveries
<1>1. /\ conv' = conv /\ UNCHANGED deliveries
      /\ inbox' = [inbox EXCEPT ![m] = [inbox[m] EXCEPT
                     !.state = to, !.content = inbox[m].content /\ to \notin Finished]]
      /\ inbox[m].state \in from
  BY DEF Transition, SetItem
<1>2. inbox[m] \in Item /\ inbox \in [DOMAIN inbox -> Item]
  BY DEF Inv, TypeOK
<1>3. \A n \in DOMAIN inbox : inbox[n].content <=> inbox[n].state \in Holding
  BY DEF Inv, PayloadKept, Holding
<1>4. inbox[m].state \in Finished =>
         [inbox[m] EXCEPT !.state = to, !.content = inbox[m].content /\ to \notin Finished]
            = inbox[m]
  <2>1. CASE from = {"queued"} /\ to = "admitting"
    BY <1>1, <2>1 DEF Finished
  <2>2. CASE from \subseteq Unfinished \cup {to} /\ to \in Finished
    <3> SUFFICES ASSUME inbox[m].state \in Finished
                 PROVE  inbox[m].state = to /\ inbox[m].content = FALSE
      BY <1>2, <2>2 DEF Item
    <3>1. inbox[m].state = to
      BY <1>1, <2>2 DEF Finished, Unfinished
    <3>2. inbox[m].content \in BOOLEAN /\ ~inbox[m].content
      BY <1>2, <1>3 DEF Item, Finished, Holding, Active
    <3> QED BY <3>1, <3>2
  <2> QED BY <2>1, <2>2
<1>5. \A n \in DOMAIN inbox : ItemStep(n)
  <2> SUFFICES ASSUME NEW n \in DOMAIN inbox PROVE ItemStep(n)
    OBVIOUS
  <2>1. CASE n # m
    BY <1>1, <1>3, <2>1 DEF ItemStep
  <2>2. CASE n = m
    BY <1>1, <1>2, <1>3, <1>4, <2>2
       DEF ItemStep, Item, Unfinished, Finished, Holding, Active
  <2> QED BY <2>1, <2>2
<1>6. RunStep
  BY <1>1, <1>2 DEF RunStep, Inv, RowsBelong, Item
<1> QED BY <1>1, <1>5, <1>6 DEF InboxFrame

(* Canceling queued prompts is an item step for each of them.               *)
LEMMA WithCanceledFrame ==
    ASSUME Inv, NEW r, NEW cutoff, NEW n \in DOMAIN inbox,
           inbox'[n] = WithCanceled(CanceledUpTo(r, cutoff))[n]
    PROVE  ItemStep(n) /\ inbox'[n].run = inbox[n].run
<1>1. inbox[n] \in Item
  BY DEF Inv, TypeOK
<1>2. inbox[n].content <=> inbox[n].state \in Holding
  BY DEF Inv, PayloadKept, Holding
<1>3. CASE n \in CanceledUpTo(r, cutoff)
  <2>1. inbox'[n] = [inbox[n] EXCEPT !.state = "canceled", !.content = FALSE]
    BY <1>3 DEF WithCanceled
  <2>2. inbox[n].state = "queued"
    BY <1>3 DEF CanceledUpTo, ItemsIn
  <2> QED BY <1>1, <2>1, <2>2 DEF ItemStep, Item, Unfinished, Finished, Holding, Active
<1>4. CASE n \notin CanceledUpTo(r, cutoff)
  <2>1. inbox'[n] = inbox[n]
    BY <1>4 DEF WithCanceled
  <2> QED BY <1>2, <2>1 DEF ItemStep
<1> QED BY <1>3, <1>4

(* What planning the answer of event m may do to the deliveries.            *)
PlanStep(m) ==
    /\ DOMAIN deliveries \subseteq DOMAIN deliveries'
    /\ \A k \in DOMAIN deliveries : RowStep(k, k[1] = inbox[m].run)
    /\ \A k \in DOMAIN deliveries' \ DOMAIN deliveries :
          LET row == deliveries'[k]
          IN  /\ k[1] = inbox[m].run /\ row.inbox = m
              /\ row.route = inbox[m].route
              /\ row.gen = inbox[m].gen
              /\ row.seq = inbox[m].seq
              /\ row.acked <= row.desired /\ row.text

(* planDeliveriesTx does no more than that.                                 *)
LEMMA PlanFrame ==
    ASSUME Inv, NEW m \in DOMAIN inbox, NEW n, NEW rev \in {PlaceholderRev, FinalRev},
           deliveries' = PlanDeliveries(inbox[m], m, n, rev)
    PROVE  PlanStep(m)
<1> DEFINE planned == {inbox[m].run} \X (0 .. n - 1)
<1>1. rev \in {0, 1}
  BY DEF PlaceholderRev, FinalRev
<1>2. deliveries \in [DOMAIN deliveries -> Row]
  BY DEF Inv, TypeOK, RowsOK
<1>3. /\ DOMAIN deliveries' = DOMAIN deliveries \cup planned
      /\ \A k \in DOMAIN deliveries' :
            deliveries'[k] = IF k \notin planned THEN deliveries[k]
                             ELSE IF k \in DOMAIN deliveries THEN Replan(deliveries[k], rev)
                             ELSE NewRow(inbox[m], m, rev)
  BY DEF PlanDeliveries
<1>4. ASSUME NEW k \in DOMAIN deliveries PROVE RowStep(k, k[1] = inbox[m].run)
  <2>1. deliveries[k] \in Row /\ deliveries[k].acked <= deliveries[k].desired
    BY <1>2 DEF Inv, PayloadKept
  <2>2. ~Resolved(deliveries[k]) => deliveries[k].text
    BY DEF Inv, PayloadKept
  <2>3. CASE k \notin planned \/ deliveries[k].desired > rev
    <3>1. deliveries'[k] = deliveries[k]
      BY <1>3, <2>3 DEF Replan
    <3> QED BY <2>1, <2>2, <3>1 DEF RowStep, Row
  <2>4. CASE k \in planned /\ ~(deliveries[k].desired > rev)
    <3> DEFINE op == IF deliveries[k].remote = NoRemote THEN deliveries[k].op ELSE "edit_pending"
               status == IF deliveries[k].status = "acked" /\ deliveries[k].acked # rev
                         THEN "pending" ELSE deliveries[k].status
    <3>1. deliveries'[k] = [deliveries[k] EXCEPT !.desired = rev, !.text = TRUE,
                                                 !.op = op, !.status = status]
      BY <1>3, <2>4 DEF Replan
    <3> HIDE DEF op, status
    <3>2. /\ deliveries'[k].route = deliveries[k].route
          /\ deliveries'[k].gen = deliveries[k].gen
          /\ deliveries'[k].seq = deliveries[k].seq
          /\ deliveries'[k].inbox = deliveries[k].inbox
          /\ deliveries'[k].desired = rev
          /\ deliveries'[k].acked = deliveries[k].acked
          /\ deliveries'[k].remote = deliveries[k].remote
          /\ deliveries'[k].text
      BY <2>1, <3>1 DEF Row
    <3>3. k[1] = inbox[m].run
      BY <2>4
    <3>4. rev >= deliveries[k].desired /\ deliveries[k].acked <= rev
      BY <1>1, <2>1, <2>4 DEF Row
    <3>5. deliveries[k].acked >= deliveries[k].acked
      BY <2>1 DEF Row
    <3> QED BY <3>2, <3>3, <3>4, <3>5 DEF RowStep
  <2> QED BY <2>3, <2>4
<1>5. ASSUME NEW k \in DOMAIN deliveries' \ DOMAIN deliveries
      PROVE  /\ k[1] = inbox[m].run
             /\ deliveries'[k] = NewRow(inbox[m], m, rev)
  BY <1>3
<1>6. NeverAcked <= rev
  BY <1>1 DEF NeverAcked
<1> QED BY <1>3, <1>4, <1>5, <1>6 DEF PlanStep, NewRow

(* Every transaction of InboxStep is an item step for every item, and does  *)
(* to the deliveries at most what planning an admitted event's answer does. *)
LEMMA InboxStepFrame ==
    ASSUME Inv, NEW m \in DOMAIN inbox, InboxStep(m)
    PROVE  /\ InboxFrame
           /\ \/ UNCHANGED deliveries
              \/ inbox[m].state = "admitted" /\ inbox[m].run # NoRun /\ PlanStep(m)
<1> USE DEF Unfinished, Finished, Active
<1>1. CASE \/ StartAdmitting(m) \/ RejectHistory(m) \/ RejectAdmission(m)
           \/ CancelStale(m) \/ CompleteStop(m)
  BY <1>1, TransitionFrame
     DEF StartAdmitting, RejectHistory, RejectAdmission, CancelStale, CompleteStop
<1>2. CASE CancelTarget(m)
  <2>1. Transition(inbox[m].target, {"admitting"}, "canceled") /\ inbox[m].target \in Msgs
    BY <1>2 DEF CancelTarget, Inv, TypeOK, Item
  <2>2. CASE inbox[m].target \in DOMAIN inbox
    BY <2>1, <2>2, TransitionFrame
  <2>3. CASE inbox[m].target \notin DOMAIN inbox
    <3>1. inbox' = inbox /\ conv' = conv /\ UNCHANGED deliveries
      BY <2>1, <2>3 DEF Transition, SetItem, Inv, TypeOK
    <3> QED BY <3>1, SameFrame
  <2> QED BY <2>2, <2>3
<1>3. CASE CountAttempt(m)
  <2> DEFINE attempts == IF inbox[m].attempts > MaxAdmissionAttempts
                         THEN inbox[m].attempts ELSE inbox[m].attempts + 1
  <2>1. /\ conv' = conv /\ UNCHANGED deliveries /\ inbox[m].state = "admitting"
        /\ inbox' = [inbox EXCEPT ![m] = [inbox[m] EXCEPT !.attempts = attempts]]
    BY <1>3 DEF CountAttempt, IncrementAttempts, SetItem
  <2>2. inbox[m] \in Item /\ attempts \in Nat
    BY DEF Inv, TypeOK, Item
  <2>3. inbox[m].content <=> inbox[m].state \in Holding
    BY DEF Inv, PayloadKept, Holding
  <2> HIDE DEF attempts
  <2> DEFINE new == [inbox[m] EXCEPT !.attempts = attempts]
  <2>4. /\ new \in Item /\ new.route = inbox[m].route /\ new.gen = inbox[m].gen
        /\ new.seq = inbox[m].seq /\ new.run = inbox[m].run
        /\ new.state = inbox[m].state /\ new.content = inbox[m].content
    BY <2>2 DEF Item
  <2>5. inbox' = [inbox EXCEPT ![m] = new] /\ inbox[m].state \notin Finished
    BY <2>1
  <2> HIDE DEF new
  <2> QED BY <2>1, <2>3, <2>4, <2>5, SetFrame
<1>4. ASSUME NEW run \in RunIds, RecordReceipt(m, run)
      PROVE  InboxFrame /\ UNCHANGED deliveries
  <2>1. /\ conv' = conv /\ UNCHANGED deliveries /\ inbox[m].state \in Active
        /\ inbox' = [inbox EXCEPT ![m] = [inbox[m] EXCEPT !.state = "admitted", !.run = run]]
        /\ \/ inbox[m].run = run
           \/ inbox[m].run = NoRun /\ \A n \in DOMAIN inbox : inbox[n].run # run
    BY <1>4 DEF RecordReceipt, MarkAdmitted, SetItem, ReceiptFor
  <2>2. inbox \in [DOMAIN inbox -> Item]
    BY DEF Inv, TypeOK
  <2>3. \A n \in DOMAIN inbox : inbox[n].content <=> inbox[n].state \in Holding
    BY DEF Inv, PayloadKept, Holding
  <2>4. \A n \in DOMAIN inbox : ItemStep(n)
    BY <2>1, <2>2, <2>3 DEF ItemStep, Item, Holding
  <2>5. RunStep
    BY <2>1, <2>2 DEF RunStep, Inv, RowsBelong, Item
  <2> QED BY <2>1, <2>4, <2>5 DEF InboxFrame
<1>5. CASE PreviewRun(m)
  <2>1. /\ inbox[m].state = "admitted" /\ inbox[m].run # NoRun
        /\ deliveries' = PlanDeliveries(inbox[m], m, 1, PlaceholderRev)
        /\ inbox' = inbox /\ conv' = conv
    BY <1>5 DEF PreviewRun, PlanPreview
  <2> QED BY <2>1, PlanFrame, SameFrame
<1>6. CASE FinishRun(m)
  <2>1. PICK n \in 1 .. MaxChunks : MarkTerminal(m, n)
    BY <1>6 DEF FinishRun
  <2>2. /\ inbox[m].state = "admitted" /\ inbox[m].run # NoRun
        /\ deliveries' = PlanDeliveries(inbox[m], m, n, FinalRev)
        /\ conv' = conv
        /\ inbox' = [inbox EXCEPT ![m] = [inbox[m] EXCEPT !.state = "terminal",
                                                          !.content = FALSE]]
    BY <2>1 DEF MarkTerminal, SetItem
  <2>3. InboxFrame
    <3> DEFINE new == [inbox[m] EXCEPT !.state = "terminal", !.content = FALSE]
    <3>1. inbox[m] \in Item
      BY DEF Inv, TypeOK
    <3>2. /\ new \in Item /\ new.route = inbox[m].route /\ new.gen = inbox[m].gen
          /\ new.seq = inbox[m].seq /\ new.run = inbox[m].run
          /\ new.state = "terminal" /\ new.content = FALSE
      BY <3>1 DEF Item, States
    <3>3. inbox' = [inbox EXCEPT ![m] = new]
      BY <2>2
    <3> HIDE DEF new
    <3> QED BY <2>2, <3>2, <3>3, SetFrame DEF Holding
  <2> QED BY <2>2, <2>3, PlanFrame
<1>7. CASE SettleQueued(m)
  <2>1. /\ inbox' = WithCanceled(CanceledUpTo(inbox[m].route, inbox[m].cutoff))
        /\ conv' = conv /\ UNCHANGED deliveries
    BY <1>7 DEF SettleQueued, CancelQueuedUpTo
  <2>2. DOMAIN inbox' = DOMAIN inbox
    BY <2>1 DEF WithCanceled
  <2>3. \A n \in DOMAIN inbox : ItemStep(n) /\ inbox'[n].run = inbox[n].run
    BY <2>1, WithCanceledFrame
  <2>4. RunStep
    BY <2>3 DEF RunStep, Inv, RowsBelong
  <2> QED BY <2>1, <2>2, <2>3, <2>4 DEF InboxFrame
<1> QED BY <1>1, <1>2, <1>3, <1>4, <1>5, <1>6, <1>7 DEF InboxStep

(* A delivery transaction touches one row, and never reopens a resolved one.*)
LEMMA RowStepFrame ==
    ASSUME Inv, NEW k \in DOMAIN deliveries, LaneStep(k) \/ ResolveStep(k)
    PROVE  /\ UNCHANGED <<conv, inbox>>
           /\ DOMAIN deliveries' = DOMAIN deliveries
           /\ \A j \in DOMAIN deliveries : RowStep(j, FALSE)
<1> USE DEF NoRemote
<1> DEFINE row == deliveries[k]
           Fits(new) == /\ new.route = row.route /\ new.gen = row.gen
                        /\ new.seq = row.seq /\ new.inbox = row.inbox
                        /\ new.desired = row.desired
                        /\ new.acked >= row.acked /\ new.acked <= row.desired
                        /\ row.remote # NoRemote => new.remote # NoRemote
                        /\ ~Resolved(new) => new.text /\ ~Resolved(row)
<1>1. /\ row \in Row /\ deliveries \in [DOMAIN deliveries -> Row]
      /\ UNCHANGED <<conv, inbox>>
  BY DEF Inv, TypeOK, RowsOK, LaneStep, ResolveStep
<1>2. \A j \in DOMAIN deliveries :
         /\ deliveries[j].acked <= deliveries[j].desired
         /\ ~Resolved(deliveries[j]) => deliveries[j].text
  BY DEF Inv, PayloadKept
<1>3. ASSUME NEW new, SetRow(k, new), Fits(new)
      PROVE  /\ DOMAIN deliveries' = DOMAIN deliveries
             /\ \A j \in DOMAIN deliveries : RowStep(j, FALSE)
  <2>1. deliveries' = [deliveries EXCEPT ![k] = new]
    BY <1>3 DEF SetRow
  <2>2. ASSUME NEW j \in DOMAIN deliveries PROVE RowStep(j, FALSE)
    <3>1. deliveries[j] \in Row
      BY <1>1
    <3>2. CASE j = k
      <4>1. deliveries'[j] = new /\ row = deliveries[j]
        BY <2>1, <3>2
      <4>2. new.desired >= row.desired
        BY <1>1, <1>3 DEF Row
      <4> QED BY <1>3, <4>1, <4>2 DEF RowStep
    <3>3. CASE j # k
      <4>1. deliveries'[j] = deliveries[j]
        BY <2>1, <3>3
      <4> QED BY <1>2, <3>1, <4>1 DEF RowStep, Row
    <3> QED BY <3>2, <3>3
  <2> QED BY <2>1, <2>2
<1>4. ASSUME LaneStep(k) PROVE ~Resolved(row)
  BY <1>4 DEF LaneStep, IntendCreate, CanAttempt, InFlight, AtHead, IsNext, Unresolved,
              CreateLanded, CreateUnknown, CreateRefused, EditLanded, EditRefused, GiveUp
<1>5. ASSUME ResolveStep(k) PROVE ~Resolved(row)
  BY <1>5 DEF ResolveStep, AssociateMessage, Resend, Blocked, Resolved
<1>6. ~Resolved(row) /\ row.text /\ row.acked <= row.desired
  BY <1>2, <1>4, <1>5
<1>7. ASSUME NEW rev \in Acknowledgeable(k), NEW id \in Nat,
             row.remote # NoRemote => id # NoRemote
      PROVE  Fits(AckedRow(row, id, rev))
  <2>1. rev \in Int /\ rev >= row.acked /\ rev <= row.desired
    BY <1>1, <1>6, <1>7 DEF Acknowledgeable, Row
  <2> DEFINE text == row.text /\ rev # row.desired
             status == IF rev = row.desired THEN "acked" ELSE "pending"
             op == IF rev = row.desired THEN "acked" ELSE "edit_pending"
             new == [row EXCEPT !.acked = rev, !.attempts = 0, !.remote = id,
                                !.text = text, !.status = status, !.op = op]
  <2>2. AckedRow(row, id, rev) = new
    BY DEF AckedRow
  <2>3. rev # row.desired => text
    BY <1>6
  <2>4. rev = row.desired => status = "acked"
    OBVIOUS
  <2> HIDE DEF text, status, op
  <2>5. /\ new.route = row.route /\ new.gen = row.gen /\ new.seq = row.seq
        /\ new.inbox = row.inbox /\ new.desired = row.desired /\ new.acked = rev
        /\ new.remote = id /\ new.text = text /\ new.status = status
    BY <1>1 DEF Row
  <2> HIDE DEF new
  <2>6. ~Resolved(new) => new.text
    BY <2>3, <2>4, <2>5 DEF Resolved
  <2> QED BY <1>6, <1>7, <2>1, <2>2, <2>5, <2>6
<1>8. ASSUME NEW new \in Row, new.route = row.route, new.gen = row.gen, new.seq = row.seq,
             new.inbox = row.inbox, new.desired = row.desired, new.acked = row.acked,
             new.text = row.text, row.remote # NoRemote => new.remote # NoRemote
      PROVE  Fits(new)
  <2>1. new.acked >= row.acked
    BY <1>1, <1>8 DEF Row
  <2> QED BY <1>6, <1>8, <2>1
<1> HIDE DEF Fits
<1>9. PlannedAgain(row) \in Row /\ Fits(PlannedAgain(row))
  <2> DEFINE op == IF row.remote = NoRemote THEN "planned" ELSE row.op
             new == [row EXCEPT !.op = op]
  <2>1. PlannedAgain(row) = new /\ op \in Ops
    BY <1>1 DEF PlannedAgain, Ops, Row
  <2> HIDE DEF op
  <2>2. /\ new \in Row /\ new.route = row.route /\ new.gen = row.gen /\ new.seq = row.seq
        /\ new.inbox = row.inbox /\ new.desired = row.desired /\ new.acked = row.acked
        /\ new.text = row.text /\ new.remote = row.remote
    BY <1>1, <2>1 DEF Row
  <2> HIDE DEF new
  <2> QED BY <1>8, <2>1, <2>2
<1>10. ASSUME NEW new \in Row, SetRow(k, new), Fits(new)
       PROVE  /\ UNCHANGED <<conv, inbox>>
              /\ DOMAIN deliveries' = DOMAIN deliveries
              /\ \A j \in DOMAIN deliveries : RowStep(j, FALSE)
  BY <1>1, <1>3, <1>10
<1>11. CASE IntendCreate(k)
  <2>0. PICK fresh \in Nonces : MarkCreateIntent(k, fresh)
    BY <1>11 DEF IntendCreate
  <2> DEFINE nonce == IF row.nonce = NoNonce THEN fresh ELSE row.nonce
             attempts == row.attempts + 1
             new == [row EXCEPT !.op = "create_intent", !.nonce = nonce, !.attempts = attempts]
  <2>1. nonce \in Nat /\ attempts \in Nat
    BY <1>1, IdsAssumption DEF Row, NoNonce
  <2>2. SetRow(k, new)
    BY <2>0 DEF MarkCreateIntent
  <2> HIDE DEF nonce, attempts
  <2>3. /\ new \in Row /\ new.route = row.route /\ new.gen = row.gen /\ new.seq = row.seq
        /\ new.inbox = row.inbox /\ new.desired = row.desired /\ new.acked = row.acked
        /\ new.text = row.text /\ new.remote = row.remote
    BY <1>1, <2>1 DEF Row, Ops
  <2> HIDE DEF new
  <2> QED BY <1>3, <1>8, <1>1, <2>2, <2>3
<1>12. CASE CreateLanded(k)
  <2>1. PICK id \in RemoteIds, rev \in Acknowledgeable(k) : SetRow(k, AckedRow(row, id, rev))
    BY <1>12 DEF CreateLanded, MarkCreated
  <2>2. Fits(AckedRow(row, id, rev))
    BY <1>7, IdsAssumption
  <2> QED BY <1>1, <1>3, <2>1, <2>2
<1>13. CASE EditLanded(k)
  <2>1. PICK rev \in Acknowledgeable(k) : SetRow(k, AckedRow(row, row.remote, rev))
    BY <1>13 DEF EditLanded, MarkEdited
  <2>2. row.remote \in Nat
    BY <1>1 DEF Row
  <2> QED BY <1>1, <1>3, <1>7, <2>1, <2>2
<1>14. ASSUME NEW status \in Statuses, SetRow(k, [row EXCEPT !.status = status])
       PROVE  /\ UNCHANGED <<conv, inbox>>
              /\ DOMAIN deliveries' = DOMAIN deliveries
              /\ \A j \in DOMAIN deliveries : RowStep(j, FALSE)
  <2> DEFINE new == [row EXCEPT !.status = status]
  <2>1. /\ new \in Row /\ new.route = row.route /\ new.gen = row.gen /\ new.seq = row.seq
        /\ new.inbox = row.inbox /\ new.desired = row.desired /\ new.acked = row.acked
        /\ new.text = row.text /\ new.remote = row.remote
    BY <1>1, <1>14 DEF Row
  <2>2. SetRow(k, new)
    BY <1>14
  <2> HIDE DEF new
  <2> QED BY <1>8, <1>10, <2>1, <2>2
<1>15. CASE CreateUnknown(k) \/ GiveUp(k)
  BY <1>14, <1>15 DEF CreateUnknown, GiveUp, MarkAmbiguous, MarkFailed, Statuses
<1>16. CASE CreateRefused(k)
  BY <1>9, <1>10, <1>16 DEF CreateRefused, MarkRetryAt
<1>17. CASE EditRefused(k)
  <2> DEFINE old == PlannedAgain(row)
             attempts == old.attempts + 1
             new == [old EXCEPT !.attempts = attempts]
  <2>1. SetRow(k, new)
    BY <1>17 DEF EditRefused, MarkAttempt
  <2>2. old \in Row /\ Fits(old) /\ attempts \in Nat
    BY <1>9 DEF Row
  <2> HIDE DEF old, attempts
  <2>3. /\ new \in Row /\ new.route = old.route /\ new.gen = old.gen /\ new.seq = old.seq
        /\ new.inbox = old.inbox /\ new.desired = old.desired /\ new.acked = old.acked
        /\ new.text = old.text /\ new.remote = old.remote /\ new.status = old.status
    BY <2>2 DEF Row
  <2> HIDE DEF new
  <2>4. Fits(new)
    BY <2>2, <2>3 DEF Fits, Resolved
  <2> QED BY <1>10, <2>1, <2>3, <2>4
<1>18. ASSUME NEW id \in RemoteIds, AssociateMessage(k, id)
       PROVE  /\ UNCHANGED <<conv, inbox>>
              /\ DOMAIN deliveries' = DOMAIN deliveries
              /\ \A j \in DOMAIN deliveries : RowStep(j, FALSE)
  <2> DEFINE new == [row EXCEPT !.remote = id, !.status = "pending",
                                !.op = "edit_pending", !.attempts = 0]
  <2>1. /\ new \in Row /\ new.route = row.route /\ new.gen = row.gen /\ new.seq = row.seq
        /\ new.inbox = row.inbox /\ new.desired = row.desired /\ new.acked = row.acked
        /\ new.text = row.text /\ new.remote # NoRemote
    BY <1>1, IdsAssumption DEF Row, Statuses, Ops
  <2>2. SetRow(k, new)
    BY <1>18 DEF AssociateMessage
  <2> HIDE DEF new
  <2>3. Fits(new)
    BY <1>8, <2>1
  <2> QED BY <1>10, <2>1, <2>2, <2>3
<1>19. CASE Resend(k)
  <2> DEFINE op == IF row.remote = NoRemote THEN "planned" ELSE "edit_pending"
             new == [row EXCEPT !.status = "pending", !.op = op, !.nonce = NoNonce,
                                !.attempts = 0]
  <2>1. op \in Ops /\ NoNonce \in Nat
    BY DEF Ops, NoNonce
  <2>2. SetRow(k, new)
    BY <1>19 DEF Resend
  <2> HIDE DEF op
  <2>3. /\ new \in Row /\ new.route = row.route /\ new.gen = row.gen /\ new.seq = row.seq
        /\ new.inbox = row.inbox /\ new.desired = row.desired /\ new.acked = row.acked
        /\ new.text = row.text /\ new.remote = row.remote
    BY <1>1, <2>1 DEF Row, Statuses
  <2> HIDE DEF new
  <2> QED BY <1>8, <1>10, <2>2, <2>3
<1> QED BY <1>11, <1>12, <1>13, <1>15, <1>16, <1>17, <1>18, <1>19 DEF LaneStep, ResolveStep

(* Ingest records one new event under the next number of its route, cancels *)
(* at most queued prompts, and moves the generation of the route only when  *)
(* nothing unfinished or unresolved is left there.                          *)
IngestFrame(m, r) ==
    /\ UNCHANGED deliveries
    /\ m \notin DOMAIN inbox /\ DOMAIN inbox' = DOMAIN inbox \cup {m}
    /\ DOMAIN conv' = DOMAIN conv \cup {r}
    /\ \A q \in DOMAIN conv : q # r => conv'[q] = conv[q]
    /\ \A n \in DOMAIN inbox : ItemStep(n) /\ inbox'[n].run = inbox[n].run
    /\ inbox'[m].route = r /\ inbox'[m].run = NoRun
    /\ inbox'[m].seq = ConvOf(r).nextSeq /\ inbox'[m].gen = conv'[r].gen
    /\ conv'[r].nextSeq = ConvOf(r).nextSeq + 1
    /\ inbox'[m].content <=> inbox'[m].state \in Holding
    /\ conv'[r].gen = ConvOf(r).gen \/ ~RouteBusy(r)

(* nextSeqTx and insertItemTx record an event that way.                     *)
LEMMA InsertFrame ==
    ASSUME Inv, NEW m \in Msgs \ DOMAIN inbox, NEW r \in Routes, NEW table, NEW item,
           Insert(m, r, table, item), DOMAIN table = DOMAIN inbox,
           \A n \in DOMAIN inbox :
              inbox'[n] = table[n] => ItemStep(n) /\ inbox'[n].run = inbox[n].run,
           item.route = r, item.run = NoRun, item.seq = ConvOf(r).nextSeq,
           item.content <=> item.state \in Holding,
           item.gen = ConvOf(r).gen \/ ~RouteBusy(r)
    PROVE  IngestFrame(m, r)
<1>1. /\ DOMAIN inbox' = DOMAIN inbox \cup {m}
      /\ inbox'[m] = item
      /\ \A n \in DOMAIN inbox : inbox'[n] = table[n]
  BY DEF Insert, WithRow
<1>2. /\ DOMAIN conv' = DOMAIN conv \cup {r}
      /\ conv'[r] = [gen |-> item.gen, nextSeq |-> item.seq + 1]
      /\ \A q \in DOMAIN conv : q # r => conv'[q] = conv[q]
  BY DEF Insert, WithRow
<1>3. UNCHANGED deliveries
  BY DEF Insert
<1> QED BY <1>1, <1>2, <1>3 DEF IngestFrame

(* What Ingest does to the tables, for every kind of event.                 *)
LEMMA IngestStepFrame ==
    ASSUME Inv, NEW m \in Msgs, NEW r \in Routes, Ingest(m, r)
    PROVE  IngestFrame(m, r)
<1>1. m \notin DOMAIN inbox
  BY DEF Ingest
<1>2. \A n \in DOMAIN inbox :
         inbox'[n] = inbox[n] => ItemStep(n) /\ inbox'[n].run = inbox[n].run
  BY DEF ItemStep, Inv, PayloadKept, Holding
<1>3. ASSUME NEW kind, NEW state,
             state \in {"queued"} \cup Finished,
             Insert(m, r, inbox, Arrived(r, kind, state))
      PROVE  IngestFrame(m, r)
  <2> DEFINE item == Arrived(r, kind, state)
  <2>1. /\ item.route = r /\ item.run = NoRun /\ item.seq = ConvOf(r).nextSeq
        /\ item.gen = ConvOf(r).gen /\ item.content = (state = "queued")
        /\ item.state = state
    BY DEF Arrived
  <2>2. item.content <=> item.state \in Holding
    BY <1>3, <2>1 DEF Holding, Active, Finished
  <2> HIDE DEF item
  <2>3. Insert(m, r, inbox, item)
    BY <1>3 DEF item
  <2> QED BY <1>1, <1>2, <2>1, <2>2, <2>3, InsertFrame
<1>4. CASE (\E kind \in Kinds \ {"help"} : IngestRejected(m, r, kind)) \/ IngestHelp(m, r)
  BY <1>3, <1>4 DEF IngestRejected, IngestHelp, Finished
<1>5. CASE IngestPrompt(m, r)
  BY <1>3, <1>5 DEF IngestPrompt, Finished
<1>6. CASE IngestNew(m, r)
  <2>1. CASE RouteBusy(r)
    BY <1>3, <1>6, <2>1 DEF IngestNew, Finished
  <2>2. CASE ~RouteBusy(r)
    <3> DEFINE gen == ConvOf(r).gen + 1
               item == [Arrived(r, "new", "complete") EXCEPT !.gen = gen]
    <3>1. Insert(m, r, inbox, item)
      BY <1>6, <2>2 DEF IngestNew, Arrived
    <3> HIDE DEF gen
    <3>2. /\ item.route = r /\ item.run = NoRun /\ item.seq = ConvOf(r).nextSeq
          /\ item.content = FALSE /\ item.state = "complete"
      BY DEF Arrived
    <3>3. item.content <=> item.state \in Holding
      BY <3>2 DEF Holding, Active
    <3> HIDE DEF item
    <3> QED BY <1>1, <1>2, <2>2, <3>1, <3>2, <3>3, InsertFrame
  <2> QED BY <2>1, <2>2
<1>7. CASE IngestStop(m, r)
  <2>1. PICK cutoff \in {0} \cup SeqsOf(r), target \in DOMAIN inbox \cup {NoMsg} :
             Insert(m, r, WithCanceled(CanceledUpTo(r, cutoff)), StopRow(r, target, cutoff))
    BY <1>7 DEF IngestStop
  <2> DEFINE item == StopRow(r, target, cutoff)
             table == WithCanceled(CanceledUpTo(r, cutoff))
  <2>2. /\ item.route = r /\ item.run = NoRun /\ item.seq = ConvOf(r).nextSeq
        /\ item.gen = ConvOf(r).gen
        /\ item.content = FALSE /\ item.state \in {"pending", "complete"}
    BY DEF StopRow, Arrived
  <2>3. item.content <=> item.state \in Holding
    BY <2>2 DEF Holding, Active
  <2>4. DOMAIN table = DOMAIN inbox
    BY DEF WithCanceled
  <2>5. \A n \in DOMAIN inbox :
           inbox'[n] = table[n] => ItemStep(n) /\ inbox'[n].run = inbox[n].run
    BY WithCanceledFrame
  <2>6. Insert(m, r, table, item)
    BY <2>1
  <2> HIDE DEF item, table
  <2> QED BY <1>1, <2>2, <2>3, <2>4, <2>5, <2>6, InsertFrame
<1> QED BY <1>4, <1>5, <1>6, <1>7 DEF Ingest

-----------------------------------------------------------------------------
(* The inductive invariant.                                                 *)

(* It holds of the empty tables.                                            *)
LEMMA InitInv == Init => Inv
BY DEF Init, Inv, TypeOK, RowsOK, SeqTotalOrder, RowsBelong, PayloadKept,
       RotationStrandsNothing

(* Recording an event preserves it: the only step that moves a generation.  *)
LEMMA IngestInv ==
    ASSUME Inv, TypeOK', NEW m \in Msgs, NEW r \in Routes, IngestFrame(m, r)
    PROVE  Inv'
<1> USE DEF IngestFrame, ItemStep
<1>1. /\ ConvOf(r) \in ConvRow
      /\ r \in DOMAIN conv => ConvOf(r) = conv[r]
      /\ \A n \in DOMAIN inbox : inbox[n] \in Item /\ inbox[n].route \in DOMAIN conv
  BY DEF Inv, TypeOK, ConvOf, ConvRow, SeqTotalOrder
<1>2. SeqTotalOrder'
  <2>1. ASSUME NEW n \in DOMAIN inbox
        PROVE  /\ inbox'[n].route \in DOMAIN conv'
               /\ inbox'[n].seq < conv'[inbox'[n].route].nextSeq
               /\ inbox'[n].route = r => inbox'[n].seq < ConvOf(r).nextSeq
    <3>1. inbox[n].seq < conv[inbox[n].route].nextSeq /\ inbox[n].route \in DOMAIN conv
      BY DEF Inv, SeqTotalOrder
    <3>2. inbox[n].seq \in Nat /\ ConvOf(r).nextSeq \in Nat
      BY <1>1 DEF Item, ConvRow
    <3> QED BY <1>1, <3>1, <3>2
  <2>2. inbox'[m].seq < conv'[r].nextSeq
    BY <1>1 DEF ConvRow
  <2>3. ASSUME NEW n \in DOMAIN inbox, NEW o \in DOMAIN inbox,
               inbox'[n].route = inbox'[o].route, inbox'[n].seq = inbox'[o].seq
        PROVE  o = n
    BY <2>3 DEF Inv, SeqTotalOrder
  <2>4. ASSUME NEW n \in DOMAIN inbox, inbox'[n].route = r PROVE inbox'[n].seq # inbox'[m].seq
    BY <1>1, <2>1, <2>4 DEF Item, ConvRow
  <2>5. DOMAIN inbox' = DOMAIN inbox \cup {m} /\ inbox'[m].route = r /\ r \in DOMAIN conv'
    OBVIOUS
  <2> QED BY <2>1, <2>2, <2>3, <2>4, <2>5 DEF SeqTotalOrder
<1>3. RowsBelong'
  BY DEF Inv, RowsBelong
<1>4. PayloadKept'
  BY DEF Inv, PayloadKept, Holding
<1>5. RotationStrandsNothing'
  <2>1. ASSUME NEW n \in DOMAIN inbox', inbox'[n].state \in Unfinished
        PROVE  inbox'[n].gen = conv'[inbox'[n].route].gen
    <3>1. CASE n = m
      BY <3>1
    <3>2. CASE n \in DOMAIN inbox
      <4>1. inbox[n].state \in Unfinished /\ inbox[n].gen = conv[inbox[n].route].gen
        BY <2>1, <3>2 DEF Inv, RotationStrandsNothing
      <4>2. inbox[n].route = r => RouteBusy(r)
        BY <3>2, <4>1 DEF RouteBusy, ItemsIn
      <4> QED BY <1>1, <3>2, <4>1, <4>2
    <3> QED BY <3>1, <3>2
  <2>2. ASSUME NEW k \in DOMAIN deliveries, ~Resolved(deliveries[k])
        PROVE  deliveries[k].gen = conv'[deliveries[k].route].gen
    <3>1. deliveries[k].gen = conv[deliveries[k].route].gen
      BY <2>2 DEF Inv, RotationStrandsNothing
    <3>2. deliveries[k].route \in DOMAIN conv
      BY <1>1 DEF Inv, RowsBelong
    <3>3. deliveries[k].route = r => RouteBusy(r)
      BY <2>2 DEF RouteBusy, Unresolved
    <3> QED BY <1>1, <3>1, <3>2, <3>3
  <2> QED BY <2>1, <2>2 DEF RotationStrandsNothing
<1> QED BY <1>2, <1>3, <1>4, <1>5 DEF Inv

(* Every transaction on an existing event preserves it, the plan of an      *)
(* admitted event's answer included: the rows it reopens are that event's.  *)
LEMMA InboxStepInv ==
    ASSUME Inv, TypeOK', NEW m \in DOMAIN inbox, InboxFrame,
           \/ UNCHANGED deliveries
           \/ inbox[m].state = "admitted" /\ inbox[m].run # NoRun /\ PlanStep(m)
    PROVE  Inv'
<1> USE DEF InboxFrame, ItemStep
<1>1. SeqTotalOrder'
  BY DEF Inv, SeqTotalOrder
<1>2. \A k \in DOMAIN deliveries : k[1] \in RunIds /\ k[1] # NoRun
  BY NoneAssumption DEF Inv, TypeOK, RowsOK, RowKeys
<1>3. RowsBelong'
  <2>1. \A n, o \in DOMAIN inbox' :
           inbox'[n].run # NoRun /\ inbox'[o].run = inbox'[n].run => o = n
    BY DEF RunStep
  <2>2. ASSUME NEW k \in DOMAIN deliveries,
               /\ deliveries'[k].inbox = deliveries[k].inbox
               /\ deliveries'[k].route = deliveries[k].route
               /\ deliveries'[k].gen = deliveries[k].gen
               /\ deliveries'[k].seq = deliveries[k].seq
        PROVE  /\ deliveries'[k].inbox \in DOMAIN inbox'
               /\ inbox'[deliveries'[k].inbox].run = k[1]
               /\ inbox'[deliveries'[k].inbox].route = deliveries'[k].route
               /\ inbox'[deliveries'[k].inbox].gen = deliveries'[k].gen
               /\ inbox'[deliveries'[k].inbox].seq = deliveries'[k].seq
    BY <1>2, <2>2 DEF Inv, RowsBelong
  <2>3. CASE UNCHANGED deliveries
    BY <2>1, <2>2, <2>3 DEF RowsBelong
  <2>4. CASE inbox[m].run # NoRun /\ PlanStep(m)
    <3>1. \A k \in DOMAIN deliveries : RowStep(k, k[1] = inbox[m].run)
      BY <2>4 DEF PlanStep
    <3>2. inbox'[m].run = inbox[m].run
      BY <2>4
    <3>3. ASSUME NEW k \in DOMAIN deliveries' \ DOMAIN deliveries
          PROVE  /\ deliveries'[k].inbox = m /\ inbox'[m].run = k[1]
                 /\ inbox'[m].route = deliveries'[k].route
                 /\ inbox'[m].gen = deliveries'[k].gen
                 /\ inbox'[m].seq = deliveries'[k].seq
      BY <2>4, <3>2 DEF PlanStep
    <3> QED BY <2>1, <2>2, <3>1, <3>3 DEF RowsBelong, RowStep
  <2> QED BY <2>3, <2>4
<1>4. PayloadKept'
  <2>1. CASE UNCHANGED deliveries
    BY <2>1 DEF Inv, PayloadKept, Holding
  <2>2. CASE PlanStep(m)
    BY <2>2 DEF PayloadKept, Holding, PlanStep, RowStep
  <2> QED BY <2>1, <2>2
<1>5. RotationStrandsNothing'
  <2>1. \A n \in DOMAIN inbox' :
           inbox'[n].state \in Unfinished => inbox'[n].gen = conv'[inbox'[n].route].gen
    BY DEF Inv, RotationStrandsNothing
  <2>2. CASE UNCHANGED deliveries
    BY <2>1, <2>2 DEF Inv, RotationStrandsNothing
  <2>3. CASE inbox[m].state = "admitted" /\ inbox[m].run # NoRun /\ PlanStep(m)
    <3>1. inbox[m].gen = conv[inbox[m].route].gen
      BY <2>3 DEF Inv, RotationStrandsNothing, Unfinished
    <3>2. ASSUME NEW k \in DOMAIN deliveries, ~Resolved(deliveries'[k])
          PROVE  deliveries'[k].gen = conv'[deliveries'[k].route].gen
      <4>1. RowStep(k, k[1] = inbox[m].run)
        BY <2>3 DEF PlanStep
      <4>2. CASE ~Resolved(deliveries[k])
        BY <4>1, <4>2 DEF Inv, RotationStrandsNothing, RowStep
      <4>3. CASE k[1] = inbox[m].run
        <5>1. deliveries[k].inbox = m
          BY <2>3, <4>3 DEF Inv, RowsBelong
        <5>2. deliveries[k].gen = inbox[m].gen /\ deliveries[k].route = inbox[m].route
          BY <5>1 DEF Inv, RowsBelong
        <5> QED BY <3>1, <4>1, <5>2 DEF RowStep
      <4> QED BY <3>2, <4>1, <4>2, <4>3 DEF RowStep
    <3>3. ASSUME NEW k \in DOMAIN deliveries' \ DOMAIN deliveries
          PROVE  deliveries'[k].gen = conv'[deliveries'[k].route].gen
      BY <2>3, <3>1 DEF PlanStep
    <3> QED BY <2>1, <3>2, <3>3 DEF RotationStrandsNothing
  <2> QED BY <2>2, <2>3
<1> QED BY <1>1, <1>3, <1>4, <1>5 DEF Inv

(* So does every delivery transaction.                                      *)
LEMMA RowStepInv ==
    ASSUME Inv, TypeOK', UNCHANGED <<conv, inbox>>,
           DOMAIN deliveries' = DOMAIN deliveries,
           \A k \in DOMAIN deliveries : RowStep(k, FALSE)
    PROVE  Inv'
<1>1. SeqTotalOrder'
  BY DEF Inv, SeqTotalOrder
<1>2. RowsBelong'
  BY DEF Inv, RowsBelong, RowStep
<1>3. PayloadKept'
  BY DEF Inv, PayloadKept, RowStep
<1>4. RotationStrandsNothing'
  BY DEF Inv, RotationStrandsNothing, RowStep
<1> QED BY <1>1, <1>2, <1>3, <1>4 DEF Inv

(* Every step preserves it.                                                 *)
LEMMA NextInv == Inv /\ [Next]_storeVars => Inv'
<1> SUFFICES ASSUME Inv, [Next]_storeVars PROVE Inv'
  OBVIOUS
<1>1. CASE UNCHANGED storeVars
  BY <1>1 DEF storeVars, Inv, TypeOK, RowsOK, SeqTotalOrder, RowsBelong, PayloadKept,
              RotationStrandsNothing
<1>2. ASSUME NEW m \in Msgs, NEW r \in Routes, Ingest(m, r) PROVE Inv'
  <2>1. TypeOK'
    BY <1>2, IngestTyped DEF Inv
  <2> QED BY <1>2, <2>1, IngestStepFrame, IngestInv
<1>3. ASSUME NEW m \in DOMAIN inbox, InboxStep(m) PROVE Inv'
  <2>1. TypeOK'
    BY <1>3, InboxStepTyped DEF Inv
  <2> QED BY <1>3, <2>1, InboxStepFrame, InboxStepInv
<1>4. ASSUME NEW k \in DOMAIN deliveries, LaneStep(k) \/ ResolveStep(k) PROVE Inv'
  <2>1. TypeOK'
    BY <1>4, RowStepTyped DEF Inv
  <2> QED BY <1>4, <2>1, RowStepFrame, RowStepInv
<1> QED BY <1>1, <1>2, <1>3, <1>4 DEF Next

(* The five invariants hold in every reachable state.                       *)
THEOREM Invariance == Spec => []Inv
BY InitInv, NextInv, PTL DEF Spec

(* Events of a route are totally ordered by their sequence numbers.         *)
THEOREM OrderCorrect == Spec => []SeqTotalOrder
<1>1. Inv => SeqTotalOrder
  BY DEF Inv
<1> QED BY <1>1, Invariance, PTL

(* A run belongs to one event, and every delivery to the event of its run.  *)
THEOREM TablesAgree == Spec => []RowsBelong
<1>1. Inv => RowsBelong
  BY DEF Inv
<1> QED BY <1>1, Invariance, PTL

(* Text is kept exactly as long as it may still be needed.                  *)
THEOREM PayloadCorrect == Spec => []PayloadKept
<1>1. Inv => PayloadKept
  BY DEF Inv
<1> QED BY <1>1, Invariance, PTL

(* A rotation strands neither an unfinished event nor an unresolved row.    *)
THEOREM RotationCorrect == Spec => []RotationStrandsNothing
<1>1. Inv => RotationStrandsNothing
  BY DEF Inv
<1> QED BY <1>1, Invariance, PTL

-----------------------------------------------------------------------------
(* The action property.                                                     *)

(* No transaction deletes a row, changes a finished event, replaces a       *)
(* receipt, takes a revision back or forgets a remote message.              *)
THEOREM HistoryCorrect == Spec => NothingUndone
<1> DEFINE Kept ==
        /\ \A m \in DOMAIN inbox :
             /\ m \in DOMAIN inbox'
             /\ inbox[m].state \in Finished => inbox'[m] = inbox[m]
             /\ inbox[m].run # NoRun => inbox'[m].run = inbox[m].run
        /\ \A k \in DOMAIN deliveries :
             /\ k \in DOMAIN deliveries'
             /\ deliveries'[k].desired >= deliveries[k].desired
             /\ deliveries'[k].acked >= deliveries[k].acked
             /\ deliveries[k].remote # NoRemote => deliveries'[k].remote # NoRemote
<1>1. ASSUME Inv, [Next]_storeVars PROVE [Kept]_storeVars
  <2> SUFFICES ASSUME Next PROVE Kept
    BY <1>1
  <2>1. \A k \in DOMAIN deliveries : /\ deliveries[k].desired >= deliveries[k].desired
                                     /\ deliveries[k].acked >= deliveries[k].acked
    BY <1>1 DEF Inv, TypeOK, RowsOK, Row
  <2>2. ASSUME NEW m \in Msgs, NEW r \in Routes, Ingest(m, r) PROVE Kept
    BY <1>1, <2>1, <2>2, IngestStepFrame DEF IngestFrame, ItemStep
  <2>3. ASSUME NEW m \in DOMAIN inbox, InboxStep(m) PROVE Kept
    <3>1. InboxFrame /\ (UNCHANGED deliveries \/ PlanStep(m))
      BY <1>1, <2>3, InboxStepFrame
    <3> QED BY <2>1, <3>1 DEF InboxFrame, ItemStep, PlanStep, RowStep
  <2>4. ASSUME NEW k \in DOMAIN deliveries, LaneStep(k) \/ ResolveStep(k) PROVE Kept
    BY <1>1, <2>4, RowStepFrame DEF RowStep
  <2> QED BY <2>2, <2>3, <2>4 DEF Next
<1>2. NothingUndone <=> [][Kept]_storeVars
  BY PTL DEF NothingUndone
<1> QED BY <1>1, <1>2, Invariance, PTL DEF Spec
=============================================================================
