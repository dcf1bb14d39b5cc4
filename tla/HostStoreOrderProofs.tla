------------------------ MODULE HostStoreOrderProofs ------------------------
(***************************************************************************)
(* The order of work in the host database, for every value of the           *)
(* constants: prompts start one at a time and in order, a settled stop left *)
(* nothing before its cutoff, an answer is planned with the end of its run, *)
(* its messages appear in lane order, and the queue keeps its bounds.       *)
(*                                                                          *)
(* Each of them needs to know more than it says, so each has a strengthening*)
(* that is inductive together with Inv: which kinds of events can be in     *)
(* which state, what a stop has not reached yet, that a lane is never       *)
(* reopened behind a row it has already taken up.                           *)
(***************************************************************************)
EXTENDS HostStoreProofs, FiniteSetTheorems

(* Only prompts are queued and run, and a receipt is never taken back.      *)
KindsFit ==
    \A m \in DOMAIN inbox :
        /\ inbox[m].state \in Holding => inbox[m].kind = "prompt"
        /\ inbox[m].kind = "prompt" =>
              inbox[m].state \in Holding \cup {"terminal", "rejected", "canceled"}
        /\ inbox[m].run # NoRun =>
              inbox[m].kind = "prompt" /\ inbox[m].state \in {"admitted", "terminal"}

(* Nothing up to a stop's cutoff is queued once the stop arrived; the one   *)
(* prompt that may still be in admission is the target it is pending for.   *)
(* Later events are numbered past the cutoff.                               *)
StopsReach ==
    \A c \in DOMAIN inbox :
        inbox[c].kind = "stop" /\ inbox[c].state \in {"pending", "complete"} =>
            /\ inbox[c].cutoff < conv[inbox[c].route].nextSeq
            /\ \A m \in DOMAIN inbox :
                  /\ inbox[m].route = inbox[c].route /\ inbox[m].seq <= inbox[c].cutoff
                  => /\ inbox[m].state # "queued"
                     /\ inbox[m].state = "admitting" =>
                           inbox[c].state = "pending" /\ inbox[c].target = m

OrderInv == Inv /\ KindsFit /\ WorkInOrder /\ StopsReach

-----------------------------------------------------------------------------
(* What a transaction may do to the work of a route.                        *)

(* The moves of one event: it is taken up first in line, dropped before it  *)
(* ran, admitted, finished with its run, or, a stop, completed when its     *)
(* target is no longer in admission.                                        *)
Rests(n) == inbox'[n].state = inbox[n].state /\ inbox'[n].run = inbox[n].run

TakenUp(n) ==
    /\ inbox[n].state = "queued" /\ inbox'[n].state = "admitting"
    /\ inbox'[n].run = inbox[n].run /\ FirstInLine(n)

Dropped(n) ==
    /\ inbox[n].state \in {"queued", "admitting"}
    /\ inbox'[n].state \in {"rejected", "canceled"}
    /\ inbox'[n].run = inbox[n].run

Admitted(n) == inbox[n].state \in Active /\ inbox'[n].state = "admitted"

Ran(n) ==
    /\ inbox[n].state = "admitted" /\ inbox'[n].state = "terminal"
    /\ inbox'[n].run = inbox[n].run

Settled(n) ==
    /\ inbox[n].state = "pending" /\ inbox'[n].state = "complete"
    /\ inbox'[n].run = inbox[n].run
    /\ inbox[n].target # NoMsg => inbox[inbox[n].target].state # "admitting"

WorkStep(n) ==
    /\ inbox'[n].kind = inbox[n].kind
    /\ inbox'[n].target = inbox[n].target
    /\ inbox'[n].cutoff = inbox[n].cutoff
    /\ Rests(n) \/ TakenUp(n) \/ Dropped(n) \/ Admitted(n) \/ Ran(n) \/ Settled(n)

(* An event that did not change rests.                                      *)
LEMMA SameRests == ASSUME NEW n, inbox'[n] = inbox[n] PROVE WorkStep(n)
BY DEF WorkStep, Rests

(* Canceling queued prompts drops them.                                     *)
LEMMA WithCanceledWork ==
    ASSUME Inv, NEW r, NEW cutoff, NEW n \in DOMAIN inbox,
           inbox'[n] = WithCanceled(CanceledUpTo(r, cutoff))[n]
    PROVE  WorkStep(n)
<1>1. inbox[n] \in Item
  BY DEF Inv, TypeOK
<1>2. CASE n \in CanceledUpTo(r, cutoff)
  <2>1. inbox'[n] = [inbox[n] EXCEPT !.state = "canceled", !.content = FALSE]
    BY <1>2 DEF WithCanceled
  <2>2. inbox[n].state = "queued"
    BY <1>2 DEF CanceledUpTo, ItemsIn
  <2> QED BY <1>1, <2>1, <2>2 DEF WorkStep, Dropped, Item
<1>3. CASE n \notin CanceledUpTo(r, cutoff)
  BY <1>3, SameRests DEF WithCanceled
<1> QED BY <1>2, <1>3

(* A guarded transition changes the state of its event and nothing else     *)
(* that the order of work depends on.                                       *)
LEMMA TransitionMoves ==
    ASSUME Inv, NEW m, NEW from, NEW to, Transition(m, from, to)
    PROVE  /\ \A n \in DOMAIN inbox : n # m => inbox'[n] = inbox[n]
           /\ m \in DOMAIN inbox =>
                /\ inbox[m].state \in from /\ inbox'[m].state = to
                /\ inbox'[m].kind = inbox[m].kind /\ inbox'[m].run = inbox[m].run
                /\ inbox'[m].target = inbox[m].target /\ inbox'[m].cutoff = inbox[m].cutoff
<1>1. inbox' = [inbox EXCEPT ![m] = [inbox[m] EXCEPT
                  !.state = to, !.content = inbox[m].content /\ to \notin Finished]]
  BY DEF Transition, SetItem
<1>2. m \in DOMAIN inbox => inbox[m] \in Item
  BY DEF Inv, TypeOK
<1>3. inbox[m].state \in from
  BY DEF Transition
<1> QED BY <1>1, <1>2, <1>3 DEF Item

(* Every transaction on an existing event makes only such moves.            *)
LEMMA InboxStepWork ==
    ASSUME Inv, KindsFit, NEW m \in DOMAIN inbox, InboxStep(m), NEW n \in DOMAIN inbox
    PROVE  WorkStep(n)
<1> USE DEF WorkStep, Active
<1>0. inbox[m] \in Item /\ inbox \in [DOMAIN inbox -> Item]
  BY DEF Inv, TypeOK
<1>1. CASE StartAdmitting(m)
  BY <1>1, SameRests, TransitionMoves DEF StartAdmitting, TakenUp
<1>2. CASE RejectHistory(m) \/ RejectAdmission(m)
  BY <1>2, SameRests, TransitionMoves DEF RejectHistory, RejectAdmission, Dropped
<1>3. CASE CancelStale(m)
  BY <1>3, SameRests, TransitionMoves DEF CancelStale, Dropped, Rests
<1>4. CASE CancelTarget(m)
  BY <1>4, SameRests, TransitionMoves DEF CancelTarget, Dropped
<1>5. CASE CompleteStop(m)
  BY <1>5, SameRests, TransitionMoves DEF CompleteStop, Settled
<1>6. CASE CountAttempt(m)
  <2>1. inbox' = [inbox EXCEPT ![m] = [inbox[m] EXCEPT
           !.attempts = IF inbox[m].attempts > MaxAdmissionAttempts
                        THEN inbox[m].attempts ELSE inbox[m].attempts + 1]]
    BY <1>6 DEF CountAttempt, IncrementAttempts, SetItem
  <2> QED BY <1>0, <2>1, SameRests DEF Rests, Item
<1>7. ASSUME NEW run \in RunIds, RecordReceipt(m, run) PROVE WorkStep(n)
  <2>1. /\ inbox[m].state \in Active
        /\ inbox' = [inbox EXCEPT ![m] = [inbox[m] EXCEPT !.state = "admitted", !.run = run]]
    BY <1>7 DEF RecordReceipt, MarkAdmitted, SetItem
  <2> QED BY <1>0, <2>1, SameRests DEF Admitted, Item
<1>8. CASE PreviewRun(m)
  BY <1>8, SameRests DEF PreviewRun
<1>9. CASE FinishRun(m)
  <2>1. PICK chunks \in 1 .. MaxChunks : MarkTerminal(m, chunks)
    BY <1>9 DEF FinishRun
  <2>2. /\ inbox[m].state = "admitted"
        /\ inbox' = [inbox EXCEPT ![m] = [inbox[m] EXCEPT !.state = "terminal",
                                                          !.content = FALSE]]
    BY <2>1 DEF MarkTerminal, SetItem
  <2> QED BY <1>0, <2>2, SameRests DEF Ran, Item
<1>10. CASE SettleQueued(m)
  BY <1>10, WithCanceledWork DEF SettleQueued, CancelQueuedUpTo
<1> QED BY <1>1, <1>2, <1>3, <1>4, <1>5, <1>6, <1>7, <1>8, <1>9, <1>10 DEF InboxStep

-----------------------------------------------------------------------------
(* What recording an event does to the work of a route.                     *)

(* A route has at most one active prompt.                                   *)
LEMMA OneActive ==
    ASSUME OrderInv, NEW m \in DOMAIN inbox, NEW n \in DOMAIN inbox,
           inbox[m].route = inbox[n].route,
           inbox[m].state \in Active, inbox[n].state \in Active
    PROVE  m = n
<1>1. inbox[m].kind = "prompt" /\ inbox[n].kind = "prompt"
  BY DEF OrderInv, KindsFit, Holding
<1>2. inbox[m].seq \in Nat /\ inbox[n].seq \in Nat
  BY DEF OrderInv, Inv, TypeOK, Item
<1>3. ~(inbox[m].seq < inbox[n].seq) /\ ~(inbox[n].seq < inbox[m].seq)
  BY <1>1 DEF OrderInv, WorkInOrder, Started, Active, Finished
<1>4. inbox[m].seq = inbox[n].seq
  BY <1>2, <1>3
<1> QED BY <1>4 DEF OrderInv, Inv, SeqTotalOrder

(* The new event is not at work yet; if it is a stop, nothing queued is left*)
(* on its route, and a prompt in admission is the target it waits for.      *)
IngestWork(m, r) ==
    /\ \A n \in DOMAIN inbox : WorkStep(n) /\ (Rests(n) \/ Dropped(n))
    /\ inbox'[m].state \notin Active \cup {"terminal"}
    /\ inbox'[m].state = "queued" => inbox'[m].kind = "prompt"
    /\ inbox'[m].kind = "prompt" => inbox'[m].state \in {"queued", "rejected"}
    /\ inbox'[m].kind = "stop" /\ inbox'[m].state \in {"pending", "complete"} =>
         /\ inbox'[m].cutoff < conv'[r].nextSeq
         /\ \A n \in DOMAIN inbox :
              inbox[n].route = r =>
                 /\ inbox'[n].state # "queued"
                 /\ inbox'[n].state = "admitting" =>
                       inbox'[m].state = "pending" /\ inbox'[m].target = n

(* A stop freezes the one active prompt as its target and cancels what is   *)
(* queued.                                                                  *)
LEMMA StopWork ==
    ASSUME OrderInv, NEW m \in Msgs \ DOMAIN inbox, NEW r \in Routes, IngestStop(m, r)
    PROVE  IngestWork(m, r)
<1>1. PICK cutoff \in {0} \cup SeqsOf(r), target \in DOMAIN inbox \cup {NoMsg} :
         /\ \A seq \in SeqsOf(r) : seq <= cutoff
         /\ IF ItemsIn(r, Active) = {} THEN target = NoMsg
            ELSE IsLowest(target, ItemsIn(r, Active))
         /\ Insert(m, r, WithCanceled(CanceledUpTo(r, cutoff)), StopRow(r, target, cutoff))
  BY DEF IngestStop
<1> DEFINE S == CanceledUpTo(r, cutoff)
           state == IF target = NoMsg /\ S = {} THEN "complete" ELSE "pending"
<1>2. /\ \A n \in DOMAIN inbox : inbox'[n] = WithCanceled(S)[n]
      /\ inbox'[m] = StopRow(r, target, cutoff)
      /\ conv'[r].nextSeq = ConvOf(r).nextSeq + 1
  BY <1>1 DEF Insert, WithRow, WithCanceled, StopRow, Arrived
<1>3. /\ inbox'[m].kind = "stop" /\ inbox'[m].state = state
      /\ inbox'[m].target = target /\ inbox'[m].cutoff = cutoff
  BY <1>2 DEF StopRow, Arrived
<1>4. \A n \in DOMAIN inbox : WorkStep(n) /\ (Rests(n) \/ Dropped(n))
  <2> SUFFICES ASSUME NEW n \in DOMAIN inbox
               PROVE  WorkStep(n) /\ (Rests(n) \/ Dropped(n))
    OBVIOUS
  <2>1. WorkStep(n)
    BY <1>2, WithCanceledWork DEF OrderInv
  <2>2. CASE n \in S
    <3>1. inbox'[n] = [inbox[n] EXCEPT !.state = "canceled", !.content = FALSE]
      BY <1>2, <2>2 DEF WithCanceled
    <3>2. inbox[n] \in Item /\ inbox[n].state = "queued"
      BY <2>2 DEF CanceledUpTo, ItemsIn, OrderInv, Inv, TypeOK
    <3> QED BY <2>1, <3>1, <3>2 DEF Dropped, Item
  <2>3. CASE n \notin S
    BY <1>2, <2>1, <2>3 DEF WithCanceled, Rests
  <2> QED BY <2>2, <2>3
<1>5. cutoff < conv'[r].nextSeq
  <2>1. ConvOf(r).nextSeq \in Nat
    BY DEF OrderInv, Inv, TypeOK, ConvOf, ConvRow
  <2>2. CASE cutoff = 0
    BY <1>2, <2>1, <2>2
  <2>3. CASE cutoff \in SeqsOf(r)
    <3>1. PICK n \in DOMAIN inbox : inbox[n].route = r /\ cutoff = inbox[n].seq
      BY <2>3 DEF SeqsOf
    <3>2. inbox[n].seq < ConvOf(r).nextSeq /\ inbox[n].seq \in Nat
      BY <3>1 DEF ConvOf, OrderInv, Inv, SeqTotalOrder, TypeOK, Item
    <3> QED BY <1>2, <2>1, <3>1, <3>2
  <2> QED BY <2>2, <2>3
<1>6. ASSUME NEW n \in DOMAIN inbox, inbox[n].route = r
      PROVE  /\ inbox'[n].state # "queued"
             /\ inbox'[n].state = "admitting" => state = "pending" /\ target = n
  <2>1. inbox[n].seq <= cutoff
    BY <1>1, <1>6 DEF SeqsOf
  <2>2. CASE inbox[n].state = "queued"
    <3>1. n \in S
      BY <1>6, <2>1, <2>2 DEF CanceledUpTo, ItemsIn, OrderInv, KindsFit, Holding
    <3>2. inbox'[n] = [inbox[n] EXCEPT !.state = "canceled", !.content = FALSE]
      BY <1>2, <3>1 DEF WithCanceled
    <3>3. inbox[n] \in Item
      BY DEF OrderInv, Inv, TypeOK
    <3> QED BY <3>2, <3>3 DEF Item
  <2>3. CASE inbox[n].state # "queued"
    <3>1. inbox'[n] = inbox[n]
      BY <1>2, <2>3 DEF WithCanceled, CanceledUpTo, ItemsIn
    <3>2. ASSUME inbox[n].state = "admitting" PROVE target = n
      <4>1. n \in ItemsIn(r, Active)
        BY <1>6, <3>2 DEF ItemsIn, Active
      <4>2. target \in ItemsIn(r, Active)
        BY <1>1, <4>1 DEF IsLowest
      <4> QED BY <4>1, <4>2, OneActive DEF ItemsIn
    <3>3. target = n => state = "pending"
      BY NoneAssumption DEF OrderInv, Inv, TypeOK
    <3> QED BY <2>3, <3>1, <3>2, <3>3
  <2> QED BY <2>2, <2>3
<1>7. state \in {"pending", "complete"}
  OBVIOUS
<1> HIDE DEF S, state
<1>8. inbox'[m].state \notin Active \cup {"queued", "terminal"} /\ inbox'[m].kind # "prompt"
  BY <1>3, <1>7 DEF Active
<1> QED BY <1>3, <1>4, <1>5, <1>6, <1>8 DEF IngestWork

(* So does every other kind of event, which leaves the queue as it is.      *)
LEMMA IngestStepWork ==
    ASSUME OrderInv, NEW m \in Msgs, NEW r \in Routes, Ingest(m, r)
    PROVE  IngestWork(m, r)
<1>1. m \notin DOMAIN inbox
  BY DEF Ingest
<1>2. ASSUME NEW item, Insert(m, r, inbox, item),
             item.state \in {"queued", "rejected", "complete"},
             item.state = "queued" => item.kind = "prompt",
             item.kind = "prompt" => item.state \in {"queued", "rejected"},
             item.kind = "stop" => item.state = "rejected"
      PROVE  IngestWork(m, r)
  <2>1. inbox'[m] = item /\ \A n \in DOMAIN inbox : inbox'[n] = inbox[n]
    BY <1>1, <1>2 DEF Insert, WithRow
  <2> QED BY <1>2, <2>1, SameRests DEF IngestWork, Rests, Active
<1>3. CASE \/ \E kind \in Kinds \ {"help"} : IngestRejected(m, r, kind)
           \/ IngestPrompt(m, r) \/ IngestHelp(m, r)
  <2>1. \A kind, state : Arrived(r, kind, state).kind = kind /\ Arrived(r, kind, state).state = state
    BY DEF Arrived
  <2> QED BY <1>2, <1>3, <2>1 DEF IngestRejected, IngestPrompt, IngestHelp
<1>4. CASE IngestNew(m, r)
  <2> DEFINE gen == Arrived(r, "new", "complete").gen + 1
             rotated == [Arrived(r, "new", "complete") EXCEPT !.gen = gen]
  <2>1. Insert(m, r, inbox, rotated) \/ Insert(m, r, inbox, Arrived(r, "new", "rejected"))
    BY <1>4 DEF IngestNew
  <2> HIDE DEF gen
  <2>2. /\ rotated.kind = "new" /\ rotated.state = "complete"
        /\ Arrived(r, "new", "rejected").kind = "new"
        /\ Arrived(r, "new", "rejected").state = "rejected"
    BY DEF Arrived
  <2> HIDE DEF rotated
  <2> QED BY <1>2, <2>1, <2>2
<1> QED BY <1>1, <1>3, <1>4, StopWork DEF Ingest

-----------------------------------------------------------------------------
(* The inductive invariant of the order of work.                            *)

(* Every transaction on an existing event preserves it.                     *)
LEMMA InboxStepOrder ==
    ASSUME OrderInv, Inv', InboxFrame, \A n \in DOMAIN inbox : WorkStep(n)
    PROVE  OrderInv'
<1> USE DEF InboxFrame, WorkStep, Rests, TakenUp, Dropped, Admitted, Ran, Settled
<1>1. \A n \in DOMAIN inbox :
         /\ inbox[n].seq \in Nat /\ inbox[n].run \in RunIds \cup {NoRun}
         /\ n \in Msgs
         /\ inbox'[n].route = inbox[n].route /\ inbox'[n].seq = inbox[n].seq
         /\ inbox[n].state \in Finished => inbox'[n].state \in Finished
  BY DEF OrderInv, Inv, TypeOK, Item, ItemStep
<1>2. KindsFit'
  BY DEF OrderInv, KindsFit, Holding, Active
<1>3. WorkInOrder'
  <2> SUFFICES ASSUME NEW m \in DOMAIN inbox, NEW n \in DOMAIN inbox,
                      Started(m)', inbox'[n].kind = "prompt",
                      inbox'[n].route = inbox'[m].route, inbox'[n].seq < inbox'[m].seq
               PROVE  inbox'[n].state \in Finished
    BY DEF WorkInOrder
  <2>1. inbox[n].kind = "prompt" /\ inbox[n].route = inbox[m].route
        /\ inbox[n].seq < inbox[m].seq
    BY <1>1
  <2>2. CASE Started(m)
    BY <1>1, <2>1, <2>2 DEF OrderInv, WorkInOrder
  <2>3. CASE TakenUp(m)
    <3>1. inbox[n].state \notin Holding
      BY <1>1, <2>1, <2>3 DEF FirstInLine, IsLowest, ItemsIn, Holding
    <3>2. inbox[n].state \in Finished
      BY <2>1, <3>1 DEF OrderInv, KindsFit, Finished
    <3> QED BY <1>1, <3>2
  <2>4. Started(m) \/ TakenUp(m)
    BY DEF Started, Active
  <2> QED BY <2>2, <2>3, <2>4
<1>4. StopsReach'
  <2> SUFFICES ASSUME NEW c \in DOMAIN inbox,
                      inbox'[c].kind = "stop", inbox'[c].state \in {"pending", "complete"}
               PROVE  /\ inbox'[c].cutoff < conv'[inbox'[c].route].nextSeq
                      /\ \A m \in DOMAIN inbox :
                           inbox'[m].route = inbox'[c].route /\ inbox'[m].seq <= inbox'[c].cutoff
                           => /\ inbox'[m].state # "queued"
                              /\ inbox'[m].state = "admitting" =>
                                    inbox'[c].state = "pending" /\ inbox'[c].target = m
    BY DEF StopsReach
  <2>1. /\ inbox[c].kind = "stop" /\ inbox[c].state \in {"pending", "complete"}
        /\ inbox'[c].cutoff = inbox[c].cutoff /\ inbox'[c].target = inbox[c].target
        /\ Rests(c) \/ Settled(c)
    BY DEF OrderInv, KindsFit, Active
  <2>2. inbox'[c].cutoff < conv'[inbox'[c].route].nextSeq
    BY <1>1, <2>1 DEF OrderInv, StopsReach
  <2>3. ASSUME NEW m \in DOMAIN inbox,
               inbox'[m].route = inbox'[c].route, inbox'[m].seq <= inbox'[c].cutoff
        PROVE  /\ inbox'[m].state # "queued"
               /\ inbox'[m].state = "admitting" =>
                     inbox'[c].state = "pending" /\ inbox'[c].target = m
    <3>1. /\ inbox[m].state # "queued"
          /\ inbox[m].state = "admitting" => inbox[c].state = "pending" /\ inbox[c].target = m
      BY <1>1, <2>1, <2>3 DEF OrderInv, StopsReach
    <3>2. inbox'[m].state # "queued"
          /\ (inbox'[m].state = "admitting" => inbox[m].state = "admitting")
      BY <3>1
    <3>3. inbox[m].state = "admitting" => inbox'[c].state = "pending"
      BY <1>1, <2>1, <3>1, NoneAssumption
    <3> QED BY <2>1, <3>1, <3>2, <3>3
  <2> QED BY <2>2, <2>3
<1> QED BY <1>2, <1>3, <1>4 DEF OrderInv

(* So does recording an event: it comes after everything on its route.      *)
LEMMA IngestOrder ==
    ASSUME OrderInv, Inv', NEW m \in Msgs, NEW r \in Routes,
           IngestFrame(m, r), IngestWork(m, r)
    PROVE  OrderInv'
<1> USE DEF WorkStep, Rests, Dropped
<1>1. /\ DOMAIN inbox' = DOMAIN inbox \cup {m} /\ m \notin DOMAIN inbox
      /\ inbox'[m].route = r /\ inbox'[m].run = NoRun
      /\ inbox'[m].seq = ConvOf(r).nextSeq /\ conv'[r].nextSeq = ConvOf(r).nextSeq + 1
      /\ ConvOf(r).nextSeq \in Nat
  BY DEF IngestFrame, OrderInv, Inv, TypeOK, ConvOf, ConvRow
<1>2. ASSUME NEW n \in DOMAIN inbox
      PROVE  /\ inbox[n].seq \in Nat /\ inbox[n].cutoff \in Nat
             /\ inbox'[n].route = inbox[n].route /\ inbox'[n].seq = inbox[n].seq
             /\ inbox[n].state \in Finished => inbox'[n].state \in Finished
             /\ inbox[n].route \in DOMAIN conv
             /\ inbox[n].route = r =>
                   inbox[n].seq < ConvOf(r).nextSeq /\ conv[r] = ConvOf(r)
             /\ inbox[n].route # r => conv'[inbox[n].route] = conv[inbox[n].route]
  BY DEF IngestFrame, OrderInv, Inv, SeqTotalOrder, TypeOK, Item, ItemStep, ConvOf
<1>3. KindsFit'
  BY <1>1 DEF IngestWork, OrderInv, KindsFit, Holding, Active
<1>4. WorkInOrder'
  <2> SUFFICES ASSUME NEW k \in DOMAIN inbox', NEW n \in DOMAIN inbox',
                      Started(k)', inbox'[n].kind = "prompt",
                      inbox'[n].route = inbox'[k].route, inbox'[n].seq < inbox'[k].seq
               PROVE  inbox'[n].state \in Finished
    BY DEF WorkInOrder
  <2>1. k \in DOMAIN inbox
    BY <1>1 DEF IngestWork, Started
  <2>2. n \in DOMAIN inbox
    BY <1>1, <1>2, <2>1
  <2>3. Started(k) /\ inbox[n].kind = "prompt"
    BY <2>1, <2>2 DEF IngestWork, Started, Active
  <2> QED BY <1>2, <2>1, <2>2, <2>3 DEF OrderInv, WorkInOrder
<1>5. StopsReach'
  <2> SUFFICES ASSUME NEW c \in DOMAIN inbox',
                      inbox'[c].kind = "stop", inbox'[c].state \in {"pending", "complete"}
               PROVE  /\ inbox'[c].cutoff < conv'[inbox'[c].route].nextSeq
                      /\ \A n \in DOMAIN inbox' :
                           inbox'[n].route = inbox'[c].route /\ inbox'[n].seq <= inbox'[c].cutoff
                           => /\ inbox'[n].state # "queued"
                              /\ inbox'[n].state = "admitting" =>
                                    inbox'[c].state = "pending" /\ inbox'[c].target = n
    BY DEF StopsReach
  <2>1. CASE c = m
    BY <1>1, <1>2, <2>1 DEF IngestWork, Active
  <2>2. CASE c \in DOMAIN inbox
    <3>1. /\ inbox[c].kind = "stop" /\ inbox[c].state \in {"pending", "complete"}
          /\ inbox'[c].state = inbox[c].state
          /\ inbox'[c].cutoff = inbox[c].cutoff /\ inbox'[c].target = inbox[c].target
      BY <2>2 DEF IngestWork
    <3>2. /\ inbox[c].cutoff < conv[inbox[c].route].nextSeq
          /\ \A n \in DOMAIN inbox :
               inbox[n].route = inbox[c].route /\ inbox[n].seq <= inbox[c].cutoff
               => /\ inbox[n].state # "queued"
                  /\ inbox[n].state = "admitting" =>
                        inbox[c].state = "pending" /\ inbox[c].target = n
      BY <2>2, <3>1 DEF OrderInv, StopsReach
    <3>3. inbox'[c].cutoff < conv'[inbox'[c].route].nextSeq
      BY <1>1, <1>2, <2>2, <3>1, <3>2
    <3>4. inbox[c].route = r => inbox[c].cutoff < inbox'[m].seq
      BY <1>1, <1>2, <2>2, <3>2
    <3>5. ASSUME NEW n \in DOMAIN inbox', inbox'[n].route = inbox'[c].route,
                 inbox'[n].seq <= inbox'[c].cutoff
          PROVE  /\ inbox'[n].state # "queued"
                 /\ inbox'[n].state = "admitting" =>
                       inbox'[c].state = "pending" /\ inbox'[c].target = n
      <4>1. n \in DOMAIN inbox
        BY <1>1, <1>2, <2>2, <3>1, <3>4, <3>5
      <4>2. inbox[n].state # "queued" /\
            (inbox[n].state = "admitting" => inbox[c].state = "pending" /\ inbox[c].target = n)
        BY <1>2, <2>2, <3>1, <3>2, <3>5, <4>1
      <4> QED BY <3>1, <4>1, <4>2 DEF IngestWork
    <3> QED BY <3>3, <3>5
  <2> QED BY <1>1, <2>1, <2>2
<1> QED BY <1>3, <1>4, <1>5 DEF OrderInv

(* Every step preserves it.                                                 *)
LEMMA NextOrder == OrderInv /\ [Next]_storeVars => OrderInv'
<1> SUFFICES ASSUME OrderInv, [Next]_storeVars PROVE OrderInv'
  OBVIOUS
<1>1. Inv /\ Inv'
  BY NextInv DEF OrderInv
<1>2. ASSUME inbox' = inbox, conv' = conv PROVE OrderInv'
  BY <1>1, <1>2 DEF OrderInv, KindsFit, WorkInOrder, Started, StopsReach
<1>3. CASE UNCHANGED storeVars
  BY <1>2, <1>3 DEF storeVars
<1>4. ASSUME NEW m \in Msgs, NEW r \in Routes, Ingest(m, r) PROVE OrderInv'
  BY <1>1, <1>4, IngestStepFrame, IngestStepWork, IngestOrder
<1>5. ASSUME NEW m \in DOMAIN inbox, InboxStep(m) PROVE OrderInv'
  BY <1>1, <1>5, InboxStepFrame, InboxStepWork, InboxStepOrder DEF OrderInv
<1>6. ASSUME NEW k \in DOMAIN deliveries, LaneStep(k) \/ ResolveStep(k) PROVE OrderInv'
  BY <1>1, <1>2, <1>6, RowStepFrame
<1> QED BY <1>3, <1>4, <1>5, <1>6 DEF Next

(* Prompts, receipts and stops fit together in every reachable state.       *)
LEMMA OrderInvariance == Spec => []OrderInv
<1>1. Init => OrderInv
  BY InitInv DEF Init, OrderInv, KindsFit, WorkInOrder, StopsReach
<1> QED BY <1>1, NextOrder, PTL DEF Spec

(* Prompts of a route start one at a time and in order, whatever the other  *)
(* routes, stops, crashes and redeliveries do in between.                   *)
THEOREM WorkOrderCorrect == Spec => []WorkInOrder
<1>1. OrderInv => WorkInOrder
  BY DEF OrderInv
<1> QED BY <1>1, OrderInvariance, PTL

(* A settled stop left nothing queued or in admission before its cutoff.    *)
THEOREM StopCorrect == Spec => []StopLeavesNothing
<1>1. OrderInv => StopLeavesNothing
  BY DEF OrderInv, StopsReach, StopLeavesNothing
<1> QED BY <1>1, OrderInvariance, PTL

-----------------------------------------------------------------------------
(* The delivery lane.                                                       *)

(* A row the platform may know of, or that waits for the operator because   *)
(* it does.                                                                 *)
Reached(row) == row.remote # NoRemote \/ row.op = "create_intent" \/ Blocked(row)

(* No lane is reopened behind such a row; before a run ends only its first  *)
(* chunk, the preview, is planned; nothing newer than the committed text is *)
(* ever wanted.                                                             *)
LaneReached ==
    \A j, k \in DOMAIN deliveries :
        /\ deliveries[j].route = deliveries[k].route /\ Before(j, k)
        /\ Reached(deliveries[k])
        => Resolved(deliveries[j])

PreviewOnly ==
    \A k \in DOMAIN deliveries :
        inbox[deliveries[k].inbox].state # "terminal" => k[2] = 0

DesiredKnown == \A k \in DOMAIN deliveries : deliveries[k].desired <= FinalRev

LaneInv == OrderInv /\ LaneReached /\ PreviewOnly /\ DesiredKnown /\ AnswerPlanned

(* What planning the rows of event m may do to the lane.                    *)
PlanMove(m) ==
    /\ \A k \in DOMAIN deliveries :
          /\ Reached(deliveries'[k]) => Reached(deliveries[k])
          /\ k[1] # inbox[m].run => deliveries'[k] = deliveries[k]
    /\ \A k \in DOMAIN deliveries' \ DOMAIN deliveries : ~Reached(deliveries'[k])
    /\ \A k \in DOMAIN deliveries' : deliveries'[k].desired <= FinalRev
    /\ inbox'[m].state # "terminal" =>
          \A k \in DOMAIN deliveries' \ DOMAIN deliveries : k[2] = 0
    /\ inbox'[m].state = "terminal" =>
          /\ <<inbox[m].run, 0>> \in DOMAIN deliveries'
          /\ deliveries'[<<inbox[m].run, 0>>].desired = FinalRev

(* Replanning a row does not make the platform know of it.                  *)
LEMMA ReplanMove ==
    ASSUME NEW row \in Row, NEW rev \in {PlaceholderRev, FinalRev}, row.desired <= FinalRev
    PROVE  /\ Reached(Replan(row, rev)) => Reached(row)
           /\ Replan(row, rev).desired <= FinalRev
           /\ rev = FinalRev => Replan(row, rev).desired = FinalRev
<1> USE DEF PlaceholderRev, FinalRev
<1> DEFINE op == IF row.remote = NoRemote THEN row.op ELSE "edit_pending"
           status == IF row.status = "acked" /\ row.acked # rev THEN "pending" ELSE row.status
           new == [row EXCEPT !.desired = rev, !.text = TRUE, !.op = op, !.status = status]
<1>1. Replan(row, rev) = IF row.desired > rev THEN row ELSE new
  BY DEF Replan
<1>2. /\ op = "create_intent" => row.op = "create_intent"
      /\ status \in {"failed", "ambiguous_create"} => status = row.status
  OBVIOUS
<1> HIDE DEF op, status
<1>3. /\ new.desired = rev /\ new.op = op /\ new.status = status /\ new.remote = row.remote
      /\ row.desired \in Nat
  BY DEF Row
<1> HIDE DEF new
<1>4. Reached(new) => Reached(row)
  BY <1>2, <1>3 DEF Reached, Blocked
<1> QED BY <1>1, <1>3, <1>4

(* planDeliveriesTx plans the preview of a run that goes on, and at least   *)
(* the first chunk of one that ended.                                       *)
LEMMA PlanMoves ==
    ASSUME LaneInv, NEW m \in DOMAIN inbox, NEW n \in Nat \ {0},
           NEW rev \in {PlaceholderRev, FinalRev},
           deliveries' = PlanDeliveries(inbox[m], m, n, rev),
           \/ rev = PlaceholderRev /\ n = 1 /\ inbox'[m].state # "terminal"
           \/ rev = FinalRev /\ inbox'[m].state = "terminal"
    PROVE  PlanMove(m)
<1> DEFINE planned == {inbox[m].run} \X (0 .. n - 1)
<1>1. /\ DOMAIN deliveries' = DOMAIN deliveries \cup planned
      /\ \A k \in DOMAIN deliveries' :
            deliveries'[k] = IF k \notin planned THEN deliveries[k]
                             ELSE IF k \in DOMAIN deliveries THEN Replan(deliveries[k], rev)
                             ELSE NewRow(inbox[m], m, rev)
  BY DEF PlanDeliveries
<1>2. \A k \in DOMAIN deliveries : deliveries[k] \in Row /\ deliveries[k].desired <= FinalRev
  BY DEF LaneInv, OrderInv, Inv, TypeOK, RowsOK, DesiredKnown
<1>3. /\ ~Reached(NewRow(inbox[m], m, rev)) /\ NewRow(inbox[m], m, rev).desired = rev
      /\ rev <= FinalRev
  BY DEF Reached, Blocked, NewRow, PlaceholderRev, FinalRev
<1>4. ASSUME NEW k \in DOMAIN deliveries
      PROVE  /\ Reached(deliveries'[k]) => Reached(deliveries[k])
             /\ k[1] # inbox[m].run => deliveries'[k] = deliveries[k]
             /\ deliveries'[k].desired <= FinalRev
             /\ k \in planned /\ rev = FinalRev => deliveries'[k].desired = FinalRev
  <2>1. CASE k \in planned
    BY <1>1, <1>2, <2>1, ReplanMove
  <2>2. CASE k \notin planned
    BY <1>1, <1>2, <2>2
  <2> QED BY <2>1, <2>2
<1>5. ASSUME NEW k \in DOMAIN deliveries' \ DOMAIN deliveries
      PROVE  /\ k \in planned /\ ~Reached(deliveries'[k])
             /\ deliveries'[k].desired = rev
  BY <1>1, <1>3
<1>6. <<inbox[m].run, 0>> \in planned
  OBVIOUS
<1>7. \A k \in planned : n = 1 => k[2] = 0
  OBVIOUS
<1> HIDE DEF planned
<1>8. \A k \in DOMAIN deliveries' : deliveries'[k].desired <= FinalRev
  BY <1>3, <1>4, <1>5
<1>9. CASE rev = PlaceholderRev /\ n = 1 /\ inbox'[m].state # "terminal"
  BY <1>4, <1>5, <1>7, <1>8, <1>9 DEF PlanMove
<1>10. CASE rev = FinalRev /\ inbox'[m].state = "terminal"
  <2>1. /\ <<inbox[m].run, 0>> \in DOMAIN deliveries'
        /\ deliveries'[<<inbox[m].run, 0>>].desired = FinalRev
    BY <1>1, <1>4, <1>5, <1>6, <1>10
  <2> QED BY <1>4, <1>5, <1>8, <1>10, <2>1 DEF PlanMove
<1> QED BY <1>9, <1>10

(* A transaction on an event ends a run only with the plan of its answer.   *)
LEMMA InboxStepLane ==
    ASSUME LaneInv, NEW m \in DOMAIN inbox, InboxStep(m)
    PROVE  \/ /\ UNCHANGED deliveries
              /\ \A n \in DOMAIN inbox :
                    inbox'[n].state = "terminal" => inbox[n].state = "terminal"
           \/ /\ inbox[m].state = "admitted" /\ inbox[m].run # NoRun
              /\ PlanStep(m) /\ PlanMove(m)
              /\ \A n \in DOMAIN inbox : n # m => inbox'[n] = inbox[n]
<1>0. Inv /\ KindsFit
  BY DEF LaneInv, OrderInv
<1>1. CASE PreviewRun(m)
  <2>1. /\ inbox[m].state = "admitted" /\ inbox[m].run # NoRun /\ inbox' = inbox
        /\ deliveries' = PlanDeliveries(inbox[m], m, 1, PlaceholderRev)
    BY <1>1 DEF PreviewRun, PlanPreview
  <2> QED BY <1>0, <2>1, PlanFrame, PlanMoves
<1>2. CASE FinishRun(m)
  <2>1. PICK n \in 1 .. MaxChunks : MarkTerminal(m, n)
    BY <1>2 DEF FinishRun
  <2>2. /\ inbox[m].state = "admitted" /\ inbox[m].run # NoRun
        /\ deliveries' = PlanDeliveries(inbox[m], m, n, FinalRev)
        /\ inbox' = [inbox EXCEPT ![m] = [inbox[m] EXCEPT !.state = "terminal",
                                                          !.content = FALSE]]
    BY <2>1 DEF MarkTerminal, SetItem
  <2>3. inbox[m] \in Item
    BY <1>0 DEF Inv, TypeOK
  <2>4. /\ \A o \in DOMAIN inbox : o # m => inbox'[o] = inbox[o]
        /\ inbox'[m].state = "terminal"
    BY <2>2, <2>3 DEF Item
  <2>5. n \in Nat \ {0}
    BY MaxChunksAssumption
  <2> QED BY <1>0, <2>2, <2>4, <2>5, PlanFrame, PlanMoves
<1>3. CASE ~PreviewRun(m) /\ ~FinishRun(m)
  <2>1. UNCHANGED deliveries
    BY <1>3 DEF InboxStep, StartAdmitting, RejectHistory, RejectAdmission, CountAttempt,
       IncrementAttempts, RecordReceipt, MarkAdmitted, CancelStale, SettleQueued,
       CancelQueuedUpTo, CancelTarget, CompleteStop, Transition
  <2>2. ASSUME NEW n \in DOMAIN inbox, inbox'[n].state = "terminal"
        PROVE  inbox[n].state = "terminal"
    <3>0. inbox[m] \in Item /\ inbox[n] \in Item
      BY <1>0 DEF Inv, TypeOK
    <3>1. CASE \/ StartAdmitting(m) \/ RejectHistory(m) \/ RejectAdmission(m) \/ CancelStale(m)
               \/ CancelTarget(m) \/ CompleteStop(m)
      BY <1>0, <2>2, <3>1, TransitionMoves
         DEF StartAdmitting, RejectHistory, RejectAdmission, CancelStale, CancelTarget,
             CompleteStop
    <3>2. CASE CountAttempt(m)
      BY <2>2, <3>0, <3>2 DEF CountAttempt, IncrementAttempts, SetItem, Item
    <3>3. ASSUME NEW run \in RunIds, RecordReceipt(m, run) PROVE inbox[n].state = "terminal"
      BY <2>2, <3>0, <3>3 DEF RecordReceipt, MarkAdmitted, SetItem, Item
    <3>4. CASE SettleQueued(m)
      BY <2>2, <3>0, <3>4 DEF SettleQueued, CancelQueuedUpTo, WithCanceled, Item
    <3> QED BY <1>3, <3>1, <3>2, <3>3, <3>4 DEF InboxStep
  <2> QED BY <2>1, <2>2
<1> QED BY <1>1, <1>2, <1>3

(* A delivery transaction reaches only the row that is next in its lane.    *)
LEMMA RowMoves ==
    ASSUME Inv, NEW k \in DOMAIN deliveries, LaneStep(k) \/ ResolveStep(k),
           NEW j \in DOMAIN deliveries
    PROVE  /\ deliveries'[j].desired = deliveries[j].desired
           /\ Reached(deliveries'[j]) => Reached(deliveries[j]) \/ IsNext(j)
<1> DEFINE row == deliveries[k]
           Goal == /\ deliveries'[j].desired = deliveries[j].desired
                   /\ Reached(deliveries'[j]) => Reached(deliveries[j]) \/ IsNext(j)
<1>1. row \in Row /\ deliveries \in [DOMAIN deliveries -> Row]
  BY DEF Inv, TypeOK, RowsOK
<1>2. ASSUME NEW new, SetRow(k, new), new.desired = row.desired,
             Reached(new) => Reached(row) \/ IsNext(k)
      PROVE  Goal
  BY <1>1, <1>2 DEF SetRow
<1>3. CASE LaneStep(k)
  <2>1. IsNext(k)
    BY <1>3 DEF LaneStep, IntendCreate, CanAttempt, InFlight, AtHead, CreateLanded,
       CreateUnknown, CreateRefused, EditLanded, EditRefused, GiveUp
  <2>2. PICK new : SetRow(k, new) /\ new.desired = row.desired
    <3>1. ASSUME NEW id, NEW rev PROVE AckedRow(row, id, rev).desired = row.desired
      BY <1>1 DEF AckedRow, Row
    <3>2. PlannedAgain(row).desired = row.desired
          /\ [PlannedAgain(row) EXCEPT !.attempts = @ + 1].desired = row.desired
      BY <1>1 DEF PlannedAgain, Row
    <3>3. \A nonce, attempts : [row EXCEPT !.op = "create_intent", !.nonce = nonce,
                                           !.attempts = attempts].desired = row.desired
      BY <1>1 DEF Row
    <3>4. \A status : [row EXCEPT !.status = status].desired = row.desired
      BY <1>1 DEF Row
    <3>5. CASE IntendCreate(k)
      <4>1. PICK fresh \in Nonces : MarkCreateIntent(k, fresh)
        BY <3>5 DEF IntendCreate
      <4> DEFINE nonce == IF row.nonce = NoNonce THEN fresh ELSE row.nonce
                 attempts == row.attempts + 1
      <4>2. SetRow(k, [row EXCEPT !.op = "create_intent", !.nonce = nonce,
                                  !.attempts = attempts])
        BY <4>1 DEF MarkCreateIntent
      <4> HIDE DEF nonce, attempts
      <4> QED BY <3>3, <4>2
    <3>6. CASE CreateLanded(k)
      BY <3>1, <3>6 DEF CreateLanded, MarkCreated
    <3>7. CASE EditLanded(k)
      BY <3>1, <3>7 DEF EditLanded, MarkEdited
    <3>8. CASE CreateRefused(k) \/ EditRefused(k)
      BY <3>2, <3>8 DEF CreateRefused, EditRefused, MarkRetryAt, MarkAttempt
    <3>9. CASE CreateUnknown(k) \/ GiveUp(k)
      BY <3>4, <3>9 DEF CreateUnknown, GiveUp, MarkAmbiguous, MarkFailed
    <3> QED BY <1>3, <3>5, <3>6, <3>7, <3>8, <3>9 DEF LaneStep
  <2> QED BY <1>2, <2>1, <2>2
<1>4. CASE ResolveStep(k)
  <2>1. Reached(row)
    BY <1>4 DEF ResolveStep, AssociateMessage, Resend, Reached
  <2>2. ASSUME NEW id, AssociateMessage(k, id) PROVE Goal
    <3> DEFINE new == [row EXCEPT !.remote = id, !.status = "pending",
                                  !.op = "edit_pending", !.attempts = 0]
    <3>1. SetRow(k, new) /\ new.desired = row.desired
      BY <1>1, <2>2 DEF AssociateMessage, Row
    <3> QED BY <1>2, <2>1, <3>1
  <2>3. ASSUME Resend(k) PROVE Goal
    <3> DEFINE op == IF row.remote = NoRemote THEN "planned" ELSE "edit_pending"
               new == [row EXCEPT !.status = "pending", !.op = op, !.nonce = NoNonce,
                                  !.attempts = 0]
    <3>1. SetRow(k, new)
      BY <2>3 DEF Resend
    <3> HIDE DEF op
    <3>2. new.desired = row.desired
      BY <1>1 DEF Row
    <3> QED BY <1>2, <2>1, <3>1, <3>2
  <2> QED BY <1>4, <2>2, <2>3 DEF ResolveStep
<1> QED BY <1>3, <1>4

-----------------------------------------------------------------------------
(* The inductive invariant of the lane.                                     *)

(* The rows of an admitted event are the last ones its lane has reached:    *)
(* whatever comes after it belongs to a prompt that has not started.        *)
LEMMA AdmittedIsLast ==
    ASSUME LaneInv, NEW m \in DOMAIN inbox, inbox[m].state = "admitted",
           NEW k \in DOMAIN deliveries, deliveries[k].route = inbox[m].route
    PROVE  /\ deliveries[k].seq <= inbox[m].seq
           /\ deliveries[k].seq = inbox[m].seq => k[1] = inbox[m].run /\ k[2] = 0
<1> DEFINE o == deliveries[k].inbox
<1>1. /\ o \in DOMAIN inbox /\ inbox[o].run = k[1] /\ inbox[o].run # NoRun
      /\ inbox[o].route = inbox[m].route /\ inbox[o].seq = deliveries[k].seq
      /\ inbox[o].seq \in Nat /\ inbox[m].seq \in Nat
  BY NoneAssumption DEF LaneInv, OrderInv, Inv, RowsBelong, TypeOK, RowsOK, RowKeys, Item
<1> HIDE DEF o
<1>2. Started(o) /\ inbox[m].kind = "prompt"
  BY <1>1 DEF LaneInv, OrderInv, KindsFit, Started, Holding, Active
<1>3. ~(inbox[m].seq < inbox[o].seq)
  BY <1>1, <1>2 DEF LaneInv, OrderInv, WorkInOrder, Finished
<1>4. inbox[o].seq = inbox[m].seq => o = m
  BY <1>1 DEF LaneInv, OrderInv, Inv, SeqTotalOrder
<1>5. o = m => k[2] = 0
  BY DEF LaneInv, PreviewOnly, o
<1> QED BY <1>1, <1>3, <1>4, <1>5

(* Every transaction on an event preserves it: the rows a plan inserts or   *)
(* reopens are those of an admitted event, and nothing after them has been  *)
(* reached.                                                                 *)
LEMMA InboxStepLaneInv ==
    ASSUME LaneInv, OrderInv', NEW m \in DOMAIN inbox, InboxStep(m)
    PROVE  LaneInv'
<1>0. /\ Inv /\ OrderInv /\ DOMAIN inbox' = DOMAIN inbox
      /\ \A n \in DOMAIN inbox : ItemStep(n)
  BY InboxStepFrame DEF InboxFrame, LaneInv, OrderInv
<1>1. ASSUME NEW n \in DOMAIN inbox, inbox[n].state = "terminal"
      PROVE  inbox'[n].state = "terminal" /\ inbox'[n].run = inbox[n].run
  BY <1>0, <1>1 DEF ItemStep, Finished
<1>2. CASE /\ UNCHANGED deliveries
           /\ \A n \in DOMAIN inbox : inbox'[n].state = "terminal" => inbox[n].state = "terminal"
  <2>1. LaneReached' /\ DesiredKnown'
    BY <1>2 DEF LaneInv, LaneReached, DesiredKnown, Before
  <2>2. PreviewOnly'
    BY <1>0, <1>1, <1>2 DEF LaneInv, PreviewOnly, Inv, RowsBelong
  <2>3. AnswerPlanned'
    BY <1>0, <1>1, <1>2 DEF LaneInv, AnswerPlanned
  <2> QED BY <2>1, <2>2, <2>3 DEF LaneInv
<1>3. CASE /\ inbox[m].state = "admitted" /\ inbox[m].run # NoRun
           /\ PlanStep(m) /\ PlanMove(m)
           /\ \A n \in DOMAIN inbox : n # m => inbox'[n] = inbox[n]
  <2>1. DOMAIN deliveries \subseteq DOMAIN deliveries'
    BY <1>3 DEF PlanStep
  <2>2. ASSUME NEW k \in DOMAIN deliveries
        PROVE  /\ deliveries'[k].route = deliveries[k].route
               /\ deliveries'[k].seq = deliveries[k].seq
               /\ deliveries'[k].inbox = deliveries[k].inbox
               /\ Reached(deliveries'[k]) => Reached(deliveries[k])
               /\ k[1] # inbox[m].run => deliveries'[k] = deliveries[k]
               /\ k[1] = inbox[m].run =>
                    /\ deliveries[k].inbox = m /\ deliveries[k].route = inbox[m].route
                    /\ deliveries[k].seq = inbox[m].seq
    BY <1>0, <1>3 DEF PlanStep, RowStep, PlanMove, Inv, RowsBelong
  <2>3. ASSUME NEW k \in DOMAIN deliveries' \ DOMAIN deliveries
        PROVE  /\ deliveries'[k].inbox = m /\ deliveries'[k].route = inbox[m].route
               /\ deliveries'[k].seq = inbox[m].seq /\ k[1] = inbox[m].run
               /\ ~Reached(deliveries'[k])
    BY <1>3 DEF PlanStep, PlanMove
  <2>4. DesiredKnown'
    BY <1>3 DEF PlanMove, DesiredKnown
  <2>5. PreviewOnly'
    <3> SUFFICES ASSUME NEW k \in DOMAIN deliveries',
                        inbox'[deliveries'[k].inbox].state # "terminal"
                 PROVE  k[2] = 0
      BY DEF PreviewOnly
    <3>1. CASE k \in DOMAIN deliveries
      <4>1. deliveries'[k].inbox = deliveries[k].inbox /\ deliveries[k].inbox \in DOMAIN inbox
        BY <1>0, <2>2, <3>1 DEF Inv, RowsBelong
      <4>2. inbox[deliveries[k].inbox].state # "terminal"
        BY <1>1, <4>1
      <4> QED BY <3>1, <4>2 DEF LaneInv, PreviewOnly
    <3>2. CASE k \notin DOMAIN deliveries
      BY <1>3, <2>3, <3>2 DEF PlanMove
    <3> QED BY <3>1, <3>2
  <2>6. AnswerPlanned'
    <3> SUFFICES ASSUME NEW n \in DOMAIN inbox, inbox'[n].state = "terminal"
                 PROVE  /\ <<inbox'[n].run, 0>> \in DOMAIN deliveries'
                        /\ deliveries'[<<inbox'[n].run, 0>>].desired = FinalRev
      BY <1>0 DEF AnswerPlanned
    <3>1. CASE n = m
      <4>1. inbox'[m].run = inbox[m].run
        BY <1>0, <1>3 DEF ItemStep
      <4> QED BY <1>3, <3>1, <4>1 DEF PlanMove
    <3>2. CASE n # m
      <4> DEFINE k == <<inbox[n].run, 0>>
      <4>1. inbox'[n] = inbox[n]
        BY <1>3, <3>2
      <4>2. k \in DOMAIN deliveries /\ deliveries[k].desired = FinalRev
        BY <4>1 DEF LaneInv, AnswerPlanned
      <4> HIDE DEF k
      <4>3. deliveries'[k].desired >= FinalRev /\ deliveries'[k].desired <= FinalRev
        BY <1>3, <2>1, <4>2 DEF PlanStep, RowStep, PlanMove
      <4>4. deliveries'[k].desired \in Nat /\ FinalRev \in Nat
        BY <2>1, <4>2 DEF FinalRev, OrderInv, Inv, TypeOK, RowsOK, Row
      <4>5. deliveries'[k].desired = FinalRev
        BY <4>3, <4>4
      <4> QED BY <2>1, <4>1, <4>2, <4>5 DEF k
    <3> QED BY <3>1, <3>2
  <2>7. LaneReached'
    <3> SUFFICES ASSUME NEW j \in DOMAIN deliveries', NEW k \in DOMAIN deliveries',
                        deliveries'[j].route = deliveries'[k].route, Before(j, k)',
                        Reached(deliveries'[k])
                 PROVE  Resolved(deliveries'[j])
      BY DEF LaneReached
    <3>1. k \in DOMAIN deliveries /\ Reached(deliveries[k])
      BY <2>2, <2>3
    <3>2. CASE j \in DOMAIN deliveries /\ j[1] # inbox[m].run
      BY <2>2, <3>1, <3>2 DEF LaneInv, LaneReached, Before
    <3>3. CASE j \notin DOMAIN deliveries \/ j[1] = inbox[m].run
      <4>1. deliveries'[j].route = inbox[m].route /\ deliveries'[j].seq = inbox[m].seq
        BY <2>2, <2>3, <3>3
      <4>2. deliveries[k].route = inbox[m].route /\ deliveries'[k].seq = deliveries[k].seq
        BY <2>2, <3>1, <4>1
      <4>3. /\ deliveries[k].seq <= inbox[m].seq
            /\ deliveries[k].seq = inbox[m].seq => k[2] = 0
        BY <1>3, <3>1, <4>2, AdmittedIsLast
      <4>4. deliveries[k].seq \in Nat /\ inbox[m].seq \in Nat /\ j[2] \in Nat
        BY <1>0, <3>1 DEF OrderInv, Inv, TypeOK, RowsOK, Row, Item, RowKeys, Chunks
      <4> QED BY <4>1, <4>2, <4>3, <4>4 DEF Before
    <3> QED BY <3>2, <3>3
  <2> QED BY <2>4, <2>5, <2>6, <2>7 DEF LaneInv
<1> QED BY <1>2, <1>3, InboxStepLane

(* Every step preserves it.                                                 *)
LEMMA NextLane == LaneInv /\ [Next]_storeVars => LaneInv'
<1> SUFFICES ASSUME LaneInv, [Next]_storeVars PROVE LaneInv'
  OBVIOUS
<1>1. Inv /\ OrderInv /\ OrderInv'
  BY NextOrder DEF LaneInv, OrderInv
<1>2. CASE UNCHANGED storeVars
  BY <1>1, <1>2 DEF storeVars, LaneInv, LaneReached, Before, PreviewOnly, DesiredKnown,
                    AnswerPlanned
<1>3. ASSUME NEW m \in Msgs, NEW r \in Routes, Ingest(m, r) PROVE LaneInv'
  <2>1. IngestFrame(m, r) /\ IngestWork(m, r)
    BY <1>1, <1>3, IngestStepFrame, IngestStepWork
  <2>2. /\ UNCHANGED deliveries /\ DOMAIN inbox' = DOMAIN inbox \cup {m}
        /\ m \notin DOMAIN inbox
        /\ inbox'[m].state # "terminal"
    BY <2>1 DEF IngestFrame, IngestWork
  <2>3. \A n \in DOMAIN inbox :
           /\ inbox'[n].state = "terminal" <=> inbox[n].state = "terminal"
           /\ inbox'[n].run = inbox[n].run
    BY <2>1 DEF IngestWork, Rests, Dropped
  <2>4. LaneReached' /\ DesiredKnown'
    BY <2>2 DEF LaneInv, LaneReached, DesiredKnown, Before
  <2>5. PreviewOnly'
    BY <1>1, <2>2, <2>3 DEF LaneInv, PreviewOnly, Inv, RowsBelong
  <2>6. AnswerPlanned'
    BY <2>2, <2>3 DEF LaneInv, AnswerPlanned
  <2> QED BY <1>1, <2>4, <2>5, <2>6 DEF LaneInv
<1>4. ASSUME NEW m \in DOMAIN inbox, InboxStep(m) PROVE LaneInv'
  BY <1>1, <1>4, InboxStepLaneInv
<1>5. ASSUME NEW k \in DOMAIN deliveries, LaneStep(k) \/ ResolveStep(k) PROVE LaneInv'
  <2>1. /\ UNCHANGED <<conv, inbox>> /\ DOMAIN deliveries' = DOMAIN deliveries
        /\ \A j \in DOMAIN deliveries : RowStep(j, FALSE)
    BY <1>1, <1>5, RowStepFrame
  <2>2. \A j \in DOMAIN deliveries :
           /\ deliveries'[j].desired = deliveries[j].desired
           /\ Reached(deliveries'[j]) => Reached(deliveries[j]) \/ IsNext(j)
    BY <1>1, <1>5, RowMoves
  <2>3. LaneReached'
    <3> SUFFICES ASSUME NEW i \in DOMAIN deliveries, NEW j \in DOMAIN deliveries,
                        deliveries[i].route = deliveries[j].route, Before(i, j),
                        Reached(deliveries'[j])
                 PROVE  Resolved(deliveries[i])
      BY <2>1 DEF LaneReached, Before, RowStep
    <3>1. CASE Reached(deliveries[j])
      BY <3>1 DEF LaneInv, LaneReached
    <3>2. CASE IsNext(j)
      BY <3>2 DEF IsNext, Unresolved
    <3> QED BY <2>2, <3>1, <3>2
  <2>4. PreviewOnly' /\ DesiredKnown' /\ AnswerPlanned'
    BY <2>1, <2>2 DEF LaneInv, PreviewOnly, DesiredKnown, AnswerPlanned, RowStep
  <2> QED BY <1>1, <2>3, <2>4 DEF LaneInv
<1> QED BY <1>2, <1>3, <1>4, <1>5 DEF Next

(* It holds in every reachable state.                                       *)
LEMMA LaneInvariance == Spec => []LaneInv
<1>1. Init => LaneInv
  BY InitInv DEF Init, LaneInv, OrderInv, KindsFit, WorkInOrder, StopsReach, LaneReached,
                 PreviewOnly, DesiredKnown, AnswerPlanned
<1> QED BY <1>1, NextLane, PTL DEF Spec

(* A run never ends without its answer: chunk 0 wants the committed text.   *)
THEOREM AnswerCorrect == Spec => []AnswerPlanned
<1>1. LaneInv => AnswerPlanned
  BY DEF LaneInv
<1> QED BY <1>1, LaneInvariance, PTL

(* Messages appear in lane order, operator and replanned rows included.     *)
THEOREM LaneCorrect == Spec => []LaneInOrder
<1>1. LaneInv => LaneInOrder
  BY DEF LaneInv, LaneReached, LaneInOrder, Reached
<1> QED BY <1>1, LaneInvariance, PTL

-----------------------------------------------------------------------------
(* The bounds of the queue.                                                 *)

CapacityInv == OrderInv /\ CapacityHeld /\ IsFiniteSet(DOMAIN inbox)

(* An event is queued only by admitPrompt, below both limits.               *)
LEMMA QueuedBelowLimits ==
    ASSUME OrderInv, NEW m \in Msgs, NEW r \in Routes, Ingest(m, r),
           inbox'[m].state = "queued"
    PROVE  ~OverCapacity(r)
<1>1. ASSUME NEW table, NEW item, Insert(m, r, table, item), item.state # "queued" PROVE FALSE
  BY <1>1 DEF Insert, WithRow
<1>2. ASSUME NEW kind, NEW state, Insert(m, r, inbox, Arrived(r, kind, state)),
             state # "queued"
      PROVE  FALSE
  BY <1>1, <1>2 DEF Arrived
<1>3. CASE \/ \E kind \in Kinds \ {"help"} : IngestRejected(m, r, kind)
           \/ IngestHelp(m, r)
  BY <1>2, <1>3 DEF IngestRejected, IngestHelp
<1>4. CASE IngestPrompt(m, r)
  BY <1>2, <1>4 DEF IngestPrompt
<1>5. CASE IngestNew(m, r) \/ IngestStop(m, r)
  <2>1. inbox'[m].kind # "prompt"
    <3>1. ASSUME NEW table, NEW item, Insert(m, r, table, item) PROVE inbox'[m] = item
      BY <3>1 DEF Insert, WithRow
    <3>2. ASSUME NEW cutoff, NEW target PROVE StopRow(r, target, cutoff).kind # "prompt"
      BY DEF StopRow, Arrived
    <3>3. ASSUME NEW gen
          PROVE  /\ [Arrived(r, "new", "complete") EXCEPT !.gen = gen].kind # "prompt"
                 /\ Arrived(r, "new", "rejected").kind # "prompt"
      BY DEF Arrived
    <3> QED BY <1>5, <3>1, <3>2, <3>3 DEF IngestNew, IngestStop
  <2> QED BY <2>1, IngestStepWork DEF IngestWork
<1> QED BY <1>3, <1>4, <1>5 DEF Ingest

(* A set that grows by at most one member counts at most one more.          *)
LEMMA OneMore ==
    ASSUME NEW S, NEW T, NEW x, IsFiniteSet(S), T \subseteq S \cup {x}
    PROVE  IsFiniteSet(T) /\ Cardinality(T) \in Nat /\ Cardinality(T) <= Cardinality(S) + 1
<1>1. /\ IsFiniteSet(S \cup {x}) /\ Cardinality(S) \in Nat
      /\ Cardinality(S \cup {x}) <= Cardinality(S) + 1
  <2>1. Cardinality(S) \in Nat
    BY FS_CardinalityType
  <2>2. /\ IsFiniteSet(S \cup {x})
        /\ Cardinality(S \cup {x}) = IF x \in S THEN Cardinality(S) ELSE Cardinality(S) + 1
    BY FS_AddElement
  <2> QED BY <2>1, <2>2
<1>2. IsFiniteSet(T) /\ Cardinality(T) <= Cardinality(S \cup {x})
  BY <1>1, FS_Subset
<1>3. Cardinality(T) \in Nat /\ Cardinality(S \cup {x}) \in Nat
  BY <1>1, <1>2, FS_CardinalityType
<1> QED BY <1>1, <1>2, <1>3

(* Recording an event takes at most the place that was free.                *)
LEMMA IngestCapacity ==
    ASSUME CapacityInv, OrderInv', NEW m \in Msgs, NEW r \in Routes, Ingest(m, r)
    PROVE  CapacityInv'
<1>1. IngestFrame(m, r) /\ IngestWork(m, r)
  BY IngestStepFrame, IngestStepWork DEF CapacityInv, OrderInv
<1>2. /\ DOMAIN inbox' = DOMAIN inbox \cup {m} /\ m \notin DOMAIN inbox /\ inbox'[m].route = r
      /\ inbox'[m].state \in Holding => inbox'[m].state = "queued"
      /\ \A n \in DOMAIN inbox :
           /\ inbox'[n].route = inbox[n].route
           /\ inbox'[n].state \in Holding => inbox'[n].state = inbox[n].state
  BY <1>1 DEF IngestFrame, IngestWork, ItemStep, Rests, Dropped, Holding, Active
<1>3. IsFiniteSet(DOMAIN inbox)'
  BY <1>2, FS_AddElement DEF CapacityInv
<1>4. /\ MaxQueuedPerRoute \in Nat /\ MaxPendingGlobal \in Nat
      /\ \A q, S : IsFiniteSet(ItemsIn(q, S)) /\ Cardinality(ItemsIn(q, S)) \in Nat
      /\ \A S : IsFiniteSet(AllIn(S)) /\ Cardinality(AllIn(S)) \in Nat
  <2>1. \A q, S : ItemsIn(q, S) \subseteq DOMAIN inbox /\ AllIn(S) \subseteq DOMAIN inbox
    BY DEF ItemsIn, AllIn
  <2> QED BY <2>1, LimitsAssumption, FS_Subset, FS_CardinalityType DEF CapacityInv
<1>5. ASSUME NEW q \in Routes
      PROVE  Cardinality(ItemsIn(q, Holding)') <= MaxQueuedPerRoute + 1
  <2>1. CASE inbox'[m].state = "queued" /\ q = r
    <3>1. ItemsIn(r, Holding)' \subseteq ItemsIn(r, Holding) \cup {m}
      BY <1>2 DEF ItemsIn
    <3>2. Cardinality(ItemsIn(r, Holding)) <= MaxQueuedPerRoute
      <4>1. ~OverCapacity(r)
        BY <2>1, QueuedBelowLimits DEF CapacityInv
      <4>2. ~(Cardinality(ItemsIn(r, Holding)) > MaxQueuedPerRoute)
        BY <4>1 DEF OverCapacity, Holding
      <4>3. Cardinality(ItemsIn(r, Holding)) \in Nat
        BY <1>4
      <4> QED BY <1>4, <4>2, <4>3
    <3>3. /\ Cardinality(ItemsIn(r, Holding)') \in Nat
          /\ Cardinality(ItemsIn(r, Holding)') <= Cardinality(ItemsIn(r, Holding)) + 1
      <4>1. IsFiniteSet(ItemsIn(r, Holding))
        BY <1>4
      <4> QED BY <3>1, <4>1, OneMore
    <3> QED BY <1>4, <2>1, <3>2, <3>3
  <2>2. CASE inbox'[m].state # "queued" \/ q # r
    <3>1. ItemsIn(q, Holding)' \subseteq ItemsIn(q, Holding)
      BY <1>2, <2>2 DEF ItemsIn
    <3>2. /\ Cardinality(ItemsIn(q, Holding)') <= Cardinality(ItemsIn(q, Holding))
          /\ Cardinality(ItemsIn(q, Holding)') \in Nat
      BY <1>4, <3>1, FS_Subset, FS_CardinalityType
    <3>3. Cardinality(ItemsIn(q, Holding)) <= MaxQueuedPerRoute + 1
      BY DEF CapacityInv, CapacityHeld, Holding
    <3> QED BY <1>4, <3>2, <3>3
  <2> QED BY <2>1, <2>2
<1>6. Cardinality(AllIn({"queued"})') <= MaxPendingGlobal
  <2>1. CASE inbox'[m].state = "queued"
    <3> DEFINE S == AllIn({"queued", "pending"})
    <3>1. AllIn({"queued"})' \subseteq AllIn({"queued"}) \cup {m}
      BY <1>2 DEF AllIn, Holding
    <3>2. Cardinality(S) < MaxPendingGlobal
      BY <1>4, <2>1, QueuedBelowLimits DEF OverCapacity, CapacityInv
    <3>3. Cardinality(AllIn({"queued"})) <= Cardinality(S)
      <4>1. AllIn({"queued"}) \subseteq S
        BY DEF AllIn
      <4> QED BY <1>4, <4>1, FS_Subset
    <3>4. /\ Cardinality(AllIn({"queued"})') \in Nat
          /\ Cardinality(AllIn({"queued"})') <= Cardinality(AllIn({"queued"})) + 1
      BY <1>4, <3>1, OneMore
    <3>5. Cardinality(S) \in Nat /\ Cardinality(AllIn({"queued"})) \in Nat
      BY <1>4
    <3> HIDE DEF S
    <3> QED BY <1>4, <3>2, <3>3, <3>4, <3>5
  <2>2. CASE inbox'[m].state # "queued"
    <3>1. AllIn({"queued"})' \subseteq AllIn({"queued"})
      BY <1>2, <2>2 DEF AllIn, Holding
    <3>2. /\ Cardinality(AllIn({"queued"})') <= Cardinality(AllIn({"queued"}))
          /\ Cardinality(AllIn({"queued"})') \in Nat
      BY <1>4, <3>1, FS_Subset, FS_CardinalityType
    <3>3. Cardinality(AllIn({"queued"})) <= MaxPendingGlobal
      BY DEF CapacityInv, CapacityHeld
    <3> QED BY <1>4, <3>2, <3>3
  <2> QED BY <2>1, <2>2
<1> QED BY <1>3, <1>5, <1>6 DEF CapacityInv, CapacityHeld, Holding

(* No transaction on an existing event takes a place.                       *)
LEMMA InboxStepCapacity ==
    ASSUME CapacityInv, OrderInv', DOMAIN inbox' = DOMAIN inbox,
           \A n \in DOMAIN inbox :
              /\ inbox'[n].route = inbox[n].route
              /\ inbox'[n].state \in Holding => inbox[n].state \in Holding
              /\ inbox'[n].state = "queued" => inbox[n].state = "queued"
    PROVE  CapacityInv'
<1>1. /\ \A q, S : IsFiniteSet(ItemsIn(q, S)) /\ Cardinality(ItemsIn(q, S)) \in Nat
      /\ \A S : IsFiniteSet(AllIn(S)) /\ Cardinality(AllIn(S)) \in Nat
  <2>1. \A q, S : ItemsIn(q, S) \subseteq DOMAIN inbox /\ AllIn(S) \subseteq DOMAIN inbox
    BY DEF ItemsIn, AllIn
  <2> QED BY <2>1, FS_Subset, FS_CardinalityType DEF CapacityInv
<1>2. ASSUME NEW S, NEW T, IsFiniteSet(S), T \subseteq S, NEW limit \in Nat,
             Cardinality(S) <= limit
      PROVE  Cardinality(T) <= limit
  <2>1. Cardinality(T) \in Nat /\ Cardinality(S) \in Nat /\ Cardinality(T) <= Cardinality(S)
    BY <1>2, FS_Subset, FS_CardinalityType
  <2> QED BY <1>2, <2>1
<1>3. ASSUME NEW q \in Routes
      PROVE  Cardinality(ItemsIn(q, Holding)') <= MaxQueuedPerRoute + 1
  <2>1. ItemsIn(q, Holding)' \subseteq ItemsIn(q, Holding)
    BY DEF ItemsIn
  <2>2. Cardinality(ItemsIn(q, Holding)) <= MaxQueuedPerRoute + 1
    BY DEF CapacityInv, CapacityHeld, Holding
  <2>3. MaxQueuedPerRoute + 1 \in Nat
    BY LimitsAssumption
  <2> QED BY <1>1, <1>2, <2>1, <2>2, <2>3
<1>4. Cardinality(AllIn({"queued"})') <= MaxPendingGlobal
  <2>1. AllIn({"queued"})' \subseteq AllIn({"queued"})
    BY DEF AllIn
  <2>2. Cardinality(AllIn({"queued"})) <= MaxPendingGlobal /\ MaxPendingGlobal \in Nat
    BY LimitsAssumption DEF CapacityInv, CapacityHeld
  <2> QED BY <1>1, <1>2, <2>1, <2>2
<1>5. IsFiniteSet(DOMAIN inbox)'
  BY DEF CapacityInv
<1> QED BY <1>3, <1>4, <1>5 DEF CapacityInv, CapacityHeld, Holding

(* The queue bounds hold whatever is ingested between the transactions of   *)
(* the routes.                                                              *)
THEOREM CapacityCorrect == Spec => []CapacityHeld
<1>1. Init => CapacityInv
  <2> SUFFICES ASSUME Init PROVE CapacityInv
    OBVIOUS
  <2>1. DOMAIN inbox = {} /\ OrderInv
    BY InitInv DEF Init, OrderInv, KindsFit, WorkInOrder, StopsReach
  <2>2. \A r, S : ItemsIn(r, S) = {} /\ AllIn(S) = {}
    BY <2>1 DEF ItemsIn, AllIn
  <2>3. IsFiniteSet({}) /\ Cardinality({}) = 0
    BY FS_EmptySet
  <2>4. CapacityHeld
    BY <2>2, <2>3, LimitsAssumption DEF CapacityHeld
  <2> QED BY <2>1, <2>3, <2>4 DEF CapacityInv
<1>2. CapacityInv /\ [Next]_storeVars => CapacityInv'
  <2> SUFFICES ASSUME CapacityInv, [Next]_storeVars PROVE CapacityInv'
    OBVIOUS
  <2>1. OrderInv /\ Inv /\ KindsFit /\ OrderInv'
    BY NextOrder DEF CapacityInv, OrderInv
  <2>2. CASE inbox' = inbox
    BY <2>1, <2>2, InboxStepCapacity
  <2>3. ASSUME NEW m \in Msgs, NEW r \in Routes, Ingest(m, r) PROVE CapacityInv'
    BY <2>1, <2>3, IngestCapacity
  <2>4. ASSUME NEW m \in DOMAIN inbox, InboxStep(m) PROVE CapacityInv'
    <3>1. DOMAIN inbox' = DOMAIN inbox /\ \A n \in DOMAIN inbox : ItemStep(n) /\ WorkStep(n)
      BY <2>1, <2>4, InboxStepFrame, InboxStepWork DEF InboxFrame
    <3> QED BY <2>1, <3>1, InboxStepCapacity
            DEF ItemStep, WorkStep, Rests, TakenUp, Dropped, Admitted, Ran, Settled,
                Holding, Active
  <2>5. ASSUME NEW k \in DOMAIN deliveries, LaneStep(k) \/ ResolveStep(k) PROVE CapacityInv'
    BY <2>1, <2>2, <2>5, RowStepFrame
  <2> QED BY <2>2, <2>3, <2>4, <2>5 DEF Next, storeVars
<1>3. CapacityInv => CapacityHeld
  BY DEF CapacityInv
<1> QED BY <1>1, <1>2, <1>3, PTL DEF Spec

-----------------------------------------------------------------------------
(* The host database keeps what Conversation promises.  A prompt's place is *)
(* its route and number; its phase is what its state means to the user.     *)

(* What the refinement mapping is made of.                                  *)
LEMMA Mapping ==
    ASSUME Inv, KindsFit
    PROVE  /\ DOMAIN Places = Asked /\ DOMAIN Phases = Asked /\ Asked \subseteq Msgs
           /\ \A m \in Asked :
                /\ Places[m].route = inbox[m].route /\ Places[m].seq = inbox[m].seq
                /\ inbox[m].state \in {"queued", "admitting", "admitted", "terminal",
                                       "rejected", "canceled"}
                /\ Phases[m] = "waiting" <=> inbox[m].state = "queued"
                /\ Phases[m] = "answering" <=> inbox[m].state \in Active
<1>1. \A m \in Asked : inbox[m].state \in {"queued", "admitting", "admitted", "terminal",
                                           "rejected", "canceled"}
  BY DEF Asked, KindsFit, Holding, Active
<1>2. Asked \subseteq Msgs
  BY DEF Asked, Inv, TypeOK
<1>3. \A m \in Asked : Phases[m] = PhaseOf[inbox[m].state]
  BY DEF Phases
<1>4. \A m \in Asked : /\ Phases[m] = "waiting" <=> inbox[m].state = "queued"
                       /\ Phases[m] = "answering" <=> inbox[m].state \in Active
  BY <1>1, <1>3 DEF PhaseOf, Active
<1> QED BY <1>1, <1>2, <1>4 DEF Places, Phases

(* A transaction that moves the prompts of S to one phase, and no other.    *)
LEMMA Becomes ==
    ASSUME NEW S, NEW to, DOMAIN inbox' = DOMAIN inbox,
           \A n \in DOMAIN inbox :
              /\ inbox'[n].route = inbox[n].route /\ inbox'[n].seq = inbox[n].seq
              /\ inbox'[n].kind = inbox[n].kind
              /\ n \in Asked \cap S => PhaseOf[inbox'[n].state] = to
              /\ n \in Asked \ S => PhaseOf[inbox'[n].state] = PhaseOf[inbox[n].state]
    PROVE  Talk!Become(S, to)
<1>1. Asked' = Asked
  BY DEF Asked
<1>2. Places' = Places
  <2>1. \A n \in Asked : inbox'[n].route = inbox[n].route /\ inbox'[n].seq = inbox[n].seq
    BY DEF Asked
  <2> QED BY <1>1, <2>1 DEF Places
<1>3. Phases' = [n \in DOMAIN Phases |-> IF n \in S THEN to ELSE Phases[n]]
  <2>1. \A n \in Asked :
           PhaseOf[inbox'[n].state] = IF n \in S THEN to ELSE PhaseOf[inbox[n].state]
    BY DEF Asked
  <2>2. DOMAIN Phases = Asked /\ \A n \in Asked : Phases[n] = PhaseOf[inbox[n].state]
    BY DEF Phases
  <2>3. Phases' = [n \in Asked |-> PhaseOf[inbox'[n].state]]
    BY <1>1 DEF Phases
  <2> QED BY <2>1, <2>2, <2>3
<1> QED BY <1>2, <1>3 DEF Talk!Become

(* One that moves no prompt to another phase is invisible to the users.     *)
LEMMA Invisible ==
    ASSUME DOMAIN inbox' = DOMAIN inbox,
           \A n \in DOMAIN inbox :
              /\ inbox'[n].route = inbox[n].route /\ inbox'[n].seq = inbox[n].seq
              /\ inbox'[n].kind = inbox[n].kind
              /\ n \in Asked => PhaseOf[inbox'[n].state] = PhaseOf[inbox[n].state]
    PROVE  UNCHANGED Talk!vars
<1>1. Asked' = Asked
  BY DEF Asked
<1>2. Places' = Places
  <2>1. \A n \in Asked : inbox'[n].route = inbox[n].route /\ inbox'[n].seq = inbox[n].seq
    BY DEF Asked
  <2> QED BY <1>1, <2>1 DEF Places
<1>3. Phases' = Phases
  <2>1. \A n \in Asked : PhaseOf[inbox'[n].state] = PhaseOf[inbox[n].state]
    BY DEF Asked
  <2> QED BY <1>1, <2>1 DEF Phases
<1> QED BY <1>2, <1>3 DEF Talk!vars

(* Canceling the queued prompts of a route withdraws them.                  *)
LEMMA CanceledTalk ==
    ASSUME OrderInv, NEW r, NEW cutoff
    PROVE  LET S == CanceledUpTo(r, cutoff)
           IN  /\ S \in SUBSET DOMAIN Phases
               /\ \A p \in S : Phases[p] = "waiting"
               /\ \A p, q \in S : Places[p].route = Places[q].route
<1>1. \A p \in CanceledUpTo(r, cutoff) :
         p \in Asked /\ inbox[p].state = "queued" /\ inbox[p].route = r
  BY DEF CanceledUpTo, ItemsIn, Asked
<1> QED BY <1>1, Mapping DEF OrderInv

(* What canceling does to each event.                                       *)
LEMMA WithCanceledMoves ==
    ASSUME Inv, NEW S, NEW n \in DOMAIN inbox
    PROVE  LET row == WithCanceled(S)[n]
           IN  /\ row.route = inbox[n].route /\ row.seq = inbox[n].seq
               /\ row.kind = inbox[n].kind
               /\ n \in S => PhaseOf[row.state] = "withdrawn"
               /\ n \notin S => row = inbox[n]
<1>1. inbox[n] \in Item
  BY DEF Inv, TypeOK
<1>2. CASE n \in S
  <2>1. WithCanceled(S)[n] = [inbox[n] EXCEPT !.state = "canceled", !.content = FALSE]
    BY <1>2 DEF WithCanceled
  <2>2. PhaseOf["canceled"] = "withdrawn"
    BY DEF PhaseOf
  <2> QED BY <1>1, <1>2, <2>1, <2>2 DEF Item
<1>3. CASE n \notin S
  BY <1>3 DEF WithCanceled
<1> QED BY <1>2, <1>3

(* A transaction that changes one event is one step of its prompt.          *)
LEMMA OneTalk ==
    ASSUME OrderInv, InboxFrame, NEW m \in DOMAIN inbox, WorkStep(m),
           \A n \in DOMAIN inbox : n # m => inbox'[n] = inbox[n]
    PROVE  [Talk!Next]_(Talk!vars)
<1> DEFINE Fine(n) == inbox'[n].route = inbox[n].route /\ inbox'[n].seq = inbox[n].seq
                      /\ inbox'[n].kind = inbox[n].kind
<1>1. DOMAIN inbox' = DOMAIN inbox /\ \A n \in DOMAIN inbox : Fine(n)
  BY DEF InboxFrame, ItemStep, WorkStep
<1>2. /\ Inv /\ KindsFit /\ DOMAIN Phases = Asked
      /\ \A n \in Asked : n \in DOMAIN inbox /\ inbox[n].kind = "prompt"
      /\ \A n \in DOMAIN inbox : inbox[n].kind = "prompt" => n \in Asked
  BY Mapping DEF OrderInv, Asked
<1> HIDE DEF Fine
<1>3. ASSUME NEW to, m \in Asked => PhaseOf[inbox'[m].state] = to PROVE Talk!Become({m}, to)
  BY <1>1, <1>3, Becomes DEF Fine
<1>4. ASSUME m \in Asked => PhaseOf[inbox'[m].state] = PhaseOf[inbox[m].state]
      PROVE  UNCHANGED Talk!vars
  BY <1>1, <1>4, Invisible DEF Fine
<1>5. CASE Rests(m)
  BY <1>4, <1>5 DEF Rests
<1>6. CASE TakenUp(m)
  <2>1. m \in Asked /\ Phases[m] = "waiting"
    BY <1>2, <1>6, Mapping DEF TakenUp, KindsFit, Holding
  <2>2. PhaseOf["admitting"] = "answering"
    BY DEF PhaseOf
  <2>3. Talk!Become({m}, "answering")
    BY <1>3, <1>6, <2>2 DEF TakenUp
  <2>4. ASSUME NEW q \in DOMAIN Phases, q # m, Phases[q] \in {"waiting", "answering"},
               Places[q].route = Places[m].route
        PROVE  Places[m].seq < Places[q].seq
    <3>1. q \in ItemsIn(inbox[m].route, Holding) /\ inbox[q].route = inbox[m].route
      BY <1>2, <2>1, <2>4, Mapping DEF ItemsIn, Holding
    <3>2. inbox[m].seq <= inbox[q].seq
      BY <1>6, <3>1 DEF TakenUp, FirstInLine, IsLowest, Holding
    <3>3. inbox[m].seq # inbox[q].seq
      BY <1>2, <2>4, <3>1 DEF Inv, SeqTotalOrder
    <3>4. inbox[m].seq \in Nat /\ inbox[q].seq \in Nat
      BY <1>2, <2>4 DEF Inv, TypeOK, Item
    <3>5. Places[m].seq = inbox[m].seq /\ Places[q].seq = inbox[q].seq
      BY <1>2, <2>1, <2>4, Mapping
    <3> QED BY <3>2, <3>3, <3>4, <3>5
  <2>5. Talk!Begin(m)
    BY <2>1, <2>3, <2>4 DEF Talk!Begin, Talk!Earlier
  <2> QED BY <1>2, <2>1, <2>5 DEF Talk!Next
<1>7. CASE Dropped(m)
  <2>1. m \in Asked /\ Phases[m] \in {"waiting", "answering"}
    BY <1>2, <1>7, Mapping DEF Dropped, KindsFit, Holding, Active
  <2>2. PhaseOf["rejected"] = "declined" /\ PhaseOf["canceled"] = "withdrawn"
    BY DEF PhaseOf
  <2>3. CASE inbox'[m].state = "rejected"
    <3>1. Talk!Become({m}, "declined")
      BY <1>3, <2>2, <2>3
    <3> QED BY <1>2, <2>1, <3>1 DEF Talk!Decline, Talk!Next
  <2>4. CASE inbox'[m].state = "canceled"
    <3>1. Talk!Become({m}, "withdrawn")
      BY <1>3, <2>2, <2>4
    <3>2. CASE Phases[m] = "waiting"
      <4>1. Talk!Withdraw({m})
        BY <3>1, <3>2 DEF Talk!Withdraw
      <4> QED BY <1>2, <2>1, <4>1 DEF Talk!Next
    <3>3. CASE Phases[m] = "answering"
      BY <1>2, <2>1, <3>1, <3>3 DEF Talk!GiveUp, Talk!Next
    <3> QED BY <2>1, <3>2, <3>3
  <2> QED BY <1>7, <2>3, <2>4 DEF Dropped
<1>8. CASE Admitted(m)
  <2>1. PhaseOf["admitting"] = PhaseOf["admitted"]
    BY DEF PhaseOf
  <2> QED BY <1>4, <1>8, <2>1 DEF Admitted, Active
<1>9. CASE Ran(m)
  <2>1. m \in Asked /\ Phases[m] = "answering"
    BY <1>2, <1>9, Mapping DEF Ran, KindsFit, Holding, Active
  <2>2. PhaseOf["terminal"] = "answered"
    BY DEF PhaseOf
  <2>3. Talk!Become({m}, "answered")
    BY <1>3, <1>9, <2>2 DEF Ran
  <2> QED BY <1>2, <2>1, <2>3 DEF Talk!Answer, Talk!Next
<1>10. CASE Settled(m)
  <2>1. m \notin Asked
    BY <1>2, <1>10 DEF Settled, KindsFit, Holding, Active
  <2> QED BY <1>4, <2>1
<1> QED BY <1>5, <1>6, <1>7, <1>8, <1>9, <1>10 DEF WorkStep

(* Every transaction on an event is such a step, or withdraws queued prompts*)
(* of one route together.                                                   *)
LEMMA InboxStepTalk ==
    ASSUME OrderInv, NEW m \in DOMAIN inbox, InboxStep(m)
    PROVE  [Talk!Next]_(Talk!vars)
<1>1. /\ Inv /\ KindsFit /\ InboxFrame /\ DOMAIN inbox' = DOMAIN inbox
      /\ \A n \in DOMAIN inbox : WorkStep(n)
  BY InboxStepFrame, InboxStepWork DEF OrderInv, InboxFrame
<1>2. CASE SettleQueued(m)
  <2> DEFINE S == CanceledUpTo(inbox[m].route, inbox[m].cutoff)
  <2>1. inbox' = WithCanceled(S)
    BY <1>2 DEF SettleQueued, CancelQueuedUpTo
  <2>2. ASSUME NEW n \in DOMAIN inbox
        PROVE  /\ inbox'[n].route = inbox[n].route /\ inbox'[n].seq = inbox[n].seq
               /\ inbox'[n].kind = inbox[n].kind
               /\ n \in S => PhaseOf[inbox'[n].state] = "withdrawn"
               /\ n \notin S => inbox'[n] = inbox[n]
    BY <1>1, <2>1, WithCanceledMoves
  <2>3. /\ S \in SUBSET DOMAIN Phases
        /\ \A p \in S : Phases[p] = "waiting"
        /\ \A p, q \in S : Places[p].route = Places[q].route
    BY CanceledTalk
  <2> HIDE DEF S
  <2>4. Talk!Become(S, "withdrawn")
    BY <1>1, <2>2, Becomes
  <2>5. Talk!Withdraw(S)
    BY <2>3, <2>4 DEF Talk!Withdraw
  <2> QED BY <2>3, <2>5 DEF Talk!Next
<1>3. CASE CancelTarget(m)
  <2>1. CASE inbox[m].target \in DOMAIN inbox
    BY <1>1, <1>3, <2>1, TransitionMoves, OneTalk DEF CancelTarget
  <2>2. CASE inbox[m].target \notin DOMAIN inbox
    BY <1>1, <1>3, <2>2, TransitionMoves, OneTalk DEF CancelTarget
  <2> QED BY <2>1, <2>2
<1>4. CASE ~SettleQueued(m) /\ ~CancelTarget(m)
  <2>1. CASE \/ StartAdmitting(m) \/ RejectHistory(m) \/ RejectAdmission(m) \/ CancelStale(m)
             \/ CompleteStop(m)
    BY <1>1, <2>1, TransitionMoves, OneTalk
       DEF StartAdmitting, RejectHistory, RejectAdmission, CancelStale, CompleteStop
  <2>2. CASE \/ CountAttempt(m) \/ PreviewRun(m) \/ FinishRun(m)
             \/ \E run \in RunIds : RecordReceipt(m, run)
    <3>1. \A n \in DOMAIN inbox : n # m => inbox'[n] = inbox[n]
      BY <2>2 DEF CountAttempt, IncrementAttempts, PreviewRun, FinishRun, MarkTerminal,
                  RecordReceipt, MarkAdmitted, SetItem
    <3> QED BY <1>1, <3>1, OneTalk
  <2> QED BY <1>4, <2>1, <2>2 DEF InboxStep
<1> QED BY <1>2, <1>3, <1>4

(* Recording an event is the arrival of its prompt, or a stop withdraws what*)
(* waits, or the users see nothing.                                         *)
LEMMA IngestTalk ==
    ASSUME OrderInv, NEW m \in Msgs, NEW r \in Routes, Ingest(m, r)
    PROVE  [Talk!Next]_(Talk!vars)
<1>1. /\ m \notin DOMAIN inbox /\ Inv /\ KindsFit
      /\ DOMAIN Places = Asked /\ DOMAIN Phases = Asked /\ m \notin Asked
  BY Mapping DEF Ingest, OrderInv, Asked
<1>2. ASSUME NEW item, Insert(m, r, inbox, item), item.route = r, item.kind = "prompt",
             item.seq = ConvOf(r).nextSeq, item.state \in {"queued", "rejected"}
      PROVE  Talk!Next
  <2>1. /\ DOMAIN inbox' = DOMAIN inbox \cup {m} /\ inbox'[m] = item
        /\ \A n \in DOMAIN inbox : inbox'[n] = inbox[n]
    BY <1>1, <1>2 DEF Insert, WithRow
  <2>2. Asked' = Asked \cup {m}
    BY <1>2, <2>1 DEF Asked
  <2>3. \A n \in Asked : n \in DOMAIN inbox /\ inbox'[n] = inbox[n]
    BY <2>1 DEF Asked
  <2>4. /\ DOMAIN Places' = Asked \cup {m}
        /\ \A n \in Asked : Places'[n] = Places[n]
        /\ Places'[m].route = r /\ Places'[m].seq = item.seq
    BY <1>1, <1>2, <2>1, <2>2, <2>3 DEF Places
  <2>5. \A n \in Asked : Places[n].route = r => Places[n].seq < item.seq
    <3> SUFFICES ASSUME NEW n \in Asked, Places[n].route = r PROVE Places[n].seq < item.seq
      OBVIOUS
    <3>1. inbox[n].route = r /\ Places[n].seq = inbox[n].seq /\ n \in DOMAIN inbox
      BY <2>3 DEF Places
    <3>2. inbox[n].route \in DOMAIN conv /\ inbox[n].seq < conv[inbox[n].route].nextSeq
      BY <1>1, <3>1 DEF Inv, SeqTotalOrder
    <3> QED BY <1>2, <3>1, <3>2 DEF ConvOf
  <2>6. Phases' = [n \in Asked \cup {m} |-> IF n = m THEN PhaseOf[item.state] ELSE Phases[n]]
    <3>1. Phases' = [n \in Asked \cup {m} |-> PhaseOf[inbox'[n].state]]
      BY <2>2 DEF Phases
    <3>2. \A n \in Asked : Phases[n] = PhaseOf[inbox'[n].state]
      BY <2>3 DEF Phases
    <3> QED BY <1>1, <2>1, <3>1, <3>2
  <2>7. Talk!Arrive(m, r, PhaseOf[item.state])
    BY <1>1, <2>4, <2>5, <2>6 DEF Talk!Arrive
  <2>8. PhaseOf["queued"] = "waiting" /\ PhaseOf["rejected"] = "declined"
    BY DEF PhaseOf
  <2>9. Talk!Accept(m, r) \/ Talk!TurnAway(m, r)
    BY <1>2, <2>7, <2>8 DEF Talk!Accept, Talk!TurnAway
  <2> QED BY <2>9 DEF Talk!Next
<1>3. ASSUME NEW item, Insert(m, r, inbox, item), item.kind # "prompt"
      PROVE  UNCHANGED Talk!vars
  <2>1. /\ DOMAIN inbox' = DOMAIN inbox \cup {m} /\ inbox'[m] = item
        /\ \A n \in DOMAIN inbox : inbox'[n] = inbox[n]
    BY <1>1, <1>3 DEF Insert, WithRow
  <2>2. Asked' = Asked /\ \A n \in Asked : inbox'[n] = inbox[n]
    BY <1>3, <2>1 DEF Asked
  <2>3. Places' = Places /\ Phases' = Phases
    BY <2>2 DEF Places, Phases
  <2> QED BY <2>3 DEF Talk!vars
<1>4. ASSUME NEW kind, NEW state, Insert(m, r, inbox, Arrived(r, kind, state)),
             kind = "prompt" => state \in {"queued", "rejected"}
      PROVE  [Talk!Next]_(Talk!vars)
  <2>1. /\ Arrived(r, kind, state).route = r /\ Arrived(r, kind, state).kind = kind
        /\ Arrived(r, kind, state).state = state
        /\ Arrived(r, kind, state).seq = ConvOf(r).nextSeq
    BY DEF Arrived
  <2>2. CASE kind = "prompt"
    BY <1>2, <1>4, <2>1, <2>2
  <2>3. CASE kind # "prompt"
    BY <1>3, <1>4, <2>1, <2>3
  <2> QED BY <2>2, <2>3
<1>5. CASE \/ \E kind \in Kinds \ {"help"} : IngestRejected(m, r, kind)
           \/ IngestPrompt(m, r) \/ IngestHelp(m, r)
  BY <1>4, <1>5 DEF IngestRejected, IngestPrompt, IngestHelp
<1>6. CASE IngestNew(m, r)
  <2> DEFINE gen == Arrived(r, "new", "complete").gen + 1
             rotated == [Arrived(r, "new", "complete") EXCEPT !.gen = gen]
  <2>1. Insert(m, r, inbox, rotated) \/ Insert(m, r, inbox, Arrived(r, "new", "rejected"))
    BY <1>6 DEF IngestNew
  <2> HIDE DEF gen
  <2>2. rotated.kind # "prompt"
    BY DEF Arrived
  <2> HIDE DEF rotated
  <2> QED BY <1>3, <1>4, <2>1, <2>2
<1>7. CASE IngestStop(m, r)
  <2>1. PICK cutoff \in {0} \cup SeqsOf(r), target \in DOMAIN inbox \cup {NoMsg} :
             Insert(m, r, WithCanceled(CanceledUpTo(r, cutoff)), StopRow(r, target, cutoff))
    BY <1>7 DEF IngestStop
  <2> DEFINE S == CanceledUpTo(r, cutoff)
  <2>2. /\ DOMAIN inbox' = DOMAIN inbox \cup {m}
        /\ inbox'[m] = StopRow(r, target, cutoff)
        /\ \A n \in DOMAIN inbox : inbox'[n] = WithCanceled(S)[n]
    BY <1>1, <2>1 DEF Insert, WithRow, WithCanceled
  <2>3. inbox'[m].kind # "prompt"
    BY <2>2 DEF StopRow, Arrived
  <2>4. ASSUME NEW n \in DOMAIN inbox
        PROVE  /\ inbox'[n].route = inbox[n].route /\ inbox'[n].seq = inbox[n].seq
               /\ inbox'[n].kind = inbox[n].kind
               /\ n \in S => PhaseOf[inbox'[n].state] = "withdrawn"
               /\ n \notin S => inbox'[n] = inbox[n]
    BY <1>1, <2>2, WithCanceledMoves
  <2>5. /\ S \in SUBSET DOMAIN Phases
        /\ \A p \in S : Phases[p] = "waiting"
        /\ \A p, q \in S : Places[p].route = Places[q].route
    BY CanceledTalk
  <2> HIDE DEF S
  <2>6. Asked' = Asked /\ \A n \in Asked : n \in DOMAIN inbox
    BY <2>2, <2>3, <2>4 DEF Asked
  <2>7. Places' = Places
    BY <2>4, <2>6 DEF Places
  <2>8. Phases' = [n \in DOMAIN Phases |-> IF n \in S THEN "withdrawn" ELSE Phases[n]]
    <3>1. Phases' = [n \in Asked |-> PhaseOf[inbox'[n].state]]
      BY <2>6 DEF Phases
    <3>2. \A n \in Asked : Phases[n] = PhaseOf[inbox[n].state]
      BY DEF Phases
    <3> QED BY <1>1, <2>4, <2>6, <3>1, <3>2
  <2>9. Talk!Withdraw(S)
    BY <2>5, <2>7, <2>8 DEF Talk!Withdraw, Talk!Become
  <2> QED BY <2>5, <2>9 DEF Talk!Next
<1> QED BY <1>5, <1>6, <1>7 DEF Ingest

(* The users get what Conversation promises: every transaction is one step  *)
(* of the conversation, or one they do not see.                             *)
THEOREM ConversationKept == Spec => KeepsConversation
<1>1. Init => Talk!Init
  <2> SUFFICES ASSUME Init PROVE Talk!Init
    OBVIOUS
  <2>1. Asked = {}
    BY DEF Init, Asked
  <2>2. Places = [p \in {} |-> 0] /\ Phases = [p \in {} |-> "waiting"]
    BY <2>1 DEF Places, Phases
  <2> QED BY <2>2 DEF Talk!Init
<1>2. OrderInv /\ [Next]_storeVars => [Talk!Next]_(Talk!vars)
  <2> SUFFICES ASSUME OrderInv, [Next]_storeVars PROVE [Talk!Next]_(Talk!vars)
    OBVIOUS
  <2>1. ASSUME inbox' = inbox PROVE UNCHANGED Talk!vars
    BY <2>1, Invisible
  <2>2. ASSUME NEW m \in Msgs, NEW r \in Routes, Ingest(m, r)
        PROVE  [Talk!Next]_(Talk!vars)
    BY <2>2, IngestTalk
  <2>3. ASSUME NEW m \in DOMAIN inbox, InboxStep(m) PROVE [Talk!Next]_(Talk!vars)
    BY <2>3, InboxStepTalk
  <2>4. ASSUME NEW k \in DOMAIN deliveries, LaneStep(k) \/ ResolveStep(k)
        PROVE  UNCHANGED Talk!vars
    BY <2>1, <2>4 DEF LaneStep, ResolveStep
  <2> QED BY <2>1, <2>2, <2>3, <2>4 DEF Next, storeVars
<1> QED BY <1>1, <1>2, OrderInvariance, PTL DEF Spec, KeepsConversation, Talk!Spec
=============================================================================
