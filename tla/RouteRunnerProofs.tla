-------------------------- MODULE RouteRunnerProofs --------------------------
(***************************************************************************)
(* The route runners over the host database, for every value of the         *)
(* constants: they take only steps that HostStore's contract allows, a      *)
(* message gets at most one run and only when it was accepted, a stop is    *)
(* settled only after its target, and none is lost on the way to its run.   *)
(*                                                                          *)
(* The database between two steps of a runner belongs to everyone, so the   *)
(* inductive invariant says what a runner may still rely on at each place   *)
(* of its code (RouteOK), and how the inbox and the agent's runs agree      *)
(* (Books).  The store's own invariant comes with it: every step of the     *)
(* runners is first shown to be one of the store's.                         *)
(***************************************************************************)
EXTENDS RouteRunner, HostStoreOrderProofs

Locals == [pc: Pcs, gen: Nat, work: Msgs \cup {NoMsg}, seen: States \cup {"none"},
           run: RunIds \cup {NoRun}, stop: BOOLEAN]

RunnerTyped ==
    /\ runs \in [DOMAIN runs -> Run] /\ DOMAIN runs \subseteq RunIds
    /\ runner \in [Routes -> Locals]
    /\ handles \in [Routes -> RunIds \cup {NoRun}]
    /\ ingesting \in [Msgs -> {"none", "interrupt", "unpark"}]
    /\ faults \in Nat
    /\ \A r \in Routes : ~At(r, "idle") => r \in DOMAIN conv

-----------------------------------------------------------------------------
(* The inbox and the agent database.                                        *)

RunOver(m) == \A x \in DOMAIN runs : runs[x].key = m => runs[x].status \in Terminal
NeverRan(m) == \A x \in DOMAIN runs : runs[x].key # m

(* A run is the only one of its message, which has been accepted; a receipt *)
(* names the run of its message, and an answer follows the end of the run.  *)
RunsAgree ==
    /\ \A x \in DOMAIN runs :
          LET m == runs[x].key
          IN  /\ m \in DOMAIN inbox
              /\ inbox[m].route = runs[x].route /\ inbox[m].gen = runs[x].gen
              /\ inbox[m].state \in {"admitting", "admitted", "terminal"}
              /\ inbox[m].run \in {NoRun, x}
    /\ \A x, y \in DOMAIN runs : runs[x].key = runs[y].key => x = y
    /\ \A m \in DOMAIN inbox :
          inbox[m].state \in {"admitted", "terminal"} =>
             /\ inbox[m].run \in DOMAIN runs /\ runs[inbox[m].run].key = m
             /\ inbox[m].state = "terminal" => runs[inbox[m].run].status \in Terminal

(* A stop's frozen target is an earlier prompt of its route that had been   *)
(* taken up, and its frozen run is the target's.                            *)
StopsAim ==
    \A c \in DOMAIN inbox :
        /\ inbox[c].state = "pending" => inbox[c].kind = "stop"
        /\ inbox[c].target # NoMsg =>
             /\ inbox[c].kind = "stop" /\ inbox[c].state \in {"pending", "complete"}
             /\ inbox[c].target \in DOMAIN inbox
             /\ inbox[inbox[c].target].route = inbox[c].route
             /\ inbox[inbox[c].target].seq <= inbox[c].cutoff
             /\ inbox[inbox[c].target].state # "queued"
             /\ inbox[c].targetRun \in {NoRun, inbox[inbox[c].target].run}

Books == RunsAgree /\ StopsAim /\ StopEndsTarget

-----------------------------------------------------------------------------
(* What a runner relies on at each place of its code.                       *)

KnowsGeneration(r) ==
    ~At(r, "idle") => \A m \in ItemsIn(r, Active) : inbox[m].gen = runner[r].gen

HoldsWork(r) ==
    runner[r].pc \in {"prompt"} \cup (PromptPcs \ {"release"}) \cup StopPcs =>
        Work(r) \in DOMAIN inbox /\ inbox[Work(r)].route = r

(* The prompt that was read is as it was read, or a stop canceled it since. *)
KnowsPrompt(r) ==
    At(r, "prompt") =>
        /\ inbox[Work(r)].kind = "prompt"
        /\ \/ /\ runner[r].seen = "queued"
              /\ inbox[Work(r)].state \in {"queued", "canceled"}
           \/ /\ runner[r].seen \in Active /\ inbox[Work(r)].state = runner[r].seen
              /\ inbox[Work(r)].run = runner[r].run
        /\ inbox[Work(r)].state = "queued" => FirstInLine(Work(r))

Admits(r) ==
    /\ runner[r].pc \in {"lookup", "submit", "refuse", "receipt", "settle"} =>
          inbox[Work(r)].state = "admitting"
    /\ runner[r].pc \in {"submit", "refuse"} => NeverRan(Work(r))
    /\ runner[r].pc \in {"receipt", "settle"} =>
          runner[r].run \in DOMAIN runs /\ runs[runner[r].run].key = Work(r)

Answers(r) ==
    /\ runner[r].pc \in {"recover", "own", "replay", "wait", "finish"} =>
          inbox[Work(r)].state = "admitted" /\ inbox[Work(r)].run = runner[r].run
    /\ runner[r].pc \in {"replay", "wait"} => handles[r] = runner[r].run
    /\ At(r, "finish") => runs[runner[r].run].status \in Terminal

Stops(r) ==
    /\ runner[r].pc \in StopPcs => inbox[Work(r)].state = "pending"
    /\ At(r, "stopLookup") =>
         inbox[Work(r)].target # NoMsg /\ inbox[inbox[Work(r)].target].state = "admitting"
    /\ At(r, "stopRun") =>
         /\ inbox[Work(r)].target # NoMsg
         /\ inbox[inbox[Work(r)].target].state = "admitted"
         /\ inbox[inbox[Work(r)].target].run = runner[r].run
    /\ At(r, "stopDone") /\ inbox[Work(r)].target # NoMsg =>
         inbox[inbox[Work(r)].target].state # "admitting" /\ RunOver(inbox[Work(r)].target)

RouteOK(r) ==
    /\ KnowsGeneration(r) /\ HoldsWork(r) /\ KnowsPrompt(r)
    /\ Admits(r) /\ Answers(r) /\ Stops(r)

RunnersOK == \A r \in Routes : RouteOK(r)

RunnerInv == OrderInv /\ RunnerTyped /\ Books /\ RunnersOK

-----------------------------------------------------------------------------
(* What a transaction changes of one item.                                  *)

Alike(n) ==
    /\ inbox'[n].kind = inbox[n].kind /\ inbox'[n].route = inbox[n].route
    /\ inbox'[n].gen = inbox[n].gen /\ inbox'[n].seq = inbox[n].seq
    /\ inbox'[n].target = inbox[n].target /\ inbox'[n].targetRun = inbox[n].targetRun
    /\ inbox'[n].cutoff = inbox[n].cutoff

(* Only item m changes, to this state and this run.                         *)
OnlyMoves(m, state, run) ==
    /\ DOMAIN inbox' = DOMAIN inbox /\ conv' = conv
    /\ \A n \in DOMAIN inbox : Alike(n) /\ (n # m => inbox'[n] = inbox[n])
    /\ inbox'[m].state = state /\ inbox'[m].run = run

(* The four guarded updates of an item do that.                             *)
LEMMA TransitionOnly ==
    ASSUME OrderInv, NEW m \in DOMAIN inbox, NEW from, NEW to, Transition(m, from, to)
    PROVE  OnlyMoves(m, to, inbox[m].run) /\ inbox[m].state \in from
<1>1. inbox' = [inbox EXCEPT ![m] = [inbox[m] EXCEPT
                  !.state = to, !.content = inbox[m].content /\ to \notin Finished]]
      /\ conv' = conv /\ inbox[m].state \in from
  BY DEF Transition, SetItem
<1>2. inbox[m] \in Item
  BY DEF OrderInv, Inv, TypeOK
<1> QED BY <1>1, <1>2 DEF OnlyMoves, Alike, Item

LEMMA AdmittedOnly ==
    ASSUME OrderInv, NEW m \in DOMAIN inbox, NEW run, MarkAdmitted(m, run)
    PROVE  OnlyMoves(m, "admitted", run) /\ inbox[m].state \in Active
<1>1. inbox' = [inbox EXCEPT ![m] = [inbox[m] EXCEPT !.state = "admitted", !.run = run]]
      /\ conv' = conv /\ inbox[m].state \in Active
  BY DEF MarkAdmitted, SetItem
<1>2. inbox[m] \in Item
  BY DEF OrderInv, Inv, TypeOK
<1> QED BY <1>1, <1>2 DEF OnlyMoves, Alike, Item

LEMMA CountedOnly ==
    ASSUME OrderInv, NEW m \in DOMAIN inbox, IncrementAttempts(m)
    PROVE  OnlyMoves(m, inbox[m].state, inbox[m].run)
<1>1. inbox' = [inbox EXCEPT ![m] = [inbox[m] EXCEPT
           !.attempts = IF inbox[m].attempts > MaxAdmissionAttempts
                        THEN inbox[m].attempts ELSE inbox[m].attempts + 1]]
      /\ conv' = conv
  BY DEF IncrementAttempts, SetItem
<1>2. inbox[m] \in Item
  BY DEF OrderInv, Inv, TypeOK
<1> QED BY <1>1, <1>2 DEF OnlyMoves, Alike, Item

LEMMA TerminalOnly ==
    ASSUME OrderInv, NEW m \in DOMAIN inbox, NEW n, MarkTerminal(m, n)
    PROVE  OnlyMoves(m, "terminal", inbox[m].run) /\ inbox[m].state = "admitted"
<1>1. inbox' = [inbox EXCEPT ![m] = [inbox[m] EXCEPT !.state = "terminal", !.content = FALSE]]
      /\ conv' = conv /\ inbox[m].state = "admitted"
  BY DEF MarkTerminal, SetItem
<1>2. inbox[m] \in Item
  BY DEF OrderInv, Inv, TypeOK
<1> QED BY <1>1, <1>2 DEF OnlyMoves, Alike, Item

(* Recording an event adds one item, which is not at work yet; of the others*)
(* it only cancels queued ones.  A stop is aimed at the active prompt.      *)
IngestMoves(m, r) ==
    /\ m \notin DOMAIN inbox /\ DOMAIN inbox' = DOMAIN inbox \cup {m}
    /\ \A n \in DOMAIN inbox :
         /\ Alike(n) /\ inbox'[n].run = inbox[n].run
         /\ \/ inbox'[n].state = inbox[n].state
            \/ inbox[n].state = "queued" /\ inbox'[n].state = "canceled"
         /\ inbox[n].route = r => inbox[n].seq <= inbox'[m].seq
    /\ inbox'[m].route = r /\ inbox'[m].run = NoRun
    /\ inbox'[m].state \notin Active \cup {"terminal"}
    /\ inbox'[m].state = "pending" => inbox'[m].kind = "stop"
    /\ inbox'[m].target # NoMsg =>
         /\ inbox'[m].kind = "stop" /\ inbox'[m].state = "pending"
         /\ inbox'[m].target \in ItemsIn(r, Active)
         /\ inbox[inbox'[m].target].seq <= inbox'[m].cutoff
         /\ inbox'[m].targetRun = inbox[inbox'[m].target].run

LEMMA IngestOnly ==
    ASSUME OrderInv, NEW m \in Msgs, NEW r \in Routes, Ingest(m, r)
    PROVE  IngestMoves(m, r)
<1>1. IngestFrame(m, r) /\ IngestWork(m, r)
  BY IngestStepFrame, IngestStepWork DEF OrderInv
<1>2. \A n \in DOMAIN inbox : inbox[n].route = r => inbox[n].seq <= inbox'[m].seq
  <2> SUFFICES ASSUME NEW n \in DOMAIN inbox, inbox[n].route = r
               PROVE  inbox[n].seq <= inbox'[m].seq
    OBVIOUS
  <2>1. r \in DOMAIN conv /\ inbox[n].seq < conv[r].nextSeq
        /\ inbox[n].seq \in Nat /\ conv[r].nextSeq \in Nat
    BY DEF OrderInv, Inv, TypeOK, SeqTotalOrder, Item, ConvRow
  <2>2. inbox'[m].seq = conv[r].nextSeq
    BY <1>1, <2>1 DEF IngestFrame, ConvOf
  <2> QED BY <2>1, <2>2
<1>3. ASSUME NEW table, NEW item, Insert(m, r, table, item), DOMAIN table = DOMAIN inbox,
             \A n \in DOMAIN inbox : inbox'[n] = table[n] =>
                Alike(n) /\ (\/ inbox'[n].state = inbox[n].state
                             \/ inbox[n].state = "queued" /\ inbox'[n].state = "canceled"),
             item.state = "pending" => item.kind = "stop",
             item.target # NoMsg =>
                /\ item.kind = "stop" /\ item.state = "pending"
                /\ item.target \in ItemsIn(r, Active)
                /\ inbox[item.target].seq <= item.cutoff
                /\ item.targetRun = inbox[item.target].run
      PROVE  IngestMoves(m, r)
  <2>1. inbox'[m] = item /\ \A n \in DOMAIN inbox : inbox'[n] = table[n]
    BY <1>1, <1>3 DEF Insert, WithRow, IngestFrame
  <2> QED BY <1>1, <1>2, <1>3, <2>1 DEF IngestMoves, IngestFrame, IngestWork
<1>4. \A n \in DOMAIN inbox : inbox'[n] = inbox[n] => Alike(n) /\ inbox'[n].state = inbox[n].state
  BY DEF Alike
<1>5. ASSUME NEW kind, NEW state, state # "pending", Insert(m, r, inbox, Arrived(r, kind, state))
      PROVE  IngestMoves(m, r)
  <2>1. Arrived(r, kind, state).state = state /\ Arrived(r, kind, state).target = NoMsg
    BY DEF Arrived
  <2> QED BY <1>3, <1>4, <1>5, <2>1
<1>6. CASE \/ \E kind \in Kinds \ {"help"} : IngestRejected(m, r, kind)
           \/ IngestPrompt(m, r) \/ IngestHelp(m, r)
  BY <1>5, <1>6 DEF IngestRejected, IngestPrompt, IngestHelp
<1>7. CASE IngestNew(m, r)
  <2> DEFINE gen == Arrived(r, "new", "complete").gen + 1
             rotated == [Arrived(r, "new", "complete") EXCEPT !.gen = gen]
  <2>1. Insert(m, r, inbox, rotated) \/ Insert(m, r, inbox, Arrived(r, "new", "rejected"))
    BY <1>7 DEF IngestNew
  <2> HIDE DEF gen
  <2>2. rotated.state = "complete" /\ rotated.target = NoMsg
    BY DEF Arrived
  <2> HIDE DEF rotated
  <2>3. CASE Insert(m, r, inbox, rotated)
    BY <1>3, <1>4, <2>2, <2>3
  <2> QED BY <1>5, <2>1, <2>3
<1>8. CASE IngestStop(m, r)
  <2>1. PICK cutoff \in {0} \cup SeqsOf(r), target \in DOMAIN inbox \cup {NoMsg} :
             /\ \A seq \in SeqsOf(r) : seq <= cutoff
             /\ IF ItemsIn(r, Active) = {} THEN target = NoMsg
                ELSE IsLowest(target, ItemsIn(r, Active))
             /\ Insert(m, r, WithCanceled(CanceledUpTo(r, cutoff)), StopRow(r, target, cutoff))
    BY <1>8 DEF IngestStop
  <2> DEFINE item == StopRow(r, target, cutoff)
             table == WithCanceled(CanceledUpTo(r, cutoff))
  <2>2. /\ item.kind = "stop" /\ item.target = target /\ item.cutoff = cutoff
        /\ target # NoMsg => item.state = "pending" /\ item.targetRun = inbox[target].run
    BY DEF StopRow, Arrived
  <2>3. target # NoMsg => target \in ItemsIn(r, Active) /\ inbox[target].seq <= cutoff
    BY <2>1 DEF IsLowest, ItemsIn, SeqsOf
  <2>4. DOMAIN table = DOMAIN inbox
    BY DEF WithCanceled
  <2>5. ASSUME NEW n \in DOMAIN inbox, inbox'[n] = table[n]
        PROVE  Alike(n) /\ (\/ inbox'[n].state = inbox[n].state
                            \/ inbox[n].state = "queued" /\ inbox'[n].state = "canceled")
    <3>1. inbox[n] \in Item
      BY DEF OrderInv, Inv, TypeOK
    <3>2. CASE n \in CanceledUpTo(r, cutoff)
      <4>1. inbox'[n] = [inbox[n] EXCEPT !.state = "canceled", !.content = FALSE]
            /\ inbox[n].state = "queued"
        BY <2>5, <3>2 DEF WithCanceled, CanceledUpTo, ItemsIn
      <4> QED BY <3>1, <4>1 DEF Alike, Item
    <3>3. CASE n \notin CanceledUpTo(r, cutoff)
      BY <1>4, <2>5, <3>3 DEF WithCanceled
    <3> QED BY <3>2, <3>3
  <2>6. Insert(m, r, table, item)
    BY <2>1
  <2> HIDE DEF item, table
  <2> QED BY <1>3, <2>2, <2>3, <2>4, <2>5, <2>6
<1> QED BY <1>6, <1>7, <1>8 DEF Ingest

-----------------------------------------------------------------------------
(* Steps that leave a route alone.                                          *)

(* Nothing a runner relies on is taken from under it: its own locals and    *)
(* handle, the items of its route except queued ones, and their runs stay.  *)
Undisturbed(r) ==
    /\ runner'[r] = runner[r] /\ handles'[r] = handles[r]
    /\ DOMAIN inbox \subseteq DOMAIN inbox'
    /\ \A n \in DOMAIN inbox :
         /\ Alike(n)
         /\ inbox[n].route = r =>
              /\ inbox'[n].run = inbox[n].run
              /\ \/ inbox'[n].state = inbox[n].state
                 \/ inbox[n].state = "queued" /\ inbox'[n].state = "canceled"
    /\ \A n \in DOMAIN inbox' \ DOMAIN inbox :
         /\ inbox'[n].state \notin Active
         /\ \A o \in DOMAIN inbox :
              inbox[o].route = inbox'[n].route => inbox[o].seq <= inbox'[n].seq
    /\ \A x \in DOMAIN runs :
         /\ x \in DOMAIN runs' /\ runs'[x].key = runs[x].key
         /\ runs[x].status \in Terminal => runs'[x].status \in Terminal
    /\ \A x \in DOMAIN runs' \ DOMAIN runs :
         runs'[x].key \in DOMAIN inbox /\ inbox[runs'[x].key].route # r

LEMMA UndisturbedKeeps ==
    ASSUME OrderInv, RunnerTyped, Books, NEW r \in Routes, RouteOK(r), Undisturbed(r)
    PROVE  RouteOK(r)'
<1> USE DEF Undisturbed, At, Work
<1>0. runner[r].pc \in Pcs
  BY DEF RunnerTyped, Locals
<1>1. KnowsGeneration(r)'
  BY DEF RouteOK, KnowsGeneration, ItemsIn, Alike, Active
<1>2. HoldsWork(r)'
  BY DEF RouteOK, HoldsWork, Alike
<1>3. KnowsPrompt(r)'
  <2> SUFFICES ASSUME At(r, "prompt")
               PROVE  /\ inbox'[Work(r)].kind = "prompt"
                      /\ \/ /\ runner[r].seen = "queued"
                            /\ inbox'[Work(r)].state \in {"queued", "canceled"}
                         \/ /\ runner[r].seen \in Active
                            /\ inbox'[Work(r)].state = runner[r].seen
                            /\ inbox'[Work(r)].run = runner[r].run
                      /\ inbox'[Work(r)].state = "queued" => FirstInLine(Work(r))'
    BY DEF KnowsPrompt
  <2>1. Work(r) \in DOMAIN inbox /\ inbox[Work(r)].route = r
    BY DEF RouteOK, HoldsWork
  <2>2. ASSUME inbox'[Work(r)].state = "queued" PROVE FirstInLine(Work(r))'
    <3>1. inbox[Work(r)].state = "queued"
      BY <2>1, <2>2
    <3>2. FirstInLine(Work(r))
      BY <3>1 DEF RouteOK, KnowsPrompt
    <3>3. \A n \in DOMAIN inbox' :
            inbox'[n].route = r /\ inbox'[n].state \in {"queued"} \cup Active =>
               inbox[Work(r)].seq <= inbox'[n].seq
      BY <2>1, <3>2 DEF FirstInLine, IsLowest, ItemsIn, Alike, Active
    <3> QED BY <2>1, <2>2, <3>3 DEF FirstInLine, IsLowest, ItemsIn, Alike
  <2> QED BY <2>1, <2>2 DEF RouteOK, KnowsPrompt, Alike, Active
<1>4. Admits(r)'
  <2> SUFFICES ASSUME runner[r].pc \in {"lookup", "submit", "refuse", "receipt", "settle"}
               PROVE  /\ inbox'[Work(r)].state = "admitting"
                      /\ runner[r].pc \in {"submit", "refuse"} => NeverRan(Work(r))'
                      /\ runner[r].pc \in {"receipt", "settle"} =>
                           /\ runner[r].run \in DOMAIN runs'
                           /\ runs'[runner[r].run].key = Work(r)
    BY DEF Admits
  <2>1. Work(r) \in DOMAIN inbox /\ inbox[Work(r)].route = r
    BY DEF RouteOK, HoldsWork, PromptPcs
  <2> QED BY <2>1 DEF RouteOK, Admits, NeverRan
<1>5. Answers(r)'
  <2>1. runner[r].pc \in {"recover", "own", "replay", "wait", "finish"} =>
           /\ Work(r) \in DOMAIN inbox /\ inbox[Work(r)].route = r
           /\ inbox[Work(r)].state = "admitted" /\ inbox[Work(r)].run = runner[r].run
           /\ runner[r].run \in DOMAIN runs
    BY DEF RouteOK, HoldsWork, Answers, PromptPcs, Books, RunsAgree
  <2> QED BY <2>1 DEF RouteOK, Answers
<1>6. Stops(r)'
  <2> SUFFICES ASSUME runner[r].pc \in StopPcs PROVE Stops(r)'
    BY DEF Stops, StopPcs
  <2>0. PICK t : t = inbox[Work(r)].target
    OBVIOUS
  <2>1. /\ Work(r) \in DOMAIN inbox /\ inbox[Work(r)].route = r
        /\ inbox[Work(r)].state = "pending" /\ inbox'[Work(r)].state = "pending"
        /\ inbox'[Work(r)].target = t
    BY <2>0 DEF RouteOK, HoldsWork, Stops, Alike
  <2>2. t # NoMsg =>
          /\ t \in DOMAIN inbox /\ inbox[t].route = r /\ inbox[t].state # "queued"
          /\ inbox'[t].state = inbox[t].state /\ inbox'[t].run = inbox[t].run
    BY <2>0, <2>1 DEF Books, StopsAim
  <2>3. t # NoMsg /\ RunOver(t) => RunOver(t)'
    BY <2>2 DEF RunOver
  <2>4. /\ At(r, "stopLookup") => t # NoMsg /\ inbox[t].state = "admitting"
        /\ At(r, "stopRun") =>
             t # NoMsg /\ inbox[t].state = "admitted" /\ inbox[t].run = runner[r].run
        /\ At(r, "stopDone") /\ t # NoMsg => inbox[t].state # "admitting" /\ RunOver(t)
    BY <2>0 DEF RouteOK, Stops
  <2> QED BY <2>1, <2>2, <2>3, <2>4 DEF Stops
<1> QED BY <1>1, <1>2, <1>3, <1>4, <1>5, <1>6 DEF RouteOK

-----------------------------------------------------------------------------
(* Steps the books allow.                                                   *)

(* The moves of one item that keep the inbox and the runs in agreement.     *)
BookMove(n) ==
    /\ Alike(n)
    /\ \/ Rests(n)
       \/ /\ inbox[n].state = "queued" \/ (inbox[n].state = "admitting" /\ NeverRan(n))
          /\ inbox'[n].state \in {"rejected", "canceled"} /\ inbox'[n].run = inbox[n].run
       \/ /\ inbox[n].state = "queued" /\ inbox'[n].state = "admitting"
          /\ inbox'[n].run = inbox[n].run
       \/ /\ inbox[n].state \in Active /\ inbox'[n].state = "admitted"
          /\ inbox'[n].run \in DOMAIN runs /\ runs[inbox'[n].run].key = n
       \/ /\ inbox[n].state = "admitted" /\ inbox'[n].state = "terminal"
          /\ inbox'[n].run = inbox[n].run /\ runs[inbox[n].run].status \in Terminal
       \/ /\ inbox[n].state = "pending" /\ inbox'[n].state = "complete"
          /\ inbox'[n].run = inbox[n].run
          /\ inbox[n].target # NoMsg => RunOver(inbox[n].target)

LEMMA BooksItems ==
    ASSUME OrderInv, RunnerTyped, Books, runs' = runs,
           DOMAIN inbox' = DOMAIN inbox, \A n \in DOMAIN inbox : BookMove(n)
    PROVE  Books'
<1> USE DEF BookMove, Rests, Active
<1>0. NoRun \notin DOMAIN runs
  BY NoneAssumption DEF RunnerTyped
<1>1. \A n \in DOMAIN inbox :
         /\ inbox[n].run # NoRun => inbox'[n].run = inbox[n].run
         /\ inbox'[n].state \in {"admitted", "terminal"} =>
               inbox'[n].run \in DOMAIN runs /\ runs[inbox'[n].run].key = n
  BY DEF Books, RunsAgree, OrderInv, KindsFit
<1>2. RunsAgree'
  <2>1. ASSUME NEW x \in DOMAIN runs
        PROVE  LET m == runs[x].key
               IN  /\ m \in DOMAIN inbox
                   /\ inbox'[m].route = runs[x].route /\ inbox'[m].gen = runs[x].gen
                   /\ inbox'[m].state \in {"admitting", "admitted", "terminal"}
                   /\ inbox'[m].run \in {NoRun, x}
    <3>1. PICK m : m = runs[x].key
      OBVIOUS
    <3>2. /\ m \in DOMAIN inbox
          /\ inbox[m].route = runs[x].route /\ inbox[m].gen = runs[x].gen
          /\ inbox[m].state \in {"admitting", "admitted", "terminal"}
          /\ inbox[m].run \in {NoRun, x} /\ ~NeverRan(m)
      BY <3>1 DEF Books, RunsAgree, NeverRan
    <3>3. inbox'[m].state \in {"admitting", "admitted", "terminal"}
      BY <3>2
    <3>4. inbox'[m].run \in {NoRun, x}
      BY <3>1, <3>2 DEF Books, RunsAgree
    <3> QED BY <3>1, <3>2, <3>3, <3>4 DEF Alike
  <2>2. ASSUME NEW m \in DOMAIN inbox, inbox'[m].state = "terminal"
        PROVE  runs[inbox'[m].run].status \in Terminal
    BY <2>2 DEF Books, RunsAgree
  <2> QED BY <1>1, <2>1, <2>2 DEF Books, RunsAgree
<1>3. StopsAim'
  <2> SUFFICES ASSUME NEW c \in DOMAIN inbox
               PROVE  /\ inbox'[c].state = "pending" => inbox'[c].kind = "stop"
                      /\ inbox'[c].target # NoMsg =>
                           /\ inbox'[c].kind = "stop"
                           /\ inbox'[c].state \in {"pending", "complete"}
                           /\ inbox'[c].target \in DOMAIN inbox
                           /\ inbox'[inbox'[c].target].route = inbox'[c].route
                           /\ inbox'[inbox'[c].target].seq <= inbox'[c].cutoff
                           /\ inbox'[inbox'[c].target].state # "queued"
                           /\ inbox'[c].targetRun \in {NoRun, inbox'[inbox'[c].target].run}
    BY DEF StopsAim
  <2>1. inbox'[c].state = "pending" => inbox'[c].kind = "stop"
    BY DEF Books, StopsAim, Alike
  <2>2. ASSUME inbox'[c].target # NoMsg
        PROVE  /\ inbox'[c].kind = "stop"
               /\ inbox'[c].state \in {"pending", "complete"}
               /\ inbox'[c].target \in DOMAIN inbox
               /\ inbox'[inbox'[c].target].route = inbox'[c].route
               /\ inbox'[inbox'[c].target].seq <= inbox'[c].cutoff
               /\ inbox'[inbox'[c].target].state # "queued"
               /\ inbox'[c].targetRun \in {NoRun, inbox'[inbox'[c].target].run}
    <3>1. PICK t : t = inbox[c].target
      OBVIOUS
    <3>2. /\ inbox[c].kind = "stop" /\ inbox[c].state \in {"pending", "complete"}
          /\ t \in DOMAIN inbox /\ inbox[t].route = inbox[c].route
          /\ inbox[t].seq <= inbox[c].cutoff /\ inbox[t].state # "queued"
          /\ inbox[c].targetRun \in {NoRun, inbox[t].run}
      BY <2>2, <3>1 DEF Books, StopsAim, Alike
    <3>3. inbox'[c].targetRun \in {NoRun, inbox'[t].run}
      BY <1>1, <3>2 DEF Alike
    <3>4. inbox'[t].state # "queued" /\ inbox'[c].state \in {"pending", "complete"}
      BY <3>2
    <3>5. /\ inbox'[c].target = t /\ inbox'[c].kind = "stop"
          /\ inbox'[t].route = inbox'[c].route /\ inbox'[t].seq <= inbox'[c].cutoff
      BY <3>1, <3>2 DEF Alike
    <3> QED BY <3>2, <3>3, <3>4, <3>5
  <2> QED BY <2>1, <2>2
<1>4. StopEndsTarget'
  <2> SUFFICES ASSUME NEW c \in DOMAIN inbox, NEW x \in DOMAIN runs,
                      inbox'[c].state = "complete", inbox'[c].target = runs[x].key
               PROVE  runs[x].status \in Terminal
    BY DEF StopEndsTarget
  <2>1. inbox[c].target = runs[x].key /\ runs[x].key # NoMsg
    BY NoneAssumption DEF Alike, RunnerTyped, Run
  <2> QED BY <2>1 DEF Books, StopEndsTarget, RunOver
<1> QED BY <1>2, <1>3, <1>4 DEF Books

(* A new event has no run, and nothing it cancels had one.                  *)
LEMMA BooksIngest ==
    ASSUME OrderInv, RunnerTyped, Books, runs' = runs,
           NEW m \in Msgs, NEW r \in Routes, IngestMoves(m, r)
    PROVE  Books'
<1> USE DEF IngestMoves, Active
<1>1. RunsAgree'
  BY DEF Books, RunsAgree, Alike
<1>2. StopsAim'
  <2>1. ASSUME NEW c \in DOMAIN inbox
        PROVE  /\ inbox'[c].state = "pending" => inbox'[c].kind = "stop"
               /\ inbox'[c].target # NoMsg =>
                    /\ inbox'[c].kind = "stop"
                    /\ inbox'[c].state \in {"pending", "complete"}
                    /\ inbox'[c].target \in DOMAIN inbox'
                    /\ inbox'[inbox'[c].target].route = inbox'[c].route
                    /\ inbox'[inbox'[c].target].seq <= inbox'[c].cutoff
                    /\ inbox'[inbox'[c].target].state # "queued"
                    /\ inbox'[c].targetRun \in {NoRun, inbox'[inbox'[c].target].run}
    BY DEF Books, StopsAim, Alike
  <2>2. /\ inbox'[m].state = "pending" => inbox'[m].kind = "stop"
        /\ inbox'[m].target # NoMsg =>
             /\ inbox'[m].kind = "stop"
             /\ inbox'[m].state \in {"pending", "complete"}
             /\ inbox'[m].target \in DOMAIN inbox'
             /\ inbox'[inbox'[m].target].route = inbox'[m].route
             /\ inbox'[inbox'[m].target].seq <= inbox'[m].cutoff
             /\ inbox'[inbox'[m].target].state # "queued"
             /\ inbox'[m].targetRun \in {NoRun, inbox'[inbox'[m].target].run}
    BY DEF ItemsIn, Alike
  <2> QED BY <2>1, <2>2 DEF StopsAim
<1>3. StopEndsTarget'
  <2> SUFFICES ASSUME NEW c \in DOMAIN inbox', NEW x \in DOMAIN runs,
                      inbox'[c].state = "complete", inbox'[c].target = runs[x].key
               PROVE  runs[x].status \in Terminal
    BY DEF StopEndsTarget
  <2>1. runs[x].key # NoMsg
    BY NoneAssumption DEF RunnerTyped, Run
  <2>2. c \in DOMAIN inbox /\ inbox[c].state = "complete" /\ inbox[c].target = runs[x].key
    BY <2>1 DEF Alike
  <2> QED BY <2>2 DEF Books, StopEndsTarget
<1> QED BY <1>1, <1>2, <1>3 DEF Books

(* Runs go on, and never from an end.                                       *)
RunsGoOn ==
    /\ DOMAIN runs' = DOMAIN runs
    /\ \A x \in DOMAIN runs :
         /\ runs'[x].key = runs[x].key /\ runs'[x].route = runs[x].route
         /\ runs'[x].gen = runs[x].gen
         /\ runs[x].status \in Terminal => runs'[x].status \in Terminal

LEMMA BooksRuns ==
    ASSUME Books, inbox' = inbox, RunsGoOn
    PROVE  Books'
BY DEF Books, RunsAgree, StopsAim, StopEndsTarget, RunsGoOn

(* A run is submitted for a prompt in admission that has none.              *)
LEMMA BooksNewRun ==
    ASSUME OrderInv, RunnerTyped, Books, inbox' = inbox,
           NEW r \in Routes, NEW x \in RunIds \ DOMAIN runs, NEW owned, NewRun(r, x, owned),
           Work(r) \in DOMAIN inbox, inbox[Work(r)].route = r,
           inbox[Work(r)].gen = runner[r].gen, inbox[Work(r)].state = "admitting",
           NeverRan(Work(r))
    PROVE  Books'
<1>1. /\ DOMAIN runs' = DOMAIN runs \cup {x}
      /\ runs'[x].key = Work(r) /\ runs'[x].route = r /\ runs'[x].gen = runner[r].gen
      /\ \A y \in DOMAIN runs : runs'[y] = runs[y]
  BY DEF NewRun
<1>2. inbox[Work(r)].run = NoRun
  BY DEF OrderInv, KindsFit
<1>3. RunsAgree'
  BY <1>1, <1>2 DEF Books, RunsAgree, NeverRan
<1>4. StopsAim'
  BY DEF Books, StopsAim
<1>5. ASSUME NEW c \in DOMAIN inbox, inbox[c].state = "complete"
      PROVE  inbox[c].target # Work(r)
  <2> SUFFICES ASSUME inbox[c].target = Work(r) PROVE FALSE
    OBVIOUS
  <2>1. Work(r) # NoMsg
    BY NoneAssumption DEF OrderInv, Inv, TypeOK
  <2>2. /\ inbox[c].kind = "stop" /\ inbox[c].route = r
        /\ inbox[Work(r)].seq <= inbox[c].cutoff
    BY <2>1 DEF Books, StopsAim
  <2> QED BY <1>5, <2>2 DEF OrderInv, StopsReach
<1>6. StopEndsTarget'
  BY <1>1, <1>5 DEF Books, StopEndsTarget
<1> QED BY <1>3, <1>4, <1>6 DEF Books

-----------------------------------------------------------------------------
(* How a runner moves.                                                      *)

OthersStay(r) ==
    \A q \in Routes \ {r} : runner'[q] = runner[q] /\ handles'[q] = handles[q]

(* To another place, with this run; the work stays in hand.                 *)
Passes(r, pc, run) ==
    /\ runner' \in [Routes -> Locals]
    /\ \A q \in Routes \ {r} : runner'[q] = runner[q]
    /\ runner'[r].pc = pc /\ runner'[r].run = run
    /\ runner'[r].gen = runner[r].gen /\ runner'[r].work = runner[r].work
    /\ runner'[r].seen = runner[r].seen

(* Or back to the scheduler.                                                *)
Returns(r) ==
    /\ runner' \in [Routes -> Locals]
    /\ \A q \in Routes \ {r} : runner'[q] = runner[q]
    /\ runner'[r] = Idle

LEMMA IdleTyped == Idle \in Locals
BY DEF Idle, Locals, Pcs

LEMMA LocalsTyped ==
    ASSUME RunnerTyped, NEW r \in Routes
    PROVE  runner[r] \in Locals /\ runner \in [Routes -> Locals]
BY DEF RunnerTyped

LEMMA GotoPasses ==
    ASSUME RunnerTyped, NEW r \in Routes, NEW pc \in Pcs, Goto(r, pc)
    PROVE  Passes(r, pc, runner[r].run)
<1>1. runner[r] \in Locals /\ runner \in [Routes -> Locals]
  BY LocalsTyped, Zenon
<1>2. runner' = [runner EXCEPT ![r] = [runner[r] EXCEPT !.pc = pc]]
  BY DEF Goto
<1> QED BY <1>1, <1>2 DEF Passes, Locals

LEMMA TakesPasses ==
    ASSUME RunnerTyped, NEW r \in Routes, NEW pc \in Pcs, NEW run \in RunIds \cup {NoRun},
           runner' = [runner EXCEPT ![r].pc = pc, ![r].run = run]
    PROVE  Passes(r, pc, run)
<1>1. runner[r] \in Locals /\ runner \in [Routes -> Locals]
  BY LocalsTyped, Zenon
<1> QED BY <1>1 DEF Passes, Locals

LEMMA IdleReturns ==
    ASSUME RunnerTyped, NEW r \in Routes, runner' = [runner EXCEPT ![r] = Idle]
    PROVE  Returns(r)
BY IdleTyped DEF RunnerTyped, Returns

LEMMA ParkReturns ==
    ASSUME RunnerTyped, NEW r \in Routes, Park(r)
    PROVE  Passes(r, "loop", runner[r].run) \/ Returns(r)
<1>1. CASE r \in changed
  BY <1>1, GotoPasses DEF Park, Pcs
<1>2. CASE r \notin changed
  BY <1>2, IdleReturns DEF Park
<1> QED BY <1>1, <1>2

(* The generation it read stays that of the active prompt: what it takes up *)
(* is of that generation.                                                   *)
LEMMA GenerationKept ==
    ASSUME RunnerInv, NEW r \in Routes, ~At(r, "idle"), runner'[r].gen = runner[r].gen,
           DOMAIN inbox' = DOMAIN inbox,
           \A n \in DOMAIN inbox :
              /\ Alike(n)
              /\ inbox[n].route = r /\ inbox'[n].state \in Active =>
                   inbox[n].state \in Active \/ inbox[n].gen = runner[r].gen
    PROVE  KnowsGeneration(r)'
BY DEF RunnerInv, RunnersOK, RouteOK, KnowsGeneration, ItemsIn, Alike

(* Between two pieces of work a runner relies on its generation only.       *)
LEMMA Home ==
    ASSUME NEW r \in Routes, KnowsGeneration(r)',
           runner'[r].pc \in {"idle", "loop", "pick", "drain", "release"}
    PROVE  RouteOK(r)'
BY DEF RouteOK, HoldsWork, KnowsPrompt, Admits, Answers, Stops, At, PromptPcs, StopPcs

LEMMA BackHome ==
    ASSUME RunnerInv, NEW r \in Routes, ~At(r, "idle"),
           DOMAIN inbox' = DOMAIN inbox,
           \A n \in DOMAIN inbox :
              /\ Alike(n)
              /\ inbox[n].route = r /\ inbox'[n].state \in Active => inbox[n].state \in Active,
           \/ Returns(r)
           \/ /\ runner'[r].gen = runner[r].gen
              /\ runner'[r].pc \in {"loop", "pick", "drain", "release"}
    PROVE  RouteOK(r)'
<1>1. CASE Returns(r)
  <2>1. runner'[r].pc = "idle"
    BY <1>1 DEF Returns, Idle
  <2> QED BY <2>1, Home DEF KnowsGeneration, At
<1>2. CASE /\ runner'[r].gen = runner[r].gen
           /\ runner'[r].pc \in {"loop", "pick", "drain", "release"}
  BY <1>2, GenerationKept, Home
<1> QED BY <1>1, <1>2

-----------------------------------------------------------------------------
(* What every step of a runner is shown to do.                              *)

Keeps(r) ==
    /\ [Next]_storeVars /\ RunnerTyped' /\ Books'
    /\ DOMAIN inbox' = DOMAIN inbox /\ ingesting' = ingesting
    /\ \A q \in Routes \ {r} : Undisturbed(q)
    /\ RouteOK(r)'

LEMMA KeepsInv ==
    ASSUME RunnerInv, NEW r \in Routes, Keeps(r)
    PROVE  [Next]_storeVars /\ RunnerInv'
BY NextOrder, UndisturbedKeeps DEF RunnerInv, RunnersOK, Keeps

(* A step that changes neither the inbox nor the runs.                      *)
Calm == conv' = conv /\ inbox' = inbox /\ runs' = runs

LEMMA CalmKeeps ==
    ASSUME RunnerInv, NEW r \in Routes, Calm, [Next]_storeVars, OthersStay(r),
           runner' \in [Routes -> Locals], handles'[r] \in RunIds \cup {NoRun},
           handles' = [handles EXCEPT ![r] = handles'[r]],
           ingesting' = ingesting, faults' \in Nat,
           ~At(r, "idle")' => r \in DOMAIN conv, RouteOK(r)'
    PROVE  Keeps(r)
<1>1. RunnerTyped'
  BY DEF RunnerInv, RunnerTyped, Calm, OthersStay, At
<1>2. Books'
  BY DEF RunnerInv, Books, RunsAgree, StopsAim, StopEndsTarget, Calm
<1>3. \A q \in Routes \ {r} : Undisturbed(q)
  BY DEF Undisturbed, OthersStay, Calm, Alike
<1> QED BY <1>1, <1>2, <1>3 DEF Keeps, Calm

(* A step that changes one item of the runner's route.                      *)
LEMMA ItemKeeps ==
    ASSUME RunnerInv, NEW r \in Routes, NEW m \in DOMAIN inbox, NEW state, NEW run,
           inbox[m].route = r, OnlyMoves(m, state, run), BookMove(m), runs' = runs,
           [Next]_storeVars, handles' = handles, ingesting' = ingesting,
           faults' = faults \/ faults' \in Nat,
           runner' \in [Routes -> Locals], \A q \in Routes \ {r} : runner'[q] = runner[q],
           ~At(r, "idle"), RouteOK(r)'
    PROVE  Keeps(r)
<1>1. RunnerTyped'
  BY DEF RunnerInv, RunnerTyped, OnlyMoves, At
<1>2. \A n \in DOMAIN inbox : BookMove(n)
  BY DEF BookMove, OnlyMoves, Rests, Alike
<1>3. Books'
  BY <1>2, BooksItems DEF RunnerInv, OnlyMoves
<1>4. \A q \in Routes \ {r} : Undisturbed(q)
  BY DEF Undisturbed, OnlyMoves
<1> QED BY <1>1, <1>3, <1>4 DEF Keeps, OnlyMoves

(* A step that changes the runs only.                                       *)
LEMMA RunsKeep ==
    ASSUME RunnerInv, NEW r \in Routes, UNCHANGED storeVars, Books',
           runs' \in [DOMAIN runs' -> Run], DOMAIN runs' \subseteq RunIds,
           \A x \in DOMAIN runs :
              /\ x \in DOMAIN runs' /\ runs'[x].key = runs[x].key
              /\ runs[x].status \in Terminal => runs'[x].status \in Terminal,
           \A x \in DOMAIN runs' \ DOMAIN runs :
              runs'[x].key \in DOMAIN inbox /\ inbox[runs'[x].key].route = r,
           handles' = handles, ingesting' = ingesting, faults' \in Nat,
           runner' \in [Routes -> Locals], \A q \in Routes \ {r} : runner'[q] = runner[q],
           ~At(r, "idle"), RouteOK(r)'
    PROVE  Keeps(r)
<1>1. RunnerTyped'
  BY DEF RunnerInv, RunnerTyped, storeVars, At
<1>2. \A q \in Routes \ {r} : Undisturbed(q)
  BY DEF Undisturbed, storeVars, Alike
<1> QED BY <1>1, <1>2 DEF Keeps, storeVars

-----------------------------------------------------------------------------
(* The loop of a runner.                                                    *)

(* Giving up the work in hand changes nothing that anyone relies on.        *)
LEMMA CalmReturns ==
    ASSUME RunnerInv, NEW r \in Routes, ~At(r, "idle"), UNCHANGED <<storeVars, runs>>,
           \/ Returns(r)
           \/ \E run : \/ Passes(r, "loop", run) \/ Passes(r, "drain", run)
                       \/ Passes(r, "release", run),
           handles'[r] \in RunIds \cup {NoRun},
           handles' = [handles EXCEPT ![r] = handles'[r]],
           ingesting' = ingesting, faults' \in Nat
    PROVE  Keeps(r)
<1>1. r \in DOMAIN conv
  BY DEF RunnerInv, RunnerTyped
<1>2. Calm
  BY DEF Calm, storeVars
<1>3. OthersStay(r) /\ runner' \in [Routes -> Locals]
  BY DEF OthersStay, Passes, Returns, RunnerInv, RunnerTyped
<1>4. RouteOK(r)'
  <2>1. DOMAIN inbox' = DOMAIN inbox
        /\ \A n \in DOMAIN inbox : Alike(n) /\ inbox'[n].state = inbox[n].state
    BY <1>2 DEF Calm, Alike
  <2> QED BY <2>1, BackHome DEF Passes
<1> QED BY <1>1, <1>2, <1>3, <1>4, CalmKeeps

LEMMA GivesUp ==
    ASSUME RunnerInv, NEW r \in Routes,
           \/ LaneWaits(r) \/ ReadFails(r) \/ SettleUnrecorded(r)
           \/ FinishFails(r) \/ ReleaseHandle(r)
    PROVE  Keeps(r)
<1>1. RunnerTyped /\ handles \in [Routes -> RunIds \cup {NoRun}] /\ faults \in Nat
  BY DEF RunnerInv, RunnerTyped
<1>2. handles = [handles EXCEPT ![r] = handles[r]]
  BY <1>1
<1>3. CASE LaneWaits(r) \/ ReadFails(r) \/ SettleUnrecorded(r)
  <2>1. Park(r) /\ ~At(r, "idle") /\ UNCHANGED <<storeVars, runs, handles, ingesting>>
        /\ faults' \in Nat
    BY <1>1, <1>3 DEF LaneWaits, ReadFails, SettleUnrecorded, At, StopPcs, agentVars, Fault
  <2> QED BY <1>1, <1>2, <2>1, ParkReturns, CalmReturns
<1>4. CASE FinishFails(r)
  <2>1. Park(r) /\ ~At(r, "idle") /\ UNCHANGED <<storeVars, runs, ingesting>>
        /\ faults' \in Nat /\ handles' = [handles EXCEPT ![r] = NoRun]
    BY <1>1, <1>4 DEF FinishFails, At, agentVars, Fault
  <2>2. handles'[r] = NoRun
    BY <1>1, <2>1
  <2> QED BY <1>1, <2>1, <2>2, ParkReturns, CalmReturns
<1>5. CASE ReleaseHandle(r)
  <2>1. Goto(r, "loop") /\ ~At(r, "idle") /\ UNCHANGED <<storeVars, runs, ingesting>>
        /\ faults' \in Nat /\ handles' = [handles EXCEPT ![r] = NoRun]
    BY <1>1, <1>5 DEF ReleaseHandle, At, agentVars, schedVars
  <2>2. handles'[r] = NoRun
    BY <1>1, <2>1
  <2>3. Passes(r, "loop", runner[r].run)
    BY <1>1, <2>1, GotoPasses DEF Pcs
  <2> QED BY <1>1, <2>1, <2>2, <2>3, CalmReturns
<1> QED BY <1>3, <1>4, <1>5

(* A conversation that was read late is no other than before, as long as a  *)
(* prompt is active.                                                        *)
LEMMA ObserveKeeps == ASSUME RunnerInv, NEW r \in Routes, ObserveRoute(r) PROVE Keeps(r)
<1>1. /\ RunnerTyped /\ runner[r] \in Locals /\ runner \in [Routes -> Locals]
      /\ handles \in [Routes -> RunIds \cup {NoRun}] /\ faults \in Nat
      /\ r \in DOMAIN conv /\ conv[r].gen \in Nat
  BY DEF RunnerInv, RunnerTyped, Locals, OrderInv, Inv, TypeOK, ConvRow, ObserveRoute, At
<1>2. PICK gen \in {conv[r].gen, runner[r].gen} :
         runner' = [runner EXCEPT ![r] = [Idle EXCEPT !.pc = "pick", !.gen = gen]]
  BY DEF ObserveRoute
<1>3. /\ At(r, "loop") /\ UNCHANGED <<storeVars, runs, handles, ingesting>> /\ faults' \in Nat
  BY <1>1 DEF ObserveRoute, Fault, agentVars
<1>4. gen \in Nat /\ [Idle EXCEPT !.pc = "pick", !.gen = gen] \in Locals
  BY <1>1, <1>2 DEF Idle, Locals, Pcs
<1>5. /\ runner' \in [Routes -> Locals] /\ runner'[r].pc = "pick" /\ runner'[r].gen = gen
      /\ \A q \in Routes \ {r} : runner'[q] = runner[q]
  BY <1>1, <1>2, <1>4 DEF Idle
<1>6. KnowsGeneration(r)'
  <2> SUFFICES ASSUME NEW n \in ItemsIn(r, Active) PROVE inbox[n].gen = gen
    BY <1>3, <1>5 DEF KnowsGeneration, ItemsIn, storeVars
  <2>1. inbox[n].gen = runner[r].gen
    BY <1>3 DEF RunnerInv, RunnersOK, RouteOK, KnowsGeneration, At
  <2>2. inbox[n].gen = conv[r].gen
    BY DEF RunnerInv, OrderInv, Inv, RotationStrandsNothing, ItemsIn, Active, Unfinished
  <2> QED BY <1>2, <2>1, <2>2
<1>7. RouteOK(r)'
  BY <1>5, <1>6, Home
<1> QED BY <1>1, <1>3, <1>5, <1>7, CalmKeeps DEF Calm, OthersStay, storeVars

(* What NextWork returns is a pending stop, or the prompt that is first in  *)
(* line.                                                                    *)
LEMMA PickKeeps == ASSUME RunnerInv, NEW r \in Routes, PickWork(r) PROVE Keeps(r)
<1>1. /\ RunnerTyped /\ runner[r] \in Locals /\ runner \in [Routes -> Locals]
      /\ handles \in [Routes -> RunIds \cup {NoRun}] /\ faults \in Nat
  BY DEF RunnerInv, RunnerTyped
<1>2. At(r, "pick") /\ UNCHANGED <<storeVars, runs, handles, ingesting, faults>>
  BY DEF PickWork, agentVars, schedVars
<1>3. r \in DOMAIN conv
  BY <1>2 DEF RunnerInv, RunnerTyped, At
<1>4. CASE Goto(r, "drain")
  BY <1>1, <1>2, <1>4, GotoPasses, CalmReturns DEF At, Pcs
<1>5. ASSUME NEW m \in DOMAIN inbox, IsNextWork(m, r),
             runner' = [runner EXCEPT
                            ![r].pc = IF inbox[m].kind = "stop" THEN "stop" ELSE "prompt",
                            ![r].work = m,
                            ![r].seen = inbox[m].state,
                            ![r].run = inbox[m].run]
      PROVE  Keeps(r)
  <2>1. inbox[m] \in Item /\ m \in Msgs
    BY DEF RunnerInv, OrderInv, Inv, TypeOK
  <2>2. /\ runner' \in [Routes -> Locals]
        /\ runner'[r].pc = IF inbox[m].kind = "stop" THEN "stop" ELSE "prompt"
        /\ runner'[r].work = m /\ runner'[r].seen = inbox[m].state
        /\ runner'[r].run = inbox[m].run /\ runner'[r].gen = runner[r].gen
        /\ \A q \in Routes \ {r} : runner'[q] = runner[q]
    BY <1>1, <1>5, <2>1, ZenonT(30) DEF Locals, Item, Pcs, StopPcs
  <2>3. /\ inbox[m].route = r
        /\ \/ inbox[m].state = "pending" /\ inbox[m].kind = "stop"
           \/ /\ inbox[m].state \in {"queued"} \cup Active /\ inbox[m].kind = "prompt"
              /\ FirstInLine(m)
    BY <1>5 DEF IsNextWork, IsLowest, ItemsIn, FirstInLine, RunnerInv, Books, StopsAim,
                OrderInv, KindsFit, Holding
  <2>4. RouteOK(r)'
    <3>1. KnowsGeneration(r)'
      <4>1. DOMAIN inbox' = DOMAIN inbox
            /\ \A n \in DOMAIN inbox : Alike(n) /\ inbox'[n].state = inbox[n].state
        BY <1>2 DEF storeVars, Alike
      <4> QED BY <1>2, <2>2, <4>1, GenerationKept DEF At
    <3>2. inbox' = inbox /\ runs' = runs
      BY <1>2 DEF storeVars
    <3>3. CASE inbox[m].kind = "stop"
      <4>1. runner'[r].pc = "stop" /\ inbox[m].state = "pending"
        BY <2>2, <2>3, <3>3
      <4> QED BY <2>2, <2>3, <3>1, <3>2, <4>1
              DEF RouteOK, HoldsWork, KnowsPrompt, Admits, Answers, Stops, At, Work
    <3>4. CASE inbox[m].kind # "stop"
      <4>1. runner'[r].pc = "prompt"
        BY <2>2, <3>4
      <4>2. FirstInLine(m)'
        BY <2>3, <3>2, <3>4 DEF FirstInLine, IsLowest, ItemsIn
      <4>3. KnowsPrompt(r)'
        BY <2>2, <2>3, <3>2, <3>4, <4>1, <4>2 DEF KnowsPrompt, At, Work
      <4> QED BY <2>2, <2>3, <3>1, <3>2, <4>1, <4>3
              DEF RouteOK, HoldsWork, Admits, Answers, Stops, At, Work, StopPcs
    <3> QED BY <3>3, <3>4
  <2> QED BY <1>1, <1>2, <1>3, <2>2, <2>4, CalmKeeps DEF Calm, OthersStay, storeVars
<1> QED BY <1>4, <1>5 DEF PickWork

(* An empty lane ends the runner, or lets it look again.                    *)
LEMMA LaneClearKeeps == ASSUME RunnerInv, NEW r \in Routes, LaneClear(r) PROVE Keeps(r)
<1>1. /\ RunnerTyped /\ runner[r] \in Locals /\ runner \in [Routes -> Locals]
      /\ handles \in [Routes -> RunIds \cup {NoRun}] /\ faults \in Nat
  BY DEF RunnerInv, RunnerTyped
<1>2. At(r, "drain") /\ UNCHANGED <<storeVars, runs, handles, ingesting, faults>>
  BY DEF LaneClear, agentVars, schedVars
<1>3. CASE runner' = [runner EXCEPT ![r] = Idle]
  BY <1>1, <1>2, <1>3, IdleReturns, CalmReturns DEF At
<1>4. CASE runner' = [runner EXCEPT ![r] = LoopWith(runner[r].gen)]
  <2>1. LoopWith(runner[r].gen) \in Locals /\ LoopWith(runner[r].gen).pc = "loop"
        /\ LoopWith(runner[r].gen).gen = runner[r].gen
    BY <1>1 DEF LoopWith, Idle, Locals, Pcs
  <2>2. /\ runner' \in [Routes -> Locals] /\ runner'[r].pc = "loop"
        /\ runner'[r].gen = runner[r].gen /\ OthersStay(r)
    BY <1>1, <1>2, <1>4, <2>1 DEF OthersStay
  <2>3. DOMAIN inbox' = DOMAIN inbox
        /\ \A n \in DOMAIN inbox : Alike(n) /\ inbox'[n].state = inbox[n].state
    BY <1>2 DEF storeVars, Alike
  <2>4. RouteOK(r)'
    BY <1>2, <2>2, <2>3, BackHome DEF At
  <2>5. r \in DOMAIN conv
    BY <1>2 DEF RunnerInv, RunnerTyped, At
  <2> QED BY <1>1, <1>2, <2>2, <2>4, <2>5, CalmKeeps DEF Calm, storeVars
<1> QED BY <1>3, <1>4 DEF LaneClear

(* A drained row is a step of the lane, which no runner relies on.          *)
LEMMA DrainKeeps == ASSUME RunnerInv, NEW r \in Routes, DrainRow(r) PROVE Keeps(r)
<1>1. /\ RunnerTyped /\ runner \in [Routes -> Locals]
      /\ handles \in [Routes -> RunIds \cup {NoRun}] /\ faults \in Nat
  BY DEF RunnerInv, RunnerTyped
<1>2. /\ At(r, "drain") /\ \E k \in DOMAIN deliveries : LaneStep(k)
      /\ UNCHANGED <<runner, runs, handles, ingesting, faults>>
  BY DEF DrainRow, Unresolved, agentVars, schedVars
<1>3. Next /\ conv' = conv /\ inbox' = inbox
  BY <1>2 DEF Next, LaneStep
<1>4. RouteOK(r)'
  <2>1. DOMAIN inbox' = DOMAIN inbox
        /\ \A n \in DOMAIN inbox : Alike(n) /\ inbox'[n].state = inbox[n].state
    BY <1>3 DEF Alike
  <2> QED BY <1>2, <2>1, BackHome DEF At
<1>5. r \in DOMAIN conv
  BY <1>2 DEF RunnerInv, RunnerTyped, At
<1> QED BY <1>1, <1>2, <1>3, <1>4, <1>5, CalmKeeps DEF Calm, OthersStay

-----------------------------------------------------------------------------
(* Arrivals: what makes a place of the code sound to be in.                 *)

LEMMA AtAdmission ==
    ASSUME NEW r \in Routes, KnowsGeneration(r)',
           runner'[r].pc \in {"lookup", "submit", "refuse", "receipt", "settle"},
           runner'[r].work \in DOMAIN inbox', inbox'[runner'[r].work].route = r,
           inbox'[runner'[r].work].state = "admitting",
           runner'[r].pc \in {"submit", "refuse"} =>
              \A x \in DOMAIN runs' : runs'[x].key # runner'[r].work,
           runner'[r].pc \in {"receipt", "settle"} =>
              runner'[r].run \in DOMAIN runs' /\ runs'[runner'[r].run].key = runner'[r].work
    PROVE  RouteOK(r)'
BY DEF RouteOK, HoldsWork, KnowsPrompt, Admits, Answers, Stops, At, Work, NeverRan, StopPcs

LEMMA AtAnswer ==
    ASSUME NEW r \in Routes, KnowsGeneration(r)',
           runner'[r].pc \in {"recover", "own", "replay", "wait", "finish"},
           runner'[r].work \in DOMAIN inbox', inbox'[runner'[r].work].route = r,
           inbox'[runner'[r].work].state = "admitted",
           inbox'[runner'[r].work].run = runner'[r].run,
           runner'[r].pc \in {"replay", "wait"} => handles'[r] = runner'[r].run,
           runner'[r].pc = "finish" => runs'[runner'[r].run].status \in Terminal
    PROVE  RouteOK(r)'
BY DEF RouteOK, HoldsWork, KnowsPrompt, Admits, Answers, Stops, At, Work, StopPcs

LEMMA AtStop ==
    ASSUME NEW r \in Routes, KnowsGeneration(r)', NEW c, NEW t,
           runner'[r].pc \in StopPcs, runner'[r].work = c,
           c \in DOMAIN inbox', inbox'[c].route = r,
           inbox'[c].state = "pending", inbox'[c].target = t,
           runner'[r].pc = "stopLookup" => t # NoMsg /\ inbox'[t].state = "admitting",
           runner'[r].pc = "stopRun" =>
              t # NoMsg /\ inbox'[t].state = "admitted" /\ inbox'[t].run = runner'[r].run,
           runner'[r].pc = "stopDone" /\ t # NoMsg =>
              /\ inbox'[t].state # "admitting"
              /\ \A x \in DOMAIN runs' : runs'[x].key = t => runs'[x].status \in Terminal
    PROVE  RouteOK(r)'
BY DEF RouteOK, HoldsWork, KnowsPrompt, Admits, Answers, Stops, At, Work, RunOver, StopPcs

(* The generation that is read stays right when no item changes, and when a *)
(* step moves one item that is active or of that generation.                *)
LEMMA CalmGeneration ==
    ASSUME RunnerInv, NEW r \in Routes, ~At(r, "idle"), runner'[r].gen = runner[r].gen,
           inbox' = inbox
    PROVE  KnowsGeneration(r)'
BY GenerationKept DEF Alike

LEMMA MovedGeneration ==
    ASSUME RunnerInv, NEW r \in Routes, ~At(r, "idle"), runner'[r].gen = runner[r].gen,
           NEW m \in DOMAIN inbox, NEW state, NEW run, OnlyMoves(m, state, run),
           state \in Active => inbox[m].state \in Active \/ inbox[m].gen = runner[r].gen
    PROVE  KnowsGeneration(r)'
BY GenerationKept DEF OnlyMoves

-----------------------------------------------------------------------------
(* A prompt, up to its admission.                                           *)

(* What a runner with a prompt in its hands knows.                          *)
LEMMA InHand ==
    ASSUME RunnerInv, NEW r \in Routes
    PROVE  /\ RunnerTyped /\ runner[r] \in Locals /\ runner \in [Routes -> Locals]
           /\ handles \in [Routes -> RunIds \cup {NoRun}] /\ faults \in Nat
           /\ handles = [handles EXCEPT ![r] = handles[r]]
           /\ runner[r].pc # "idle" => r \in DOMAIN conv
           /\ runner[r].pc \in {"prompt"} \cup (PromptPcs \ {"release"}) \cup StopPcs =>
                Work(r) \in DOMAIN inbox /\ inbox[Work(r)].route = r
BY DEF RunnerInv, RunnerTyped, RunnersOK, RouteOK, HoldsWork, At

LEMMA StaleKeeps == ASSUME RunnerInv, NEW r \in Routes, StaleGeneration(r) PROVE Keeps(r)
<1>1. PICK m : m = Work(r)
  OBVIOUS
<1>2. /\ At(r, "prompt") /\ inbox[m].gen # runner[r].gen
      /\ Transition(m, States, "canceled") /\ Goto(r, "loop")
      /\ UNCHANGED <<runs, ingesting, handles, faults>>
  BY <1>1 DEF StaleGeneration, AcquiresSlot, Stale, agentVars
<1>3. m \in DOMAIN inbox /\ inbox[m].route = r
  BY <1>1, <1>2, InHand DEF At
<1>4. inbox[m].kind = "prompt" /\ inbox[m].state \in {"queued", "canceled"}
  BY <1>1, <1>2, <1>3
     DEF RunnerInv, RunnersOK, RouteOK, KnowsPrompt, KnowsGeneration, At, ItemsIn
<1>5. OnlyMoves(m, "canceled", inbox[m].run)
  BY <1>2, <1>3, TransitionOnly DEF RunnerInv
<1>6. [Next]_storeVars
  BY <1>2, <1>3, <1>4 DEF Next, InboxStep, CancelStale, Transition
<1>7. BookMove(m)
  <2>1. Alike(m) /\ inbox'[m].state = "canceled" /\ inbox'[m].run = inbox[m].run
    BY <1>3, <1>5 DEF OnlyMoves
  <2> QED BY <1>4, <2>1 DEF BookMove, Rests
<1>8. Passes(r, "loop", runner[r].run)
  BY <1>2, InHand, GotoPasses DEF Pcs
<1>9. RouteOK(r)'
  BY <1>2, <1>3, <1>5, <1>8, Home, MovedGeneration DEF Passes, At, Active
<1> QED BY <1>2, <1>3, <1>5, <1>6, <1>7, <1>8, <1>9, ItemKeeps DEF Passes, At

(* The prompt NextWork returned is still first in line, so starting it, or  *)
(* turning it away, is a step of the store.                                 *)
LEMMA BeginKeeps ==
    ASSUME RunnerInv, NEW r \in Routes, BeginPrompt(r) \/ HistoryLimit(r)
    PROVE  Keeps(r)
<1>1. PICK m : m = Work(r)
  OBVIOUS
<1>2. /\ At(r, "prompt") /\ inbox[m].gen = runner[r].gen
      /\ UNCHANGED <<runs, ingesting, handles>> /\ faults' \in Nat
  BY <1>1, InHand DEF BeginPrompt, HistoryLimit, AcquiresSlot, Stale, Fault, agentVars
<1>3. m \in DOMAIN inbox /\ inbox[m].route = r
  BY <1>1, <1>2, InHand DEF At
<1>4. inbox[m].state = "queued" => FirstInLine(m)
  BY <1>1, <1>2 DEF RunnerInv, RunnersOK, RouteOK, KnowsPrompt
<1>5. CASE inbox[m].state = "queued" /\ BeginPrompt(r)
  <2>1. Transition(m, {"queued"}, "admitting") /\ Goto(r, "lookup")
    BY <1>1, <1>5 DEF BeginPrompt
  <2>2. OnlyMoves(m, "admitting", inbox[m].run)
    BY <1>3, <2>1, TransitionOnly DEF RunnerInv
  <2>3. [Next]_storeVars
    BY <1>3, <1>4, <1>5, <2>1 DEF Next, InboxStep, StartAdmitting
  <2>4. BookMove(m)
    BY <1>3, <1>5, <2>2 DEF BookMove, OnlyMoves
  <2>5. Passes(r, "lookup", runner[r].run)
    BY <2>1, InHand, GotoPasses DEF Pcs, PromptPcs
  <2>6. KnowsGeneration(r)'
    BY <1>2, <1>3, <2>2, <2>5, MovedGeneration DEF Passes, At
  <2>7. RouteOK(r)'
    <3>1. runner'[r].work = m /\ inbox'[m].route = r /\ inbox'[m].state = "admitting"
          /\ m \in DOMAIN inbox'
      BY <1>1, <1>3, <2>2, <2>5 DEF Passes, OnlyMoves, Alike, Work
    <3> QED BY <2>5, <2>6, <3>1, AtAdmission DEF Passes
  <2> QED BY <1>2, <1>3, <2>2, <2>3, <2>4, <2>5, <2>7, ItemKeeps DEF Passes, At
<1>6. CASE inbox[m].state = "queued" /\ Transition(m, {"queued"}, "rejected") /\ Goto(r, "loop")
  <2>1. Transition(m, {"queued"}, "rejected") /\ Goto(r, "loop")
    BY <1>6
  <2>2. OnlyMoves(m, "rejected", inbox[m].run)
    BY <1>3, <2>1, TransitionOnly DEF RunnerInv
  <2>3. [Next]_storeVars
    BY <1>3, <1>4, <1>6, <2>1 DEF Next, InboxStep, RejectHistory
  <2>4. BookMove(m)
    <3>1. Alike(m) /\ inbox'[m].state = "rejected" /\ inbox'[m].run = inbox[m].run
      BY <1>3, <2>2 DEF OnlyMoves
    <3> QED BY <1>6, <3>1 DEF BookMove
  <2>5. Passes(r, "loop", runner[r].run)
    BY <2>1, InHand, GotoPasses DEF Pcs
  <2>6. RouteOK(r)'
    BY <1>2, <1>3, <2>2, <2>5, Home, MovedGeneration DEF Passes, At, Active
  <2> QED BY <1>2, <1>3, <2>2, <2>3, <2>4, <2>5, <2>6, ItemKeeps DEF Passes, At
<1>7. CASE UNCHANGED storeVars /\ (Park(r) \/ Goto(r, "loop"))
  <2>1. UNCHANGED <<storeVars, runs>> /\ (Park(r) \/ Goto(r, "loop"))
    BY <1>2, <1>7
  <2>2. Returns(r) \/ Passes(r, "loop", runner[r].run)
    BY <2>1, InHand, ParkReturns, GotoPasses DEF Pcs
  <2> QED BY <1>2, <2>1, <2>2, InHand, CalmReturns DEF At
<1>8. \/ inbox[m].state = "queued" /\ BeginPrompt(r)
      \/ inbox[m].state = "queued" /\ Transition(m, {"queued"}, "rejected") /\ Goto(r, "loop")
      \/ UNCHANGED storeVars /\ (Park(r) \/ Goto(r, "loop"))
  BY <1>1 DEF BeginPrompt, HistoryLimit
<1> QED BY <1>5, <1>6, <1>7, <1>8

LEMMA ResumeKeeps == ASSUME RunnerInv, NEW r \in Routes, ResumePrompt(r) PROVE Keeps(r)
<1>1. PICK m : m = Work(r)
  OBVIOUS
<1>2. /\ At(r, "prompt") /\ runner[r].seen \in Active
      /\ Goto(r, IF runner[r].seen = "admitting" THEN "lookup" ELSE "recover")
      /\ UNCHANGED <<storeVars, runs, ingesting, handles, faults>>
  BY DEF ResumePrompt, AcquiresSlot, agentVars
<1>3. /\ m \in DOMAIN inbox /\ inbox[m].route = r /\ inbox[m].state = runner[r].seen
      /\ inbox[m].run = runner[r].run
  BY <1>1, <1>2, InHand DEF At, RunnerInv, RunnersOK, RouteOK, KnowsPrompt, Active
<1>4. Passes(r, IF runner[r].seen = "admitting" THEN "lookup" ELSE "recover", runner[r].run)
  BY <1>2, InHand, GotoPasses DEF Pcs, PromptPcs
<1>5. KnowsGeneration(r)'
  BY <1>2, <1>4, CalmGeneration DEF Passes, At, storeVars
<1>6. inbox' = inbox /\ runs' = runs /\ runner'[r].work = m
  BY <1>1, <1>2, <1>4 DEF storeVars, Passes, Work
<1>7. RouteOK(r)'
  <2>1. CASE runner[r].seen = "admitting"
    BY <1>3, <1>4, <1>5, <1>6, <2>1, AtAdmission DEF Passes
  <2>2. CASE runner[r].seen = "admitted"
    BY <1>3, <1>4, <1>5, <1>6, <2>2, AtAnswer DEF Passes
  <2> QED BY <1>2, <2>1, <2>2 DEF Active
<1> QED BY <1>2, <1>4, <1>7, InHand, CalmKeeps DEF Calm, OthersStay, Passes, storeVars, At

(* A receipt is recorded for its own message, and for no other.             *)
LEMMA ReceiptStep ==
    ASSUME RunnerInv, NEW m \in DOMAIN inbox, inbox[m].state = "admitting",
           NEW x \in DOMAIN runs, runs[x].key = m, MarkAdmitted(m, x)
    PROVE  [Next]_storeVars /\ BookMove(m) /\ OnlyMoves(m, "admitted", x)
<1>1. inbox[m].run = NoRun /\ x \in RunIds
  BY DEF RunnerInv, RunnerTyped, OrderInv, KindsFit
<1>2. \A n \in DOMAIN inbox : inbox[n].run # x
  <2> SUFFICES ASSUME NEW n \in DOMAIN inbox, inbox[n].run = x PROVE FALSE
    OBVIOUS
  <2>1. inbox[n].state \in {"admitted", "terminal"}
    BY <1>1, NoneAssumption DEF RunnerInv, OrderInv, KindsFit
  <2> QED BY <2>1 DEF RunnerInv, Books, RunsAgree
<1>3. RecordReceipt(m, x)
  BY <1>1, <1>2 DEF RecordReceipt, ReceiptFor
<1>4. Next
  BY <1>1, <1>3 DEF Next, InboxStep
<1>5. OnlyMoves(m, "admitted", x)
  BY AdmittedOnly DEF RunnerInv
<1>6. Alike(m) /\ inbox'[m].state = "admitted" /\ inbox'[m].run = x
  BY <1>5 DEF OnlyMoves
<1> QED BY <1>4, <1>5, <1>6 DEF BookMove, Active

(* The keyed lookup finds the run of a message in admission if there is one:*)
(* it is in the session of the generation the runner knows.                 *)
LEMMA NothingFound ==
    ASSUME RunnerInv, NEW r \in Routes, ~At(r, "idle"), NEW m \in DOMAIN inbox,
           inbox[m].route = r, inbox[m].state = "admitting",
           Receipts(r, runner[r].gen, m) = {}
    PROVE  NeverRan(m)
<1>1. inbox[m].gen = runner[r].gen
  BY DEF RunnerInv, RunnersOK, RouteOK, KnowsGeneration, ItemsIn, Active
<1> QED BY <1>1 DEF Receipts, NeverRan, RunnerInv, Books, RunsAgree

(* What a runner knows of the prompt it admits.                             *)
LEMMA InAdmission ==
    ASSUME RunnerInv, NEW r \in Routes,
           runner[r].pc \in {"lookup", "submit", "refuse", "receipt", "settle"}
    PROVE  /\ Work(r) \in DOMAIN inbox /\ inbox[Work(r)].route = r
           /\ inbox[Work(r)].state = "admitting" /\ inbox[Work(r)].gen = runner[r].gen
           /\ ~At(r, "idle") /\ r \in DOMAIN conv
           /\ runner[r].pc \in {"submit", "refuse"} => NeverRan(Work(r))
           /\ runner[r].pc \in {"receipt", "settle"} =>
                runner[r].run \in DOMAIN runs /\ runs[runner[r].run].key = Work(r)
<1>1. Work(r) \in DOMAIN inbox /\ inbox[Work(r)].route = r /\ r \in DOMAIN conv
  BY InHand DEF PromptPcs
<1>2. ~At(r, "idle")
  BY DEF At
<1>3. inbox[Work(r)].state = "admitting"
  BY DEF RunnerInv, RunnersOK, RouteOK, Admits
<1>4. inbox[Work(r)].gen = runner[r].gen
  BY <1>1, <1>2, <1>3 DEF RunnerInv, RunnersOK, RouteOK, KnowsGeneration, ItemsIn, Active
<1> QED BY <1>1, <1>2, <1>3, <1>4 DEF RunnerInv, RunnersOK, RouteOK, Admits

LEMMA LookupKeeps == ASSUME RunnerInv, NEW r \in Routes, LookupReceipt(r) PROVE Keeps(r)
<1>1. PICK m : m = Work(r)
  OBVIOUS
<1>2. At(r, "lookup") /\ UNCHANGED <<runs, ingesting, handles, faults>>
  BY DEF LookupReceipt, agentVars, schedVars
<1>3. /\ m \in DOMAIN inbox /\ inbox[m].route = r /\ inbox[m].state = "admitting"
      /\ inbox[m].gen = runner[r].gen
  BY <1>1, <1>2, InAdmission DEF At
<1>4. ASSUME NEW x \in Receipts(r, runner[r].gen, m), MarkAdmitted(m, x),
             runner' = [runner EXCEPT ![r].pc = "recover", ![r].run = x]
      PROVE  Keeps(r)
  <2>1. x \in DOMAIN runs /\ runs[x].key = m /\ x \in RunIds
    BY <1>4 DEF Receipts, RunnerInv, RunnerTyped
  <2>2. [Next]_storeVars /\ BookMove(m) /\ OnlyMoves(m, "admitted", x)
    BY <1>3, <1>4, <2>1, ReceiptStep
  <2>3. Passes(r, "recover", x)
    BY <1>4, <2>1, InHand, TakesPasses DEF Pcs, PromptPcs
  <2>4. KnowsGeneration(r)'
    BY <1>2, <1>3, <2>2, <2>3, MovedGeneration DEF Passes, At
  <2>5. /\ runner'[r].work = m /\ inbox'[m].route = r /\ inbox'[m].state = "admitted"
        /\ m \in DOMAIN inbox' /\ inbox'[m].run = x
    BY <1>1, <1>3, <2>2, <2>3 DEF Passes, OnlyMoves, Alike, Work
  <2>6. RouteOK(r)'
    BY <2>3, <2>4, <2>5, AtAnswer DEF Passes
  <2> QED BY <1>2, <1>3, <2>2, <2>3, <2>6, ItemKeeps DEF Passes, At
<1>5. ASSUME Receipts(r, runner[r].gen, m) = {}, IncrementAttempts(m),
             Goto(r, IF inbox'[m].attempts > MaxAdmissionAttempts THEN "refuse" ELSE "submit")
      PROVE  Keeps(r)
  <2>1. OnlyMoves(m, inbox[m].state, inbox[m].run)
    BY <1>3, <1>5, CountedOnly DEF RunnerInv
  <2>2. [Next]_storeVars
    BY <1>3, <1>5 DEF Next, InboxStep, CountAttempt
  <2>3. BookMove(m)
    BY <1>3, <2>1 DEF BookMove, OnlyMoves, Rests
  <2>4. PICK pc \in {"refuse", "submit"} : Goto(r, pc)
    BY <1>5
  <2>5. Passes(r, pc, runner[r].run)
    BY <2>4, InHand, GotoPasses DEF Pcs, PromptPcs
  <2>6. KnowsGeneration(r)'
    BY <1>2, <1>3, <2>1, <2>5, MovedGeneration DEF Passes, At
  <2>7. NeverRan(m)
    BY <1>2, <1>3, <1>5, NothingFound DEF At
  <2>8. /\ runner'[r].work = m /\ inbox'[m].route = r /\ inbox'[m].state = "admitting"
        /\ m \in DOMAIN inbox' /\ runner'[r].pc = pc
    BY <1>1, <1>3, <2>1, <2>5 DEF Passes, OnlyMoves, Alike, Work
  <2>9. RouteOK(r)'
    BY <1>2, <2>4, <2>6, <2>7, <2>8, AtAdmission DEF NeverRan
  <2> QED BY <1>2, <1>3, <2>1, <2>2, <2>3, <2>5, <2>9, ItemKeeps DEF Passes, At
<1> QED BY <1>1, <1>4, <1>5 DEF LookupReceipt

LEMMA RefuseKeeps == ASSUME RunnerInv, NEW r \in Routes, RefuseAdmission(r) PROVE Keeps(r)
<1>1. PICK m : m = Work(r)
  OBVIOUS
<1>2. /\ At(r, "refuse") /\ Park(r)
      /\ UNCHANGED <<runs, ingesting, handles>> /\ faults' \in Nat
  BY <1>1, InHand DEF RefuseAdmission, Fault, agentVars
<1>3. /\ m \in DOMAIN inbox /\ inbox[m].route = r /\ inbox[m].state = "admitting"
      /\ NeverRan(m)
  BY <1>1, <1>2, InAdmission DEF At
<1>4. Returns(r) \/ Passes(r, "loop", runner[r].run)
  BY <1>2, InHand, ParkReturns
<1>5. CASE Transition(m, {"admitting"}, "rejected")
  <2>1. OnlyMoves(m, "rejected", inbox[m].run)
    BY <1>3, <1>5, TransitionOnly DEF RunnerInv
  <2>2. [Next]_storeVars
    BY <1>3, <1>5 DEF Next, InboxStep, RejectAdmission
  <2>3. BookMove(m)
    <3>1. Alike(m) /\ inbox'[m].state = "rejected" /\ inbox'[m].run = inbox[m].run
      BY <1>3, <2>1 DEF OnlyMoves
    <3> QED BY <1>3, <3>1 DEF BookMove
  <2>4. CASE Passes(r, "loop", runner[r].run)
    <3>1. RouteOK(r)'
      BY <1>2, <1>3, <2>1, <2>4, Home, MovedGeneration DEF Passes, At, Active
    <3> QED BY <1>2, <1>3, <2>1, <2>2, <2>3, <2>4, <3>1, ItemKeeps DEF Passes, At
  <2>5. CASE Returns(r)
    <3>1. runner'[r].pc = "idle"
      BY <2>5 DEF Returns, Idle
    <3>2. RouteOK(r)'
      BY <3>1, Home DEF KnowsGeneration, At
    <3> QED BY <1>2, <1>3, <2>1, <2>2, <2>3, <2>5, <3>2, ItemKeeps DEF Returns, At
  <2> QED BY <1>4, <2>4, <2>5
<1>6. CASE UNCHANGED storeVars
  BY <1>2, <1>4, <1>6, InHand, CalmReturns DEF At
<1> QED BY <1>1, <1>5, <1>6 DEF RefuseAdmission

(* A new run is the first of its message.                                   *)
LEMMA NewRunKeeps ==
    ASSUME RunnerInv, NEW r \in Routes, At(r, "submit"),
           NEW x \in RunIds \ DOMAIN runs, NEW owned \in BOOLEAN, NewRun(r, x, owned),
           UNCHANGED storeVars, handles' = handles, ingesting' = ingesting, faults' \in Nat,
           \/ Passes(r, "receipt", x)
           \/ Passes(r, "lookup", runner[r].run)
    PROVE  Keeps(r)
<1>1. PICK m : m = Work(r)
  OBVIOUS
<1>2. /\ m \in DOMAIN inbox /\ inbox[m].route = r /\ inbox[m].state = "admitting"
      /\ NeverRan(m) /\ inbox[m].gen = runner[r].gen
  BY <1>1, InAdmission DEF At
<1>3. inbox' = inbox
  BY DEF storeVars
<1>4. Books'
  BY <1>1, <1>2, <1>3, BooksNewRun DEF RunnerInv
<1>5. /\ DOMAIN runs' = DOMAIN runs \cup {x}
      /\ runs'[x] = [route |-> r, gen |-> runner[r].gen, key |-> m,
                     status |-> "running", owned |-> owned, resumed |-> FALSE]
      /\ \A y \in DOMAIN runs : runs'[y] = runs[y]
  BY <1>1 DEF NewRun
<1>6. runs'[x] \in Run
  <2>1. m \in Msgs /\ runner[r].gen \in Nat
    BY <1>2, InHand DEF RunnerInv, OrderInv, Inv, TypeOK, Locals
  <2> QED BY <1>5, <2>1 DEF Run, Running
<1>7. runs' \in [DOMAIN runs' -> Run] /\ DOMAIN runs' \subseteq RunIds
  BY <1>5, <1>6 DEF RunnerInv, RunnerTyped, NewRun
<1>8. RouteOK(r)'
  <2>1. KnowsGeneration(r)'
    BY <1>3, CalmGeneration DEF Passes, At
  <2>2. runner'[r].work = m
    BY <1>1 DEF Passes, Work
  <2> QED BY <1>2, <1>3, <1>5, <2>1, <2>2, AtAdmission DEF Passes
<1>9. runner' \in [Routes -> Locals] /\ \A q \in Routes \ {r} : runner'[q] = runner[q]
  BY DEF Passes
<1>10. runs'[x].key = m
  BY <1>5
<1> QED BY <1>2, <1>4, <1>5, <1>7, <1>8, <1>9, <1>10, RunsKeep DEF At

LEMMA SubmitKeeps ==
    ASSUME RunnerInv, NEW r \in Routes,
           \/ SubmitAccepted(r) \/ SubmitBusy(r) \/ SubmitInvalid(r) \/ SubmitFails(r)
           \/ PersistReceiptFails(r)
    PROVE  Keeps(r)
<1>1. UNCHANGED <<storeVars, ingesting, handles>> /\ faults' \in Nat
  <2>1. UNCHANGED <<storeVars, schedVars, handles>> /\ (faults' = faults \/ Fault)
    BY DEF SubmitAccepted, SubmitBusy, SubmitInvalid, SubmitFails, PersistReceiptFails
  <2> QED BY <2>1, InHand DEF schedVars, Fault
<1>2. PICK m : m = Work(r)
  OBVIOUS
<1>3. runner[r].pc \in {"submit", "receipt"}
  BY DEF SubmitAccepted, SubmitBusy, SubmitInvalid, SubmitFails, PersistReceiptFails, At
<1>4. /\ m \in DOMAIN inbox /\ inbox[m].route = r /\ inbox[m].state = "admitting"
      /\ ~At(r, "idle") /\ r \in DOMAIN conv
      /\ At(r, "submit") => NeverRan(m)
      /\ At(r, "receipt") => runner[r].run \in DOMAIN runs /\ runs[runner[r].run].key = m
  BY <1>2, <1>3, InAdmission DEF At
<1>5. ASSUME NEW x \in RunIds \ DOMAIN runs, At(r, "submit"), NewRun(r, x, TRUE),
             runner' = [runner EXCEPT ![r].pc = "receipt", ![r].run = x]
      PROVE  Keeps(r)
  <2>1. Passes(r, "receipt", x)
    BY <1>5, InHand, TakesPasses DEF Pcs, PromptPcs
  <2> QED BY <1>1, <1>5, <2>1, NewRunKeeps
<1>6. ASSUME NEW x \in RunIds \ DOMAIN runs, At(r, "submit"), NewRun(r, x, FALSE), Goto(r, "lookup")
      PROVE  Keeps(r)
  <2>1. Passes(r, "lookup", runner[r].run)
    BY <1>6, InHand, GotoPasses DEF Pcs, PromptPcs
  <2> QED BY <1>1, <1>6, <2>1, NewRunKeeps
<1>7. ASSUME NEW pc \in {"lookup", "refuse", "settle"}, Goto(r, pc), runs' = runs,
             pc = "refuse" => At(r, "submit"), pc = "settle" => At(r, "receipt")
      PROVE  Keeps(r)
  <2>1. Passes(r, pc, runner[r].run)
    BY <1>7, InHand, GotoPasses DEF Pcs, PromptPcs
  <2>2. inbox' = inbox /\ runner'[r].work = m
    BY <1>1, <1>2, <2>1 DEF storeVars, Passes, Work
  <2>3. KnowsGeneration(r)'
    BY <1>4, <2>1, <2>2, CalmGeneration DEF Passes
  <2>4. RouteOK(r)'
    BY <1>4, <1>7, <2>1, <2>2, <2>3, AtAdmission DEF Passes, NeverRan
  <2> QED BY <1>1, <1>4, <1>7, <2>1, <2>4, InHand, CalmKeeps DEF Calm, OthersStay, Passes, storeVars
<1>8. CASE SubmitBusy(r) \/ SubmitInvalid(r) \/ PersistReceiptFails(r)
  BY <1>7, <1>8 DEF SubmitBusy, SubmitInvalid, PersistReceiptFails, agentVars
<1>9. CASE SubmitAccepted(r)
  BY <1>5, <1>9 DEF SubmitAccepted
<1>10. CASE SubmitFails(r)
  BY <1>6, <1>7, <1>10 DEF SubmitFails
<1> QED BY <1>8, <1>9, <1>10

LEMMA PersistKeeps == ASSUME RunnerInv, NEW r \in Routes, PersistReceipt(r) PROVE Keeps(r)
<1>1. PICK m, x : m = Work(r) /\ x = runner[r].run
  OBVIOUS
<1>2. /\ At(r, "receipt") /\ MarkAdmitted(m, x) /\ Goto(r, "own")
      /\ UNCHANGED <<runs, ingesting, handles, faults>>
  BY <1>1 DEF PersistReceipt, agentVars, schedVars
<1>3. /\ m \in DOMAIN inbox /\ inbox[m].route = r /\ inbox[m].state = "admitting"
      /\ x \in DOMAIN runs /\ runs[x].key = m
  BY <1>1, <1>2, InAdmission DEF At
<1>4. [Next]_storeVars /\ BookMove(m) /\ OnlyMoves(m, "admitted", x)
  BY <1>2, <1>3, ReceiptStep
<1>5. Passes(r, "own", x)
  BY <1>1, <1>2, InHand, GotoPasses DEF Pcs, PromptPcs
<1>6. KnowsGeneration(r)'
  BY <1>2, <1>3, <1>4, <1>5, MovedGeneration DEF Passes, At, Active
<1>7. /\ runner'[r].work = m /\ inbox'[m].route = r /\ inbox'[m].state = "admitted"
      /\ m \in DOMAIN inbox' /\ inbox'[m].run = x
  BY <1>1, <1>3, <1>4, <1>5 DEF Passes, OnlyMoves, Alike, Work
<1>8. RouteOK(r)'
  BY <1>5, <1>6, <1>7, AtAnswer DEF Passes
<1> QED BY <1>2, <1>3, <1>4, <1>5, <1>8, ItemKeeps DEF Passes, At

-----------------------------------------------------------------------------
(* A prompt, from its admission to its answer.                              *)

LEMMA InAnswer ==
    ASSUME RunnerInv, NEW r \in Routes,
           runner[r].pc \in {"recover", "own", "replay", "wait", "finish"}
    PROVE  /\ Work(r) \in DOMAIN inbox /\ inbox[Work(r)].route = r
           /\ inbox[Work(r)].state = "admitted" /\ inbox[Work(r)].run = runner[r].run
           /\ runner[r].run \in DOMAIN runs /\ runs[runner[r].run].key = Work(r)
           /\ runner[r].run \in RunIds
           /\ ~At(r, "idle") /\ r \in DOMAIN conv
           /\ runner[r].pc \in {"replay", "wait"} => handles[r] = runner[r].run
           /\ At(r, "finish") => runs[runner[r].run].status \in Terminal
<1>1. Work(r) \in DOMAIN inbox /\ inbox[Work(r)].route = r /\ r \in DOMAIN conv
  BY InHand DEF PromptPcs
<1>2. inbox[Work(r)].state = "admitted" /\ inbox[Work(r)].run = runner[r].run
  BY DEF RunnerInv, RunnersOK, RouteOK, Answers
<1>3. runner[r].run \in DOMAIN runs /\ runs[runner[r].run].key = Work(r)
  BY <1>1, <1>2 DEF RunnerInv, Books, RunsAgree
<1>4. ~At(r, "idle")
  BY DEF At
<1> QED BY <1>1, <1>2, <1>3, <1>4 DEF RunnerInv, RunnersOK, RouteOK, Answers, RunnerTyped

(* An abandoned run is resumed: it goes on as the run it was.               *)
LEMMA ResumeRunGoesOn ==
    ASSUME RunnerInv, NEW x \in DOMAIN runs, ResumeRun(x)
    PROVE  /\ RunsGoOn /\ runs' \in [DOMAIN runs' -> Run]
           /\ \A y \in DOMAIN runs : runs'[y].key = runs[y].key /\ runs'[y].status = runs[y].status
<1>1. runs \in [DOMAIN runs -> Run]
  BY DEF RunnerInv, RunnerTyped
<1>2. runs' = [runs EXCEPT ![x] = [runs[x] EXCEPT !.owned = TRUE, !.resumed = TRUE]]
  BY DEF ResumeRun
<1>3. runs[x] \in Run /\ [runs[x] EXCEPT !.owned = TRUE, !.resumed = TRUE] \in Run
  BY <1>1 DEF Run
<1>4. /\ DOMAIN runs' = DOMAIN runs /\ runs' \in [DOMAIN runs -> Run]
      /\ \A y \in DOMAIN runs : y # x => runs'[y] = runs[y]
      /\ runs'[x] = [runs[x] EXCEPT !.owned = TRUE, !.resumed = TRUE]
  BY <1>1, <1>2, <1>3
<1>5. \A y \in DOMAIN runs :
         /\ runs'[y].key = runs[y].key /\ runs'[y].status = runs[y].status
         /\ runs'[y].route = runs[y].route /\ runs'[y].gen = runs[y].gen
  BY <1>3, <1>4 DEF Run
<1> QED BY <1>4, <1>5 DEF RunsGoOn

(* The same place in the answer, nothing of it changed.                     *)
LEMMA AnswerGoesOn ==
    ASSUME RunnerInv, NEW r \in Routes, UNCHANGED storeVars,
           runner[r].pc \in {"recover", "own", "replay", "wait", "finish"},
           NEW pc \in {"recover", "own", "replay", "wait", "finish"},
           Passes(r, pc, runner[r].run),
           pc \in {"replay", "wait"} => handles'[r] = runner[r].run,
           pc = "finish" => runs'[runner[r].run].status \in Terminal
    PROVE  RouteOK(r)'
<1>1. inbox' = inbox /\ runner'[r].work = Work(r)
  BY DEF storeVars, Passes, Work
<1>2. KnowsGeneration(r)'
  BY <1>1, InAnswer, CalmGeneration DEF Passes
<1> QED BY <1>1, <1>2, InAnswer, AtAnswer DEF Passes

LEMMA RecoverKeeps == ASSUME RunnerInv, NEW r \in Routes, RecoverHandle(r) PROVE Keeps(r)
<1>1. PICK x : x = runner[r].run
  OBVIOUS
<1>2. /\ At(r, "recover") /\ Goto(r, "own")
      /\ UNCHANGED <<storeVars, ingesting, handles, faults>>
      /\ runs' = runs \/ ResumeRun(x)
  BY <1>1 DEF RecoverHandle, schedVars
<1>3. x \in DOMAIN runs /\ ~At(r, "idle") /\ r \in DOMAIN conv
  BY <1>1, <1>2, InAnswer DEF At
<1>4. Passes(r, "own", x)
  BY <1>1, <1>2, InHand, GotoPasses DEF Pcs, PromptPcs
<1>5. RouteOK(r)'
  BY <1>1, <1>2, <1>4, AnswerGoesOn DEF At
<1>6. CASE runs' = runs
  BY <1>2, <1>3, <1>4, <1>5, <1>6, InHand, CalmKeeps DEF Calm, OthersStay, Passes, storeVars
<1>7. CASE ResumeRun(x)
  <2>1. RunsGoOn /\ runs' \in [DOMAIN runs' -> Run]
    BY <1>3, <1>7, ResumeRunGoesOn
  <2>2. Books'
    BY <1>2, <2>1, BooksRuns DEF RunnerInv, storeVars
  <2>3. DOMAIN runs' \subseteq RunIds
    BY <2>1 DEF RunsGoOn, RunnerInv, RunnerTyped
  <2> QED BY <1>2, <1>3, <1>4, <1>5, <2>1, <2>2, <2>3, InHand, RunsKeep DEF RunsGoOn, Passes
<1> QED BY <1>2, <1>6, <1>7

LEMMA OwnKeeps == ASSUME RunnerInv, NEW r \in Routes, OwnHandle(r) PROVE Keeps(r)
<1>1. PICK x : x = runner[r].run
  OBVIOUS
<1>2. /\ At(r, "own") /\ Goto(r, "replay") /\ handles' = [handles EXCEPT ![r] = x]
      /\ UNCHANGED <<storeVars, runs, ingesting, faults>>
  BY <1>1 DEF OwnHandle, agentVars, schedVars
<1>3. x \in RunIds /\ ~At(r, "idle") /\ r \in DOMAIN conv
  BY <1>1, <1>2, InAnswer DEF At
<1>4. handles'[r] = x /\ \A q \in Routes \ {r} : handles'[q] = handles[q]
  BY <1>2, InHand
<1>5. Passes(r, "replay", x)
  BY <1>1, <1>2, InHand, GotoPasses DEF Pcs, PromptPcs
<1>6. RouteOK(r)'
  BY <1>1, <1>2, <1>4, <1>5, AnswerGoesOn DEF At
<1> QED BY <1>2, <1>3, <1>4, <1>5, <1>6, InHand, CalmKeeps DEF Calm, OthersStay, Passes, storeVars

LEMMA WaitKeeps ==
    ASSUME RunnerInv, NEW r \in Routes, ReplayStops(r) \/ StopsUnread(r) \/ RunDone(r)
    PROVE  Keeps(r)
<1>1. PICK x : x = runner[r].run
  OBVIOUS
<1>2. runner[r].pc \in {"replay", "wait"}
      /\ UNCHANGED <<storeVars, runs, handles, ingesting>> /\ faults' \in Nat
  <2>1. /\ UNCHANGED <<storeVars, runs, handles, schedVars>>
        /\ faults' = faults \/ Fault
        /\ runner[r].pc \in {"replay", "wait"}
    BY DEF ReplayStops, StopsUnread, RunDone, agentVars, At
  <2> QED BY <2>1, InHand DEF schedVars, Fault
<1>3. ~At(r, "idle") /\ r \in DOMAIN conv /\ handles[r] = x
  BY <1>1, <1>2, InAnswer
<1>4. CASE ReplayStops(r) \/ StopsUnread(r)
  <2>1. Goto(r, "wait")
    BY <1>4 DEF ReplayStops, StopsUnread
  <2>2. Passes(r, "wait", x)
    BY <1>1, <2>1, InHand, GotoPasses DEF Pcs, PromptPcs
  <2>3. RouteOK(r)'
    BY <1>1, <1>2, <1>3, <2>2, AnswerGoesOn
  <2> QED BY <1>2, <1>3, <2>2, <2>3, InHand, CalmKeeps DEF Calm, OthersStay, Passes, storeVars
<1>5. CASE RunDone(r)
  <2>1. /\ runs[x].status \in Terminal
        /\ runner' = [runner EXCEPT ![r].pc = "finish", ![r].stop = x \in stopFlags]
    BY <1>1, <1>5 DEF RunDone
  <2>2. ASSUME NEW stopped \in BOOLEAN,
               runner' = [runner EXCEPT ![r] = [runner[r] EXCEPT !.pc = "finish", !.stop = stopped]]
        PROVE  Passes(r, "finish", x)
    <3>1. runner[r] \in Locals /\ runner \in [Routes -> Locals]
      BY InHand
    <3>2. [runner[r] EXCEPT !.pc = "finish", !.stop = stopped] \in Locals
      BY <3>1 DEF Locals, Pcs, PromptPcs
    <3> QED BY <1>1, <2>2, <3>1, <3>2 DEF Passes, Locals
  <2>3. (x \in stopFlags) \in BOOLEAN
    OBVIOUS
  <2>4. Passes(r, "finish", x)
    BY <2>1, <2>2, <2>3, Zenon
  <2>5. RouteOK(r)'
    BY <1>1, <1>2, <2>1, <2>4, AnswerGoesOn
  <2> QED BY <1>2, <1>3, <2>4, <2>5, InHand, CalmKeeps DEF Calm, OthersStay, Passes, storeVars
<1> QED BY <1>4, <1>5

(* The answer is planned when the run is over.                              *)
LEMMA FinishKeeps == ASSUME RunnerInv, NEW r \in Routes, FinishPrompt(r) PROVE Keeps(r)
<1>1. PICK m : m = Work(r)
  OBVIOUS
<1>2. /\ At(r, "finish") /\ (\E n \in 1 .. MaxChunks : MarkTerminal(m, n))
      /\ Goto(r, "release") /\ UNCHANGED <<runs, ingesting, handles, faults>>
  BY <1>1 DEF FinishPrompt, agentVars, schedVars
<1>3. /\ m \in DOMAIN inbox /\ inbox[m].route = r /\ inbox[m].state = "admitted"
      /\ runs[inbox[m].run].status \in Terminal
  BY <1>1, <1>2, InAnswer DEF At
<1>4. OnlyMoves(m, "terminal", inbox[m].run)
  BY <1>2, <1>3, TerminalOnly DEF RunnerInv
<1>5. [Next]_storeVars
  BY <1>2, <1>3 DEF Next, InboxStep, FinishRun
<1>6. BookMove(m)
  <2>1. Alike(m) /\ inbox'[m].state = "terminal" /\ inbox'[m].run = inbox[m].run
    BY <1>3, <1>4 DEF OnlyMoves
  <2> QED BY <1>3, <2>1 DEF BookMove
<1>7. Passes(r, "release", runner[r].run)
  BY <1>2, InHand, GotoPasses DEF Pcs, PromptPcs
<1>8. RouteOK(r)'
  BY <1>2, <1>3, <1>4, <1>7, Home, MovedGeneration DEF Passes, At, Active
<1> QED BY <1>2, <1>3, <1>4, <1>5, <1>6, <1>7, <1>8, ItemKeeps DEF Passes, At

-----------------------------------------------------------------------------
(* A stop.                                                                  *)

LEMMA InStop ==
    ASSUME RunnerInv, NEW r \in Routes, runner[r].pc \in StopPcs
    PROVE  LET c == Work(r)
               t == inbox[c].target
           IN  /\ c \in DOMAIN inbox /\ inbox[c].route = r /\ inbox[c].state = "pending"
               /\ inbox[c].kind = "stop" /\ ~At(r, "idle") /\ r \in DOMAIN conv
               /\ t # NoMsg => t \in DOMAIN inbox /\ inbox[t].route = r /\ inbox[t].state # "queued"
               /\ CanceledUpTo(r, inbox[c].cutoff) = {}
               /\ At(r, "stopLookup") => t # NoMsg /\ inbox[t].state = "admitting"
               /\ At(r, "stopRun") =>
                    t # NoMsg /\ inbox[t].state = "admitted" /\ inbox[t].run = runner[r].run
               /\ At(r, "stopDone") /\ t # NoMsg => inbox[t].state # "admitting" /\ RunOver(t)
<1>1. PICK c, t : c = Work(r) /\ t = inbox[c].target
  OBVIOUS
<1>2. /\ c \in DOMAIN inbox /\ inbox[c].route = r /\ inbox[c].state = "pending"
      /\ ~At(r, "idle") /\ r \in DOMAIN conv
  BY <1>1, InHand DEF RunnerInv, RunnersOK, RouteOK, Stops, At, StopPcs
<1>3. /\ inbox[c].kind = "stop"
      /\ t # NoMsg => t \in DOMAIN inbox /\ inbox[t].route = r /\ inbox[t].state # "queued"
  BY <1>1, <1>2 DEF RunnerInv, Books, StopsAim
<1>4. CanceledUpTo(r, inbox[c].cutoff) = {}
  BY <1>2, <1>3 DEF RunnerInv, OrderInv, StopsReach, CanceledUpTo, ItemsIn
<1> QED BY <1>1, <1>2, <1>3, <1>4 DEF RunnerInv, RunnersOK, RouteOK, Stops

(* Nothing up to the cutoff was queued any more.                            *)
LEMMA SettleStopKeeps == ASSUME RunnerInv, NEW r \in Routes, SettleStop(r) PROVE Keeps(r)
<1>1. PICK c : c = Work(r)
  OBVIOUS
<1>2. /\ At(r, "stop") /\ CancelQueuedUpTo(r, inbox[c].cutoff) /\ Goto(r, "target")
      /\ UNCHANGED <<runs, ingesting, handles, faults>>
  BY <1>1 DEF SettleStop, agentVars, schedVars
<1>3. /\ c \in DOMAIN inbox /\ inbox[c].route = r /\ inbox[c].state = "pending"
      /\ ~At(r, "idle") /\ r \in DOMAIN conv /\ CanceledUpTo(r, inbox[c].cutoff) = {}
  BY <1>1, <1>2, InStop DEF At, StopPcs
<1>4. [Next]_storeVars
  BY <1>2, <1>3 DEF Next, InboxStep, SettleQueued
<1>5. conv' = conv /\ inbox' = inbox
  <2>1. inbox' = [m \in DOMAIN inbox |-> inbox[m]]
    BY <1>2, <1>3 DEF CancelQueuedUpTo, WithCanceled
  <2>2. inbox = [m \in DOMAIN inbox |-> inbox[m]]
    BY DEF RunnerInv, OrderInv, Inv, TypeOK
  <2> QED BY <1>2, <2>1, <2>2 DEF CancelQueuedUpTo
<1>6. Passes(r, "target", runner[r].run)
  BY <1>2, InHand, GotoPasses DEF Pcs, StopPcs
<1>7. RouteOK(r)'
  <2>1. KnowsGeneration(r)'
    BY <1>3, <1>5, <1>6, CalmGeneration DEF Passes
  <2> QED BY <1>1, <1>3, <1>5, <1>6, <2>1, AtStop DEF Passes, Work, StopPcs
<1> QED BY <1>2, <1>3, <1>4, <1>5, <1>6, <1>7, InHand, CalmKeeps DEF Calm, OthersStay, Passes

(* A target that is over has no run that is not.                            *)
LEMMA TargetKeeps == ASSUME RunnerInv, NEW r \in Routes, ReadTarget(r) PROVE Keeps(r)
<1>1. PICK c, t : c = Work(r) /\ t = inbox[c].target
  OBVIOUS
<1>2. /\ At(r, "target") /\ UNCHANGED <<storeVars, runs, ingesting, handles, faults>>
  BY DEF ReadTarget, agentVars, schedVars
<1>3. /\ c \in DOMAIN inbox /\ inbox[c].route = r /\ inbox[c].state = "pending"
      /\ ~At(r, "idle") /\ r \in DOMAIN conv
      /\ t # NoMsg => t \in DOMAIN inbox /\ inbox[t].route = r /\ inbox[t].state # "queued"
  BY <1>1, <1>2, InStop DEF At, StopPcs
<1>4. PICK pc \in {"stopLookup", "stopRun", "stopDone"}, x \in RunIds \cup {NoRun} :
         /\ runner' = [runner EXCEPT ![r].pc = pc, ![r].run = x]
         /\ pc = "stopLookup" => t # NoMsg /\ inbox[t].state = "admitting"
         /\ pc = "stopRun" => t # NoMsg /\ inbox[t].state = "admitted" /\ inbox[t].run = x
         /\ pc = "stopDone" /\ t # NoMsg => inbox[t].state \notin {"admitting", "admitted"}
  <2>1. t # NoMsg => inbox[t].run \in RunIds \cup {NoRun}
    BY <1>3 DEF RunnerInv, OrderInv, Inv, TypeOK, Item
  <2> DEFINE pc == IF t = NoMsg THEN "stopDone"
                   ELSE CASE inbox[t].state = "admitting" -> "stopLookup"
                          [] inbox[t].state = "admitted" -> "stopRun"
                          [] OTHER -> "stopDone"
             x == IF t = NoMsg THEN NoRun ELSE inbox[t].run
  <2>2. runner' = [runner EXCEPT ![r].pc = pc, ![r].run = x]
    BY <1>1 DEF ReadTarget
  <2>3. pc \in {"stopLookup", "stopRun", "stopDone"} /\ x \in RunIds \cup {NoRun}
    BY <2>1
  <2>4. /\ pc = "stopLookup" => t # NoMsg /\ inbox[t].state = "admitting"
        /\ pc = "stopRun" => t # NoMsg /\ inbox[t].state = "admitted" /\ inbox[t].run = x
        /\ pc = "stopDone" /\ t # NoMsg => inbox[t].state \notin {"admitting", "admitted"}
    OBVIOUS
  <2> HIDE DEF pc, x
  <2> QED BY <2>2, <2>3, <2>4
<1>5. Passes(r, pc, x)
  BY <1>4, InHand, TakesPasses DEF Pcs, StopPcs
<1>6. RouteOK(r)'
  <2>1. KnowsGeneration(r)'
    BY <1>2, <1>3, <1>5, CalmGeneration DEF Passes, storeVars
  <2>2. ASSUME t # NoMsg, inbox[t].state \notin {"admitting", "admitted"},
               NEW y \in DOMAIN runs, runs[y].key = t
        PROVE  runs[y].status \in Terminal
    <3>1. inbox[t].state = "terminal" /\ inbox[t].run \in DOMAIN runs
          /\ runs[inbox[t].run].key = t /\ runs[inbox[t].run].status \in Terminal
      BY <2>2, <1>3 DEF RunnerInv, Books, RunsAgree
    <3> QED BY <2>2, <3>1 DEF RunnerInv, Books, RunsAgree
  <2>3. runner'[r].pc = pc /\ runner'[r].work = c /\ runner'[r].run = x
        /\ inbox' = inbox /\ runs' = runs
    BY <1>1, <1>2, <1>5 DEF Passes, Work, storeVars
  <2>4. inbox'[c].target = t /\ pc \in StopPcs
    BY <1>1, <2>3 DEF StopPcs
  <2>5. pc = "stopDone" /\ t # NoMsg =>
          /\ inbox'[t].state # "admitting"
          /\ \A y \in DOMAIN runs' : runs'[y].key = t => runs'[y].status \in Terminal
    BY <1>4, <2>2, <2>3
  <2>6. /\ pc = "stopLookup" => t # NoMsg /\ inbox'[t].state = "admitting"
        /\ pc = "stopRun" => t # NoMsg /\ inbox'[t].state = "admitted" /\ inbox'[t].run = x
    BY <1>4, <2>3
  <2>7. c \in DOMAIN inbox' /\ inbox'[c].route = r /\ inbox'[c].state = "pending"
    BY <1>3, <2>3
  <2> QED BY <2>1, <2>3, <2>4, <2>5, <2>6, <2>7, AtStop
<1> QED BY <1>2, <1>3, <1>5, <1>6, InHand, CalmKeeps DEF Calm, OthersStay, Passes, storeVars

(* The target of a stop in admission gets its receipt, or never ran and is  *)
(* canceled.                                                                *)
LEMMA ResolveKeeps == ASSUME RunnerInv, NEW r \in Routes, ResolveTarget(r) PROVE Keeps(r)
<1>1. PICK c, t : c = Work(r) /\ t = inbox[c].target
  OBVIOUS
<1>2. At(r, "stopLookup") /\ UNCHANGED <<runs, ingesting, handles, faults>>
  BY DEF ResolveTarget, agentVars, schedVars
<1>3. /\ c \in DOMAIN inbox /\ inbox[c].route = r /\ inbox[c].state = "pending"
      /\ ~At(r, "idle") /\ r \in DOMAIN conv
      /\ t # NoMsg /\ t \in DOMAIN inbox /\ inbox[t].route = r /\ inbox[t].state = "admitting"
  BY <1>1, <1>2, InStop DEF At, StopPcs
<1>4. c # t
  BY <1>3
<1>5. ASSUME NEW x \in Receipts(r, runner[r].gen, t), MarkAdmitted(t, x),
             runner' = [runner EXCEPT ![r].pc = "stopRun", ![r].run = x]
      PROVE  Keeps(r)
  <2>1. x \in DOMAIN runs /\ runs[x].key = t /\ x \in RunIds
    BY <1>5 DEF Receipts, RunnerInv, RunnerTyped
  <2>2. [Next]_storeVars /\ BookMove(t) /\ OnlyMoves(t, "admitted", x)
    BY <1>3, <1>5, <2>1, ReceiptStep
  <2>3. Passes(r, "stopRun", x)
    BY <1>5, <2>1, InHand, TakesPasses DEF Pcs, StopPcs
  <2>4. KnowsGeneration(r)'
    BY <1>3, <2>2, <2>3, MovedGeneration DEF Passes, Active
  <2>5. /\ runner'[r].pc = "stopRun" /\ runner'[r].work = c /\ runner'[r].run = x
        /\ inbox'[c] = inbox[c] /\ DOMAIN inbox' = DOMAIN inbox
        /\ inbox'[t].state = "admitted" /\ inbox'[t].run = x
    BY <1>1, <1>3, <1>4, <2>2, <2>3 DEF Passes, OnlyMoves, Work
  <2>6. RouteOK(r)'
    BY <1>1, <1>3, <2>4, <2>5, AtStop DEF StopPcs
  <2> QED BY <1>2, <1>3, <2>2, <2>3, <2>6, ItemKeeps DEF Passes
<1>6. ASSUME Receipts(r, runner[r].gen, t) = {}, Transition(t, {"admitting"}, "canceled"),
             Goto(r, "stopDone")
      PROVE  Keeps(r)
  <2>1. OnlyMoves(t, "canceled", inbox[t].run)
    BY <1>3, <1>6, TransitionOnly DEF RunnerInv
  <2>2. [Next]_storeVars
    BY <1>1, <1>3, <1>6 DEF Next, InboxStep, CancelTarget
  <2>3. NeverRan(t)
    BY <1>3, <1>6, NothingFound
  <2>4. BookMove(t)
    <3>1. Alike(t) /\ inbox'[t].state = "canceled" /\ inbox'[t].run = inbox[t].run
      BY <1>3, <2>1 DEF OnlyMoves
    <3> QED BY <1>3, <2>3, <3>1 DEF BookMove
  <2>5. Passes(r, "stopDone", runner[r].run)
    BY <1>6, InHand, GotoPasses DEF Pcs, StopPcs
  <2>6. KnowsGeneration(r)'
    BY <1>3, <2>1, <2>5, MovedGeneration DEF Passes, Active
  <2>7. /\ runner'[r].pc = "stopDone" /\ runner'[r].work = c
        /\ inbox'[c] = inbox[c] /\ DOMAIN inbox' = DOMAIN inbox
        /\ inbox'[t].state = "canceled"
    BY <1>1, <1>3, <1>4, <2>1, <2>5 DEF Passes, OnlyMoves, Work
  <2>8. RouteOK(r)'
    BY <1>1, <1>2, <1>3, <2>3, <2>6, <2>7, AtStop DEF StopPcs, NeverRan
  <2> QED BY <1>2, <1>3, <2>1, <2>2, <2>4, <2>5, <2>8, ItemKeeps DEF Passes
<1> QED BY <1>1, <1>3, <1>5, <1>6 DEF ResolveTarget

(* The runner goes on when the target's run is over.                        *)
LEMMA SettleRunKeeps == ASSUME RunnerInv, NEW r \in Routes, SettleRun(r) PROVE Keeps(r)
<1>1. PICK c, t, x : c = Work(r) /\ t = inbox[c].target /\ x = runner[r].run
  OBVIOUS
<1>2. At(r, "stopRun") /\ UNCHANGED <<storeVars, ingesting, handles, faults>>
  BY DEF SettleRun
<1>3. /\ c \in DOMAIN inbox /\ inbox[c].route = r /\ inbox[c].state = "pending"
      /\ ~At(r, "idle") /\ r \in DOMAIN conv
      /\ t # NoMsg /\ t \in DOMAIN inbox /\ inbox[t].state = "admitted" /\ inbox[t].run = x
  BY <1>1, <1>2, InStop DEF At, StopPcs
<1>4. x \in DOMAIN runs /\ runs[x].key = t
      /\ \A y \in DOMAIN runs : runs[y].key = t => y = x
  BY <1>3 DEF RunnerInv, Books, RunsAgree
<1>5. CASE runs[x].status \in Terminal /\ Goto(r, "stopDone") /\ runs' = runs
  <2>1. Passes(r, "stopDone", x)
    BY <1>1, <1>5, InHand, GotoPasses DEF Pcs, StopPcs
  <2>2. KnowsGeneration(r)'
    BY <1>2, <1>3, <2>1, CalmGeneration DEF Passes, storeVars
  <2>3. runner'[r].pc = "stopDone" /\ runner'[r].work = c /\ inbox' = inbox
    BY <1>1, <1>2, <2>1 DEF Passes, Work, storeVars
  <2>4. RouteOK(r)'
    BY <1>1, <1>3, <1>4, <1>5, <2>2, <2>3, AtStop DEF StopPcs
  <2> QED BY <1>2, <1>3, <1>5, <2>1, <2>4, InHand, CalmKeeps
          DEF Calm, OthersStay, Passes, storeVars
<1>6. CASE Park(r) /\ runs' = runs
  BY <1>2, <1>3, <1>6, InHand, ParkReturns, CalmReturns
<1>7. CASE ResumeRun(x) /\ runner' = runner
  <2>1. RunsGoOn /\ runs' \in [DOMAIN runs' -> Run]
    BY <1>4, <1>7, ResumeRunGoesOn
  <2>2. Books'
    BY <1>2, <2>1, BooksRuns DEF RunnerInv, storeVars
  <2>3. DOMAIN runs' \subseteq RunIds
    BY <2>1 DEF RunsGoOn, RunnerInv, RunnerTyped
  <2>4. KnowsGeneration(r)'
    BY <1>2, <1>3, <1>7, CalmGeneration DEF storeVars
  <2>5. RouteOK(r)'
    BY <1>1, <1>2, <1>3, <1>7, <2>4, AtStop DEF StopPcs, At, Work, storeVars
  <2> QED BY <1>2, <1>3, <1>7, <2>1, <2>2, <2>3, <2>5, InHand, RunsKeep DEF RunsGoOn
<1> QED BY <1>1, <1>5, <1>6, <1>7 DEF SettleRun

(* By then the stop's queue is empty and its target is over.                *)
LEMMA CompleteKeeps == ASSUME RunnerInv, NEW r \in Routes, CompleteControl(r) PROVE Keeps(r)
<1>1. PICK c, t : c = Work(r) /\ t = inbox[c].target
  OBVIOUS
<1>2. /\ At(r, "stopDone") /\ Transition(c, {"pending"}, "complete") /\ Goto(r, "loop")
      /\ UNCHANGED <<runs, ingesting, handles, faults>>
  BY <1>1 DEF CompleteControl, agentVars, schedVars
<1>3. /\ c \in DOMAIN inbox /\ inbox[c].route = r /\ inbox[c].state = "pending"
      /\ ~At(r, "idle") /\ CanceledUpTo(r, inbox[c].cutoff) = {}
      /\ t # NoMsg => inbox[t].state # "admitting" /\ RunOver(t)
  BY <1>1, <1>2, InStop DEF At, StopPcs
<1>4. OnlyMoves(c, "complete", inbox[c].run)
  BY <1>2, <1>3, TransitionOnly DEF RunnerInv
<1>5. [Next]_storeVars
  BY <1>1, <1>2, <1>3 DEF Next, InboxStep, CompleteStop
<1>6. BookMove(c)
  <2>1. Alike(c) /\ inbox'[c].state = "complete" /\ inbox'[c].run = inbox[c].run
    BY <1>3, <1>4 DEF OnlyMoves
  <2> QED BY <1>1, <1>3, <2>1 DEF BookMove
<1>7. Passes(r, "loop", runner[r].run)
  BY <1>2, InHand, GotoPasses DEF Pcs
<1>8. RouteOK(r)'
  BY <1>3, <1>4, <1>7, Home, MovedGeneration DEF Passes, Active
<1> QED BY <1>2, <1>3, <1>4, <1>5, <1>6, <1>7, <1>8, ItemKeeps DEF Passes

-----------------------------------------------------------------------------
(* The scheduler.                                                           *)

(* A runner starts for a route that has a conversation, at its generation.  *)
LEMMA StartKeeps == ASSUME RunnerInv, NEW r \in Routes, StartRunner(r) PROVE Keeps(r)
<1>1. /\ HasWork(r) /\ runner' = [runner EXCEPT ![r] = LoopWith(conv[r].gen)]
      /\ UNCHANGED <<storeVars, runs, ingesting, handles, faults>>
  BY DEF StartRunner, Startable, agentVars, schedVars
<1>2. r \in DOMAIN conv /\ conv[r].gen \in Nat
  <2>1. r \in DOMAIN conv
    BY <1>1 DEF HasWork, ItemsIn, RunnerInv, OrderInv, Inv, SeqTotalOrder, RowsBelong
  <2> QED BY <2>1 DEF RunnerInv, OrderInv, Inv, TypeOK, ConvRow
<1>3. /\ LoopWith(conv[r].gen) \in Locals /\ LoopWith(conv[r].gen).pc = "loop"
      /\ LoopWith(conv[r].gen).gen = conv[r].gen
  BY <1>2 DEF LoopWith, Idle, Locals, Pcs
<1>4. /\ runner' \in [Routes -> Locals] /\ runner'[r].pc = "loop"
      /\ runner'[r].gen = conv[r].gen /\ OthersStay(r)
  BY <1>1, <1>3, InHand DEF OthersStay
<1>5. KnowsGeneration(r)'
  BY <1>1, <1>4 DEF KnowsGeneration, ItemsIn, storeVars, Active, Unfinished,
                    RunnerInv, OrderInv, Inv, RotationStrandsNothing
<1> QED BY <1>1, <1>2, <1>4, <1>5, InHand, Home, CalmKeeps DEF Calm, storeVars

(* A step that leaves every route alone.                                    *)
LEMMA BystandersInv ==
    ASSUME RunnerInv, [Next]_storeVars, RunnerTyped', Books', \A r \in Routes : Undisturbed(r)
    PROVE  [Next]_storeVars /\ RunnerInv'
BY NextOrder, UndisturbedKeeps DEF RunnerInv, RunnersOK

LEMMA DelayInv ==
    ASSUME RunnerInv, NEW r \in Routes, RouteUnavailable(r) \/ ParkExpires(r)
    PROVE  [Next]_storeVars /\ RunnerInv'
<1>1. UNCHANGED <<storeVars, runs, runner, handles, ingesting>> /\ faults' \in Nat
  BY InHand DEF RouteUnavailable, ParkExpires, Fault, agentVars
<1>2. RunnerTyped' /\ Books'
  BY <1>1 DEF RunnerInv, RunnerTyped, Books, RunsAgree, StopsAim, StopEndsTarget, storeVars, At
<1>3. \A q \in Routes : Undisturbed(q)
  BY <1>1 DEF Undisturbed, storeVars, Alike
<1> QED BY <1>1, <1>2, <1>3, BystandersInv

-----------------------------------------------------------------------------
(* Ingestion.                                                               *)

LEMMA IngestCommitInv ==
    ASSUME RunnerInv, NEW m \in Msgs, NEW r \in Routes, IngestCommit(m, r)
    PROVE  [Next]_storeVars /\ RunnerInv'
<1>1. Ingest(m, r) /\ UNCHANGED <<runs, runner, handles, faults>>
  BY DEF IngestCommit, agentVars
<1>2. Next
  BY <1>1 DEF Next
<1>3. IngestMoves(m, r) /\ IngestFrame(m, r)
  BY <1>1, IngestOnly, IngestStepFrame DEF RunnerInv, OrderInv
<1>4. RunnerTyped'
  <2>1. ingesting' \in [Msgs -> {"none", "interrupt", "unpark"}]
    <3>1. PICK to \in {"none", "interrupt", "unpark"} : ingesting' = [ingesting EXCEPT ![m] = to]
      <4> DEFINE to == CASE inbox'[m].state = "rejected" -> "none"
                         [] inbox'[m].state = "pending" -> "interrupt"
                         [] OTHER -> "unpark"
      <4>1. to \in {"none", "interrupt", "unpark"}
        OBVIOUS
      <4>2. ingesting' = [ingesting EXCEPT ![m] = to]
        BY DEF IngestCommit
      <4> HIDE DEF to
      <4> QED BY <4>1, <4>2
    <3> QED BY <3>1 DEF RunnerInv, RunnerTyped
  <2> QED BY <1>1, <1>3, <2>1 DEF RunnerInv, RunnerTyped, IngestFrame, At
<1>5. Books'
  BY <1>1, <1>3, BooksIngest DEF RunnerInv
<1>6. \A q \in Routes : Undisturbed(q)
  BY <1>1, <1>3 DEF Undisturbed, IngestMoves
<1> QED BY <1>2, <1>4, <1>5, <1>6, BystandersInv

LEMMA IngestStepInv ==
    ASSUME RunnerInv, NEW m \in Msgs, IngestStep(m)
    PROVE  [Next]_storeVars /\ RunnerInv'
<1>1. UNCHANGED <<storeVars, runs, runner, handles, faults>>
  BY DEF IngestStep, IngestInterrupt, IngestUnpark, agentVars
<1>2. ingesting' \in [Msgs -> {"none", "interrupt", "unpark"}]
  BY DEF IngestStep, IngestInterrupt, IngestUnpark, RunnerInv, RunnerTyped
<1>3. RunnerTyped' /\ Books'
  BY <1>1, <1>2 DEF RunnerInv, RunnerTyped, Books, RunsAgree, StopsAim, StopEndsTarget,
                    storeVars, At
<1>4. \A q \in Routes : Undisturbed(q)
  BY <1>1 DEF Undisturbed, storeVars, Alike
<1> QED BY <1>1, <1>3, <1>4, BystandersInv

-----------------------------------------------------------------------------
(* The agent runtime, and a crash.                                          *)

LEMMA RunSettlesInv ==
    ASSUME RunnerInv, NEW x \in DOMAIN runs, RunSettles(x)
    PROVE  [Next]_storeVars /\ RunnerInv'
<1>1. /\ UNCHANGED <<storeVars, runner, handles, ingesting, faults>>
      /\ runs[x].status \in Running
  BY DEF RunSettles, schedVars
<1>2. PICK status \in Terminal : runs' = [runs EXCEPT ![x] = [runs[x] EXCEPT !.status = status]]
  BY DEF RunSettles, Terminal
<1>3. runs \in [DOMAIN runs -> Run] /\ [runs[x] EXCEPT !.status = status] \in Run
  BY DEF RunnerInv, RunnerTyped, Run
<1>4. /\ DOMAIN runs' = DOMAIN runs /\ runs' \in [DOMAIN runs -> Run]
      /\ runs'[x] = [runs[x] EXCEPT !.status = status]
      /\ \A y \in DOMAIN runs : y # x => runs'[y] = runs[y]
  BY <1>2, <1>3
<1>5. RunsGoOn
  BY <1>3, <1>4 DEF RunsGoOn, Run
<1>6. Books'
  BY <1>1, <1>5, BooksRuns DEF RunnerInv, storeVars
<1>7. RunnerTyped'
  BY <1>1, <1>4 DEF RunnerInv, RunnerTyped, storeVars, At
<1>8. \A q \in Routes : Undisturbed(q)
  BY <1>1, <1>5 DEF Undisturbed, RunsGoOn, storeVars, Alike
<1> QED BY <1>1, <1>6, <1>7, <1>8, BystandersInv

(* After a crash nobody holds anything, and the databases still agree.      *)
LEMMA CrashInv == ASSUME RunnerInv, Crash PROVE [Next]_storeVars /\ RunnerInv'
<1>1. /\ UNCHANGED storeVars /\ runner' = [r \in Routes |-> Idle]
      /\ handles' = [r \in Routes |-> NoRun] /\ ingesting' = [m \in Msgs |-> "none"]
      /\ faults' \in Nat
  BY DEF Crash, Fault, RunnerInv, RunnerTyped
<1>2. runs \in [DOMAIN runs -> Run]
  BY DEF RunnerInv, RunnerTyped
<1>3. runs' = [x \in DOMAIN runs |->
                 IF runs[x].status \in Running THEN [runs[x] EXCEPT !.owned = FALSE]
                 ELSE runs[x]]
  BY DEF Crash
<1>4. \A x \in DOMAIN runs :
         /\ runs'[x] \in Run /\ runs'[x].key = runs[x].key /\ runs'[x].route = runs[x].route
         /\ runs'[x].gen = runs[x].gen /\ runs'[x].status = runs[x].status
  BY <1>2, <1>3 DEF Run
<1>5. DOMAIN runs' = DOMAIN runs /\ runs' \in [DOMAIN runs -> Run]
  BY <1>3, <1>4
<1>6. Books'
  BY <1>1, <1>4, <1>5, BooksRuns DEF RunnerInv, RunsGoOn, storeVars
<1>7. runner' \in [Routes -> Locals] /\ \A r \in Routes : runner'[r].pc = "idle"
  BY <1>1, IdleTyped DEF Idle
<1>8. RunnerTyped'
  BY <1>1, <1>5, <1>7 DEF RunnerInv, RunnerTyped, At
<1>9. RunnersOK'
  BY <1>7, Home DEF RunnersOK, KnowsGeneration, At
<1> QED BY <1>1, <1>6, <1>8, <1>9, NextOrder DEF RunnerInv

-----------------------------------------------------------------------------
(* The inductive invariant, and the contract of the store.                  *)

LEMMA RunnerInitInv == RunnerInit => Init /\ RunnerInv
<1> SUFFICES ASSUME RunnerInit PROVE Init /\ RunnerInv
  OBVIOUS
<1>1. Init /\ inbox = [m \in {} |-> {}]
  BY DEF RunnerInit, Init
<1>2. OrderInv
  BY <1>1, InitInv DEF OrderInv, KindsFit, WorkInOrder, StopsReach
<1>3. DOMAIN inbox = {} /\ DOMAIN runs = {}
  BY <1>1 DEF RunnerInit
<1>4. runner \in [Routes -> Locals] /\ \A r \in Routes : runner[r].pc = "idle"
  BY IdleTyped DEF RunnerInit, Idle
<1>5. RunnerTyped
  BY <1>3, <1>4 DEF RunnerInit, RunnerTyped, At
<1>6. Books
  BY <1>3 DEF Books, RunsAgree, StopsAim, StopEndsTarget
<1>7. RunnersOK
  BY <1>4 DEF RunnersOK, RouteOK, KnowsGeneration, HoldsWork, KnowsPrompt, Admits, Answers,
              Stops, At, PromptPcs, StopPcs
<1> QED BY <1>1, <1>2, <1>5, <1>6, <1>7 DEF RunnerInv

LEMMA RunnerStepKeeps ==
    ASSUME RunnerInv, NEW r \in Routes, StartRunner(r) \/ RunnerStep(r)
    PROVE  Keeps(r)
<1>1. CASE StartRunner(r) \/ ObserveRoute(r) \/ PickWork(r) \/ LaneDrain(r)
  BY <1>1, StartKeeps, ObserveKeeps, PickKeeps, DrainKeeps, LaneClearKeeps, GivesUp DEF LaneDrain
<1>2. CASE ReadFails(r)
  BY <1>2, GivesUp
<1>3. CASE PromptStep(r)
  BY <1>3, StaleKeeps, BeginKeeps, ResumeKeeps, LookupKeeps, RefuseKeeps, SubmitKeeps,
     PersistKeeps, RecoverKeeps, OwnKeeps, WaitKeeps, FinishKeeps, GivesUp DEF PromptStep
<1>4. CASE StopStep(r)
  BY <1>4, SettleStopKeeps, TargetKeeps, ResolveKeeps, SettleRunKeeps, CompleteKeeps DEF StopStep
<1> QED BY <1>1, <1>2, <1>3, <1>4 DEF RunnerStep

(* Every step of the program is one of the store's, or none.                *)
LEMMA RunnerNextInv ==
    RunnerInv /\ [RunnerNext]_vars => [Next]_storeVars /\ RunnerInv'
<1> SUFFICES ASSUME RunnerInv, [RunnerNext]_vars PROVE [Next]_storeVars /\ RunnerInv'
  OBVIOUS
<1>1. CASE UNCHANGED vars
  <2>1. UNCHANGED <<storeVars, runs, runner, handles, ingesting, faults>>
    BY <1>1 DEF vars, agentVars, schedVars
  <2>2. RunnerTyped' /\ Books'
    BY <2>1 DEF RunnerInv, RunnerTyped, Books, RunsAgree, StopsAim, StopEndsTarget, storeVars, At
  <2>3. \A q \in Routes : Undisturbed(q)
    BY <2>1 DEF Undisturbed, storeVars, Alike
  <2> QED BY <2>1, <2>2, <2>3, BystandersInv
<1> QED BY <1>1, RunnerStepKeeps, KeepsInv, DelayInv, IngestCommitInv, IngestStepInv,
           RunSettlesInv, CrashInv
        DEF RunnerNext

LEMMA RunnerInvariance == RunnerSpec => []RunnerInv
BY RunnerInitInv, RunnerNextInv, PTL DEF RunnerSpec

(* The refinement: the goroutines of internal/conversation, crashes and     *)
(* errors included, take only the steps that HostStore allows, so whatever  *)
(* is proved of it is true of them.                                         *)
THEOREM RunnersImplement == RunnerSpec => ImplementsHostStore
<1>1. RunnerInit => Init
  BY RunnerInitInv
<1>2. RunnerInv /\ [RunnerNext]_vars => [Next]_storeVars
  BY RunnerNextInv
<1> QED BY <1>1, <1>2, RunnerInvariance, PTL DEF RunnerSpec, Spec, ImplementsHostStore

(* Admission is exactly once: no message ever gets a second run, whatever   *)
(* fails or crashes between the submission of a run and its receipt.        *)
THEOREM OneRunHolds == RunnerSpec => []OneRunPerMessage
<1>1. RunnerInv => OneRunPerMessage
  BY DEF RunnerInv, Books, RunsAgree, OneRunPerMessage
<1> QED BY <1>1, RunnerInvariance, PTL

(* A prompt that was refused or canceled never runs.                        *)
THEOREM AcceptedRunHolds == RunnerSpec => []OnlyAcceptedRun
<1>1. RunnerInv => OnlyAcceptedRun
  BY DEF RunnerInv, Books, RunsAgree, OnlyAcceptedRun
<1> QED BY <1>1, RunnerInvariance, PTL

(* A stop is settled only when the run of its target is over.               *)
THEOREM StopEndsHolds == RunnerSpec => []StopEndsTarget
<1>1. RunnerInv => StopEndsTarget
  BY DEF RunnerInv, Books
<1> QED BY <1>1, RunnerInvariance, PTL

-----------------------------------------------------------------------------
(* No stop is lost between its ingestion and the runner that waits.         *)

(* A runner comes to wait for a run only through the replay of the stops.   *)
LEMMA ComesToWait ==
    ASSUME RunnerInv, NEW r \in Routes, StartRunner(r) \/ RunnerStep(r),
           ~ReplayStops(r), ~StopsUnread(r)
    PROVE  ~At(r, "wait")'
<1>1. /\ RunnerTyped /\ runner[r] \in Locals /\ runner \in [Routes -> Locals]
  BY InHand
<1>2. ASSUME NEW pc, pc # "wait", Goto(r, pc) PROVE runner'[r].pc # "wait"
  <2>1. runner' = [runner EXCEPT ![r] = [runner[r] EXCEPT !.pc = pc]]
    BY <1>2 DEF Goto
  <2> QED BY <1>1, <1>2, <2>1 DEF Locals
<1>3. Returns(r) => runner'[r].pc # "wait"
  BY DEF Returns, Idle
<1>4. Park(r) => runner'[r].pc # "wait"
  BY <1>1, <1>3, ParkReturns DEF Passes
<1>5. CASE StartRunner(r) \/ ObserveRoute(r) \/ LaneClear(r)
  <2>1. PICK next : runner' = [runner EXCEPT ![r] = next] /\ next.pc \in {"loop", "pick", "idle"}
    <3>1. \A gen : /\ LoopWith(gen).pc = "loop" /\ Idle.pc = "idle"
                   /\ [Idle EXCEPT !.pc = "pick", !.gen = gen].pc = "pick"
      BY DEF LoopWith, Idle
    <3>2. CASE StartRunner(r)
      BY <3>1, <3>2 DEF StartRunner
    <3>3. CASE ObserveRoute(r)
      BY <3>1, <3>3 DEF ObserveRoute
    <3>4. CASE LaneClear(r)
      BY <3>1, <3>4 DEF LaneClear
    <3> QED BY <1>5, <3>2, <3>3, <3>4
  <2> QED BY <1>1, <2>1 DEF At
<1>6. CASE PickWork(r)
  <2>1. ASSUME NEW m, NEW pc, pc \in {"stop", "prompt"},
               runner' = [runner EXCEPT ![r].pc = pc, ![r].work = m,
                                        ![r].seen = inbox[m].state, ![r].run = inbox[m].run]
        PROVE  runner'[r].pc = pc
    BY <1>1, <2>1 DEF Locals
  <2>2. CASE Goto(r, "drain")
    BY <1>2, <2>2 DEF At
  <2>3. ASSUME NEW m, runner' = [runner EXCEPT
                          ![r].pc = IF inbox[m].kind = "stop" THEN "stop" ELSE "prompt",
                          ![r].work = m, ![r].seen = inbox[m].state, ![r].run = inbox[m].run]
        PROVE  ~At(r, "wait")'
    <3>1. CASE inbox[m].kind = "stop"
      BY <2>1, <2>3, <3>1 DEF At
    <3>2. CASE inbox[m].kind # "stop"
      BY <2>1, <2>3, <3>2 DEF At
    <3> QED BY <3>1, <3>2
  <2> QED BY <1>6, <2>2, <2>3 DEF PickWork
<1>7. CASE ReadFails(r) \/ LaneWaits(r) \/ SettleUnrecorded(r) \/ FinishFails(r)
  BY <1>4, <1>7 DEF ReadFails, LaneWaits, SettleUnrecorded, FinishFails, At
<1>8. CASE DrainRow(r)
  BY <1>8 DEF DrainRow, At
<1>9. CASE StaleGeneration(r) \/ BeginPrompt(r) \/ HistoryLimit(r) \/ ResumePrompt(r)
  BY <1>2, <1>4, <1>9 DEF StaleGeneration, BeginPrompt, HistoryLimit, ResumePrompt, At
<1>10. CASE LookupReceipt(r) \/ RefuseAdmission(r)
  BY <1>1, <1>2, <1>4, <1>10 DEF LookupReceipt, RefuseAdmission, Locals, At
<1>11. CASE SubmitAccepted(r) \/ SubmitBusy(r) \/ SubmitInvalid(r) \/ SubmitFails(r)
  BY <1>1, <1>2, <1>11 DEF SubmitAccepted, SubmitBusy, SubmitInvalid, SubmitFails, Locals, At
<1>12. CASE \/ PersistReceipt(r) \/ PersistReceiptFails(r) \/ RecoverHandle(r) \/ OwnHandle(r)
            \/ FinishPrompt(r) \/ ReleaseHandle(r)
  BY <1>2, <1>12 DEF PersistReceipt, PersistReceiptFails, RecoverHandle, OwnHandle,
                     FinishPrompt, ReleaseHandle, At
<1>13. CASE RunDone(r)
  BY <1>1, <1>13 DEF RunDone, Locals, At
<1>14. CASE SettleStop(r) \/ CompleteControl(r)
  BY <1>2, <1>14 DEF SettleStop, CompleteControl, At
<1>15. CASE ReadTarget(r)
  BY <1>1, <1>15 DEF ReadTarget, Locals, At
<1>16. CASE ResolveTarget(r)
  BY <1>1, <1>2, <1>16 DEF ResolveTarget, Locals, At
<1>17. CASE SettleRun(r)
  BY <1>2, <1>4, <1>17 DEF SettleRun, At
<1> QED BY <1>5, <1>6, <1>7, <1>8, <1>9, <1>10, <1>11, <1>12, <1>13, <1>14, <1>15, <1>16, <1>17
        DEF RunnerStep, LaneDrain, PromptStep, StopStep

(* Runs stay interrupted, and faults are not forgotten.                     *)
Remembers == hit \subseteq hit' /\ (faults' = faults \/ Fault)

LEMMA StepRemembers == ASSUME RunnerNext PROVE Remembers
<1> USE DEF Remembers, agentVars
<1>1. ASSUME NEW r \in Routes, PromptStep(r) PROVE Remembers
  <2>1. CASE \/ StaleGeneration(r) \/ BeginPrompt(r) \/ HistoryLimit(r) \/ ResumePrompt(r)
             \/ LookupReceipt(r) \/ RefuseAdmission(r)
    BY <2>1 DEF StaleGeneration, BeginPrompt, HistoryLimit, ResumePrompt, AcquiresSlot,
                LookupReceipt, RefuseAdmission
  <2>2. CASE SubmitAccepted(r) \/ SubmitBusy(r) \/ SubmitInvalid(r) \/ SubmitFails(r)
    BY <2>2 DEF SubmitAccepted, SubmitBusy, SubmitInvalid, SubmitFails
  <2>3. CASE \/ PersistReceipt(r) \/ PersistReceiptFails(r) \/ SettleUnrecorded(r)
             \/ RecoverHandle(r) \/ OwnHandle(r)
    BY <2>3 DEF PersistReceipt, PersistReceiptFails, SettleUnrecorded, RecoverHandle, OwnHandle
  <2>4. CASE \/ ReplayStops(r) \/ StopsUnread(r) \/ RunDone(r) \/ FinishPrompt(r)
             \/ FinishFails(r) \/ ReleaseHandle(r)
    BY <2>4 DEF ReplayStops, StopsUnread, RunDone, FinishPrompt, FinishFails, ReleaseHandle
  <2> QED BY <1>1, <2>1, <2>2, <2>3, <2>4 DEF PromptStep
<1>2. ASSUME NEW r \in Routes, StopStep(r) PROVE Remembers
  BY <1>2 DEF StopStep, SettleStop, ReadTarget, ResolveTarget, SettleRun, CompleteControl
<1>3. ASSUME NEW r \in Routes,
             \/ StartRunner(r) \/ RouteUnavailable(r) \/ ParkExpires(r) \/ ObserveRoute(r)
             \/ PickWork(r) \/ ReadFails(r) \/ LaneDrain(r)
      PROVE  Remembers
  BY <1>3 DEF StartRunner, RouteUnavailable, ParkExpires, ObserveRoute, PickWork, ReadFails,
              LaneDrain, DrainRow, LaneClear, LaneWaits
<1>4. ASSUME NEW m \in Msgs, NEW r \in Routes, IngestCommit(m, r) PROVE Remembers
  BY <1>4 DEF IngestCommit
<1>5. ASSUME NEW m \in Msgs, IngestStep(m) PROVE Remembers
  BY <1>5 DEF IngestStep, IngestInterrupt, IngestUnpark
<1>6. ASSUME NEW x \in DOMAIN runs, RunSettles(x) PROVE Remembers
  BY <1>6 DEF RunSettles
<1>7. CASE Crash
  BY <1>7 DEF Crash
<1> QED BY <1>1, <1>2, <1>3, <1>4, <1>5, <1>6, <1>7 DEF RunnerNext, RunnerStep

(* A runner that goes on waiting keeps what it had, when no stop arrives.   *)
LEMMA WaitsOn ==
    ASSUME RunnerInv, StopReachesTarget, Remembers,
           DOMAIN inbox' = DOMAIN inbox, ingesting' = ingesting,
           \A c \in DOMAIN inbox : inbox'[c].target = inbox[c].target
              /\ (inbox'[c].state = "pending" => inbox[c].state = "pending"),
           NEW r \in Routes, runner'[r] = runner[r] /\ handles'[r] = handles[r],
           NEW c \in DOMAIN inbox', At(r, "wait")', inbox'[c].state = "pending",
           inbox'[c].target = Work(r)', ingesting'[c] # "interrupt"
    PROVE  handles'[r] \in hit'
BY DEF StopReachesTarget, Remembers, At, Work

(* No transaction on existing events makes a stop pending.                  *)
LEMMA PendingStays ==
    ASSUME OrderInv, [Next]_storeVars, DOMAIN inbox' = DOMAIN inbox, NEW c \in DOMAIN inbox
    PROVE  inbox'[c].target = inbox[c].target
           /\ (inbox'[c].state = "pending" => inbox[c].state = "pending")
<1>1. ASSUME NEW m \in Msgs, NEW r \in Routes, Ingest(m, r) PROVE FALSE
  BY <1>1, IngestStepFrame DEF OrderInv, IngestFrame
<1>2. ASSUME NEW m \in DOMAIN inbox, InboxStep(m)
      PROVE  inbox'[c].target = inbox[c].target
             /\ (inbox'[c].state = "pending" => inbox[c].state = "pending")
  BY <1>2, InboxStepWork
     DEF OrderInv, WorkStep, Rests, TakenUp, Dropped, Admitted, Ran, Settled
<1>3. ASSUME NEW k \in DOMAIN deliveries, LaneStep(k) \/ ResolveStep(k) PROVE inbox' = inbox
  BY <1>3 DEF LaneStep, ResolveStep
<1> QED BY <1>1, <1>2, <1>3 DEF Next, storeVars

Reaches == RunnerInv /\ (faults = 0 => StopReachesTarget)

LEMMA NextReaches == Reaches /\ [RunnerNext]_vars => Reaches'
<1> SUFFICES ASSUME Reaches, RunnerNext PROVE Reaches'
  <2>1. Reaches /\ UNCHANGED vars => Reaches'
    <3> SUFFICES ASSUME Reaches, UNCHANGED vars PROVE Reaches'
      OBVIOUS
    <3>1. RunnerInv'
      BY RunnerNextInv DEF Reaches
    <3> QED BY <3>1 DEF Reaches, vars, storeVars, agentVars, schedVars, StopReachesTarget, At, Work
  <2> QED BY <2>1
<1>1. RunnerInv /\ RunnerInv' /\ [Next]_storeVars /\ Remembers
  BY RunnerNextInv, StepRemembers DEF Reaches
<1> SUFFICES ASSUME faults' = 0 PROVE StopReachesTarget'
  BY <1>1 DEF Reaches
<1>2. faults' = faults /\ ~Fault /\ StopReachesTarget
  BY <1>1 DEF Reaches, Remembers, Fault, RunnerInv, RunnerTyped
<1> SUFFICES ASSUME NEW r \in Routes, NEW c \in DOMAIN inbox', At(r, "wait")',
                    inbox'[c].state = "pending", inbox'[c].target = Work(r)',
                    ingesting'[c] # "interrupt"
             PROVE  handles'[r] \in hit'
  BY DEF StopReachesTarget
<1>3. ASSUME DOMAIN inbox' = DOMAIN inbox, ingesting' = ingesting,
             runner'[r] = runner[r] /\ handles'[r] = handles[r]
      PROVE  handles'[r] \in hit'
  BY <1>1, <1>2, <1>3, PendingStays, WaitsOn DEF RunnerInv
<1>4. ASSUME NEW q \in Routes, StartRunner(q) \/ RunnerStep(q) PROVE handles'[r] \in hit'
  <2>1. Keeps(q)
    BY <1>1, <1>4, RunnerStepKeeps
  <2>2. CASE q # r
    BY <1>3, <2>1, <2>2 DEF Keeps, Undisturbed
  <2>3. CASE q = r
    <3>1. ReplayStops(r)
      BY <1>1, <1>2, <1>4, <2>3, ComesToWait DEF StopsUnread
    <3>2. PICK x : x = runner[r].run
      OBVIOUS
    <3>3. handles'[r] = x /\ inbox' = inbox /\ runner'[r].work = Work(r)
      <4>1. At(r, "replay") /\ Goto(r, "wait") /\ handles' = handles /\ inbox' = inbox
        BY <3>1 DEF ReplayStops, storeVars
      <4>2. Passes(r, "wait", x)
        BY <1>1, <3>2, <4>1, GotoPasses DEF RunnerInv, Pcs, PromptPcs
      <4> QED BY <1>1, <3>2, <4>1, <4>2, InAnswer DEF Passes, Work, At
    <3>4. Work(r) \in DOMAIN inbox /\ inbox[Work(r)].route = r /\ Work(r) # NoMsg
      BY <1>1, <3>1, InAnswer, NoneAssumption
         DEF ReplayStops, At, RunnerInv, OrderInv, Inv, TypeOK
    <3>5. c \in ItemsIn(r, {"pending"}) /\ inbox[c].kind = "stop" /\ inbox[c].target = Work(r)
      BY <1>1, <3>3, <3>4 DEF RunnerInv, Books, StopsAim, ItemsIn, Work
    <3>6. hit' = hit \cup {x}
      BY <3>1, <3>2, <3>5 DEF ReplayStops
    <3> QED BY <3>3, <3>6
  <2> QED BY <2>2, <2>3
<1>5. ASSUME NEW q \in Routes, RouteUnavailable(q) \/ ParkExpires(q) PROVE handles'[r] \in hit'
  BY <1>3, <1>5 DEF RouteUnavailable, ParkExpires, storeVars
<1>6. ASSUME NEW m \in Msgs, NEW q \in Routes, IngestCommit(m, q) PROVE handles'[r] \in hit'
  <2>1. IngestMoves(m, q) /\ UNCHANGED <<runner, handles, hit>>
        /\ (inbox'[m].state = "pending" => ingesting'[m] = "interrupt")
        /\ \A n \in DOMAIN inbox : n # m => ingesting'[n] = ingesting[n]
    BY <1>1, <1>6, IngestOnly DEF IngestCommit, agentVars, RunnerInv, RunnerTyped
  <2>2. c # m
    BY <2>1
  <2>3. /\ c \in DOMAIN inbox /\ inbox[c].state = "pending" /\ inbox[c].target = Work(r)
        /\ At(r, "wait") /\ ingesting[c] # "interrupt"
    BY <2>1, <2>2 DEF IngestMoves, Alike, At, Work
  <2> QED BY <1>2, <2>1, <2>3 DEF StopReachesTarget
<1>7. ASSUME NEW m \in Msgs, IngestStep(m) PROVE handles'[r] \in hit'
  <2>1. /\ UNCHANGED <<storeVars, runner, handles>> /\ inbox' = inbox
        /\ \A n \in DOMAIN inbox : n # m => ingesting'[n] = ingesting[n]
    <3>1. PICK to : ingesting' = [ingesting EXCEPT ![m] = to]
      BY <1>7 DEF IngestStep, IngestInterrupt, IngestUnpark
    <3>2. UNCHANGED <<storeVars, runner, handles>>
      BY <1>7 DEF IngestStep, IngestInterrupt, IngestUnpark
    <3>3. ingesting \in [Msgs -> {"none", "interrupt", "unpark"}]
      BY <1>1 DEF RunnerInv, RunnerTyped
    <3>4. DOMAIN inbox \subseteq Msgs
      BY <1>1 DEF RunnerInv, OrderInv, Inv, TypeOK
    <3> QED BY <3>1, <3>2, <3>3, <3>4 DEF storeVars
  <2>2. /\ c \in DOMAIN inbox /\ inbox[c].state = "pending" /\ inbox[c].target = Work(r)
        /\ At(r, "wait")
    BY <2>1 DEF At, Work
  <2>3. CASE ingesting[c] # "interrupt"
    BY <1>1, <1>2, <2>1, <2>2, <2>3 DEF StopReachesTarget, Remembers
  <2>4. CASE ingesting[c] = "interrupt"
    <3>1. c = m /\ IngestInterrupt(c)
      BY <1>7, <2>1, <2>4 DEF IngestStep, IngestUnpark
    <3>2. /\ Work(r) \in DOMAIN inbox /\ inbox[Work(r)].route = r /\ Work(r) # NoMsg
          /\ inbox[Work(r)].run = handles[r] /\ handles[r] # NoRun
      BY <1>1, <2>2, InAnswer, NoneAssumption DEF At, RunnerInv, OrderInv, Inv, TypeOK
    <3>3. inbox[c].route = r /\ inbox[c].targetRun \in {NoRun, handles[r]}
      BY <1>1, <2>2, <3>2 DEF RunnerInv, Books, StopsAim
    <3>4. hit' = hit \cup {handles[r]}
      BY <3>1, <3>2, <3>3 DEF IngestInterrupt
    <3> QED BY <2>1, <3>4
  <2> QED BY <2>3, <2>4
<1>8. ASSUME NEW x \in DOMAIN runs, RunSettles(x) PROVE handles'[r] \in hit'
  BY <1>3, <1>8 DEF RunSettles, schedVars, storeVars
<1>9. ~Crash
  BY <1>2 DEF Crash
<1> QED BY <1>4, <1>5, <1>6, <1>7, <1>8, <1>9 DEF RunnerNext

(* Without an error of PendingStops (or any other), a runner never waits for*)
(* a run that a pending stop is aimed at and has not interrupted: whichever *)
(* side comes second, the ingestion that looks for the owned handle or the  *)
(* runner that reads the pending stops after it owns one, sees the other.   *)
THEOREM StopReachesHolds == RunnerSpec => [](faults = 0 => StopReachesTarget)
<1>1. RunnerInit => Reaches
  <2>1. RunnerInit => StopReachesTarget
    BY DEF RunnerInit, Init, StopReachesTarget
  <2> QED BY <2>1, RunnerInitInv DEF Reaches
<1>2. Reaches => (faults = 0 => StopReachesTarget)
  BY DEF Reaches
<1> QED BY <1>1, <1>2, NextReaches, PTL DEF RunnerSpec

=============================================================================
