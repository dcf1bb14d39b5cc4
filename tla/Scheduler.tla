------------------------------ MODULE Scheduler ------------------------------
(***************************************************************************)
(* internal/conversation/scheduler.go in detail: the scheduler goroutine    *)
(* with its rotating cursor, the bounded set of active runners, the parked  *)
(* routes, and the per-route ingest counters that decide whether a runner   *)
(* may park.  RouteRunner takes all of this as "some route with work is     *)
(* started" and "an ingest arrived"; here each critical section of          *)
(* Service.mu and each query is a step.                                     *)
(*                                                                          *)
(* What a route has to do is one fact, "it has work" (what RoutesWithWork   *)
(* selects).  The ticker makes every wait end, so the wake channel, which   *)
(* only shortens it, is left out.                                           *)
(***************************************************************************)
EXTENDS Integers, FiniteSets, SequencesExt

CONSTANTS
    Routes,            \* route keys, as numbers in their lexicographic order
    MaxRunning,        \* limits.max_running_conversations
    Batch,             \* routeBatch
    MaxIngestEntries,  \* maxIngestEntries
    MaxCount,          \* bound: a counter never passes it
    MaxInFlight,       \* bound: Ingest calls of one route between commit and unpark
    MaxFailures        \* bound: failed scans

ASSUME SchedulerAssumption ==
    /\ Routes \subseteq Nat \ {0}
    /\ MaxRunning \in Nat \ {0} /\ Batch \in Nat \ {0}
    /\ MaxIngestEntries \in Nat

VARIABLES
    work,      \* routes with runnable work or unresolved deliveries
    cursor,    \* rotation position, 0 for the empty string
    rescan,    \* Service.rescan
    sched,     \* the scheduler goroutine: [pc, keys, short]
    active,    \* Service.active
    parked,    \* Service.parked: "no" entry, "held", or "over" when it expired
    ingests,   \* Service.ingests, 0 where there is no entry
    runner,    \* route -> the locals of runRoute: [pc, seen]
    inflight,  \* route -> Ingest calls that committed and have yet to unpark
    news,      \* routes with a commit since their runner last read the counter
    failures   \* scans that failed so far

queue == <<work, inflight, news>>
scan == <<cursor, sched, failures>>
schedVars == <<queue, scan, rescan, active, parked, ingests, runner>>

Off == [pc |-> "off", seen |-> 0]
RunnerPcs == {"off", "start", "giveup", "look", "work", "idle", "park", "exit"}
Waiting == [pc |-> "wait", keys |-> <<>>, short |-> FALSE]

-----------------------------------------------------------------------------
(* The scheduler's loop.                                                    *)

(* A pass begins: an ingest since the last one restarts the rotation.       *)
BeginPass ==
    /\ sched.pc = "wait"
    /\ sched' = [sched EXCEPT !.pc = "query"]
    /\ cursor' = IF rescan THEN 0 ELSE cursor
    /\ rescan' = FALSE
    /\ UNCHANGED <<queue, failures, active, parked, ingests, runner>>

After(c) == {k \in work : k > c}

RoutesWithWork(after, limit) ==
    LET keys == SetToSortSeq(After(after), <)
    IN  SubSeq(keys, 1, IF Len(keys) < limit THEN Len(keys) ELSE limit)

(* Faulty query: an empty batch does not wrap to the first route.           *)
QueryWithoutWrap ==
    /\ sched.pc = "query"
    /\ LET keys == RoutesWithWork(cursor, Batch)
       IN  sched' = [pc |-> "visit", keys |-> keys, short |-> FALSE]
    /\ UNCHANGED <<cursor, queue, failures, rescan, active, parked, ingests, runner>>

(* The scan; behind the last route with work it wraps and asks again.       *)
Query ==
    /\ sched.pc = "query"
    /\ LET keys == RoutesWithWork(cursor, Batch)
       IN  IF keys = <<>> /\ cursor # 0
           THEN cursor' = 0 /\ UNCHANGED sched
           ELSE /\ sched' = [pc |-> "visit", keys |-> keys,
                             short |-> Len(keys) < Batch]
                /\ UNCHANGED cursor
    /\ UNCHANGED <<queue, failures, rescan, active, parked, ingests, runner>>

QueryFails ==
    /\ sched.pc = "query" /\ failures < MaxFailures
    /\ failures' = failures + 1
    /\ sched' = Waiting
    /\ UNCHANGED <<queue, cursor, rescan, active, parked, ingests, runner>>

Full == Cardinality(active) >= MaxRunning

(* The slots are taken: the pass ends before this key.                      *)
VisitFull ==
    /\ sched.pc = "visit" /\ sched.keys # <<>> /\ Full
    /\ sched' = Waiting
    /\ UNCHANGED <<cursor, queue, failures, rescan, active, parked, ingests, runner>>

(* A key of the batch: a running or parked route is passed over.            *)
VisitRoute ==
    /\ sched.pc = "visit" /\ sched.keys # <<>> /\ ~Full
    /\ LET key == Head(sched.keys)
       IN  /\ cursor' = key
           /\ IF key \in active \/ parked[key] = "held"
              THEN UNCHANGED <<active, parked, runner>>
              ELSE /\ active' = active \cup {key}
                   /\ parked' = [parked EXCEPT ![key] = "no"]
                   /\ runner' = [runner EXCEPT ![key] = [pc |-> "start", seen |-> 0]]
    /\ sched' = [sched EXCEPT !.keys = Tail(@)]
    /\ UNCHANGED <<queue, failures, rescan, ingests>>

(* The batch is done; one that was not full was the last of the rotation.   *)
EndPass ==
    /\ sched.pc = "visit" /\ sched.keys = <<>>
    /\ cursor' = IF sched.short THEN 0 ELSE cursor
    /\ sched' = Waiting
    /\ UNCHANGED <<queue, failures, rescan, active, parked, ingests, runner>>

SchedulerStep == BeginPass \/ Query \/ VisitFull \/ VisitRoute \/ EndPass

-----------------------------------------------------------------------------
(* Ingest: the transaction, then unpark.                                    *)
IngestCommit(r) ==
    /\ inflight[r] < MaxInFlight
    /\ inflight' = [inflight EXCEPT ![r] = @ + 1]
    /\ work' = work \cup {r}
    /\ news' = news \cup {r}
    /\ UNCHANGED <<scan, rescan, active, parked, ingests, runner>>

(* Faulty eviction: the counters of active routes are dropped too.          *)
EvictAll(counts, held) ==
    IF Cardinality({k \in Routes : counts[k] > 0}) > MaxIngestEntries
    THEN [k \in Routes |-> IF held[k] # "no" THEN counts[k] ELSE 0]
    ELSE counts

(* Past maxIngestEntries the counters of idle routes are dropped.           *)
Evict(counts, held) ==
    IF Cardinality({k \in Routes : counts[k] > 0}) > MaxIngestEntries
    THEN [k \in Routes |-> IF k \in active \/ held[k] # "no" THEN counts[k] ELSE 0]
    ELSE counts

Unpark(r) ==
    /\ inflight[r] > 0 /\ ingests[r] < MaxCount
    /\ inflight' = [inflight EXCEPT ![r] = @ - 1]
    /\ LET held == [parked EXCEPT ![r] = "no"]
       IN  /\ parked' = held
           /\ ingests' = Evict([ingests EXCEPT ![r] = @ + 1], held)
    /\ rescan' = TRUE
    /\ UNCHANGED <<work, news, scan, active, runner>>

-----------------------------------------------------------------------------
(* runRoute.                                                                *)
RunnerAt(r, pc) == runner' = [runner EXCEPT ![r].pc = pc]

(* seen := ingestSeq(key): the runner is up to date with what came before.  *)
ReadSeen(r, pc) ==
    /\ runner' = [runner EXCEPT ![r] = [pc |-> pc, seen |-> ingests[r]]]
    /\ news' = news \ {r}

Start(r) ==
    /\ runner[r].pc = "start"
    /\ \/ RunnerAt(r, "look") /\ UNCHANGED news
       \/ ReadSeen(r, "giveup")               \* the route could not be read
    /\ UNCHANGED <<work, inflight, scan, rescan, active, parked, ingests>>

Look(r) ==
    /\ runner[r].pc = "look"
    /\ ReadSeen(r, "work")
    /\ UNCHANGED <<work, inflight, scan, rescan, active, parked, ingests>>

(* NextWork and the lane: the work gets done, cannot go on now (the route   *)
(* is to be parked), or there is none.                                      *)
Work(r) ==
    /\ runner[r].pc = "work"
    /\ \/ r \in work /\ work' = work \ {r} /\ RunnerAt(r, "look")
       \/ r \in work /\ RunnerAt(r, "park") /\ UNCHANGED work
       \/ r \notin work /\ RunnerAt(r, "idle") /\ UNCHANGED work
    /\ UNCHANGED <<inflight, news, scan, rescan, active, parked, ingests>>

(* Nothing to do: the runner leaves unless an ingest arrived meanwhile.     *)
FindNothing(r) ==
    /\ runner[r].pc = "idle"
    /\ RunnerAt(r, IF ingests[r] = runner[r].seen THEN "exit" ELSE "look")
    /\ UNCHANGED <<queue, scan, rescan, active, parked, ingests>>

(* park: refused when an ingest arrived since seen.  A refused runner looks *)
(* again, or returns if it never could read its route.                      *)
Park(r) ==
    /\ runner[r].pc \in {"park", "giveup"}
    /\ IF ingests[r] = runner[r].seen
       THEN parked' = [parked EXCEPT ![r] = "held"] /\ RunnerAt(r, "exit")
       ELSE /\ RunnerAt(r, IF runner[r].pc = "park" THEN "look" ELSE "exit")
            /\ UNCHANGED parked
    /\ UNCHANGED <<queue, scan, rescan, active, ingests>>

(* The deferred removal from the active set.                                *)
Exit(r) ==
    /\ runner[r].pc = "exit"
    /\ active' = active \ {r}
    /\ runner' = [runner EXCEPT ![r] = Off]
    /\ UNCHANGED <<queue, scan, rescan, parked, ingests>>

RunnerStep(r) ==
    Start(r) \/ Look(r) \/ Work(r) \/ FindNothing(r) \/ Park(r) \/ Exit(r)

ParkExpires(r) ==
    /\ parked[r] = "held"
    /\ parked' = [parked EXCEPT ![r] = "over"]
    /\ UNCHANGED <<queue, scan, rescan, active, ingests, runner>>

-----------------------------------------------------------------------------
(* Work left by the previous process may be there at the start.             *)
SchedInit ==
    /\ work \in SUBSET Routes
    /\ cursor = 0 /\ rescan = FALSE /\ sched = Waiting
    /\ active = {} /\ news = {} /\ failures = 0
    /\ parked = [r \in Routes |-> "no"]
    /\ ingests = [r \in Routes |-> 0] /\ inflight = [r \in Routes |-> 0]
    /\ runner = [r \in Routes |-> Off]

SchedNext ==
    \/ SchedulerStep \/ QueryFails
    \/ \E r \in Routes :
         IngestCommit(r) \/ Unpark(r) \/ RunnerStep(r) \/ ParkExpires(r)

SchedSpec == SchedInit /\ [][SchedNext]_schedVars

(* The scheduler and the runners are goroutines that are always scheduled;  *)
(* a call of a turn or of a platform has a timeout, so a runner's work ends *)
(* one way or the other.  Nobody has to send anything.                      *)
FairSchedSpec ==
    /\ SchedSpec /\ WF_schedVars(SchedulerStep)
    /\ \A r \in Routes : /\ WF_schedVars(RunnerStep(r)) /\ WF_schedVars(Unpark(r))
                         /\ WF_schedVars(ParkExpires(r))

-----------------------------------------------------------------------------
(* A park never swallows an ingest: a route is held with a commit its       *)
(* runner did not see only until that Ingest call reaches unpark.  Dropping *)
(* counters does not break the comparison (scheduler.go: park, unpark).     *)
NoMissedIngest ==
    \A r \in Routes : parked[r] = "held" /\ r \in news => inflight[r] > 0

(* Once ingests cease, every route with work gets a runner although the     *)
(* slots and the batch are smaller than the number of routes: a full pass   *)
(* keeps its place, a finished one starts over (scheduler.go: the cursor).  *)
ServedInTurn ==
    <>[](~rescan) =>
        \A r \in Routes : (r \in work) ~> (r \in active \/ r \notin work)

(* "The scheduler rotates the cursor so no route starves behind             *)
(* lexicographically smaller ones" (internal/state/inbox.go, on             *)
(* RoutesWithWork).                                                         *)
(* It does not hold: every ingest resets the cursor.                        *)
NoRouteStarves ==
    \A r \in Routes : (r \in work) ~> (r \in active \/ r \notin work)
=============================================================================
