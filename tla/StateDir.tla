------------------------------- MODULE StateDir -------------------------------
(***************************************************************************)
(* The state directory (internal/state/store.go): Open and Close of several *)
(* processes, the daemon and the operator's commands, over one directory    *)
(* with its lock file and its two databases.  Any step may fail or be the   *)
(* last one of its process; the operating system then frees what the        *)
(* process held.  Files, links and permissions are only why a step fails.   *)
(***************************************************************************)
EXTENDS Integers, FiniteSets

CONSTANTS
    Procs,
    Operators,      \* processes opened with SkipAgentDB
    hostSchemaVer,
    Unlocked        \* no process

ASSUME StateDirAssumption ==
    /\ Operators \subseteq Procs /\ Unlocked \notin Procs
    /\ hostSchemaVer \in Nat \ {0}

VARIABLES
    pc,         \* where Open or Close of a process is
    lock,       \* the process that has the flock
    hostOpen,   \* processes with a pool on the host database
    agentOpen,  \* processes with a pool on the agent's database
    version,    \* what schema_version says: Absent, 0 without a row
    tables,     \* the schema that the tables have, 0 for none
    agent       \* the agent's database: "new", "ready" or "foreign"

disk == <<version, tables, agent>>
dirVars == <<pc, lock, hostOpen, agentOpen, disk>>

Absent == -1
ProcAt(p, l) == pc' = [pc EXCEPT ![p] = l]

(* The deferred Close of a failed Open.                                     *)
Fail(p) == ProcAt(p, "closeAgent")

Fails(p, l) ==
    /\ pc[p] = l
    /\ Fail(p)
    /\ UNCHANGED <<lock, hostOpen, agentOpen, disk>>

-----------------------------------------------------------------------------
(* Open.                                                                    *)

PrepareDir(p) ==
    /\ pc[p] = "idle"
    /\ ProcAt(p, "lock")
    /\ UNCHANGED <<lock, hostOpen, agentOpen, disk>>

(* A process that finds the lock taken does not wait for it.                *)
AcquireLock(p) ==
    /\ pc[p] = "lock"
    /\ IF lock = Unlocked THEN lock' = p /\ ProcAt(p, "host")
                          ELSE Fail(p) /\ UNCHANGED lock
    /\ UNCHANGED <<hostOpen, agentOpen, disk>>

OpenHost(p) ==
    /\ pc[p] = "host"
    /\ hostOpen' = hostOpen \cup {p}
    /\ ProcAt(p, "create")
    /\ UNCHANGED <<lock, agentOpen, disk>>

(* migrateHost: the version table is created on its own.                    *)
CreateVersionTable(p) ==
    /\ pc[p] = "create"
    /\ version' = IF version = Absent THEN 0 ELSE version
    /\ ProcAt(p, "read")
    /\ UNCHANGED <<lock, hostOpen, agentOpen, tables, agent>>

(* A newer version, or one with no migration path, is refused.              *)
ReadVersion(p) ==
    /\ pc[p] = "read"
    /\ CASE version = hostSchemaVer -> ProcAt(p, "agent")
         [] version = 0 -> ProcAt(p, "apply")
         [] OTHER -> Fail(p)
    /\ UNCHANGED <<lock, hostOpen, agentOpen, disk>>

(* The tables and the version are one transaction; the tables are created   *)
(* without IF NOT EXISTS.                                                   *)
ApplySchema(p) ==
    /\ pc[p] = "apply" /\ tables = 0
    /\ tables' = hostSchemaVer /\ version' = hostSchemaVer
    /\ ProcAt(p, "agent")
    /\ UNCHANGED <<lock, hostOpen, agentOpen, agent>>

(* SkipAgentDB                                                              *)
SkipAgent(p) ==
    /\ pc[p] = "agent" /\ p \in Operators
    /\ ProcAt(p, "open")
    /\ UNCHANGED <<lock, hostOpen, agentOpen, disk>>

OpenAgent(p) ==
    /\ pc[p] = "agent" /\ p \notin Operators
    /\ agentOpen' = agentOpen \cup {p}
    /\ ProcAt(p, "migrate")
    /\ UNCHANGED <<lock, hostOpen, disk>>

(* Faulty Open: the agent's database is used as it is found.                *)
UseAgent(p) ==
    /\ pc[p] = "migrate"
    /\ ProcAt(p, "open")
    /\ UNCHANGED <<lock, hostOpen, agentOpen, disk>>

(* agentsqlite.Migrate rejects a database that it does not know.            *)
MigrateAgent(p) ==
    /\ pc[p] = "migrate"
    /\ IF agent = "foreign" THEN Fail(p) /\ UNCHANGED agent
                            ELSE agent' = "ready" /\ ProcAt(p, "open")
    /\ UNCHANGED <<lock, hostOpen, agentOpen, version, tables>>

-----------------------------------------------------------------------------
(* Close, and the end of a process.                                         *)

BeginClose(p) ==
    /\ pc[p] = "open"
    /\ ProcAt(p, "closeAgent")
    /\ UNCHANGED <<lock, hostOpen, agentOpen, disk>>

(* Faulty Close: the lock is released before the host's pool.               *)
CloseAgentUnlock(p) ==
    /\ pc[p] = "closeAgent"
    /\ agentOpen' = agentOpen \ {p}
    /\ lock' = IF lock = p THEN Unlocked ELSE lock
    /\ ProcAt(p, "closeHost")
    /\ UNCHANGED <<hostOpen, disk>>

CloseAgent(p) ==
    /\ pc[p] = "closeAgent"
    /\ agentOpen' = agentOpen \ {p}
    /\ ProcAt(p, "closeHost")
    /\ UNCHANGED <<lock, hostOpen, disk>>

CloseHost(p) ==
    /\ pc[p] = "closeHost"
    /\ hostOpen' = hostOpen \ {p}
    /\ ProcAt(p, "unlock")
    /\ UNCHANGED <<lock, agentOpen, disk>>

(* Only a lock of its own is released.                                      *)
Unlock(p) ==
    /\ pc[p] = "unlock"
    /\ lock' = IF lock = p THEN Unlocked ELSE lock
    /\ ProcAt(p, "idle")
    /\ UNCHANGED <<hostOpen, agentOpen, disk>>

Die(p) ==
    /\ pc[p] # "idle"
    /\ ProcAt(p, "idle")
    /\ lock' = IF lock = p THEN Unlocked ELSE lock
    /\ hostOpen' = hostOpen \ {p} /\ agentOpen' = agentOpen \ {p}
    /\ UNCHANGED disk

-----------------------------------------------------------------------------
(* The directory is new, or was used by this binary or by a newer one.      *)
DirInit ==
    /\ pc = [p \in Procs |-> "idle"] /\ lock = Unlocked
    /\ hostOpen = {} /\ agentOpen = {}
    /\ \/ version = Absent /\ tables = 0
       \/ \E v \in {hostSchemaVer, hostSchemaVer + 1} : version = v /\ tables = v
    /\ agent \in {"new", "ready", "foreign"}

Opening(p) ==
    \/ PrepareDir(p) \/ AcquireLock(p) \/ OpenHost(p)
    \/ CreateVersionTable(p) \/ ReadVersion(p) \/ ApplySchema(p)
    \/ SkipAgent(p) \/ OpenAgent(p) \/ MigrateAgent(p)

Closing(p) == BeginClose(p) \/ CloseAgent(p) \/ CloseHost(p) \/ Unlock(p)

DirNext ==
    \E p \in Procs :
        \/ Opening(p) \/ Closing(p) \/ Die(p)
        \/ \E l \in {"lock", "host", "create", "read", "apply", "agent", "migrate"} : Fails(p, l)

DirSpec == DirInit /\ [][DirNext]_dirVars

-----------------------------------------------------------------------------
(* "Open acquires the exclusive lock" (store.go): whatever fails, closes or *)
(* dies in between, two processes never have the databases open.            *)
OneProcess == Cardinality(hostOpen \cup agentOpen) <= 1

(* A migration that was cut off can be made again: there are no tables      *)
(* without the version, nor a version without them.                         *)
MigrationIsWhole == version <= 0 <=> tables = 0

(* What Open returns can be used: the schemas are those of this binary.     *)
OpenedIsMigrated ==
    \A p \in Procs : pc[p] = "open" =>
        /\ version = hostSchemaVer /\ tables = hostSchemaVer
        /\ p \notin Operators => agent = "ready"

(* migrateHost "fails closed on unknown or newer versions without touching  *)
(* data" (store.go).                                                        *)
NewerUntouched ==
    [][version > hostSchemaVer => UNCHANGED <<version, tables>>]_dirVars
=============================================================================
