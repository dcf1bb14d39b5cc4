---------------------------- MODULE StateDirProofs ----------------------------
(* Theorems about StateDir, for any number of processes.                    *)
EXTENDS StateDir, FiniteSetTheorems, TLAPS

Opened == {"agent", "migrate", "open"}
Locked == {"host", "create", "read", "apply"} \cup Opened
Shut == {"closeAgent", "closeHost", "unlock"}
Pcs == {"idle", "lock"} \cup Locked \cup Shut

ProcsOK ==
    /\ pc \in [Procs -> Pcs]
    /\ hostOpen \subseteq Procs /\ agentOpen \subseteq Procs
    /\ lock \in Procs \cup {Unlocked}

(* Everything that is open is the lock holder's, at every step of Open and  *)
(* Close: a pool is opened with the lock held and closed before it is       *)
(* released.                                                                *)
Owned ==
    \A p \in Procs :
        /\ p \in hostOpen \cup agentOpen => lock = p
        /\ pc[p] \in Locked => lock = p
        /\ pc[p] \in {"idle", "lock"} => lock # p
        /\ pc[p] = "closeHost" => p \notin agentOpen
        /\ pc[p] = "unlock" => p \notin hostOpen \cup agentOpen

(* The tables are those that the version names.                             *)
DiskOK ==
    /\ version \in Nat \cup {Absent}
    /\ tables = IF version = Absent THEN 0 ELSE version

Migrated ==
    \A p \in Procs :
        /\ pc[p] \in Opened => version = hostSchemaVer /\ tables = hostSchemaVer
        /\ pc[p] = "open" /\ p \notin Operators => agent = "ready"

IInv == ProcsOK /\ Owned /\ DiskOK /\ Migrated

LEMMA InitIInv == DirInit => IInv
  BY StateDirAssumption, SMT DEF DirInit, IInv, ProcsOK, Owned, DiskOK, Migrated,
     Pcs, Locked, Opened, Shut, Absent

(* A step of p leaves every other process where it is.                      *)
LEMMA OpeningStep ==
  ASSUME IInv, NEW p \in Procs, Opening(p)
  PROVE  IInv'
<1> USE StateDirAssumption DEF IInv, ProcsOK, Owned, DiskOK, Migrated,
                               Pcs, Locked, Opened, Shut, Absent, ProcAt, Fail, disk
<1>1. CASE PrepareDir(p)  BY <1>1 DEF PrepareDir
<1>2. CASE AcquireLock(p)  BY <1>2 DEF AcquireLock
<1>3. CASE OpenHost(p)  BY <1>3 DEF OpenHost
<1>4. CASE CreateVersionTable(p)  BY <1>4 DEF CreateVersionTable
<1>5. CASE ReadVersion(p)  BY <1>5 DEF ReadVersion
<1>6. CASE ApplySchema(p)  BY <1>6 DEF ApplySchema
<1>7. CASE SkipAgent(p)  BY <1>7 DEF SkipAgent
<1>8. CASE OpenAgent(p)  BY <1>8 DEF OpenAgent
<1>9. CASE MigrateAgent(p)  BY <1>9 DEF MigrateAgent
<1> QED  BY <1>1, <1>2, <1>3, <1>4, <1>5, <1>6, <1>7, <1>8, <1>9 DEF Opening

LEMMA ClosingStep ==
  ASSUME IInv, NEW p \in Procs, Closing(p) \/ Die(p)
  PROVE  IInv'
<1> USE StateDirAssumption DEF IInv, ProcsOK, Owned, DiskOK, Migrated,
                               Pcs, Locked, Opened, Shut, Absent, ProcAt, disk
<1>1. CASE BeginClose(p)  BY <1>1 DEF BeginClose
<1>2. CASE CloseAgent(p)  BY <1>2 DEF CloseAgent
<1>3. CASE CloseHost(p)  BY <1>3 DEF CloseHost
<1>4. CASE Unlock(p)  BY <1>4 DEF Unlock
<1>5. CASE Die(p)  BY <1>5 DEF Die
<1> QED  BY <1>1, <1>2, <1>3, <1>4, <1>5 DEF Closing

LEMMA FailingStep ==
  ASSUME IInv, NEW p \in Procs,
         NEW l \in {"lock", "host", "create", "read", "apply", "agent", "migrate"}, Fails(p, l)
  PROVE  IInv'
  BY StateDirAssumption DEF IInv, ProcsOK, Owned, DiskOK, Migrated,
     Pcs, Locked, Opened, Shut, Absent, ProcAt, Fail, Fails, disk

LEMMA NextIInv == IInv /\ [DirNext]_dirVars => IInv'
<1> SUFFICES ASSUME IInv, [DirNext]_dirVars PROVE IInv'
    OBVIOUS
<1>1. CASE UNCHANGED dirVars
      BY <1>1 DEF dirVars, disk, IInv, ProcsOK, Owned, DiskOK, Migrated
<1>2. CASE DirNext
  <2>1. PICK p \in Procs :
           \/ Opening(p) \/ Closing(p) \/ Die(p)
           \/ \E l \in {"lock", "host", "create", "read", "apply", "agent", "migrate"} : Fails(p, l)
        BY <1>2 DEF DirNext
  <2> QED  BY <2>1, OpeningStep, ClosingStep, FailingStep
<1> QED  BY <1>1, <1>2

LEMMA AlwaysIInv == DirSpec => []IInv
  BY InitIInv, NextIInv, PTL DEF DirSpec

(* At most one process has the databases open (the exclusive lock of Open), *)
(* however many start, fail, close or die at any step.                      *)
THEOREM OneProcessHolds == DirSpec => []OneProcess
<1>1. IInv => OneProcess
  <2> SUFFICES ASSUME IInv PROVE Cardinality(hostOpen \cup agentOpen) <= 1
      BY DEF OneProcess
  <2>1. hostOpen \cup agentOpen \subseteq {lock}
        BY DEF IInv, ProcsOK, Owned
  <2>2. IsFiniteSet({lock}) /\ Cardinality({lock}) = 1
        BY FS_Singleton
  <2>3. Cardinality(hostOpen \cup agentOpen) <= Cardinality({lock})
        BY <2>1, <2>2, FS_Subset
  <2> QED  BY <2>2, <2>3
<1> QED  BY <1>1, AlwaysIInv, PTL

(* The tables and the version of the host database appear together          *)
(* (migrateHost), so that a process that died on the way can be followed by *)
(* one that opens the directory.                                            *)
THEOREM MigrationAlwaysWhole == DirSpec => []MigrationIsWhole
<1>1. IInv => MigrationIsWhole  BY DEF IInv, DiskOK, MigrationIsWhole, Absent
<1> QED  BY <1>1, AlwaysIInv, PTL

(* What Open returns has the schemas of this binary, and goes on having     *)
(* them whatever the other processes do.                                    *)
THEOREM OpenedAlwaysMigrated == DirSpec => []OpenedIsMigrated
<1>1. IInv => OpenedIsMigrated  BY DEF IInv, Migrated, Opened, OpenedIsMigrated
<1> QED  BY <1>1, AlwaysIInv, PTL

(* A database that a newer binary wrote is never changed ("fails closed ... *)
(* without touching data"): its version is refused before the tables are    *)
(* created.                                                                 *)
THEOREM NewerStaysUntouched == DirSpec => NewerUntouched
<1>1. IInv /\ [DirNext]_dirVars => [version > hostSchemaVer => UNCHANGED <<version, tables>>]_dirVars
  <2> SUFFICES ASSUME IInv, DirNext, version > hostSchemaVer
               PROVE  UNCHANGED <<version, tables>>
      BY DEF dirVars, disk
  <2>1. PICK p \in Procs :
           \/ Opening(p) \/ Closing(p) \/ Die(p)
           \/ \E l \in {"lock", "host", "create", "read", "apply", "agent", "migrate"} : Fails(p, l)
        BY DEF DirNext
  <2>2. version # Absent /\ tables # 0
        BY StateDirAssumption DEF IInv, DiskOK, Absent
  <2>3. CASE Opening(p)
        BY <2>2, <2>3 DEF Opening, PrepareDir, AcquireLock, OpenHost, CreateVersionTable,
           ReadVersion, ApplySchema, SkipAgent, OpenAgent, MigrateAgent, disk
  <2>4. CASE Closing(p) \/ Die(p)
        BY <2>4 DEF Closing, BeginClose, CloseAgent, CloseHost, Unlock, Die, disk
  <2>5. CASE \E l \in {"lock", "host", "create", "read", "apply", "agent", "migrate"} : Fails(p, l)
        BY <2>5 DEF Fails, disk
  <2> QED  BY <2>1, <2>3, <2>4, <2>5
<1> QED  BY <1>1, AlwaysIInv, PTL DEF DirSpec, NewerUntouched
=============================================================================
