---------------------------- MODULE Coordination ----------------------------
(***************************************************************************)
(* The locks the daemon's services share: the mutation gate of             *)
(* ManagedMutationCoordinator, the state mutex of the folder replication   *)
(* service and the journal mutex of the record sync service.  Control      *)
(* connections, file system commits and the replication worker run the     *)
(* services' operations one lock acquisition at a time.                    *)
(*                                                                         *)
(* The catalog and the store are one number, the count of changes they     *)
(* have seen.  What has been staged for replication, captured for record   *)
(* sync or installed in the running daemon is the number it was read at.   *)
(* The journal mutex is only ever taken last and released before any other *)
(* wait, so an operation under it is one step.                             *)
(***************************************************************************)
EXTENDS Integers, FiniteSets

CONSTANTS
  Connections,  \* threads that serve control connections or file commits
  Worker,       \* the replication worker thread
  Nobody,       \* no thread holds the lock
  MaxRequests,  \* requests the connections make
  MaxCommits,   \* changes of the catalog and the store
  MaxFaults     \* failed engine, capture and persist calls

Threads == Connections \cup {Worker}

VARIABLES
  gate,         \* holder of ManagedMutationCoordinator.gate
  stateLock,    \* holder of DaemonReplicationService.state
  at,           \* what each thread is doing
  commits,      \* changes committed to the catalog and the store
  lastLocal,        \* the latest of them that a local mutation made
  staged,       \* the change the replication outbox has been brought up to
  engineMode,   \* ReplicationRuntimeState.mode
  engine,       \* ReplicationRuntimeState.engine.is_some()
  hasDirectory,    \* ReplicationRuntimeState.settings.directory.is_some()
  activeSince,  \* the change at which replication last became active
  membership,   \* what the shared folder says of this Device
  journalOpen,  \* DaemonRecordSyncService.journal is open
  initialCapture, \* initial_capture_completed
  captured,     \* the change the record journal has been brought up to
  installed,    \* the snapshot each part of the runtime was given
  requests,     \* bound: requests made
  faults,       \* bound: calls that failed
  misses        \* history: "capture" when a capture failed, "undone" when a
                \* restored engine overwrote a disable

locks == <<gate, stateLock>>
replication == <<staged, engineMode, engine, hasDirectory, activeSince, membership>>
records == <<journalOpen, initialCapture, captured>>
data == <<commits, lastLocal>>
meters == <<requests, faults, misses>>
coordinationVars == <<locks, at, data, replication, records, installed, meters>>

\* DispatchServices of one request: the operation, the step it is at, the
\* snapshot or membership it read, and whether its sync imported something.
NoOperation == [op |-> "none", pc |-> "idle", ver |-> 0, found |-> "none", imported |-> FALSE]

Gated == {"mutate", "commit", "outbound", "inbound", "resolveRecord"}
Locked == {"resolve", "revoke", "approve", "enroll", "disable", "reenroll"}
Operations == Gated \cup Locked \cup {"sync", "create", "open", "status", "settle"}

\* is_self_coordinated and is_read_only: which requests refresh the runtime
\* under the gate, after it, or not at all.
RefreshesUnderGate(op) == op = "mutate"
RefreshesAfter(op) ==
  op \in {"inbound", "resolveRecord", "sync", "create", "open"} \cup Locked

FirstStep(op) ==
  CASE op \in Gated  -> "gate"
    [] op \in Locked -> "state"
    [] op = "sync"   -> "check"
    [] op = "status" -> "ensure"
    [] op = "settle" -> "journal"
    [] OTHER         -> "adopt"

Goes(t, pc) == at' = [at EXCEPT ![t].pc = pc]
Ends(t) == at' = [at EXCEPT ![t] = NoOperation]

\* The end of a self-coordinated request: dispatch_observed notifies the
\* catalog observer when the request succeeded.
Succeeds(t, imported) ==
  IF RefreshesAfter(at[t].op) /\ (t = Worker => imported)
  THEN Goes(t, "snapshot") ELSE Ends(t)

Failure == faults < MaxFaults /\ faults' = faults + 1

CoordinationInit ==
  /\ gate = Nobody /\ stateLock = Nobody
  /\ at = [t \in Threads |-> NoOperation]
  /\ commits = 0 /\ lastLocal = 0
  /\ staged = 0 /\ activeSince = 0
  /\ \/ hasDirectory = FALSE /\ engine = FALSE /\ engineMode = "off" /\ membership = "enrolled"
     \/ hasDirectory = TRUE /\ engine = TRUE /\ engineMode = "active" /\ membership = "enrolled"
     \/ hasDirectory = TRUE /\ engine = FALSE /\ engineMode = "waiting" /\ membership = "waiting"
  /\ journalOpen = FALSE /\ initialCapture = FALSE /\ captured = 0
  /\ installed = 0
  /\ requests = 0 /\ faults = 0 /\ misses = {}

-----------------------------------------------------------------------------
(* Requests and the worker's loop.                                         *)

Request(t, op) ==
  /\ t \in Connections /\ at[t].pc = "idle" /\ requests < MaxRequests
  /\ requests' = requests + 1
  /\ at' = [at EXCEPT ![t] = [NoOperation EXCEPT !.op = op, !.pc = FirstStep(op)]]
  /\ UNCHANGED <<locks, data, replication, records, installed, faults, misses>>

\* run_replication_worker: status() takes the state mutex, Off and Fenced wait.
Wake ==
  /\ at[Worker].pc = "idle" /\ stateLock = Nobody
  /\ engineMode \notin {"off", "fenced"}
  /\ at' = [at EXCEPT ![Worker] = [NoOperation EXCEPT !.op = "sync", !.pc = "check"]]
  /\ UNCHANGED <<locks, data, replication, records, installed, meters>>

-----------------------------------------------------------------------------
(* Local mutations: run_committed keeps the gate from the operation to the *)
(* last observer.  Operations that wait for nothing under the gate take    *)
(* and release it in one step.                                             *)

\* An operation that fails returns its error and notifies nobody.
Reject(t) ==
  /\ at[t].pc = "gate" /\ at[t].op # "outbound" /\ gate = Nobody
  /\ Ends(t)
  /\ UNCHANGED <<locks, data, replication, records, installed, meters>>

Mutate(t) ==
  /\ at[t].pc = "gate" /\ at[t].op \in {"mutate", "commit"} /\ gate = Nobody
  /\ gate' = t
  /\ commits < MaxCommits
  /\ commits' = commits + 1 /\ lastLocal' = commits + 1
  /\ Goes(t, IF RefreshesUnderGate(at[t].op) THEN "snapshot" ELSE "observe")
  /\ UNCHANGED <<stateLock, replication, records, installed, meters>>

\* notify_observer: the snapshot is read, then handed to the observer.
ReadSnapshot(t) ==
  /\ at[t].pc = "snapshot"
  /\ at' = [at EXCEPT ![t].pc = "install", ![t].ver = commits]
  /\ UNCHANGED <<locks, data, replication, records, installed, meters>>

\* catalog_changed: the surfaces, links, SSH identities and managed policy of
\* that snapshot replace the installed ones.
Install(t) ==
  /\ at[t].pc = "install"
  /\ installed' = at[t].ver
  /\ IF gate = t THEN at' = [at EXCEPT ![t].pc = "observe", ![t].ver = 0] ELSE Ends(t)
  /\ UNCHANGED <<locks, data, replication, records, meters>>

\* A replication observer that gave up when the state mutex is busy.
ObserveIfFree(t) ==
  /\ at[t].pc = "observe"
  /\ IF engineMode = "active" /\ engine /\ stateLock = Nobody
     THEN staged' = commits ELSE UNCHANGED staged
  /\ Goes(t, "record")
  /\ UNCHANGED <<locks, data, engineMode, engine, hasDirectory, activeSince,
                 membership, records, installed, meters>>

\* DaemonReplicationService::managed_mutation_committed.
Observe(t) ==
  /\ at[t].pc = "observe" /\ stateLock = Nobody
  /\ IF engineMode = "active" /\ engine
     THEN \/ /\ staged' = commits
             /\ UNCHANGED <<engineMode, faults>>
          \/ /\ Failure
             /\ engineMode' = "error"
             /\ UNCHANGED staged
     ELSE UNCHANGED <<staged, engineMode, faults>>
  /\ Goes(t, "record")
  /\ UNCHANGED <<locks, data, engine, hasDirectory, activeSince, membership,
                 records, installed, requests, misses>>

\* RecordPublisher::capture through an open or newly opened journal.
Capture ==
  /\ journalOpen' = TRUE /\ initialCapture' = TRUE /\ captured' = commits

CaptureFails ==
  /\ Failure
  /\ misses' = misses \cup {"capture"}
  /\ journalOpen' = TRUE
  /\ UNCHANGED <<initialCapture, captured>>

\* DaemonRecordSyncService::managed_mutation_committed: only an open journal
\* captures.  The gate is released when the last observer returns.
Record(t) ==
  /\ at[t].pc = "record"
  /\ IF journalOpen
     THEN (Capture /\ UNCHANGED <<faults, misses>>) \/ CaptureFails
     ELSE UNCHANGED <<records, faults, misses>>
  /\ gate' = Nobody
  /\ Ends(t)
  /\ UNCHANGED <<stateLock, data, replication, installed, requests>>

-----------------------------------------------------------------------------
(* Record sync: ensure_initial_capture, with_captured_state, with_journal. *)

EnsureUnlocked(t) ==
  /\ at[t].pc = "ensure" /\ initialCapture
  /\ Goes(t, "journal")
  /\ UNCHANGED <<locks, data, replication, records, installed, meters>>

\* The flag is checked again under the gate; no other lock is waited for
\* before the gate is released, so this is one step.
EnsureCapture(t) ==
  /\ at[t].pc = "ensure" /\ ~initialCapture /\ gate = Nobody
  /\ \/ /\ Capture
        /\ Goes(t, "journal")
        /\ UNCHANGED <<faults, misses>>
     \/ /\ CaptureFails
        /\ Ends(t)
  /\ UNCHANGED <<locks, data, replication, installed, requests>>

\* with_journal operations that take no gate: settle_outbound and status.
Journal(t) ==
  /\ at[t].pc = "journal"
  /\ journalOpen' = TRUE
  /\ Ends(t)
  /\ UNCHANGED <<locks, data, replication, initialCapture, captured, installed, meters>>

Outbound(t) ==
  /\ at[t].pc = "gate" /\ at[t].op = "outbound" /\ gate = Nobody
  /\ (Capture /\ UNCHANGED <<faults, misses>>) \/ CaptureFails
  /\ Ends(t)
  /\ UNCHANGED <<locks, data, replication, installed, requests>>

\* apply_inbound captures local changes first and projects remote ones; the
\* projection is the journal's own state, so it is captured as well.
Inbound(t) ==
  /\ at[t].pc = "gate" /\ at[t].op = "inbound" /\ gate = Nobody
  /\ \/ /\ commits < MaxCommits
        /\ commits' = commits + 1
        /\ journalOpen' = TRUE /\ initialCapture' = TRUE /\ captured' = commits + 1
        /\ Goes(t, "snapshot")
        /\ UNCHANGED <<faults, misses>>
     \/ /\ CaptureFails
        /\ Ends(t)
        /\ UNCHANGED commits
  /\ UNCHANGED <<locks, lastLocal, replication, installed, requests>>

\* resolve_conflict runs under the gate without a capture of its own: it
\* projects the selected revision of one entity.
ResolveRecord(t) ==
  /\ at[t].pc = "gate" /\ at[t].op = "resolveRecord" /\ gate = Nobody
  /\ commits < MaxCommits
  /\ commits' = commits + 1
  /\ journalOpen' = TRUE
  /\ Goes(t, "snapshot")
  /\ UNCHANGED <<locks, lastLocal, replication, initialCapture, captured, installed, meters>>

-----------------------------------------------------------------------------
(* Folder replication: settings, engine and mode under the state mutex.    *)

\* sync: an engine that is missing but configured is opened again.  Here and in
\* restore_configured_engine the mutex is only taken to read; a disable between
\* the two reads is the same as one before the first.
Check(t) ==
  /\ at[t].pc = "check" /\ stateLock = Nobody
  /\ Goes(t, IF ~engine /\ hasDirectory /\ engineMode # "off" THEN "reopen" ELSE "state")
  /\ UNCHANGED <<locks, data, replication, records, installed, meters>>

\* restore_configured_engine opens the engine without the mutex.
Reopen(t) ==
  /\ at[t].pc = "reopen"
  /\ \/ /\ at' = [at EXCEPT ![t].pc = "restored", ![t].found = membership]
        /\ UNCHANGED faults
     \/ /\ Failure
        /\ at' = [at EXCEPT ![t].pc = "restored", ![t].found = "error"]
  /\ UNCHANGED <<locks, data, replication, records, installed, requests, misses>>

\* The mode the daemon shows for an engine that opened, or did not.
ModeFor(found) ==
  CASE found = "enrolled" -> "active"
    [] found = "waiting"  -> "waiting"
    [] found = "revoked"  -> "removed"
    [] OTHER              -> "error"

RestoreWrite(t) ==
  /\ at[t].pc = "restored" /\ stateLock = Nobody
  /\ engineMode' = ModeFor(at[t].found)
  /\ engine' = CASE at[t].found = "enrolled" -> TRUE
                 [] at[t].found = "revoked"  -> FALSE
                 [] OTHER                    -> engine
  /\ activeSince' = IF at[t].found = "enrolled" THEN commits ELSE activeSince
  /\ misses' = IF hasDirectory THEN misses ELSE misses \cup {"undone"}
  /\ Goes(t, "state")
  /\ UNCHANGED <<locks, data, staged, hasDirectory, membership, records, installed,
                 requests, faults>>

\* sync, resolve_with_current, revoke_device and approve keep the mutex while
\* the engine waits for the gate.
LockState(t) ==
  /\ at[t].pc = "state" /\ at[t].op \in {"sync", "resolve", "revoke", "approve"}
  /\ stateLock = Nobody
  /\ IF engine
     THEN /\ stateLock' = t
          /\ Goes(t, IF at[t].op \in {"sync", "approve"} THEN "engine" ELSE "direct")
     ELSE /\ UNCHANGED stateLock
          /\ Ends(t)
  /\ UNCHANGED <<gate, data, replication, records, installed, meters>>

\* enroll writes envelopes and takes no gate.
Enroll(t) ==
  /\ at[t].pc = "state" /\ at[t].op = "enroll" /\ stateLock = Nobody
  /\ IF engine THEN Succeeds(t, FALSE) ELSE Ends(t)
  /\ UNCHANGED <<locks, data, replication, records, installed, meters>>

Disable(t) ==
  /\ at[t].pc = "state" /\ at[t].op = "disable" /\ stateLock = Nobody
  /\ \/ /\ hasDirectory' = FALSE /\ engine' = FALSE /\ engineMode' = "off"
        /\ Succeeds(t, FALSE)
        /\ UNCHANGED faults
     \/ /\ Failure
        /\ Ends(t)
        /\ UNCHANGED <<hasDirectory, engine, engineMode>>
  /\ UNCHANGED <<locks, data, staged, activeSince, membership, records, installed,
                 requests, misses>>

RequestReenrollment(t) ==
  /\ at[t].pc = "state" /\ at[t].op = "reenroll" /\ stateLock = Nobody
  /\ IF engineMode = "removed" /\ ~engine
     THEN /\ engineMode' = "waiting" /\ membership' = "waiting"
          /\ Succeeds(t, FALSE)
     ELSE /\ UNCHANGED <<engineMode, membership>>
          /\ Ends(t)
  /\ UNCHANGED <<locks, data, staged, engine, hasDirectory, activeSince, records,
                 installed, meters>>

\* create and open: the engine is opened and synced without the mutex.
Adopt(t) ==
  /\ at[t].pc = "adopt"
  /\ \/ /\ at[t].op = "create" => membership = "enrolled" /\ ~hasDirectory
        /\ at' = [at EXCEPT ![t].found = membership,
                            ![t].pc = IF membership = "enrolled" THEN "engine" ELSE "adopted"]
        /\ UNCHANGED faults
     \/ /\ at[t].op = "create" => membership # "enrolled" \/ hasDirectory
        /\ Ends(t)
        /\ UNCHANGED faults
  /\ UNCHANGED <<locks, data, replication, records, installed, requests, misses>>

Adopted(t) ==
  /\ at[t].pc = "adopted" /\ stateLock = Nobody
  /\ hasDirectory' = TRUE
  /\ engine' = (at[t].found \in {"enrolled", "fenced"})
  /\ engineMode' = IF at[t].found = "fenced" THEN "fenced" ELSE ModeFor(at[t].found)
  /\ activeSince' = commits
  /\ Succeeds(t, FALSE)
  /\ UNCHANGED <<locks, data, staged, membership, records, installed, meters>>

-----------------------------------------------------------------------------
(* The engine under the gate: run_sync is sync, stage, sync.  It waits for *)
(* nothing while it has the gate, so each of the three is one step.        *)

Enters(t, pc) == at[t].pc = pc /\ gate = Nobody

\* update_after_sync, by the thread that holds the mutex; create and open
\* write the state in a step of their own.
UpdateAfterSync(t, fenced, imported) ==
  IF stateLock = t
  THEN /\ engineMode' = IF fenced THEN "fenced" ELSE "active"
       /\ activeSince' = IF engineMode = "active" THEN activeSince ELSE commits'
       /\ stateLock' = Nobody
       /\ Succeeds(t, imported)
  ELSE /\ UNCHANGED <<engineMode, activeSince, stateLock>>
       /\ at' = [at EXCEPT ![t].pc = "adopted",
                           ![t].found = IF fenced THEN "fenced" ELSE "enrolled"]

\* What ReplicationEngine::sync imports is a change nobody stages again; an
\* unpublished local change stays unstaged.
Imports(count) ==
  /\ commits + count <= MaxCommits
  /\ commits' = commits + count
  /\ staged' = IF staged = commits THEN commits + count ELSE staged

\* An error leaves through `?`: sync and resolve_with_current record it in
\* the mode, the others do not.
EngineFails(t) ==
  /\ \E pc \in {"engine", "stage", "publish", "direct"} : Enters(t, pc)
  /\ Failure
  /\ engineMode' = IF at[t].op \in {"sync", "resolve"} THEN "error" ELSE engineMode
  /\ stateLock' = IF stateLock = t THEN Nobody ELSE stateLock
  /\ Ends(t)
  /\ UNCHANGED <<gate, data, staged, engine, hasDirectory, activeSince, membership, records,
                 installed, requests, misses>>

\* The folder says the engine's Device was revoked: sync forgets the engine and
\* succeeds, every other operation fails.
EngineRevoked(t) ==
  /\ \E pc \in {"engine", "publish", "direct"} : Enters(t, pc)
  /\ membership # "enrolled"
  /\ stateLock' = IF stateLock = t THEN Nobody ELSE stateLock
  /\ IF at[t].op = "sync"
     THEN /\ engineMode' = "removed" /\ engine' = FALSE
          /\ Succeeds(t, FALSE)
     ELSE /\ engineMode' = IF at[t].op = "resolve" THEN "error" ELSE engineMode
          /\ UNCHANGED engine
          /\ Ends(t)
  /\ UNCHANGED <<gate, data, staged, hasDirectory, activeSince, membership, records,
                 installed, meters>>

\* run_sync: a fence, a conflict or a damaged file ends it after its first sync.
EngineSync(t) ==
  /\ Enters(t, "engine") /\ membership = "enrolled"
  /\ \E count \in {0, 1} :
       /\ Imports(count)
       /\ \/ /\ at' = [at EXCEPT ![t].pc = "stage", ![t].imported = (count = 1)]
             /\ UNCHANGED <<stateLock, engineMode, activeSince>>
          \/ \E fenced \in BOOLEAN : UpdateAfterSync(t, fenced, count = 1)
  /\ UNCHANGED <<gate, lastLocal, engine, hasDirectory, membership, records,
                 installed, meters>>

\* stage_current_snapshot; a second sync follows when it staged something.
EngineStage(t) ==
  /\ Enters(t, "stage")
  /\ UNCHANGED data
  /\ IF staged # commits
     THEN /\ staged' = commits
          /\ Goes(t, "publish")
          /\ UNCHANGED <<stateLock, engineMode, activeSince>>
     ELSE /\ UpdateAfterSync(t, FALSE, at[t].imported)
          /\ UNCHANGED staged
  /\ UNCHANGED <<gate, engine, hasDirectory, membership, records,
                 installed, meters>>

EnginePublish(t) ==
  /\ Enters(t, "publish") /\ membership = "enrolled"
  /\ \E count \in {0, 1}, fenced \in BOOLEAN :
       /\ Imports(count)
       /\ UpdateAfterSync(t, fenced, at[t].imported \/ count = 1)
  /\ UNCHANGED <<gate, lastLocal, engine, hasDirectory, membership, records,
                 installed, meters>>

\* resolve_conflict_with_current stages the local projection over every head;
\* revoke_device rotates the generation and syncs.
EngineDirect(t) ==
  /\ Enters(t, "direct") /\ membership = "enrolled"
  /\ IF at[t].op = "resolve"
     THEN staged' = commits /\ UNCHANGED commits
     ELSE \E count \in {0, 1} : Imports(count)
  /\ \E fenced \in BOOLEAN : UpdateAfterSync(t, fenced, FALSE)
  /\ UNCHANGED <<gate, lastLocal, engine, hasDirectory, membership, records,
                 installed, meters>>

\* External: another Device approves or removes this one in the folder.
FolderChanges ==
  /\ membership' = CASE membership = "waiting"  -> "enrolled"
                     [] membership = "enrolled" -> "revoked"
                     [] OTHER                   -> membership
  /\ membership' # membership
  /\ Failure
  /\ UNCHANGED <<locks, at, data, staged, engineMode, engine, hasDirectory, activeSince,
                 records, installed, requests, misses>>

-----------------------------------------------------------------------------
EngineSteps(t) ==
  \/ EngineFails(t) \/ EngineRevoked(t) \/ EngineSync(t)
  \/ EngineStage(t) \/ EnginePublish(t) \/ EngineDirect(t)

StateSteps(t) ==
  \/ Check(t) \/ Reopen(t) \/ RestoreWrite(t) \/ LockState(t)
  \/ Enroll(t) \/ Disable(t) \/ RequestReenrollment(t) \/ Adopt(t) \/ Adopted(t)

GateSteps(t) ==
  \/ Reject(t) \/ Mutate(t) \/ ReadSnapshot(t) \/ Install(t)
  \/ Observe(t) \/ Record(t)
  \/ EnsureUnlocked(t) \/ EnsureCapture(t) \/ Journal(t)
  \/ Outbound(t) \/ Inbound(t) \/ ResolveRecord(t)

ThreadSteps(t) == GateSteps(t) \/ StateSteps(t) \/ EngineSteps(t)

CoordinationNext ==
  \/ \E t \in Connections, op \in Operations : Request(t, op)
  \/ Wake
  \/ \E t \in Threads : ThreadSteps(t)
  \/ FolderChanges
-----------------------------------------------------------------------------
(* Properties.                                                             *)

Mode == {"off", "active", "waiting", "removed", "fenced", "error"}

\* Type invariant.
CoordinationTypeOK ==
  /\ gate \in Threads \cup {Nobody} /\ stateLock \in Threads \cup {Nobody}
  /\ \A t \in Threads : at[t].op \in Operations \cup {"none"} /\ at[t].ver \in 0..MaxCommits
  /\ commits \in 0..MaxCommits /\ lastLocal \in 0..commits
  /\ staged \in 0..commits /\ captured \in 0..commits /\ activeSince \in 0..commits
  /\ engineMode \in Mode /\ engine \in BOOLEAN /\ hasDirectory \in BOOLEAN
  /\ initialCapture => journalOpen
  /\ installed \in 0..commits

\* Once record sync has its baseline, the journal holds every local mutation
\* by the time the gate is free again, whatever replication, inbound records
\* and status polls did in between (managed_mutation_committed of main.rs).
LocalCommitsAreCaptured ==
  gate = Nobody /\ initialCapture /\ "capture" \notin misses => captured >= lastLocal

\* While replication is active, a local mutation that began after it became
\* active is in the outbox by the time the gate is free again: no sync that
\* runs meanwhile makes the observer miss it.
LocalCommitsAreStaged ==
  gate = Nobody /\ engineMode = "active" /\ engine => staged >= lastLocal \/ lastLocal <= activeSince

\* After disable the service has no engine and shows Off, whatever sync was
\* running when it was asked, unless a restore read the directory before the
\* disable and wrote after it (restore_configured_engine does not look again).
DisabledStaysOff ==
  ~hasDirectory => (engineMode = "off" /\ ~engine) \/ "undone" \in misses

\* A thread that keeps the state mutex while it waits for the gate, and one
\* that keeps the gate while its observer waits for the state mutex.
LockCycle ==
  /\ gate # Nobody /\ stateLock # Nobody /\ gate # stateLock
  /\ at[gate].pc = "observe"
  /\ at[stateLock].pc \in {"engine", "stage", "publish", "direct"}

\* While a request is unanswered some thread can go on, unless the gate and
\* the state mutex are held crosswise: the daemon has no other way to stop.
StallsAreLockCycles ==
  (\E t \in Threads : at[t].pc # "idle") =>
    LockCycle \/ \E t \in Threads : ENABLED ThreadSteps(t)

\* What a connection changes under the gate reaches the journal and the outbox
\* before the gate is free, no answer of the service is undone, and nothing but
\* the crosswise locks stops the daemon.
CommitsAreObserved ==
  /\ CoordinationTypeOK
  /\ LocalCommitsAreCaptured /\ LocalCommitsAreStaged
  /\ DisabledStaysOff /\ StallsAreLockCycles

\* What mutation.rs says of its observers: they run before the gate is
\* released and another local mutation begins, so the gate is released.
ObserversReturn ==
  \A t \in Connections : (at[t].pc = "observe") ~> (gate # t)
=============================================================================
