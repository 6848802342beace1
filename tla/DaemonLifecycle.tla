-------------------------- MODULE DaemonLifecycle --------------------------
(***************************************************************************)
(* The life of the daemon process: `floria mount` from its instance lock   *)
(* to the unmount (main.rs, floria-fs), launchd that keeps it alive        *)
(* (external), and the app that installs, restarts, recovers and removes   *)
(* the launch agent (DaemonManager.swift, AppState.swift,                  *)
(* ApplicationUninstaller.swift).                                          *)
(*                                                                         *)
(* A process is a number that is used again once the process is dead and   *)
(* has left no mount behind.                                               *)
(***************************************************************************)
EXTENDS Naturals

CONSTANTS
  Pids,         \* processes
  Old, Current, \* the revisions of the launch agent's definition
  None, Foreign, Doctor,
  MaxFaults,    \* bound on crashes, failures and what the user does to the mount
  Attempts,     \* bootstrap attempts of the app (5)
  MaxBusy,      \* attempts that launchd refuses when it is slow to release a job
  MaxPolls,     \* polls of a disconnect recovery (24 in the app)
  MaxProbes,    \* probes of a setup check (15 seconds in the app)
  MaxRequests   \* bound on the setup checks, restarts and uninstalls asked for

Tasks == {"recover", "probe", "dispatched", "restart", "uninstall"}   \* the app's background tasks
ASSUME PidsAssumption ==
  /\ Pids \subseteq Nat /\ {None, Foreign, Doctor} \cap Pids = {}
  /\ None \notin Tasks \cup {Doctor}

VARIABLES
  proc,         \* each process: where it is, SIGTERM, its exit code
  lock,         \* who holds daemon.lock
  mnt,          \* what is mounted: nothing, another filesystem, or the process that mounted Floria
  job,          \* launchd's job: its state, definition, process, and a queued restart
  plist,        \* the launch agent's file
  recon,        \* who holds the app's reconciliation lock
  task,         \* the app's tasks
  client,       \* the process the app's client is connected to
  setup,        \* macFuseSetupStage: whether the app shows the setup as incomplete
  kext,         \* macFUSE's kernel backend is ready
  bundle,       \* the app: running, being moved to the Trash, gone
  faults, requests

lifecycleVars ==
  <<proc, lock, mnt, job, plist, recon, task, client, setup, kext, bundle, faults, requests>>

Dead == [pc |-> "dead", term |-> FALSE, code |-> 0]
NoTask == [pc |-> "idle", then |-> "idle", next |-> "idle", pid |-> None, stopped |-> FALSE,
           left |-> 0, attempts |-> 0]

Idle == [a \in Tasks |-> NoTask]
Probe == [NoTask EXCEPT !.pc = "check", !.left = MaxProbes]

Running(p) == proc[p].pc # "dead"
HasSocket(p) == proc[p].pc \in {"agent", "serving", "unmounting"}

(* The app has just started, with its check of the setup ahead, or it has  *)
(* run for a while and a check has passed.                                 *)
LifecycleInit ==
  /\ proc = [p \in Pids |-> Dead]
  /\ lock = None
  /\ mnt \in {None, CHOOSE p \in Pids : TRUE}   \* a mount may be left from before
  /\ plist \in {None, Old, Current}
  /\ job = [state |-> IF plist = None THEN "absent" ELSE "spawn", rev |-> plist, pid |-> None,
            queued |-> FALSE, code |-> 0, busy |-> 0]
  /\ recon = None
  /\ task \in {Idle, [Idle EXCEPT !["probe"] = Probe]}
  /\ client = None
  /\ setup = "none"
  /\ bundle = "installed"
  /\ faults = 0
  /\ IF task = Idle THEN kext = TRUE /\ plist = Current /\ requests = 0
     ELSE kext \in BOOLEAN /\ requests = 1

-----------------------------------------------------------------------------
(* The process: cmd_mount. *)

Move(p, pc) == proc' = [proc EXCEPT ![p].pc = pc]

(* The end of a process closes its sockets and releases its lock, and      *)
(* leaves its mount unless it was unmounted.                               *)
Exits(p, code) ==
  /\ proc' = [proc EXCEPT ![p] = IF job.pid = p THEN [Dead EXCEPT !.code = code] ELSE Dead]
  /\ lock' = IF lock = p THEN None ELSE lock

Fault == faults < MaxFaults /\ faults' = faults + 1
OutsideProcess == UNCHANGED <<job, plist, recon, task, client, setup, kext, bundle, requests>>

(* DaemonInstance::acquire. *)
Acquire(p) ==
  /\ proc[p].pc = "new"
  /\ \/ lock = None /\ lock' = p /\ Move(p, "locked")
     \/ lock # None /\ Exits(p, 1)
  /\ UNCHANGED <<mnt, faults>> /\ OutsideProcess

(* recover_stale_mount: statfs, and then diskutil. *)
InspectMount(p) ==
  /\ proc[p].pc = "locked"
  /\ \/ mnt = None /\ Move(p, "ready") /\ UNCHANGED lock
     \/ mnt = Foreign /\ Exits(p, 1)
     \/ mnt \in Pids /\ Move(p, "detach") /\ UNCHANGED lock
  /\ UNCHANGED <<mnt, faults>> /\ OutsideProcess

DetachStale(p) ==
  /\ proc[p].pc = "detach"
  /\ \/ mnt # None /\ mnt' = None /\ Move(p, "ready") /\ UNCHANGED <<lock, faults>>
     \/ mnt = None /\ Exits(p, 1) /\ UNCHANGED <<mnt, faults>>
     \/ mnt # None /\ Fault /\ Exits(p, 1) /\ UNCHANGED mnt
  /\ OutsideProcess

(* The store, the catalog and the services are opened, then the agent's    *)
(* and the control socket; any of this may fail.                           *)
OpenServices(p) ==
  /\ proc[p].pc = "ready"
  /\ \/ Move(p, "agent") /\ UNCHANGED <<lock, faults>>
     \/ Fault /\ Exits(p, 1)
  /\ UNCHANGED mnt /\ OutsideProcess

(* mount_with_audit. *)
Mount(p) ==
  /\ proc[p].pc = "agent"
  /\ \/ kext /\ mnt = None /\ mnt' = p /\ Move(p, "serving") /\ UNCHANGED lock
     \/ (~kext \/ mnt # None) /\ Exits(p, 1) /\ UNCHANGED mnt
  /\ UNCHANGED faults /\ OutsideProcess

(* wait_for_mount_stop: the session ended, or a signal asked for the end. *)
SessionEnds(p) ==
  /\ proc[p].pc = "serving" /\ mnt # p
  /\ Exits(p, 1)
  /\ mnt' \in {mnt, None}       \* dropping the mount detaches what is at its path by then
  /\ UNCHANGED faults /\ OutsideProcess

StopRequested(p) ==
  /\ proc[p].pc = "serving" /\ proc[p].term
  /\ Move(p, "unmounting")
  /\ UNCHANGED <<lock, mnt, faults>> /\ OutsideProcess

(* unmount_and_join: what is at the mount's path is detached. *)
Unmount(p) ==
  /\ proc[p].pc = "unmounting"
  /\ \/ mnt # None /\ mnt' = None /\ Exits(p, 0) /\ UNCHANGED faults
     \/ mnt = None /\ Exits(p, 1) /\ UNCHANGED <<mnt, faults>>
     \/ mnt # None /\ Fault /\ Exits(p, 1) /\ UNCHANGED mnt
  /\ OutsideProcess

(* SIGTERM before the handler is installed. *)
TermBeforeMount(p) ==
  /\ proc[p].pc \in {"new", "locked", "detach", "ready", "agent"} /\ proc[p].term
  /\ Exits(p, 1)
  /\ UNCHANGED <<mnt, faults>> /\ OutsideProcess

ProcessStep(p) ==
  \/ Acquire(p) \/ InspectMount(p) \/ DetachStale(p) \/ OpenServices(p) \/ Mount(p)
  \/ SessionEnds(p) \/ StopRequested(p) \/ Unmount(p) \/ TermBeforeMount(p)

-----------------------------------------------------------------------------
(* What happens to processes and mounts from outside. *)

Crash(p) ==
  /\ Running(p) /\ Fault
  /\ Exits(p, 1)
  /\ UNCHANGED mnt /\ OutsideProcess

Terminate(p) ==
  /\ Running(p) /\ ~proc[p].term /\ Fault
  /\ proc' = [proc EXCEPT ![p].term = TRUE]
  /\ UNCHANGED <<lock, mnt>> /\ OutsideProcess

(* `floria doctor` tries the lock, and holds it until it closes the file. *)
DoctorProbes ==
  /\ \/ lock = None /\ Fault /\ lock' = Doctor
     \/ lock = Doctor /\ lock' = None /\ UNCHANGED faults
  /\ UNCHANGED <<proc, mnt>> /\ OutsideProcess

(* The user ejects the volume, or another filesystem is mounted there. *)
MountChanges ==
  /\ \/ mnt # None /\ mnt' = None
     \/ mnt = None /\ mnt' = Foreign
  /\ Fault
  /\ UNCHANGED <<proc, lock>> /\ OutsideProcess

(* `floria mount` in a terminal. *)
Unused(p) == ~Running(p) /\ p \notin {mnt, client, job.pid} /\ \A a \in Tasks : task[a].pid # p
Fresh(p) == Unused(p) /\ \A q \in Pids : Unused(q) => p <= q
Started(p) == Fresh(p) /\ proc' = [proc EXCEPT ![p] = [Dead EXCEPT !.pc = "new"]]

ManualMount ==
  /\ Fault
  /\ \E p \in Pids : Started(p)
  /\ UNCHANGED <<lock, mnt>> /\ OutsideProcess

Outside == (\E p \in Pids : Crash(p) \/ Terminate(p)) \/ MountChanges \/ ManualMount

-----------------------------------------------------------------------------
(* launchd (external), as the app uses it: KeepAlive restarts a process    *)
(* that failed, after a while; one that ended well stays down.             *)

OutsideLaunchd == UNCHANGED <<lock, mnt, plist, recon, task, client, setup, kext, bundle, faults, requests>>

Launch ==
  /\ job.state \in {"spawn", "throttled"} /\ bundle = "installed"
  /\ \E p \in Pids : Started(p) /\ job' = [job EXCEPT !.state = "running", !.pid = p]
  /\ OutsideLaunchd

(* The process of the job is gone. *)
Reap ==
  /\ job.pid # None /\ ~Running(job.pid)
  /\ LET gone == [job EXCEPT !.pid = None, !.code = proc[job.pid].code, !.queued = FALSE] IN
     job' = [gone EXCEPT !.state = CASE @ = "stopping" -> "absent"
                                     [] @ = "cycling" -> "spawn"
                                     [] OTHER -> IF gone.code = 0 /\ ~job.queued THEN "idle" ELSE "throttled"]
  /\ proc' = [proc EXCEPT ![job.pid] = Dead]
  /\ OutsideLaunchd

(* A restart that was scheduled before the job was kickstarted. *)
QueuedRestart ==
  /\ job.state = "running" /\ job.queued
  /\ proc' = [proc EXCEPT ![job.pid].term = TRUE]
  /\ job' = [job EXCEPT !.state = "cycling", !.queued = FALSE]
  /\ OutsideLaunchd

Status ==
  CASE job.state = "absent" -> "notLoaded"
    [] job.state \in {"running", "cycling", "stopping"} -> "running"
    [] OTHER -> "loaded"

(* launchctl bootout: the process gets SIGTERM and the job is unloaded. *)
BootoutJob ==
  \/ /\ job.state \in {"running", "cycling"}
     /\ proc' = [proc EXCEPT ![job.pid].term = TRUE]
     /\ \E b \in {0, MaxBusy} : job' = [job EXCEPT !.state = "stopping", !.queued = FALSE, !.busy = b]
  \/ /\ job.state \in {"idle", "spawn", "throttled"}
     /\ \E b \in {0, MaxBusy} : job' = [job EXCEPT !.state = "absent", !.queued = FALSE, !.busy = b]
     /\ UNCHANGED proc
  \/ job.state \in {"absent", "stopping"} /\ UNCHANGED <<proc, job>>

-----------------------------------------------------------------------------
(* The app's tasks. *)

Becomes(a, r) == task' = [task EXCEPT ![a] = IF r.pc = "idle" THEN NoTask ELSE r]
Task(a, pc) == Becomes(a, [task[a] EXCEPT !.pc = pc])
BootoutThen(a, pc) == Becomes(a, [task[a] EXCEPT !.pc = "bootout", !.then = pc])
EnsureThen(a, pc) == Becomes(a, [task[a] EXCEPT !.pc = "ensure", !.next = pc])
AtTask(a, pc) == task[a].pc = pc /\ bundle # "gone"
OutsideTask == UNCHANGED <<lock, client, kext, bundle, faults, requests>>

(* runLaunchctl(["bootout"]), which waits for the process. *)
Bootout(a) ==
  /\ AtTask(a, "bootout") /\ BootoutJob
  /\ Task(a, "booted_out")
  /\ UNCHANGED <<mnt, plist, recon, setup>> /\ OutsideTask

BootedOut(a) ==
  /\ AtTask(a, "booted_out") /\ job.state # "stopping"
  /\ Task(a, task[a].then)
  /\ UNCHANGED <<proc, mnt, job, plist, recon, setup>> /\ OutsideTask

(* ensureRunning: under the reconciliation lock, start or install the job. *)
Ensure(a) ==
  /\ AtTask(a, "ensure")
  /\ Task(a, IF bundle = "installed" THEN "reconcile" ELSE task[a].next)
  /\ UNCHANGED <<proc, mnt, job, plist, recon, setup>> /\ OutsideTask

Reconciled(a) == Task(a, task[a].next) /\ recon' = None

(* Mutant: reconciliations overlap. *)
MatchUnlocked(a) ==
  /\ AtTask(a, "reconcile")
  /\ recon' = a
  /\ IF plist = Current THEN Task(a, "status") ELSE BootoutThen(a, "unmount")
  /\ UNCHANGED <<proc, mnt, job, plist, setup>> /\ OutsideTask

(* withReconciliationLock, and installedDefinitionMatches: the file is only *)
(* written under the lock.                                                 *)
Match(a) ==
  /\ AtTask(a, "reconcile") /\ recon = None
  /\ recon' = a
  /\ IF plist = Current THEN Task(a, "status") ELSE BootoutThen(a, "unmount")
  /\ UNCHANGED <<proc, mnt, job, plist, setup>> /\ OutsideTask

(* A restart that is pending is reported as such after a stop, and may not *)
(* be after a failure.                                                     *)
ReadStatus(a) ==
  /\ AtTask(a, "status")
  /\ \/ Status = "running" /\ Reconciled(a)
     \/ job.state = "throttled" /\ Reconciled(a)
     \/ Status = "loaded" /\ Task(a, "kickstart") /\ UNCHANGED recon
     \/ Status = "notLoaded" /\ BootoutThen(a, "unmount") /\ UNCHANGED recon
  /\ UNCHANGED <<proc, mnt, job, plist, setup>> /\ OutsideTask

Kickstart(a) ==
  /\ AtTask(a, "kickstart")
  /\ job' = IF Status # "loaded" THEN job
            ELSE [job EXCEPT !.state = "spawn", !.queued = @ \/ job.state = "throttled"]
  /\ Reconciled(a)
  /\ UNCHANGED <<proc, mnt, plist, setup>> /\ OutsideTask

(* cmd_unmount, which the app runs after a bootout: it detaches a mount of *)
(* Floria, whoever left it, and refuses another filesystem; diskutil may   *)
(* fail.                                                                   *)
UnmountCommand(ok) ==
  /\ mnt' = IF ok /\ bundle = "installed" /\ mnt \in Pids THEN None ELSE mnt
  /\ IF ok THEN UNCHANGED faults ELSE Fault

(* install, after its bootout: a failed unmount is ignored. *)
WritePlist(a) ==
  /\ AtTask(a, "unmount")
  /\ \E ok \in BOOLEAN : UnmountCommand(ok)
  /\ plist' = Current
  /\ Becomes(a, [task[a] EXCEPT !.pc = "bootstrap", !.attempts = Attempts])
  /\ UNCHANGED <<proc, lock, job, recon, client, setup, kext, bundle, requests>>

(* bootstrapLaunchAgent: launchd may still be releasing the old job. *)
Bootstrap(a) ==
  /\ AtTask(a, "bootstrap")
  /\ \/ /\ job.state = "absent" /\ job.busy = 0
        /\ job' = [job EXCEPT !.state = "spawn", !.rev = plist, !.code = 0]
        /\ Reconciled(a)
     \/ /\ job.state = "absent" /\ job.busy > 0 /\ task[a].attempts > 1
        /\ job' = [job EXCEPT !.busy = @ - 1]
        /\ Becomes(a, [task[a] EXCEPT !.attempts = @ - 1])
        /\ UNCHANGED recon
     \/ (job.state # "absent" \/ (job.busy > 0 /\ task[a].attempts = 1)) /\ Reconciled(a) /\ UNCHANGED job
  /\ UNCHANGED <<proc, mnt, plist, setup>> /\ OutsideTask

EnsureRunning(a) ==
  \/ Ensure(a) \/ Match(a) \/ ReadStatus(a) \/ Kickstart(a)
  \/ Bootout(a) \/ BootedOut(a) \/ WritePlist(a) \/ Bootstrap(a)

-----------------------------------------------------------------------------
(* The app's client connects to the agent's socket.  When it loses its     *)
(* connection, the app schedules a recovery.                               *)
Connect ==
  /\ bundle # "gone" /\ client = None
  /\ \E p \in Pids : HasSocket(p) /\ client' = p
  /\ UNCHANGED <<proc, lock, mnt, job, plist, recon, task, setup, kext, bundle, faults, requests>>

Disconnect ==
  /\ bundle # "gone" /\ client # None
  /\ ~HasSocket(client)
  /\ client' = None
  /\ \/ setup # "none" /\ UNCHANGED task
     \/ setup = "none" /\ task["recover"] = NoTask /\ Task("recover", "init")
  /\ UNCHANGED <<proc, lock, mnt, job, plist, recon, setup, kext, bundle, faults, requests>>

(* recoverAfterDisconnect gives launchd's own restart a while. *)
RecoverInit ==
  /\ AtTask("recover", "init")
  /\ Becomes("recover", [task["recover"] EXCEPT !.pc = "poll", !.left = MaxPolls, !.pid = job.pid,
                                                !.stopped = Status # "running"])
  /\ UNCHANGED <<proc, mnt, job, plist, recon, setup>> /\ OutsideTask

(* DisconnectRecoveryTracker::observe. *)
RecoverPoll ==
  LET r == task["recover"] IN
  /\ AtTask("recover", "poll")
  /\ \/ Status = "running" /\ (r.stopped \/ job.pid # r.pid) /\ Task("recover", "idle")
     \/ Status = "notLoaded" /\ Becomes("recover", [NoTask EXCEPT !.pc = "ensure"])
     \/ /\ Status = "loaded" \/ (Status = "running" /\ ~r.stopped /\ job.pid = r.pid)
        /\ Becomes("recover", IF r.left = 1 THEN [NoTask EXCEPT !.pc = "ensure"]
                              ELSE [r EXCEPT !.left = @ - 1, !.stopped = @ \/ Status = "loaded"])
  /\ UNCHANGED <<proc, mnt, job, plist, recon, setup>> /\ OutsideTask

-----------------------------------------------------------------------------
(* What the app does at its start and what the user asks of it. *)

Ask(a, r) ==
  /\ requests < MaxRequests /\ requests' = requests + 1
  /\ bundle = "installed" /\ task[a] = NoTask
  /\ Becomes(a, r)
  /\ UNCHANGED <<proc, lock, mnt, job, plist, recon, client, setup, kext, bundle, faults>>

UserAsks ==
  \/ Ask("probe", Probe)   \* recheckMacFuseSetup
  \/ Ask("restart", [NoTask EXCEPT !.pc = "bootout", !.then = "ensure"])  \* restartDaemonForCloudSync
  \/ Ask("uninstall", [NoTask EXCEPT !.pc = "prepare"])

(* What a check dispatches to another thread runs beside it. *)
Dispatching(r, pc, s) ==
  /\ task["dispatched"] = NoTask
  /\ task' = [task EXCEPT !["dispatched"] = r,
                         !["probe"] = IF pc = "idle" THEN NoTask ELSE [@ EXCEPT !.pc = pc]]
  /\ setup' = s

Start == [NoTask EXCEPT !.pc = "ensure"]
Stop == [NoTask EXCEPT !.pc = "bootout"]

(* macFUSE's loader is run if it is the installed one; the system may ask  *)
(* for an approval first.                                                  *)
EnsureLoaded == kext' \in BOOLEAN

(* evaluateMacFuseSetup: without the kernel backend the loader is run, and *)
(* the daemon is stopped unless the loader made it ready.                  *)
CheckSetup ==
  /\ AtTask("probe", "check")
  /\ \/ kext /\ UNCHANGED kext /\ Dispatching(Start, "second", setup)
     \/ ~kext /\ EnsureLoaded /\ ~kext' /\ Dispatching(Stop, "idle", "incomplete")
     \/ ~kext /\ EnsureLoaded /\ kext' /\ Dispatching(Start, "second", "incomplete")
  /\ UNCHANGED <<proc, lock, mnt, job, plist, recon, client, bundle, faults, requests>>

(* daemonConnectionProvesReady: the agent's socket opens before the mount, *)
(* so that a connection alone proves nothing.                              *)
MountIsLive == client # None /\ kext /\ mnt \in Pids

(* One second of the probe: the mount is live, or after the first second a *)
(* run of the job failed and the daemon is stopped, or the job is ensured  *)
(* once more, or the time is over and a running daemon is left as it is.   *)
ProbeSecond ==
  LET a == task["probe"]
      failed == a.left < MaxProbes /\ Status = "loaded" /\ job.code # 0 IN
  /\ AtTask("probe", "second")
  /\ \/ a.left > 0 /\ MountIsLive /\ setup' = "none" /\ Task("probe", "idle")
     \/ a.left > 0 /\ ~MountIsLive /\ failed /\ Dispatching(Stop, "idle", "incomplete")
     \/ /\ a.left > 0 /\ ~MountIsLive /\ ~failed /\ UNCHANGED setup
        /\ Becomes("probe", [a EXCEPT !.pc = "ensure", !.next = "second", !.left = @ - 1])
     \/ a.left = 0 /\ setup' = "incomplete" /\ Task("probe", "idle")
  /\ UNCHANGED <<proc, mnt, job, plist, recon>> /\ OutsideTask

(* prepareForUninstall, under the lock: bootout, unmount, remove the file. *)
PrepareUninstall ==
  /\ AtTask("uninstall", "prepare") /\ recon = None
  /\ recon' = "uninstall"
  /\ BootoutThen("uninstall", "detach")
  /\ UNCHANGED <<proc, mnt, job, plist, setup>> /\ OutsideTask

RemovePlist ==
  /\ AtTask("uninstall", "detach")
  /\ recon' = None
  /\ \E ok \in BOOLEAN :
       /\ UnmountCommand(ok)
       /\ IF ok /\ mnt # Foreign THEN plist' = None /\ Task("uninstall", "recycle")
          ELSE EnsureThen("uninstall", "idle") /\ UNCHANGED plist
  /\ UNCHANGED <<proc, lock, job, client, setup, kext, bundle, requests>>

(* ApplicationUninstaller: the bundle goes to the Trash and the app ends;  *)
(* when it cannot be moved the daemon is started again.                    *)
Recycle ==
  /\ AtTask("uninstall", "recycle")
  /\ \/ bundle' = "trashed" /\ Task("uninstall", "terminate") /\ UNCHANGED faults
     \/ Fault /\ EnsureThen("uninstall", "idle") /\ UNCHANGED bundle
  /\ UNCHANGED <<proc, lock, mnt, job, plist, recon, client, setup, kext, requests>>

TerminateApp ==
  /\ AtTask("uninstall", "terminate")
  /\ bundle' = "gone" /\ recon' = None /\ client' = None
  /\ task' = Idle
  /\ UNCHANGED <<proc, lock, mnt, job, plist, setup, kext, faults, requests>>

-----------------------------------------------------------------------------
AppStep ==
  \/ \E a \in Tasks : EnsureRunning(a)
  \/ Connect \/ Disconnect \/ RecoverInit \/ RecoverPoll
  \/ CheckSetup \/ ProbeSecond
  \/ PrepareUninstall \/ RemovePlist \/ Recycle \/ TerminateApp

LaunchdStep == Launch \/ Reap \/ QueuedRestart

LifecycleNext ==
  \/ \E p \in Pids : ProcessStep(p)
  \/ LaunchdStep
  \/ AppStep
  \/ UserAsks
  \/ Outside
  \/ DoctorProbes

LifecycleSpec == LifecycleInit /\ [][LifecycleNext]_lifecycleVars

-----------------------------------------------------------------------------
(* One process has the daemon's state: a process that went past its        *)
(* instance lock holds it, so what recover_stale_mount detaches is never   *)
(* the mount of a process that still serves it.                            *)
LockGuardsTheMount ==
  /\ \A p \in Pids : proc[p].pc \notin {"dead", "new"} => lock = p
  /\ \A p, q \in Pids : proc[p].pc = "detach" /\ mnt = q => ~Running(q)

(* "reopening the same build starts an inactive job without disturbing one *)
(* that is already running": when ensureRunning replaces a job (install),  *)
(* the job is not a running one of the current build, however restarts,    *)
(* recoveries and checks overlap.                                          *)
CurrentBuildIsLeftAlone ==
  \A a \in Tasks :
    task[a].pc = "bootout" /\ task[a].then = "unmount" =>
      ~(Status = "running" /\ job.rev = Current)

(* One daemon at a time, and the right one. *)
OneDaemonServes == LockGuardsTheMount /\ CurrentBuildIsLeftAlone
=============================================================================
