--------------------------- MODULE RuntimeProofs ---------------------------
(***************************************************************************)
(* Proofs about the daemon while it is mounted: the life of its process    *)
(* (DaemonLifecycle) and the names it serves (Namespace).                  *)
(***************************************************************************)
EXTENDS DaemonLifecycle, Namespace, TLAPS

(* The leaves are first-order steps; those with arithmetic or records cite SMT. *)
USE ZenonT(60)

-----------------------------------------------------------------------------
(* The daemon's process. *)

(* A process past its instance lock holds it, and one that is mounted is   *)
(* past it: its number is used again only once its mount is gone.          *)
ProcInv ==
  /\ DOMAIN proc = Pids /\ \A p \in Pids : DOMAIN proc[p] = {"pc", "term", "code"}
  /\ \A p \in Pids : proc[p].pc \notin {"dead", "new"} => lock = p
  /\ \A p \in Pids : mnt = p /\ proc[p].pc # "dead" => proc[p].pc \in {"serving", "unmounting"}

LEMMA ProcInvImplies == ProcInv => LockGuardsTheMount
BY SMTT(30) DEF ProcInv, LockGuardsTheMount, Running

LEMMA ExitsKeeps ==
  ASSUME ProcInv, NEW p \in Pids, NEW code \in Nat, Exits(p, code), mnt' \in {mnt, None}
  PROVE  ProcInv'
BY PidsAssumption, SMTT(30) DEF ProcInv, Exits, Dead

LEMMA TermKeeps ==
  ASSUME ProcInv, NEW p, proc' = [proc EXCEPT ![p].term = TRUE], lock' = lock, mnt' = mnt
  PROVE  ProcInv'
BY SMTT(30) DEF ProcInv

LEMMA StartedKeeps ==
  ASSUME ProcInv, NEW p \in Pids, Started(p), lock' = lock, mnt' = mnt
  PROVE  ProcInv'
BY SMTT(30) DEF ProcInv, Started, Fresh, Unused, Running, Dead

LEMMA MountGoneKeeps ==
  ASSUME ProcInv, proc' = proc, lock' = lock, mnt' \notin Pids \/ mnt' = mnt
  PROVE  ProcInv'
BY SMTT(30) DEF ProcInv

LEMMA ProcessStepKeeps ==
  ASSUME ProcInv, NEW p \in Pids, ProcessStep(p)
  PROVE  ProcInv'
<1>0. 0 \in Nat /\ 1 \in Nat
  BY SMTT(30)
<1>1. CASE Acquire(p)
  <2>1. CASE lock # None /\ Exits(p, 1)
    BY <1>0, <1>1, <2>1, ExitsKeeps DEF Acquire
  <2>2. CASE lock = None /\ lock' = p /\ Move(p, "locked")
    BY <1>1, <2>2, PidsAssumption, SMTT(30) DEF Acquire, Move, ProcInv
  <2> QED
    BY <1>1, <2>1, <2>2 DEF Acquire
<1>2. CASE InspectMount(p)
  <2>1. CASE Exits(p, 1)
    BY <1>0, <1>2, <2>1, ExitsKeeps DEF InspectMount
  <2>2. CASE \E pc \in {"ready", "detach"} : Move(p, pc) /\ UNCHANGED lock
    BY <1>2, <2>2, SMTT(30) DEF InspectMount, Move, ProcInv
  <2> QED
    BY <1>2, <2>1, <2>2 DEF InspectMount
<1>3. CASE DetachStale(p)
  <2>1. CASE Exits(p, 1)
    BY <1>0, <1>3, <2>1, ExitsKeeps DEF DetachStale
  <2>2. CASE mnt' = None /\ Move(p, "ready") /\ UNCHANGED lock
    BY <1>3, <2>2, PidsAssumption, SMTT(30) DEF DetachStale, Move, ProcInv
  <2> QED
    BY <1>3, <2>1, <2>2 DEF DetachStale
<1>4. CASE OpenServices(p)
  <2>1. CASE Exits(p, 1)
    BY <1>0, <1>4, <2>1, ExitsKeeps DEF OpenServices
  <2>2. CASE Move(p, "agent") /\ UNCHANGED lock
    BY <1>4, <2>2, SMTT(30) DEF OpenServices, Move, ProcInv
  <2> QED
    BY <1>4, <2>1, <2>2 DEF OpenServices
<1>5. CASE Mount(p)
  <2>1. CASE Exits(p, 1) /\ UNCHANGED mnt
    BY <1>0, <1>5, <2>1, ExitsKeeps DEF Mount
  <2>2. CASE mnt' = p /\ Move(p, "serving") /\ UNCHANGED lock
    BY <1>5, <2>2, SMTT(30) DEF Mount, Move, ProcInv
  <2> QED
    BY <1>5, <2>1, <2>2 DEF Mount
<1>6. CASE SessionEnds(p)
  BY <1>0, <1>6, ExitsKeeps DEF SessionEnds
<1>7. CASE StopRequested(p)
  BY <1>7, SMTT(30) DEF StopRequested, Move, ProcInv
<1>8. CASE Unmount(p)
  <2>1. \E code \in Nat : Exits(p, code)
    BY <1>0, <1>8 DEF Unmount
  <2>2. mnt' \in {mnt, None}
    BY <1>8 DEF Unmount
  <2> QED
    BY <2>1, <2>2, ExitsKeeps
<1>9. CASE TermBeforeMount(p)
  BY <1>0, <1>9, ExitsKeeps DEF TermBeforeMount
<1> QED
  BY <1>1, <1>2, <1>3, <1>4, <1>5, <1>6, <1>7, <1>8, <1>9 DEF ProcessStep

-----------------------------------------------------------------------------
(* launchd's job and the app's tasks. *)

JobFields == {"state", "rev", "pid", "queued", "code", "busy"}
TaskFields == {"pc", "then", "next", "pid", "stopped", "left", "attempts"}

(* A job that ensureRunning may replace. *)
Outdated(j) == j.state = "absent" \/ j.rev # Current

TaskOK(r) ==
  /\ DOMAIN r = TaskFields
  /\ r.next \in {"idle", "second"}
  /\ r.then \in {"idle", "ensure", "unmount", "detach"}

(* Where a task is inside withReconciliationLock. *)
Holds(r) ==
  \/ r.pc \in {"status", "kickstart", "unmount", "bootstrap", "detach"}
  \/ r.pc \in {"bootout", "booted_out"} /\ r.then \in {"unmount", "detach"}

(* What a task inside the lock knows of the job: only Bootstrap loads one, *)
(* and it is inside the lock as well.                                      *)
Knows(r, j) ==
  /\ r.pc = "bootout" /\ r.then = "unmount" => Outdated(j)
  /\ r.pc = "booted_out" /\ r.then = "detach" => j.state \in {"absent", "stopping"}
  /\ r.pc = "detach" => j.state = "absent"

TaskInv ==
  /\ DOMAIN task = Tasks
  /\ \A a \in Tasks : TaskOK(task[a]) /\ (Holds(task[a]) => recon = a) /\ Knows(task[a], job)

(* A job that has a process is loaded, and one of the current build has    *)
(* its file.                                                               *)
JobInv ==
  /\ DOMAIN job = JobFields
  /\ job.pid # None => job.state \in {"running", "cycling", "stopping"}
  /\ plist # Current => Outdated(job)

LifecycleInv == ProcInv /\ TaskInv /\ JobInv

(* What every step but Bootstrap does to the job. *)
JobKeeps ==
  /\ DOMAIN job' = JobFields
  /\ job'.pid # None => job'.state \in {"running", "cycling", "stopping"}
  /\ job'.rev = job.rev
  /\ job.state = "absent" => job'.state = "absent"
  /\ job.state = "stopping" => job'.state \in {"absent", "stopping"}

LEMMA SameJob == ASSUME JobInv, job' = job PROVE JobKeeps
BY DEF JobInv, JobKeeps

LEMMA JobKeepsKeeps ==
  ASSUME JobInv, JobKeeps, plist' = plist \/ plist' = Current
  PROVE  JobInv'
BY SMTT(30) DEF JobInv, JobKeeps, Outdated

LEMMA KnowsKeeps ==
  ASSUME NEW r, Knows(r, job), JobKeeps
  PROVE  Knows(r, job')
BY SMTT(30) DEF Knows, JobKeeps, Outdated

LEMMA SameTasks ==
  ASSUME TaskInv, JobKeeps, task' = task, recon' = recon
  PROVE  TaskInv'
BY KnowsKeeps DEF TaskInv

LEMMA NoTaskOK == TaskOK(NoTask) /\ ~Holds(NoTask) /\ \A j : Knows(NoTask, j)
BY SMTT(30) DEF TaskOK, TaskFields, Holds, Knows, NoTask

(* One task moves on. *)
LEMMA BecomesKeeps ==
  ASSUME TaskInv, NEW a \in Tasks, NEW r, Becomes(a, r), JobKeeps,
         TaskOK(r), Holds(r) => recon' = a, Knows(r, job'),
         recon' = recon \/ recon = a \/ recon = None
  PROVE  TaskInv'
<1>1. PICK n : /\ task' = [task EXCEPT ![a] = n]
               /\ TaskOK(n) /\ (Holds(n) => recon' = a) /\ Knows(n, job')
  BY NoTaskOK DEF Becomes
<1>2. DOMAIN task' = Tasks
  BY <1>1 DEF TaskInv
<1>3. TaskOK(task'[a]) /\ (Holds(task'[a]) => recon' = a) /\ Knows(task'[a], job')
  BY <1>1, SMTT(30) DEF TaskInv
<1>4. ASSUME NEW b \in Tasks, b # a
      PROVE  TaskOK(task'[b]) /\ (Holds(task'[b]) => recon' = b) /\ Knows(task'[b], job')
  <2>1. task'[b] = task[b]
    BY <1>1, <1>4, SMTT(30) DEF TaskInv
  <2>2. Holds(task[b]) => recon' = b
    BY <1>4, PidsAssumption DEF TaskInv
  <2> QED
    BY <2>1, <2>2, KnowsKeeps DEF TaskInv
<1> QED
  BY <1>2, <1>3, <1>4 DEF TaskInv

(* A task goes where nothing is claimed of it. *)
OutsideLock(r) == r.pc \notin {"status", "kickstart", "unmount", "bootstrap", "detach", "bootout", "booted_out"}

LEMMA OutsideOK == ASSUME NEW r, OutsideLock(r) PROVE ~Holds(r) /\ \A j : Knows(r, j)
BY SMTT(30) DEF OutsideLock, Holds, Knows

LEMMA PcOK ==
  ASSUME NEW r, TaskOK(r), NEW pc
  PROVE  LET n == [r EXCEPT !.pc = pc] IN TaskOK(n) /\ n.pc = pc /\ n.then = r.then /\ n.next = r.next
BY SMTT(30) DEF TaskOK, TaskFields

-----------------------------------------------------------------------------
(* ensureRunning, step by step. *)

LEMMA BootoutJobKeeps ==
  ASSUME ProcInv, JobInv, BootoutJob, lock' = lock, mnt' = mnt
  PROVE  /\ ProcInv' /\ JobKeeps
         /\ job'.state \in {"absent", "stopping"}
<1>1. ProcInv'
  BY TermKeeps, MountGoneKeeps DEF BootoutJob
<1>2. CASE /\ job.state \in {"running", "cycling"}
           /\ \E b : job' = [job EXCEPT !.state = "stopping", !.queued = FALSE, !.busy = b]
  BY <1>1, <1>2, SMTT(30) DEF JobInv, JobKeeps, JobFields
<1>3. CASE /\ job.state \in {"idle", "spawn", "throttled"}
           /\ \E b : job' = [job EXCEPT !.state = "absent", !.queued = FALSE, !.busy = b]
  BY <1>1, <1>3, SMTT(30) DEF JobInv, JobKeeps, JobFields
<1>4. CASE job.state \in {"absent", "stopping"} /\ job' = job
  BY <1>1, <1>4 DEF JobInv, JobKeeps
<1> QED
  BY <1>2, <1>3, <1>4 DEF BootoutJob

(* A step that leaves the job and its file as they are. *)
LEMMA TaskStepKeeps ==
  ASSUME TaskInv, JobInv, NEW a \in Tasks, NEW r, Becomes(a, r), job' = job, plist' = plist,
         TaskOK(r), Holds(r) => recon' = a, Knows(r, job),
         recon' = recon \/ recon = a \/ recon = None
  PROVE  TaskInv' /\ JobInv'
BY SameJob, JobKeepsKeeps, BecomesKeeps

(* The end of a reconciliation. *)
LEMMA ReconciledKeeps ==
  ASSUME TaskInv, NEW a \in Tasks, Holds(task[a]), Reconciled(a), JobKeeps
  PROVE  TaskInv'
<1> DEFINE r == [task[a] EXCEPT !.pc = task[a].next]
<1>1. TaskOK(task[a]) /\ recon = a
  BY DEF TaskInv
<1>2. TaskOK(r) /\ r.pc \in {"idle", "second"}
  BY <1>1, PcOK DEF TaskOK
<1>3. OutsideLock(r)
  BY <1>2 DEF OutsideLock
<1>4. Becomes(a, r)
  BY DEF Reconciled, Task
<1> HIDE DEF r
<1> QED
  BY <1>1, <1>2, <1>3, <1>4, OutsideOK, BecomesKeeps

LEMMA EnsureKeeps ==
  ASSUME TaskInv, JobInv, NEW a \in Tasks, Ensure(a)
  PROVE  TaskInv' /\ JobInv'
<1> DEFINE pc == IF bundle = "installed" THEN "reconcile" ELSE task[a].next
           r == [task[a] EXCEPT !.pc = pc]
<1>1. TaskOK(task[a])
  BY DEF TaskInv
<1>2. pc \in {"reconcile", "idle", "second"}
  BY <1>1 DEF TaskOK
<1>4. Becomes(a, r)
  BY DEF Ensure, Task
<1> HIDE DEF pc
<1>3. TaskOK(r) /\ r.pc = pc
  BY <1>1, PcOK
<1> HIDE DEF r
<1>5. OutsideLock(r)
  BY <1>2, <1>3 DEF OutsideLock
<1>6. job' = job /\ plist' = plist /\ recon' = recon
  BY DEF Ensure
<1> QED
  BY <1>3, <1>4, <1>5, <1>6, OutsideOK, TaskStepKeeps

(* The bootout of an install is decided on the job there is. *)
LEMMA BootoutThenKeeps ==
  ASSUME TaskInv, JobInv, NEW a \in Tasks, NEW pc \in {"unmount", "detach"}, BootoutThen(a, pc),
         pc = "unmount" => Outdated(job), recon' = a, recon \in {None, a},
         job' = job, plist' = plist
  PROVE  TaskInv' /\ JobInv'
<1> DEFINE r == [task[a] EXCEPT !.pc = "bootout", !.then = pc]
<1>1. TaskOK(task[a])
  BY DEF TaskInv
<1>2. TaskOK(r) /\ r.pc = "bootout" /\ r.then = pc
  BY <1>1, SMTT(30) DEF TaskOK, TaskFields
<1>3. Knows(r, job)
  BY <1>2, SMTT(30) DEF Knows
<1>4. Becomes(a, r)
  BY DEF BootoutThen
<1> HIDE DEF r
<1> QED
  BY <1>2, <1>3, <1>4, TaskStepKeeps

LEMMA MatchKeeps ==
  ASSUME TaskInv, JobInv, NEW a \in Tasks, Match(a)
  PROVE  TaskInv' /\ JobInv'
<1>1. recon = None /\ recon' = a /\ job' = job /\ plist' = plist
  BY DEF Match
<1>2. CASE plist = Current
  <2> DEFINE r == [task[a] EXCEPT !.pc = "status"]
  <2>1. TaskOK(r) /\ r.pc = "status"
    BY PcOK DEF TaskInv
  <2>2. Knows(r, job)
    BY <2>1, SMTT(30) DEF Knows
  <2>3. Becomes(a, r)
    BY <1>2 DEF Match, Task
  <2> HIDE DEF r
  <2> QED
    BY <1>1, <2>1, <2>2, <2>3, TaskStepKeeps
<1>3. CASE plist # Current
  <2>1. Outdated(job)
    BY <1>3 DEF JobInv
  <2>2. BootoutThen(a, "unmount")
    BY <1>3 DEF Match
  <2> QED
    BY <1>1, <2>1, <2>2, BootoutThenKeeps
<1> QED
  BY <1>2, <1>3

LEMMA ReadStatusKeeps ==
  ASSUME TaskInv, JobInv, NEW a \in Tasks, ReadStatus(a)
  PROVE  TaskInv' /\ JobInv'
<1>0. task[a].pc = "status" /\ job' = job /\ plist' = plist
  BY DEF ReadStatus, AtTask
<1>1. Holds(task[a]) /\ recon = a
  BY <1>0 DEF Holds, TaskInv
<1>2. JobKeeps /\ JobInv'
  BY <1>0, SameJob, JobKeepsKeeps
<1>3. CASE Reconciled(a)
  BY <1>1, <1>2, <1>3, ReconciledKeeps
<1>4. CASE Task(a, "kickstart") /\ UNCHANGED recon
  <2> DEFINE r == [task[a] EXCEPT !.pc = "kickstart"]
  <2>1. TaskOK(r) /\ r.pc = "kickstart"
    BY PcOK DEF TaskInv
  <2>2. Knows(r, job)
    BY <2>1, SMTT(30) DEF Knows
  <2>3. Becomes(a, r)
    BY <1>4 DEF Task
  <2> HIDE DEF r
  <2> QED
    BY <1>0, <1>1, <1>4, <2>1, <2>2, <2>3, TaskStepKeeps
<1>5. CASE Status = "notLoaded" /\ BootoutThen(a, "unmount") /\ UNCHANGED recon
  <2>1. Outdated(job)
    BY <1>5, SMTT(30) DEF Status, Outdated
  <2> QED
    BY <1>0, <1>1, <1>5, <2>1, BootoutThenKeeps
<1> QED
  BY <1>3, <1>4, <1>5 DEF ReadStatus

LEMMA KickstartKeeps ==
  ASSUME TaskInv, JobInv, NEW a \in Tasks, Kickstart(a)
  PROVE  TaskInv' /\ JobInv'
<1>1. Holds(task[a])
  BY DEF Kickstart, AtTask, Holds
<1>2. JobKeeps
  BY SMTT(30) DEF Kickstart, Status, JobInv, JobKeeps, JobFields
<1>3. plist' = plist /\ Reconciled(a)
  BY DEF Kickstart
<1> QED
  BY <1>1, <1>2, <1>3, JobKeepsKeeps, ReconciledKeeps

LEMMA BootoutKeeps ==
  ASSUME LifecycleInv, NEW a \in Tasks, Bootout(a)
  PROVE  LifecycleInv'
<1> DEFINE r == [task[a] EXCEPT !.pc = "booted_out"]
<1>1. /\ task[a].pc = "bootout" /\ BootoutJob /\ Becomes(a, r)
      /\ lock' = lock /\ mnt' = mnt /\ plist' = plist /\ recon' = recon
  BY DEF Bootout, AtTask, Task, OutsideTask
<1>2. ProcInv' /\ JobKeeps /\ job'.state \in {"absent", "stopping"}
  BY <1>1, BootoutJobKeeps DEF LifecycleInv
<1>3. TaskOK(r) /\ r.pc = "booted_out" /\ r.then = task[a].then
  BY PcOK DEF LifecycleInv, TaskInv
<1>4. Knows(r, job')
  BY <1>2, <1>3, SMTT(30) DEF Knows
<1>5. Holds(r) => recon' = a
  BY <1>1, <1>3 DEF LifecycleInv, TaskInv, Holds
<1> HIDE DEF r
<1> QED
  BY <1>1, <1>2, <1>3, <1>4, <1>5, BecomesKeeps, JobKeepsKeeps DEF LifecycleInv

LEMMA BootedOutKeeps ==
  ASSUME TaskInv, JobInv, NEW a \in Tasks, BootedOut(a)
  PROVE  TaskInv' /\ JobInv'
<1> DEFINE r == [task[a] EXCEPT !.pc = task[a].then]
<1>1. /\ task[a].pc = "booted_out" /\ job.state # "stopping" /\ Becomes(a, r)
      /\ job' = job /\ plist' = plist /\ recon' = recon
  BY DEF BootedOut, AtTask, Task
<1>0. TaskOK(task[a])
  BY DEF TaskInv
<1>2. TaskOK(r) /\ r.pc = task[a].then
  BY <1>0, PcOK
<1>6. task[a].then \in {"idle", "ensure", "unmount", "detach"}
  BY <1>0 DEF TaskOK
<1>3. Knows(task[a], job) /\ (Holds(task[a]) => recon = a)
  BY DEF TaskInv
<1> HIDE DEF r
<1>4. Knows(r, job)
  BY <1>1, <1>2, <1>3, <1>6, SMTT(30) DEF Knows
<1>5. Holds(r) => recon' = a
  BY <1>1, <1>2, <1>3, <1>6 DEF Holds
<1> QED
  BY <1>1, <1>2, <1>4, <1>5, TaskStepKeeps

LEMMA WritePlistKeeps ==
  ASSUME TaskInv, JobInv, NEW a \in Tasks, WritePlist(a)
  PROVE  TaskInv' /\ JobInv'
<1> DEFINE r == [task[a] EXCEPT !.pc = "bootstrap", !.attempts = Attempts]
<1>1. /\ task[a].pc = "unmount" /\ Becomes(a, r)
      /\ job' = job /\ plist' = Current /\ recon' = recon
  BY DEF WritePlist, AtTask
<1>2. TaskOK(r) /\ r.pc = "bootstrap"
  BY SMTT(30) DEF TaskInv, TaskOK, TaskFields
<1>3. Knows(r, job') /\ recon = a
  BY <1>1, <1>2, SMTT(30) DEF Knows, TaskInv, Holds
<1>4. JobKeeps /\ JobInv'
  BY <1>1, SameJob, JobKeepsKeeps
<1> HIDE DEF r
<1> QED
  BY <1>1, <1>2, <1>3, <1>4, BecomesKeeps

(* The one step that loads a job: no other task is inside the lock. *)
LEMMA BootstrapKeeps ==
  ASSUME TaskInv, JobInv, NEW a \in Tasks, Bootstrap(a)
  PROVE  TaskInv' /\ JobInv'
<1>0. task[a].pc = "bootstrap" /\ plist' = plist
  BY DEF Bootstrap, AtTask
<1>1. Holds(task[a]) /\ recon = a /\ TaskOK(task[a])
  BY <1>0 DEF Holds, TaskInv
<1>2. CASE /\ job.state = "absent"
           /\ job' = [job EXCEPT !.state = "spawn", !.rev = plist, !.code = 0]
           /\ Reconciled(a)
  <2> DEFINE r == [task[a] EXCEPT !.pc = task[a].next]
  <2>1. DOMAIN job' = JobFields /\ job'.rev = plist
    BY <1>2, SMTT(30) DEF JobInv, JobFields
  <2>2. JobInv'
    <3>1. job'.pid = None
      BY <1>2, SMTT(30) DEF JobInv, JobFields
    <3> QED
      BY <1>0, <2>1, <3>1 DEF JobInv, Outdated
  <2>8. TaskOK(r) /\ r.pc = task[a].next
    BY <1>1, PcOK
  <2>9. task[a].next \in {"idle", "second"}
    BY <1>1 DEF TaskOK
  <2>4. task' = [task EXCEPT ![a] = IF r.pc = "idle" THEN NoTask ELSE r] /\ recon' = None
    BY <1>2 DEF Reconciled, Task, Becomes
  <2> HIDE DEF r
  <2>3. TaskOK(r) /\ OutsideLock(r)
    BY <2>8, <2>9 DEF OutsideLock
  <2>5. TaskOK(task'[a]) /\ ~Holds(task'[a]) /\ Knows(task'[a], job')
    BY <2>3, <2>4, NoTaskOK, OutsideOK, SMTT(30) DEF TaskInv
  <2>6. ASSUME NEW b \in Tasks, b # a
        PROVE  TaskOK(task'[b]) /\ ~Holds(task'[b]) /\ Knows(task'[b], job')
    <3>1. task'[b] = task[b]
      BY <2>4, <2>6, SMTT(30) DEF TaskInv
    <3>2. TaskOK(task[b]) /\ ~Holds(task[b])
      BY <1>1, <2>6 DEF TaskInv
    <3>3. Knows(task[b], job')
      BY <3>2, SMTT(30) DEF Holds, Knows
    <3> QED
      BY <3>1, <3>2, <3>3
  <2>7. DOMAIN task' = Tasks
    BY <2>4 DEF TaskInv
  <2> QED
    BY <2>2, <2>5, <2>6, <2>7 DEF TaskInv
<1>3. CASE /\ job' = [job EXCEPT !.busy = @ - 1]
           /\ Becomes(a, [task[a] EXCEPT !.attempts = @ - 1])
           /\ UNCHANGED recon
  <2> DEFINE r == [task[a] EXCEPT !.attempts = @ - 1]
  <2>1. JobKeeps
    BY <1>3, SMTT(30) DEF JobKeeps, JobInv, JobFields
  <2>2. TaskOK(r) /\ r.pc = "bootstrap"
    BY <1>0, <1>1, SMTT(30) DEF TaskOK, TaskFields
  <2>3. Knows(r, job')
    BY <2>2, SMTT(30) DEF Knows
  <2>4. Becomes(a, r)
    BY <1>3
  <2> HIDE DEF r
  <2> QED
    BY <1>0, <1>1, <1>3, <2>1, <2>2, <2>3, <2>4, JobKeepsKeeps, BecomesKeeps
<1>4. CASE Reconciled(a) /\ UNCHANGED job
  BY <1>0, <1>1, <1>4, SameJob, JobKeepsKeeps, ReconciledKeeps
<1> QED
  BY <1>2, <1>3, <1>4 DEF Bootstrap

(* Steps that leave the processes and their lock as they are. *)
LEMMA EnsureRunningKeeps ==
  ASSUME LifecycleInv, NEW a \in Tasks, EnsureRunning(a)
  PROVE  LifecycleInv'
<1>1. CASE Bootout(a)
  BY <1>1, BootoutKeeps
<1>2. CASE ~Bootout(a)
  <2>1. proc' = proc /\ lock' = lock
    BY <1>2 DEF EnsureRunning, Ensure, Match, ReadStatus, Kickstart, BootedOut, WritePlist,
                Bootstrap, OutsideTask
  <2>2. mnt' \in {mnt, None}
    BY <1>2 DEF EnsureRunning, Ensure, Match, ReadStatus, Kickstart, BootedOut, WritePlist,
                Bootstrap, UnmountCommand
  <2>3. ProcInv'
    BY <2>1, <2>2, MountGoneKeeps, PidsAssumption DEF LifecycleInv
  <2>4. TaskInv' /\ JobInv'
    BY <1>2, EnsureKeeps, MatchKeeps, ReadStatusKeeps, KickstartKeeps, BootedOutKeeps,
       WritePlistKeeps, BootstrapKeeps DEF EnsureRunning, LifecycleInv
  <2> QED
    BY <2>3, <2>4 DEF LifecycleInv
<1> QED
  BY <1>1, <1>2

-----------------------------------------------------------------------------
(* The other tasks. *)

(* A task that goes on outside the lock, or to the bootout of a stop or of *)
(* a restart.                                                              *)
Free(r) == ~Holds(r) /\ \A j : Knows(r, j)

LEMMA FreeStepKeeps ==
  ASSUME LifecycleInv, NEW a \in Tasks, NEW r, Becomes(a, r), TaskOK(r), Free(r),
         UNCHANGED <<proc, lock, job, plist, recon>>, mnt' \in {mnt, None}
  PROVE  LifecycleInv'
<1>1. TaskInv' /\ JobInv'
  BY TaskStepKeeps DEF Free, LifecycleInv
<1>2. ProcInv'
  BY MountGoneKeeps, PidsAssumption DEF LifecycleInv
<1> QED
  BY <1>1, <1>2 DEF LifecycleInv

LEMMA UntouchedKeeps ==
  ASSUME LifecycleInv, UNCHANGED <<proc, lock, mnt, job, plist, recon, task>>
  PROVE  LifecycleInv'
<1>1. TaskInv' /\ JobInv'
  BY SameJob, SameTasks, JobKeepsKeeps DEF LifecycleInv
<1>2. ProcInv'
  BY MountGoneKeeps DEF LifecycleInv
<1> QED
  BY <1>1, <1>2 DEF LifecycleInv

(* The tasks that are begun. *)
LEMMA BegunOK ==
  /\ \A pc \in {"idle", "init", "poll", "ensure", "second", "prepare", "recycle", "terminate", "check"} :
       \A r : TaskOK(r) => TaskOK([r EXCEPT !.pc = pc]) /\ Free([r EXCEPT !.pc = pc])
  /\ TaskOK(Probe) /\ Free(Probe)
  /\ TaskOK(Start) /\ Free(Start)
  /\ TaskOK(Stop) /\ Free(Stop)
  /\ TaskOK([NoTask EXCEPT !.pc = "bootout", !.then = "ensure"])
  /\ Free([NoTask EXCEPT !.pc = "bootout", !.then = "ensure"])
<1>1. \A pc \in {"idle", "init", "poll", "ensure", "second", "prepare", "recycle", "terminate", "check"} :
        \A r : TaskOK(r) => TaskOK([r EXCEPT !.pc = pc]) /\ Free([r EXCEPT !.pc = pc])
  BY SMTT(30) DEF TaskOK, TaskFields, Free, Holds, Knows
<1>2. TaskOK(Probe) /\ Free(Probe)
  BY SMTT(30) DEF TaskOK, TaskFields, Free, Holds, Knows, Probe, NoTask
<1>3. TaskOK(Start) /\ Free(Start)
  BY SMTT(30) DEF TaskOK, TaskFields, Free, Holds, Knows, Start, NoTask
<1>4. TaskOK(Stop) /\ Free(Stop)
  BY SMTT(30) DEF TaskOK, TaskFields, Free, Holds, Knows, Stop, NoTask
<1>5. TaskOK([NoTask EXCEPT !.pc = "bootout", !.then = "ensure"])
      /\ Free([NoTask EXCEPT !.pc = "bootout", !.then = "ensure"])
  BY SMTT(30) DEF TaskOK, TaskFields, Free, Holds, Knows, NoTask
<1> QED
  BY <1>1, <1>2, <1>3, <1>4, <1>5

LEMMA DisconnectKeeps == ASSUME LifecycleInv, Disconnect PROVE LifecycleInv'
<1>1. CASE UNCHANGED task
  BY <1>1, UntouchedKeeps DEF Disconnect
<1>2. CASE task["recover"] = NoTask /\ Task("recover", "init")
  <2> DEFINE r == [task["recover"] EXCEPT !.pc = "init"]
  <2>1. TaskOK(r) /\ Free(r)
    BY <1>2, NoTaskOK, BegunOK
  <2>2. Becomes("recover", r)
    BY <1>2 DEF Task
  <2> HIDE DEF r
  <2> QED
    BY <2>1, <2>2, FreeStepKeeps DEF Disconnect, Tasks
<1> QED
  BY <1>1, <1>2 DEF Disconnect

LEMMA RecoverInitKeeps == ASSUME LifecycleInv, RecoverInit PROVE LifecycleInv'
<1> DEFINE r == [task["recover"] EXCEPT !.pc = "poll", !.left = MaxPolls, !.pid = job.pid,
                                        !.stopped = Status # "running"]
<1>1. TaskOK(task["recover"])
  BY DEF LifecycleInv, TaskInv, Tasks
<1>2. TaskOK(r) /\ r.pc = "poll"
  BY <1>1, SMTT(30) DEF TaskOK, TaskFields
<1>3. Free(r)
  BY <1>2, SMTT(30) DEF Free, Holds, Knows
<1>4. Becomes("recover", r)
  BY DEF RecoverInit
<1> HIDE DEF r
<1> QED
  BY <1>2, <1>3, <1>4, FreeStepKeeps DEF RecoverInit, OutsideTask, Tasks

LEMMA RecoverPollKeeps == ASSUME LifecycleInv, RecoverPoll PROVE LifecycleInv'
<1> DEFINE c == task["recover"]
           w == [c EXCEPT !.left = @ - 1, !.stopped = @ \/ Status = "loaded"]
<1>1. TaskOK(c) /\ c.pc = "poll"
  BY DEF LifecycleInv, TaskInv, Tasks, RecoverPoll, AtTask
<1>2. TaskOK(w) /\ w.pc = "poll"
  BY <1>1, SMTT(30) DEF TaskOK, TaskFields
<1>3. Free(w)
  BY <1>2, SMTT(30) DEF Free, Holds, Knows
<1>4. TaskOK([c EXCEPT !.pc = "idle"]) /\ Free([c EXCEPT !.pc = "idle"])
  BY <1>1, BegunOK
<1>5. \E r : Becomes("recover", r) /\ TaskOK(r) /\ Free(r)
  BY <1>2, <1>3, <1>4, BegunOK DEF RecoverPoll, Task, Start
<1> QED
  BY <1>5, FreeStepKeeps DEF RecoverPoll, OutsideTask, Tasks

LEMMA AskKeeps ==
  ASSUME LifecycleInv, NEW a \in Tasks, NEW r, TaskOK(r), Free(r), Ask(a, r)
  PROVE  LifecycleInv'
BY FreeStepKeeps DEF Ask

LEMMA UserAsksKeeps == ASSUME LifecycleInv, UserAsks PROVE LifecycleInv'
<1>1. TaskOK([NoTask EXCEPT !.pc = "prepare"]) /\ Free([NoTask EXCEPT !.pc = "prepare"])
  BY NoTaskOK, BegunOK
<1>2. {"probe", "restart", "uninstall"} \subseteq Tasks
  BY DEF Tasks
<1>3. CASE Ask("probe", Probe)
  BY <1>2, <1>3, BegunOK, AskKeeps
<1>4. CASE Ask("restart", [NoTask EXCEPT !.pc = "bootout", !.then = "ensure"])
  BY <1>2, <1>4, BegunOK, AskKeeps
<1>5. CASE Ask("uninstall", [NoTask EXCEPT !.pc = "prepare"])
  BY <1>1, <1>2, <1>5, AskKeeps
<1> QED
  BY <1>3, <1>4, <1>5 DEF UserAsks

LEMMA DispatchingKeeps ==
  ASSUME LifecycleInv, NEW r \in {Start, Stop}, NEW pc \in {"idle", "second"}, NEW s, Dispatching(r, pc, s),
         UNCHANGED <<proc, lock, mnt, job, plist, recon>>
  PROVE  LifecycleInv'
<1> DEFINE n == IF pc = "idle" THEN NoTask ELSE [task["probe"] EXCEPT !.pc = pc]
<1>1. TaskOK(task["probe"])
  BY DEF LifecycleInv, TaskInv, Tasks
<1>2. TaskOK(n) /\ Free(n) /\ TaskOK(r) /\ Free(r)
  BY <1>1, BegunOK, NoTaskOK DEF Free
<1>3. task' = [task EXCEPT !["dispatched"] = r, !["probe"] = n]
  BY SMTT(30) DEF Dispatching, LifecycleInv, TaskInv, Tasks
<1> HIDE DEF n
<1>4. DOMAIN task' = Tasks
  BY <1>3 DEF LifecycleInv, TaskInv
<1>5. ASSUME NEW b \in Tasks
      PROVE  TaskOK(task'[b]) /\ (Holds(task'[b]) => recon' = b) /\ Knows(task'[b], job')
  <2>1. task'[b] = r \/ task'[b] = n \/ task'[b] = task[b]
    BY <1>3, SMTT(30) DEF LifecycleInv, TaskInv
  <2> QED
    BY <1>2, <2>1 DEF Free, LifecycleInv, TaskInv
<1>6. TaskInv'
  BY <1>4, <1>5 DEF TaskInv
<1>7. JobInv' /\ ProcInv'
  BY SameJob, JobKeepsKeeps, MountGoneKeeps DEF LifecycleInv
<1> QED
  BY <1>6, <1>7 DEF LifecycleInv

LEMMA CheckSetupKeeps == ASSUME LifecycleInv, CheckSetup PROVE LifecycleInv'
<1>1. \E r \in {Start, Stop}, pc \in {"idle", "second"}, s \in {setup, "incomplete"} : Dispatching(r, pc, s)
  BY DEF CheckSetup
<1> QED
  BY <1>1, DispatchingKeeps DEF CheckSetup

LEMMA ProbeSecondKeeps == ASSUME LifecycleInv, ProbeSecond PROVE LifecycleInv'
<1> DEFINE c == task["probe"]
           w == [c EXCEPT !.pc = "ensure", !.next = "second", !.left = @ - 1]
<1>0. UNCHANGED <<proc, lock, mnt, job, plist, recon>>
  BY DEF ProbeSecond, OutsideTask
<1>1. TaskOK(c)
  BY DEF LifecycleInv, TaskInv, Tasks
<1>2. TaskOK(w) /\ w.pc = "ensure"
  BY <1>1, SMTT(30) DEF TaskOK, TaskFields
<1>3. Free(w)
  BY <1>2, SMTT(30) DEF Free, Holds, Knows
<1>4. TaskOK([c EXCEPT !.pc = "idle"]) /\ Free([c EXCEPT !.pc = "idle"])
  BY <1>1, BegunOK
<1>5. CASE Dispatching(Stop, "idle", "incomplete")
  BY <1>0, <1>5, DispatchingKeeps
<1>6. CASE Task("probe", "idle") \/ Becomes("probe", w)
  <2>1. \E r : Becomes("probe", r) /\ TaskOK(r) /\ Free(r)
    BY <1>2, <1>3, <1>4, <1>6 DEF Task
  <2> QED
    BY <1>0, <2>1, FreeStepKeeps DEF Tasks
<1> QED
  BY <1>5, <1>6 DEF ProbeSecond

LEMMA PrepareUninstallKeeps == ASSUME LifecycleInv, PrepareUninstall PROVE LifecycleInv'
<1>1. TaskInv' /\ JobInv'
  BY BootoutThenKeeps DEF PrepareUninstall, LifecycleInv, Tasks
<1>2. ProcInv'
  BY MountGoneKeeps DEF PrepareUninstall, OutsideTask, LifecycleInv
<1> QED
  BY <1>1, <1>2 DEF LifecycleInv

(* The file goes only once the job is gone. *)
LEMMA RemovePlistKeeps == ASSUME LifecycleInv, RemovePlist PROVE LifecycleInv'
<1>0. /\ "uninstall" \in Tasks /\ task["uninstall"].pc = "detach" /\ TaskOK(task["uninstall"])
      /\ proc' = proc /\ lock' = lock /\ job' = job /\ recon' = None
  BY DEF RemovePlist, AtTask, LifecycleInv, TaskInv, Tasks
<1>1. recon = "uninstall" /\ job.state = "absent"
  BY <1>0, SMTT(30) DEF LifecycleInv, TaskInv, Holds, Knows
<1>2. JobKeeps /\ JobInv'
  BY <1>0, <1>1, SameJob DEF LifecycleInv, JobInv, Outdated
<1>3. ProcInv'
  <2>1. mnt' \in {mnt, None}
    BY DEF RemovePlist, UnmountCommand
  <2> QED
    BY <1>0, <2>1, MountGoneKeeps, PidsAssumption DEF LifecycleInv
<1>4. TaskInv'
  <2> DEFINE e == [task["uninstall"] EXCEPT !.pc = "ensure", !.next = "idle"]
             d == [task["uninstall"] EXCEPT !.pc = "recycle"]
  <2>1. TaskOK(e) /\ e.pc = "ensure"
    BY <1>0, SMTT(30) DEF TaskOK, TaskFields
  <2>2. Free(e)
    BY <2>1, SMTT(30) DEF Free, Holds, Knows
  <2>3. TaskOK(d) /\ Free(d)
    BY <1>0, BegunOK
  <2>4. \E r : Becomes("uninstall", r) /\ TaskOK(r) /\ Free(r)
    BY <2>1, <2>2, <2>3 DEF RemovePlist, Task, EnsureThen
  <2> QED
    BY <1>0, <1>1, <1>2, <2>4, BecomesKeeps DEF LifecycleInv, Free
<1> QED
  BY <1>2, <1>3, <1>4 DEF LifecycleInv

LEMMA RecycleKeeps == ASSUME LifecycleInv, Recycle PROVE LifecycleInv'
<1> DEFINE e == [task["uninstall"] EXCEPT !.pc = "ensure", !.next = "idle"]
           d == [task["uninstall"] EXCEPT !.pc = "terminate"]
<1>1. TaskOK(task["uninstall"])
  BY DEF LifecycleInv, TaskInv, Tasks
<1>2. TaskOK(e) /\ e.pc = "ensure"
  BY <1>1, SMTT(30) DEF TaskOK, TaskFields
<1>3. Free(e)
  BY <1>2, SMTT(30) DEF Free, Holds, Knows
<1>4. TaskOK(d) /\ Free(d)
  BY <1>1, BegunOK
<1>5. \E r : Becomes("uninstall", r) /\ TaskOK(r) /\ Free(r)
  BY <1>2, <1>3, <1>4 DEF Recycle, Task, EnsureThen
<1> QED
  BY <1>5, FreeStepKeeps DEF Recycle, Tasks

LEMMA TerminateAppKeeps == ASSUME LifecycleInv, TerminateApp PROVE LifecycleInv'
<1>1. TaskInv'
  BY NoTaskOK DEF TerminateApp, Idle, TaskInv
<1>2. JobInv' /\ ProcInv'
  BY SameJob, JobKeepsKeeps, MountGoneKeeps DEF TerminateApp, LifecycleInv
<1> QED
  BY <1>1, <1>2 DEF LifecycleInv

-----------------------------------------------------------------------------
(* Processes and launchd. *)

LEMMA OutsideProcessKeeps ==
  ASSUME LifecycleInv, ProcInv', UNCHANGED <<job, plist, recon, task>>
  PROVE  LifecycleInv'
BY SameJob, SameTasks, JobKeepsKeeps DEF LifecycleInv

LEMMA LaunchdKeeps ==
  ASSUME LifecycleInv, ProcInv', JobKeeps, UNCHANGED <<plist, recon, task>>
  PROVE  LifecycleInv'
BY SameTasks, JobKeepsKeeps DEF LifecycleInv

LEMMA LaunchdStepKeeps == ASSUME LifecycleInv, LaunchdStep PROVE LifecycleInv'
<1>0. UNCHANGED <<lock, mnt, plist, recon, task>>
  BY DEF LaunchdStep, Launch, Reap, QueuedRestart, OutsideLaunchd
<1>1. CASE Launch
  <2>1. ProcInv'
    BY <1>0, <1>1, StartedKeeps DEF Launch, LifecycleInv
  <2>2. JobKeeps
    BY <1>1, SMTT(30) DEF Launch, LifecycleInv, JobInv, JobKeeps, JobFields
  <2> QED
    BY <1>0, <2>1, <2>2, LaunchdKeeps
<1>2. CASE Reap
  <2>1. ProcInv'
    BY <1>0, <1>2, SMTT(30) DEF Reap, Dead, Running, LifecycleInv, ProcInv
  <2>2. JobKeeps
    <3>1. job.state \in {"running", "cycling", "stopping"} /\ DOMAIN job = JobFields
      BY <1>2 DEF Reap, LifecycleInv, JobInv
    <3>2. DOMAIN job' = JobFields /\ job'.pid = None /\ job'.rev = job.rev
      BY <1>2, <3>1, SMTT(30) DEF Reap, JobFields
    <3>3. job.state = "stopping" => job'.state = "absent"
      BY <1>2, <3>1, SMTT(30) DEF Reap, JobFields
    <3> QED
      BY <3>1, <3>2, <3>3 DEF JobKeeps
  <2> QED
    BY <1>0, <2>1, <2>2, LaunchdKeeps
<1>3. CASE QueuedRestart
  <2>1. ProcInv'
    BY <1>0, <1>3, TermKeeps DEF QueuedRestart, LifecycleInv
  <2>2. JobKeeps
    BY <1>3, SMTT(30) DEF QueuedRestart, LifecycleInv, JobInv, JobKeeps, JobFields
  <2> QED
    BY <1>0, <2>1, <2>2, LaunchdKeeps
<1> QED
  BY <1>1, <1>2, <1>3 DEF LaunchdStep

LEMMA OutsideKeeps ==
  ASSUME LifecycleInv, (\E p \in Pids : ProcessStep(p)) \/ Outside \/ DoctorProbes
  PROVE  LifecycleInv'
<1>1. UNCHANGED <<job, plist, recon, task>>
  BY DEF ProcessStep, Acquire, InspectMount, DetachStale, OpenServices, Mount, SessionEnds, StopRequested,
         Unmount, TermBeforeMount, Outside, Crash, Terminate, MountChanges, ManualMount, DoctorProbes,
         OutsideProcess
<1>2. CASE \E p \in Pids : ProcessStep(p)
  BY <1>1, <1>2, ProcessStepKeeps, OutsideProcessKeeps DEF LifecycleInv
<1>3. CASE \E p \in Pids : Crash(p)
  <2>1. 1 \in Nat
    BY SMTT(30)
  <2> QED
    BY <1>1, <1>3, <2>1, ExitsKeeps, OutsideProcessKeeps DEF LifecycleInv, Crash
<1>4. CASE \E p \in Pids : Terminate(p)
  BY <1>1, <1>4, TermKeeps, OutsideProcessKeeps DEF LifecycleInv, Terminate
<1>5. CASE MountChanges
  <2>1. mnt' \notin Pids
    BY <1>5, PidsAssumption DEF MountChanges
  <2> QED
    BY <1>1, <1>5, <2>1, MountGoneKeeps, OutsideProcessKeeps DEF LifecycleInv, MountChanges
<1>6. CASE ManualMount
  BY <1>1, <1>6, StartedKeeps, OutsideProcessKeeps DEF LifecycleInv, ManualMount
<1>7. CASE DoctorProbes
  <2>1. ProcInv'
    BY <1>7, PidsAssumption, SMTT(30) DEF DoctorProbes, ProcInv, LifecycleInv
  <2> QED
    BY <1>1, <2>1, OutsideProcessKeeps
<1> QED
  BY <1>2, <1>3, <1>4, <1>5, <1>6, <1>7 DEF Outside

(* LifecycleInv is inductive: the mount and the instance lock, the tasks   *)
(* and the reconciliation lock, the job and its file.                      *)
THEOREM LifecycleInvariant == LifecycleSpec => []LifecycleInv
<1>1. ASSUME LifecycleInit PROVE LifecycleInv
  <2>1. ProcInv
    <3>1. proc = [p \in Pids |-> Dead]
      BY <1>1 DEF LifecycleInit
    <3> QED
      BY <3>1, SMTT(30) DEF Dead, ProcInv
  <2>2. JobInv
    <3>1. job = [state |-> IF plist = None THEN "absent" ELSE "spawn", rev |-> plist, pid |-> None,
                 queued |-> FALSE, code |-> 0, busy |-> 0]
      BY <1>1 DEF LifecycleInit
    <3> QED
      BY <3>1, SMTT(30) DEF JobInv, JobFields, Outdated
  <2>3. TaskInv
    <3>1. CASE task = Idle
      BY <3>1, NoTaskOK DEF Idle, TaskInv
    <3>2. CASE task = [Idle EXCEPT !["probe"] = Probe]
      <4>1. DOMAIN task = Tasks
        BY <3>2 DEF Idle
      <4>2. \A a \in Tasks : task[a] = Probe \/ task[a] = NoTask
        BY <3>2, SMTT(30) DEF Idle
      <4> QED
        BY <4>1, <4>2, NoTaskOK, BegunOK DEF TaskInv, Free
    <3> QED
      BY <1>1, <3>1, <3>2 DEF LifecycleInit
  <2> QED
    BY <2>1, <2>2, <2>3 DEF LifecycleInv
<1>2. ASSUME LifecycleInv, [LifecycleNext]_lifecycleVars PROVE LifecycleInv'
  <2>1. CASE LaunchdStep
    BY <1>2, <2>1, LaunchdStepKeeps
  <2>2. CASE UserAsks
    BY <1>2, <2>2, UserAsksKeeps
  <2>3. CASE (\E p \in Pids : ProcessStep(p)) \/ Outside \/ DoctorProbes
    BY <1>2, <2>3, OutsideKeeps
  <2>4. CASE AppStep
    <3>1. CASE Connect
      BY <1>2, <3>1, UntouchedKeeps DEF Connect
    <3> QED
      BY <1>2, <2>4, <3>1, EnsureRunningKeeps, DisconnectKeeps, RecoverInitKeeps, RecoverPollKeeps,
         CheckSetupKeeps, ProbeSecondKeeps, PrepareUninstallKeeps, RemovePlistKeeps, RecycleKeeps,
         TerminateAppKeeps DEF AppStep
  <2>5. CASE UNCHANGED lifecycleVars
    BY <1>2, <2>5, UntouchedKeeps DEF lifecycleVars
  <2> QED
    BY <1>2, <2>1, <2>2, <2>3, <2>4, <2>5 DEF LifecycleNext
<1> QED
  BY <1>1, <1>2, PTL DEF LifecycleSpec

(* One daemon serves, and the right one: the process past its instance     *)
(* lock holds it, recover_stale_mount never detaches a mount that is       *)
(* served, and ensureRunning never replaces a running job of the current   *)
(* build, for any number of processes, failures and requests.              *)
THEOREM OneDaemon == LifecycleSpec => []OneDaemonServes
<1>1. ASSUME LifecycleInv PROVE OneDaemonServes
  <2>1. Status = "running" => job.state # "absent"
    BY SMTT(30) DEF Status
  <2>2. CurrentBuildIsLeftAlone
    BY <1>1, <2>1 DEF LifecycleInv, TaskInv, Knows, Outdated, CurrentBuildIsLeftAlone
  <2> QED
    BY <1>1, <2>2, ProcInvImplies DEF LifecycleInv, OneDaemonServes
<1> QED
  BY <1>1, LifecycleInvariant, PTL

-----------------------------------------------------------------------------
(* The names the mount serves. *)

CallFields ==
  {"op", "pc", "ino", "want", "name", "asked", "held", "plan", "plans", "items", "left", "via",
   "reply", "stores", "registries", "withdrawn", "failed"}

(* The steps of ItemsNs::get for a key of items/. *)
ItemPcs == {"get", "current", "configured", "remove", "list", "records", "clear", "insert", "found"}

(* An item: a surface, or a raw secret under its own id. *)
ItemOK(x) == x.back \in Ids /\ (x.back \in Secrets => x.id = x.back)

(* What an item found through items/ was while the call ran. *)
Live(c, x) ==
  IF x.back \in Surfaces THEN \E r \in c.registries : x.back \in Listed(r)
  ELSE /\ \E s \in c.stores : x.back \in Exposed(s)
       /\ \E r \in c.registries : x.back \notin ConfiguredIds(r)

(* Nothing happened to the item of the secret s during the call. *)
Kept(c, s) == ~c.failed /\ s \notin c.withdrawn /\ \A st \in c.stores : s \in Exposed(st)

Publishes(reg, f, s) == f \in Listed(reg) /\ reg[f].item = s

(* A call in progress, for the store st, the registry reg and the inodes m. *)
ShapeOK(c, st, reg) ==
  /\ DOMAIN c = CallFields /\ c.reply = "none" /\ c.failed \in BOOLEAN
  /\ c.pc # "idle" => st \in c.stores /\ reg \in c.registries

AskedOK(c, m) ==
  IF c.op \in {"open", "getattr"}
  THEN /\ c.asked \in Keys /\ c.ino = m[c.asked] /\ c.ino # 0
       /\ c.pc \in ItemPcs => c.asked = <<"file", c.want>>
       /\ c.pc \notin {"item_attr", "surface", "secret"}
  ELSE c.asked = Absent /\ c.pc \notin {"legacy", "legacy_secret"}

HeldOK(c) ==
  /\ c.pc = "get" => c.want \in Ids
  /\ c.pc = "surface" => c.want \in Surfaces
  /\ c.pc = "secret" => c.want \in Secrets
  /\ c.pc \in {"current", "configured", "found", "item_attr"} => ItemOK(c.held) /\ c.held.id = c.want
  /\ c.pc = "configured" => c.held.back \in Secrets /\ \E st \in c.stores : c.held.back \in Exposed(st)
  /\ c.pc \in {"found", "item_attr"} => Live(c, c.held)
  /\ c.pc = "direct_attr" => c.held.back \in Surfaces /\ \E r \in c.registries : c.held.back \in Listed(r)

ListOK(c) ==
  /\ c.pc = "records" => c.plans \in Registries /\ c.plans \in c.registries
  /\ c.pc \in {"clear", "insert", "dirs"} =>
       c.left \subseteq c.items /\ \A x \in c.items : ItemOK(x) /\ Live(c, x)
  /\ c.pc \in {"surfaces", "secrets", "entries"} => c.items = {}

(* The item of a secret that stays exposed is on its way to be found: what *)
(* the call read of its surfaces is still in the registry.                 *)
KeptOK(c, reg) ==
  \A s \in Secrets : c.asked = <<"file", s>> /\ Kept(c, s) =>
    /\ c.pc \notin {"legacy", "legacy_secret"}
    /\ c.pc = "records" => \A f \in Listed(c.plans) : c.plans[f].item = s => reg[f] = c.plans[f]
    /\ c.pc \in {"clear", "insert"} =>
         /\ \E x \in c.items : x.id = s
         /\ \A x \in c.items : x.id = s /\ x.back \in Surfaces => Publishes(reg, x.back, s)
    /\ c.pc = "found" /\ c.held.back \in Surfaces => Publishes(reg, c.held.back, s)
    /\ c.pc = "direct_attr" => c.plan.backing = s

CallOK(c, st, reg, m) ==
  ShapeOK(c, st, reg) /\ AskedOK(c, m) /\ HeldOK(c) /\ ListOK(c) /\ KeptOK(c, reg)

(* An answered call. *)
AnswerOK(c) ==
  /\ c.reply = "target" => c.asked = <<c.via, c.held.id>>
  /\ c.reply \in {"target", "entry", "attr"} => WasLive(c, c.held)
  /\ c.reply = "list" => \A x \in c.items : WasLive(c, x)
  /\ c.reply = "enoent" => \A s \in Secrets : c.asked = <<"file", s>> => ~Kept(c, s)

CallsInv ==
  /\ DOMAIN call = Threads
  /\ \A t \in Threads : CallOK(call[t], store, registry, inoOf)
  /\ AnswerOK(answered)

(* The cache holds items under their ids, however old they are. *)
InventoryInv ==
  /\ DOMAIN inventory = Ids
  /\ \A i \in Ids : inventory[i] # Absent => ItemOK(inventory[i]) /\ inventory[i].id = i

(* One counter allocates the inodes of all the namespaces. *)
InoInv ==
  /\ nextIno \in Nat /\ nextIno >= FirstIno
  /\ inoOf \in [Keys -> Nat]
  /\ \A k \in Keys : inoOf[k] # 0 => inoOf[k] >= FirstIno /\ inoOf[k] < nextIno
  /\ \A k, l \in Keys : inoOf[k] # 0 /\ inoOf[k] = inoOf[l] => k = l

NamespaceInv == registry \in Registries /\ InventoryInv /\ InoInv /\ CallsInv

-----------------------------------------------------------------------------
(* Facts about items. *)

LEMMA ExposedFacts ==
  /\ Exposed(Records(TRUE)) = {} /\ Records(FALSE) = store
  /\ \A st : Exposed(st) \subseteq Secrets
  /\ \A s \in Secrets : Records(TRUE)[s] = Absent
  /\ \A st : \A s \in Exposed(st) : st[s] # Absent
BY IdsAssumption DEF Exposed, Records

LEMMA IdsFacts ==
  /\ Surfaces \subseteq Ids /\ Secrets \subseteq Ids
  /\ \A i \in Ids : i \in Secrets <=> i \notin Surfaces
BY IdsAssumption DEF Ids

LEMMA LiveWas == \A c, x : Live(c, x) => WasLive(c, x)
BY DEF Live, WasLive

LEMMA PlanFacts ==
  ASSUME NEW reg \in Registries, NEW f \in Listed(reg)
  PROVE  /\ f \in Surfaces
         /\ reg[f].backing \in Secrets \cup {Composed}
         /\ \A s \in Secrets : reg[f].item = s /\ reg[f].backing # Composed => reg[f].backing = s
<1>1. f \in Surfaces /\ reg[f] \in Plans(f)
  BY DEF Registries, Listed
<1>2. reg[f].backing \in Secrets \cup {Composed}
  BY <1>1, SMTT(30) DEF Plans
<1>3. reg[f].backing \in Secrets => reg[f].item \in {f, reg[f].backing}
  BY <1>1 DEF Plans
<1> QED
  BY <1>1, <1>2, <1>3, IdsAssumption

(* What ItemsNs::list lists is live for the registry and the store it was  *)
(* read from.                                                              *)
LEMMA ItemsOfOK ==
  ASSUME NEW c, NEW plans \in c.registries, NEW st, st \in c.stores \/ Exposed(st) = {},
         NEW x \in ItemsOf(plans, st)
  PROVE  ItemOK(x) /\ Live(c, x)
<1>1. CASE \E f \in Listed(plans) : x = SurfaceItem(f, plans)
  <2>1. PICK f \in Listed(plans) : x = SurfaceItem(f, plans)
    BY <1>1
  <2>2. x.back = f /\ f \in Surfaces
    BY <2>1, SMTT(30) DEF SurfaceItem, Listed
  <2> QED
    BY <2>1, <2>2, IdsAssumption DEF ItemOK, Live, Ids
<1>2. CASE \E s \in Exposed(st) \ ConfiguredIds(plans) : x = SecretItem(s, st)
  <2>1. PICK s \in Exposed(st) \ ConfiguredIds(plans) : x = SecretItem(s, st)
    BY <1>2
  <2>2. x.back = s /\ x.id = s /\ s \in Secrets
    BY <2>1, SMTT(30) DEF SecretItem, Exposed
  <2> QED
    BY <2>1, <2>2, IdsAssumption DEF ItemOK, Live, Ids
<1> QED
  BY <1>1, <1>2 DEF ItemsOf

(* An exposed secret has an item: its last surface, or itself. *)
LEMMA ItemsOfComplete ==
  ASSUME NEW plans, NEW st, NEW s \in Exposed(st)
  PROVE  /\ \E x \in ItemsOf(plans, st) : x.id = s
         /\ \A x \in ItemsOf(plans, st) : x.id = s /\ x.back \in Surfaces =>
              x.back \in Listed(plans) /\ plans[x.back].item = s
<1> DEFINE fs == {f \in Listed(plans) : plans[f].item = s}
<1>1. \E x \in ItemsOf(plans, st) : x.id = s
  <2>1. CASE s \in ConfiguredIds(plans)
    <3>1. fs # {} /\ fs \in SUBSET Surfaces
      BY <2>1 DEF ConfiguredIds, Listed
    <3>2. PICK g \in fs : \A h \in fs : h <= g
      BY <3>1, SurfacesAssumption
    <3>3. SurfaceItem(g, plans) \in ItemsOf(plans, st)
      BY <3>2 DEF ItemsOf
    <3>4. SurfaceItem(g, plans).id = s
      BY <3>2, SMTT(30) DEF SurfaceItem
    <3> QED
      BY <3>3, <3>4
  <2>2. CASE s \notin ConfiguredIds(plans)
    <3>1. SecretItem(s, st) \in ItemsOf(plans, st)
      BY <2>2 DEF ItemsOf
    <3>2. SecretItem(s, st).id = s
      BY SMTT(30) DEF SecretItem
    <3> QED
      BY <3>1, <3>2
  <2> QED
    BY <2>1, <2>2
<1>2. ASSUME NEW x \in ItemsOf(plans, st), x.id = s, x.back \in Surfaces
      PROVE  x.back \in Listed(plans) /\ plans[x.back].item = s
  <2>1. CASE \E f \in Listed(plans) : x = SurfaceItem(f, plans)
    BY <1>2, <2>1, SMTT(30) DEF SurfaceItem
  <2>2. CASE \E q \in Exposed(st) : x = SecretItem(q, st)
    <3>1. x.back \in Secrets
      BY <2>2, SMTT(30) DEF SecretItem, Exposed
    <3> QED
      BY <1>2, <3>1, IdsAssumption
  <2> QED
    BY <1>2, <2>1, <2>2 DEF ItemsOf
<1> QED
  BY <1>1, <1>2

-----------------------------------------------------------------------------
(* How a call goes on. *)

(* What no step of a call changes. *)
Alike(n, c) ==
  /\ DOMAIN n = CallFields
  /\ n.op = c.op /\ n.ino = c.ino /\ n.want = c.want /\ n.asked = c.asked
  /\ n.stores = c.stores /\ n.registries = c.registries /\ n.withdrawn = c.withdrawn
  /\ n.failed \in BOOLEAN /\ (c.failed => n.failed)

LEMMA AlikeFacts ==
  ASSUME NEW n, NEW c, Alike(n, c)
  PROVE  /\ \A x : Live(n, x) <=> Live(c, x)
         /\ \A s : Kept(n, s) => Kept(c, s)
BY DEF Alike, Live, Kept

LEMMA NextCall ==
  ASSUME NEW c, NEW n, NEW st, NEW reg, NEW m, CallOK(c, st, reg, m), Alike(n, c), c.pc # "idle",
         n.reply = "none", n.pc \in ItemPcs => c.pc \in ItemPcs,
         n.pc \in {"legacy", "legacy_secret"} => n.op \in {"open", "getattr"},
         n.pc \in {"item_attr", "surface", "secret"} => n.op \notin {"open", "getattr"},
         HeldOK(n), ListOK(n), KeptOK(n, reg)
  PROVE  CallOK(n, st, reg, m)
<1>1. ShapeOK(n, st, reg)
  BY DEF CallOK, ShapeOK, Alike
<1>2. AskedOK(n, m)
  BY DEF CallOK, AskedOK, Alike
<1> QED
  BY <1>1, <1>2 DEF CallOK

LEMMA NoCallOK ==
  /\ \A st, reg, m : CallOK(NoCall, st, reg, m)
  /\ AnswerOK(NoCall)
<1>1. /\ DOMAIN NoCall = CallFields /\ NoCall.reply = "none" /\ NoCall.failed = FALSE
      /\ NoCall.pc = "idle" /\ NoCall.op = "none" /\ NoCall.asked = Absent
  BY SMTT(30) DEF NoCall, CallFields
<1>2. \A st, reg, m : ShapeOK(NoCall, st, reg) /\ AskedOK(NoCall, m)
  BY <1>1 DEF ShapeOK, AskedOK
<1>3. HeldOK(NoCall) /\ ListOK(NoCall)
  BY <1>1, SMTT(30) DEF HeldOK, ListOK
<1>4. \A reg : KeptOK(NoCall, reg)
  BY <1>1, SMTT(30) DEF KeptOK
<1>5. AnswerOK(NoCall)
  BY <1>1, SMTT(30) DEF AnswerOK
<1> QED
  BY <1>2, <1>3, <1>4, <1>5 DEF CallOK

LEMMA GotoKeeps ==
  ASSUME DOMAIN call = Threads, \A u \in Threads : CallOK(call[u], store', registry', inoOf'),
         NEW t \in Threads, NEW n, Goto(t, n),
         n.reply = "none" => CallOK(n, store', registry', inoOf'), n.reply # "none" => AnswerOK(n)
  PROVE  CallsInv'
<1>1. PICK m : /\ call' = [call EXCEPT ![t] = m] /\ CallOK(m, store', registry', inoOf')
               /\ AnswerOK(answered')
  BY NoCallOK DEF Goto
<1>2. DOMAIN call' = Threads
  BY <1>1
<1>3. \A u \in Threads : call'[u] = m \/ call'[u] = call[u]
  BY <1>1, SMTT(30)
<1> QED
  BY <1>1, <1>2, <1>3 DEF CallsInv

LEMMA StepKeeps ==
  ASSUME NamespaceInv, NEW t \in Threads, NEW n, Step(t, n),
         n.reply = "none" => CallOK(n, store, registry, inoOf), n.reply # "none" => AnswerOK(n)
  PROVE  NamespaceInv'
<1>1. UNCHANGED <<store, registry, inventory, inoOf, nextIno>> /\ Goto(t, n)
  BY DEF Step, OnlyCalls
<1>2. CallsInv'
  BY <1>1, GotoKeeps DEF NamespaceInv, CallsInv
<1>3. InventoryInv' /\ InoInv' /\ registry' \in Registries
  BY <1>1 DEF NamespaceInv, InventoryInv, InoInv
<1> QED
  BY <1>2, <1>3 DEF NamespaceInv

LEMMA InventoryStepKeeps ==
  ASSUME NamespaceInv, NEW t \in Threads, NEW n, Goto(t, n), InventoryInv',
         UNCHANGED <<store, registry, inoOf, nextIno>>,
         n.reply = "none", CallOK(n, store, registry, inoOf)
  PROVE  NamespaceInv'
<1>1. CallsInv'
  BY GotoKeeps DEF NamespaceInv, CallsInv
<1>2. InoInv' /\ registry' \in Registries
  BY DEF NamespaceInv, InoInv
<1> QED
  BY <1>1, <1>2 DEF NamespaceInv

(* InoMap::ino_for never changes an inode, and never gives one twice. *)
LEMMA InoForKeeps ==
  ASSUME InoInv, NEW k, InoFor(k)
  PROVE  InoInv' /\ \A l \in Keys : inoOf[l] # 0 => inoOf'[l] = inoOf[l]
<1>1. CASE UNCHANGED <<inoOf, nextIno>>
  BY <1>1 DEF InoInv
<1>2. CASE inoOf[k] = 0 /\ inoOf' = [inoOf EXCEPT ![k] = nextIno] /\ nextIno' = nextIno + 1
  <2>1. nextIno' \in Nat /\ nextIno' >= FirstIno
    BY <1>2, FirstInoAssumption, SMTT(30) DEF InoInv
  <2>7. inoOf' \in [Keys -> Nat]
    <3>1. inoOf' = [l \in Keys |-> IF l = k THEN nextIno ELSE inoOf[l]]
      BY <1>2 DEF InoInv
    <3> QED
      BY <3>1, SMTT(30) DEF InoInv
  <2>2. \A l \in Keys : inoOf'[l] = IF l = k THEN nextIno ELSE inoOf[l]
    BY <1>2, SMTT(30) DEF InoInv
  <2>3. \A l \in Keys : inoOf[l] # 0 => inoOf'[l] = inoOf[l]
    BY <1>2, <2>2
  <2>4. \A l \in Keys : inoOf'[l] # 0 => inoOf'[l] >= FirstIno /\ inoOf'[l] < nextIno'
    BY <1>2, <2>2, FirstInoAssumption, SMTT(30) DEF InoInv
  <2>5. \A l \in Keys : inoOf[l] < nextIno
    BY FirstInoAssumption, SMTT(30) DEF InoInv
  <2>6. \A l, j \in Keys : inoOf'[l] # 0 /\ inoOf'[l] = inoOf'[j] => l = j
    BY <2>2, <2>5, SMTT(30) DEF InoInv
  <2> QED
    BY <2>1, <2>3, <2>4, <2>6, <2>7 DEF InoInv
<1> QED
  BY <1>1, <1>2 DEF InoFor

LEMMA NamingKeeps ==
  ASSUME NamespaceInv, NEW t \in Threads, NEW k, NEW n, Naming(t, k, n),
         n.reply = "none" => CallOK(n, store, registry, inoOf), n.reply # "none" => AnswerOK(n)
  PROVE  NamespaceInv'
<1>1. UNCHANGED <<store, registry, inventory>> /\ Goto(t, n) /\ InoFor(k)
  BY DEF Naming
<1>2. InoInv' /\ \A l \in Keys : inoOf[l] # 0 => inoOf'[l] = inoOf[l]
  BY <1>1, InoForKeeps DEF NamespaceInv
<1>3. ASSUME NEW c, CallOK(c, store, registry, inoOf) PROVE CallOK(c, store', registry', inoOf')
  <2>1. AskedOK(c, inoOf')
    BY <1>2, <1>3 DEF CallOK, AskedOK
  <2> QED
    BY <1>1, <1>3, <2>1 DEF CallOK
<1>4. \A u \in Threads : CallOK(call[u], store', registry', inoOf')
  BY <1>3 DEF NamespaceInv, CallsInv
<1>5. CallsInv'
  BY <1>1, <1>3, <1>4, GotoKeeps DEF NamespaceInv, CallsInv
<1>6. InventoryInv' /\ registry' \in Registries
  BY <1>1 DEF NamespaceInv, InventoryInv
<1> QED
  BY <1>2, <1>5, <1>6 DEF NamespaceInv

(* The control plane changes the store or the registry under the calls. *)
LEMMA WitnessedKeeps ==
  ASSUME NamespaceInv, registry' \in Registries, Witnessed(store', registry'),
         UNCHANGED <<inventory, inoOf, nextIno>>
  PROVE  NamespaceInv'
<1>1. ASSUME NEW t \in Threads PROVE CallOK(call'[t], store', registry', inoOf')
  <2> DEFINE c == call[t]
             n == [c EXCEPT !.stores = @ \cup {store'}, !.registries = @ \cup {registry'},
                            !.withdrawn = @ \cup Withdrawn(registry, registry')]
  <2>0. CallOK(c, store, registry, inoOf) /\ inoOf' = inoOf
    BY <1>1 DEF NamespaceInv, CallsInv
  <2>1. CASE c.pc = "idle"
    BY <2>1, NoCallOK DEF Witnessed
  <2>2. CASE c.pc # "idle"
    <3>1. call'[t] = n
      BY <2>2 DEF Witnessed
    <3>2. /\ DOMAIN n = CallFields /\ n.reply = "none" /\ n.pc = c.pc /\ n.op = c.op /\ n.ino = c.ino
          /\ n.want = c.want /\ n.asked = c.asked /\ n.held = c.held /\ n.plan = c.plan
          /\ n.plans = c.plans /\ n.items = c.items /\ n.left = c.left /\ n.failed = c.failed
          /\ n.stores = c.stores \cup {store'} /\ n.registries = c.registries \cup {registry'}
          /\ n.withdrawn = c.withdrawn \cup Withdrawn(registry, registry')
      BY <2>0, SMTT(30) DEF CallOK, ShapeOK, CallFields
    <3> HIDE DEF n
    <3>3. ShapeOK(n, store', registry') /\ AskedOK(n, inoOf')
      BY <2>0, <3>2 DEF CallOK, ShapeOK, AskedOK
    <3>4. \A x : Live(c, x) => Live(n, x)
      BY <3>2 DEF Live
    <3>5. HeldOK(n)
      BY <2>0, <3>2, <3>4 DEF CallOK, HeldOK
    <3>6. ListOK(n)
      BY <2>0, <3>2, <3>4 DEF CallOK, ListOK
    <3>7. ASSUME NEW s \in Secrets, Kept(n, s)
          PROVE  /\ Kept(c, s)
                 /\ \A f : Publishes(registry, f, s) => registry'[f] = registry[f] /\ Publishes(registry', f, s)
      <4>1. Kept(c, s) /\ s \notin Withdrawn(registry, registry')
        BY <3>2, <3>7 DEF Kept
      <4>2. \A f \in Listed(registry) : registry[f].item = s => registry'[f] = registry[f]
        BY <4>1 DEF Withdrawn
      <4> QED
        BY <4>1, <4>2 DEF Publishes, Listed
    <3>8. KeptOK(c, registry)
      BY <2>0 DEF CallOK
    <3>9. ASSUME NEW s \in Secrets, Kept(n, s), n.asked = <<"file", s>>, n.pc = "records",
                 NEW f \in Listed(n.plans), n.plans[f].item = s
          PROVE  registry'[f] = n.plans[f]
      <4>1. registry[f] = c.plans[f]
        BY <3>2, <3>7, <3>8, <3>9 DEF KeptOK
      <4>2. Publishes(registry, f, s)
        BY <3>2, <3>9, <4>1 DEF Publishes, Listed
      <4> QED
        BY <3>2, <3>7, <3>9, <4>1, <4>2
    <3>10. KeptOK(n, registry')
      BY <3>2, <3>7, <3>8, <3>9 DEF KeptOK
    <3> QED
      BY <3>1, <3>3, <3>5, <3>6, <3>10 DEF CallOK
  <2> QED
    BY <2>1, <2>2
<1>2. DOMAIN call' = Threads /\ AnswerOK(answered')
  BY NoCallOK DEF Witnessed
<1>3. CallsInv'
  BY <1>1, <1>2 DEF CallsInv
<1>4. InventoryInv' /\ InoInv'
  BY DEF NamespaceInv, InventoryInv, InoInv
<1> QED
  BY <1>3, <1>4 DEF NamespaceInv

-----------------------------------------------------------------------------
(* The calls begin. *)

LEMMA KeyFacts ==
  \A k \in Keys : /\ k = <<k[1], k[2]>>
                  /\ k[1] = "file" => k[2] \in Ids
                  /\ k[1] = "surfaces" => k[2] \in Surfaces
                  /\ k[1] = "secrets" => k[2] \in Secrets
BY SMTT(30) DEF Keys

LEMMA BeginKeeps ==
  ASSUME NamespaceInv, NEW t \in Threads, NEW c, Begin(t, c),
         DOMAIN c = CallFields, c.reply = "none", c.failed = FALSE, c.items = {},
         c.pc \in {"get", "list", "surface", "secret", "surfaces", "secrets", "legacy"},
         AskedOK(c, inoOf), HeldOK(c), c.pc = "legacy" => \A s : c.asked # <<"file", s>>
  PROVE  NamespaceInv'
<1> DEFINE n == [c EXCEPT !.stores = {store}, !.registries = {registry}]
<1>1. /\ DOMAIN n = CallFields /\ n.reply = "none" /\ n.failed = FALSE /\ n.items = {} /\ n.pc = c.pc
      /\ n.op = c.op /\ n.ino = c.ino /\ n.want = c.want /\ n.asked = c.asked
      /\ n.stores = {store} /\ n.registries = {registry}
  BY SMTT(30) DEF CallFields
<1>2. Step(t, n)
  BY DEF Begin
<1> HIDE DEF n
<1>3. ShapeOK(n, store, registry) /\ AskedOK(n, inoOf)
  BY <1>1 DEF ShapeOK, AskedOK
<1>4. HeldOK(n)
  BY <1>1, SMTT(30) DEF HeldOK
<1>5. ListOK(n) /\ KeptOK(n, registry)
  BY <1>1, SMTT(30) DEF ListOK, KeptOK
<1> QED
  BY <1>1, <1>2, <1>3, <1>4, <1>5, StepKeeps DEF CallOK

(* A request that names what it is about by an id. *)
LEMMA RequestKeeps ==
  ASSUME NamespaceInv, NEW op, NEW pc, NEW want, NEW name,
         op \notin {"open", "getattr"},
         \/ pc = "get" /\ want \in Ids
         \/ pc \in {"list", "surfaces", "secrets"}
         \/ pc = "surface" /\ want \in Surfaces
         \/ pc = "secret" /\ want \in Secrets,
         NEW c \in {Request(op, pc, want), [Request(op, pc, want) EXCEPT !.name = name]}, Begin(Loop, c)
  PROVE  NamespaceInv'
<1>1. /\ DOMAIN c = CallFields /\ c.reply = "none" /\ c.failed = FALSE /\ c.items = {} /\ c.pc = pc
      /\ c.op = op /\ c.want = want /\ c.asked = Absent
  <2>1. CASE c = Request(op, pc, want)
    BY <2>1, SMTT(30) DEF Request, NoCall, CallFields
  <2>2. CASE c = [Request(op, pc, want) EXCEPT !.name = name]
    BY <2>2, SMTT(30) DEF Request, NoCall, CallFields
  <2> QED
    BY <2>1, <2>2
<1>2. c.pc \notin {"legacy", "legacy_secret"}
  BY <1>1
<1>3. AskedOK(c, inoOf)
  BY <1>1, <1>2 DEF AskedOK
<1>4. HeldOK(c)
  BY <1>1, SMTT(30) DEF HeldOK
<1>5. c.pc \in {"get", "list", "surface", "secret", "surfaces", "secrets"} /\ Loop \in Threads
  BY <1>1 DEF Threads
<1> QED
  BY <1>1, <1>3, <1>4, <1>5, BeginKeeps

LEMMA LookupKeeps == ASSUME NamespaceInv, Lookup PROVE NamespaceInv'
<1>1. ASSUME NEW i \in Ids, Begin(Loop, Request("lookup_dir", "get", i)) PROVE NamespaceInv'
  BY <1>1, RequestKeeps
<1>2. ASSUME NEW i \in Ids, NEW nm \in Names,
             Begin(Loop, [Request("lookup_file", "get", i) EXCEPT !.name = nm])
      PROVE  NamespaceInv'
  BY <1>2, RequestKeeps
<1>3. ASSUME NEW f \in Surfaces, Begin(Loop, Request("lookup_surface", "surface", f)) PROVE NamespaceInv'
  BY <1>3, RequestKeeps
<1>4. ASSUME NEW s \in Secrets, Begin(Loop, Request("lookup_secret", "secret", s)) PROVE NamespaceInv'
  BY <1>4, RequestKeeps
<1> QED
  BY <1>1, <1>2, <1>3, <1>4 DEF Lookup

LEMMA ReaddirKeeps == ASSUME NamespaceInv, Readdir PROVE NamespaceInv'
<1>1. CASE Begin(Loop, Request("readdir_items", "list", Absent))
  BY <1>1, RequestKeeps
<1>2. ASSUME NEW i \in Ids, Begin(Loop, Request("readdir_item", "get", i)) PROVE NamespaceInv'
  BY <1>2, RequestKeeps
<1>3. CASE Begin(Loop, Request("readdir_surfaces", "surfaces", Absent))
  BY <1>3, RequestKeeps
<1>4. CASE Begin(Loop, Request("readdir_secrets", "secrets", Absent))
  BY <1>4, RequestKeeps
<1> QED
  BY <1>1, <1>2, <1>3, <1>4 DEF Readdir

LEMMA OnInodeKeeps ==
  ASSUME NamespaceInv, NEW t \in Threads, NEW op \in {"open", "getattr"}, OnInode(t, op)
  PROVE  NamespaceInv'
<1>1. PICK k \in Keys :
        /\ inoOf[k] # 0
        /\ LET files == KeysAt(inoOf[k], {"file"})
               c == [Request(op, "legacy", Absent) EXCEPT !.ino = inoOf[k], !.asked = k] IN
           IF files = {} THEN Begin(t, c)
           ELSE \E x \in files : Begin(t, [c EXCEPT !.pc = "get", !.want = x[2]])
  BY DEF OnInode
<1> DEFINE files == KeysAt(inoOf[k], {"file"})
           c == [Request(op, "legacy", Absent) EXCEPT !.ino = inoOf[k], !.asked = k]
<1>2. CASE files = {}
  <2>1. Begin(t, c)
    BY <1>1, <1>2
  <2>2. /\ DOMAIN c = CallFields /\ c.reply = "none" /\ c.failed = FALSE /\ c.items = {} /\ c.pc = "legacy"
        /\ c.op = op /\ c.ino = inoOf[k] /\ c.asked = k
    BY SMTT(30) DEF Request, NoCall, CallFields
  <2> HIDE DEF c
  <2>3. \A s : k # <<"file", s>>
    <3>1. k[1] # "file"
      BY <1>1, <1>2 DEF KeysAt
    <3> QED
      BY <3>1, SMTT(30)
  <2>6. c.pc \notin ItemPcs /\ c.pc \notin {"item_attr", "surface", "secret"}
    BY <2>2 DEF ItemPcs
  <2>4. AskedOK(c, inoOf)
    BY <1>1, <2>2, <2>6 DEF AskedOK
  <2>5. HeldOK(c)
    BY <2>2, SMTT(30) DEF HeldOK
  <2> QED
    BY <2>1, <2>2, <2>3, <2>4, <2>5, BeginKeeps
<1>3. ASSUME NEW x \in files, Begin(t, [c EXCEPT !.pc = "get", !.want = x[2]]) PROVE NamespaceInv'
  <2> DEFINE n == [c EXCEPT !.pc = "get", !.want = x[2]]
  <2>1. Begin(t, n)
    BY <1>3
  <2>2. /\ DOMAIN n = CallFields /\ n.reply = "none" /\ n.failed = FALSE /\ n.items = {} /\ n.pc = "get"
        /\ n.op = op /\ n.ino = inoOf[k] /\ n.asked = k /\ n.want = x[2]
    BY SMTT(30) DEF Request, NoCall, CallFields
  <2> HIDE DEF n
  <2>3. x \in Keys /\ x[1] = "file" /\ x = k
    BY <1>1, <1>3 DEF KeysAt, NamespaceInv, InoInv
  <2>4. k = <<"file", x[2]>> /\ x[2] \in Ids
    BY <2>3, KeyFacts
  <2>5. AskedOK(n, inoOf)
    BY <1>1, <2>2, <2>4 DEF AskedOK
  <2>6. HeldOK(n)
    BY <2>2, <2>4, SMTT(30) DEF HeldOK
  <2> QED
    BY <2>1, <2>2, <2>5, <2>6, BeginKeeps
<1> QED
  BY <1>1, <1>2, <1>3

(* A call about the file of a secret's item wants that secret. *)
LEMMA WantedSecret ==
  ASSUME NEW c, NEW st, NEW reg, NEW m, CallOK(c, st, reg, m), NEW s \in Secrets, c.asked = <<"file", s>>
  PROVE  c.op \in {"open", "getattr"} /\ (c.pc \in ItemPcs => c.want = s)
<1>1. <<"file", s>> \in Keys
  BY IdsFacts, SMTT(30) DEF Keys
<1>2. c.op \in {"open", "getattr"} /\ (c.pc \in ItemPcs => c.asked = <<"file", c.want>>)
  BY <1>1, AbsentAssumption DEF CallOK, AskedOK
<1>3. \A w : <<"file", w>> = <<"file", s>> => w = s
  BY SMTT(30)
<1> QED
  BY <1>2, <1>3

-----------------------------------------------------------------------------
(* ItemsNs::get. *)

LEMMA CallFacts ==
  ASSUME NamespaceInv, NEW t \in Threads
  PROVE  /\ CallOK(call[t], store, registry, inoOf)
         /\ DOMAIN call[t] = CallFields /\ call[t].reply = "none" /\ call[t].failed \in BOOLEAN
         /\ call[t].pc # "idle" => store \in call[t].stores /\ registry \in call[t].registries
BY DEF NamespaceInv, CallsInv, CallOK, ShapeOK

(* A step to the removal or to the listing claims nothing new. *)
LEMMA ToListOK ==
  ASSUME NEW c, NEW n, NEW st, NEW reg, NEW m, CallOK(c, st, reg, m), Alike(n, c), c.pc \in ItemPcs,
         n.reply = "none", n.pc \in {"remove", "list"}
  PROVE  CallOK(n, st, reg, m)
<1>1. HeldOK(n) /\ ListOK(n)
  BY SMTT(30) DEF HeldOK, ListOK
<1>2. KeptOK(n, reg)
  BY SMTT(30) DEF KeptOK
<1>3. c.pc # "idle" /\ n.pc \in ItemPcs /\ n.pc \notin {"legacy", "legacy_secret", "item_attr", "surface", "secret"}
  BY SMTT(30) DEF ItemPcs
<1> QED
  BY <1>1, <1>2, <1>3, NextCall

LEMMA GetKeeps == ASSUME NamespaceInv, NEW t \in Threads, Get(t) PROVE NamespaceInv'
<1> DEFINE c == call[t]
           a == [c EXCEPT !.pc = "list"]
           b == [c EXCEPT !.pc = "current", !.held = inventory[c.want]]
<1>0. c.pc = "get" /\ c.pc \in ItemPcs
  BY DEF Get, At, ItemPcs
<1>1. CASE inventory[c.want] = Absent
  <2>1. Alike(a, c) /\ a.reply = "none" /\ a.pc = "list"
    BY CallFacts, SMTT(30) DEF Alike, CallFields
  <2>2. Step(t, a)
    BY <1>1 DEF Get
  <2> HIDE DEF a
  <2> QED
    BY <1>0, <2>1, <2>2, CallFacts, ToListOK, StepKeeps
<1>2. CASE inventory[c.want] # Absent
  <2>1. Alike(b, c) /\ b.reply = "none" /\ b.pc = "current" /\ b.held = inventory[c.want]
    BY CallFacts, SMTT(30) DEF Alike, CallFields
  <2>2. Step(t, b)
    BY <1>2 DEF Get
  <2> HIDE DEF b
  <2>3. c.want \in Ids
    BY <1>0, CallFacts DEF CallOK, HeldOK
  <2>4. ItemOK(b.held) /\ b.held.id = b.want
    BY <1>2, <2>1, <2>3 DEF NamespaceInv, InventoryInv, Alike
  <2>5. HeldOK(b)
    BY <2>1, <2>4, SMTT(30) DEF HeldOK
  <2>6. ListOK(b) /\ KeptOK(b, registry)
    BY <2>1, SMTT(30) DEF ListOK, KeptOK
  <2>7. CallOK(b, store, registry, inoOf)
    BY <1>0, <2>1, <2>5, <2>6, CallFacts, NextCall DEF ItemPcs
  <2> QED
    BY <2>1, <2>2, <2>7, StepKeeps
<1> QED
  BY <1>1, <1>2

LEMMA CurrentSurfaceKeeps ==
  ASSUME NamespaceInv, NEW t \in Threads, CurrentSurface(t) PROVE NamespaceInv'
<1> DEFINE c == call[t]
           f == c.held.back
           a == [c EXCEPT !.pc = "found", !.held = SurfaceItem(f, registry)]
           b == [c EXCEPT !.pc = "remove", !.held = Absent]
<1>0. c.pc = "current" /\ c.pc \in ItemPcs /\ f \in Surfaces
  BY DEF CurrentSurface, At, ItemPcs
<1>1. CASE f \in Listed(registry) /\ registry[f].item = c.held.id
  <2>1. /\ Alike(a, c) /\ a.reply = "none" /\ a.pc = "found"
        /\ a.held.back = f /\ a.held.id = registry[f].item
    BY CallFacts, SMTT(30) DEF Alike, CallFields, SurfaceItem
  <2>2. Step(t, a)
    BY <1>1 DEF CurrentSurface
  <2>3. c.held.id = c.want
    BY <1>0, CallFacts DEF CallOK, HeldOK
  <2> HIDE DEF a
  <2>4. ItemOK(a.held) /\ a.held.id = a.want
    BY <1>0, <1>1, <2>1, <2>3, IdsFacts DEF ItemOK, Alike
  <2>5. Live(a, a.held)
    BY <1>0, <1>1, <2>1, CallFacts DEF Live, Alike
  <2>6. HeldOK(a)
    BY <2>1, <2>4, <2>5, SMTT(30) DEF HeldOK
  <2>7. ListOK(a)
    BY <2>1, SMTT(30) DEF ListOK
  <2>8. ASSUME NEW s \in Secrets, a.asked = <<"file", s>> PROVE Publishes(registry, a.held.back, s)
    <3>1. c.asked = <<"file", s>>
      BY <2>1, <2>8 DEF Alike
    <3>3. c.want = s
      BY <1>0, <3>1, CallFacts, WantedSecret
    <3> QED
      BY <1>1, <2>1, <2>3, <3>3 DEF Publishes
  <2>9. KeptOK(a, registry)
    BY <2>1, <2>8, SMTT(30) DEF KeptOK
  <2>10. CallOK(a, store, registry, inoOf)
    BY <1>0, <2>1, <2>6, <2>7, <2>9, CallFacts, NextCall DEF ItemPcs
  <2> QED
    BY <2>1, <2>2, <2>10, StepKeeps
<1>2. CASE ~(f \in Listed(registry) /\ registry[f].item = c.held.id)
  <2>1. Alike(b, c) /\ b.reply = "none" /\ b.pc = "remove"
    BY CallFacts, SMTT(30) DEF Alike, CallFields
  <2>2. Step(t, b)
    BY <1>2 DEF CurrentSurface
  <2> HIDE DEF b
  <2> QED
    BY <1>0, <2>1, <2>2, CallFacts, ToListOK, StepKeeps
<1> QED
  BY <1>1, <1>2

LEMMA CurrentRecordKeeps ==
  ASSUME NamespaceInv, NEW t \in Threads, CurrentRecord(t) PROVE NamespaceInv'
<1> DEFINE c == call[t]
           s == c.held.back
           a == [c EXCEPT !.pc = "configured", !.held = SecretItem(s, store)]
           b(failed) == [Noting(c, failed) EXCEPT !.pc = "remove", !.held = Absent]
<1>0. c.pc = "current" /\ c.pc \in ItemPcs /\ s \in Secrets
  BY DEF CurrentRecord, At, ItemPcs
<1>1. PICK failed \in BOOLEAN : Step(t, IF s \in Exposed(Records(failed)) THEN a ELSE b(failed))
  BY DEF CurrentRecord
<1>2. CASE s \in Exposed(Records(failed))
  <2>1. s \in Exposed(store)
    BY <1>2, ExposedFacts
  <2>2. /\ Alike(a, c) /\ a.reply = "none" /\ a.pc = "configured"
        /\ a.held.back = s /\ a.held.id = s
    BY CallFacts, SMTT(30) DEF Alike, CallFields, SecretItem
  <2>3. Step(t, a)
    BY <1>1, <1>2
  <2>4. c.held.id = c.want /\ ItemOK(c.held)
    BY <1>0, CallFacts DEF CallOK, HeldOK
  <2> HIDE DEF a
  <2>5. ItemOK(a.held) /\ a.held.id = a.want
    BY <1>0, <2>2, <2>4, IdsFacts DEF ItemOK, Alike
  <2>6. a.held.back \in Secrets /\ \E st \in a.stores : a.held.back \in Exposed(st)
    BY <1>0, <2>1, <2>2, CallFacts DEF Alike
  <2>7. HeldOK(a)
    BY <2>2, <2>5, <2>6, SMTT(30) DEF HeldOK
  <2>8. ListOK(a) /\ KeptOK(a, registry)
    BY <2>2, SMTT(30) DEF ListOK, KeptOK
  <2>9. CallOK(a, store, registry, inoOf)
    BY <1>0, <2>2, <2>7, <2>8, CallFacts, NextCall DEF ItemPcs
  <2> QED
    BY <2>2, <2>3, <2>9, StepKeeps
<1>3. CASE s \notin Exposed(Records(failed))
  <2> DEFINE n == b(failed)
  <2>1. Alike(n, c) /\ n.reply = "none" /\ n.pc = "remove"
    BY CallFacts, SMTT(30) DEF Alike, CallFields, Noting
  <2>2. Step(t, n)
    BY <1>1, <1>3
  <2> HIDE DEF n
  <2> QED
    BY <1>0, <2>1, <2>2, CallFacts, ToListOK, StepKeeps
<1> QED
  BY <1>2, <1>3

LEMMA CurrentConfiguredKeeps ==
  ASSUME NamespaceInv, NEW t \in Threads, CurrentConfigured(t) PROVE NamespaceInv'
<1> DEFINE c == call[t]
           a == [c EXCEPT !.pc = "found"]
           b == [c EXCEPT !.pc = "remove", !.held = Absent]
<1>0. c.pc = "configured" /\ c.pc \in ItemPcs
  BY DEF CurrentConfigured, At, ItemPcs
<1>1. CASE c.held.id \notin ConfiguredIds(registry)
  <2>1. Alike(a, c) /\ a.reply = "none" /\ a.pc = "found" /\ a.held = c.held
    BY CallFacts, SMTT(30) DEF Alike, CallFields
  <2>2. Step(t, a)
    BY <1>1 DEF CurrentConfigured
  <2>3. /\ ItemOK(c.held) /\ c.held.id = c.want /\ c.held.back \in Secrets
        /\ \E st \in c.stores : c.held.back \in Exposed(st)
    BY <1>0, CallFacts DEF CallOK, HeldOK
  <2> HIDE DEF a
  <2>4. c.held.back = c.held.id /\ c.held.back \notin Surfaces
    BY <2>3, IdsFacts DEF ItemOK
  <2>5. Live(a, a.held)
    BY <1>0, <1>1, <2>1, <2>3, <2>4, CallFacts DEF Live, Alike
  <2>6. HeldOK(a)
    BY <2>1, <2>3, <2>5, SMTT(30) DEF HeldOK, Alike
  <2>7. ListOK(a) /\ KeptOK(a, registry)
    BY <2>1, <2>4, SMTT(30) DEF ListOK, KeptOK
  <2>8. CallOK(a, store, registry, inoOf)
    BY <1>0, <2>1, <2>6, <2>7, CallFacts, NextCall DEF ItemPcs
  <2> QED
    BY <2>1, <2>2, <2>8, StepKeeps
<1>2. CASE c.held.id \in ConfiguredIds(registry)
  <2>1. Alike(b, c) /\ b.reply = "none" /\ b.pc = "remove"
    BY CallFacts, SMTT(30) DEF Alike, CallFields
  <2>2. Step(t, b)
    BY <1>2 DEF CurrentConfigured
  <2> HIDE DEF b
  <2> QED
    BY <1>0, <2>1, <2>2, CallFacts, ToListOK, StepKeeps
<1> QED
  BY <1>1, <1>2

LEMMA RemoveKeeps == ASSUME NamespaceInv, NEW t \in Threads, Remove(t) PROVE NamespaceInv'
<1> DEFINE c == call[t]
           n == [c EXCEPT !.pc = "list"]
<1>0. c.pc = "remove" /\ c.pc \in ItemPcs
  BY DEF Remove, At, ItemPcs
<1>1. Alike(n, c) /\ n.reply = "none" /\ n.pc = "list"
  BY CallFacts, SMTT(30) DEF Alike, CallFields
<1>2. Goto(t, n) /\ UNCHANGED <<store, registry, inoOf, nextIno>>
  BY DEF Remove
<1>3. InventoryInv'
  BY SMTT(30) DEF Remove, NamespaceInv, InventoryInv
<1> HIDE DEF n
<1> QED
  BY <1>0, <1>1, <1>2, <1>3, CallFacts, ToListOK, InventoryStepKeeps

LEMMA ListPlansKeeps == ASSUME NamespaceInv, NEW t \in Threads, ListPlans(t) PROVE NamespaceInv'
<1> DEFINE c == call[t]
           n == [c EXCEPT !.pc = "records", !.plans = registry]
<1>0. c.pc = "list" /\ c.pc \in ItemPcs
  BY DEF ListPlans, At, ItemPcs
<1>1. Alike(n, c) /\ n.reply = "none" /\ n.pc = "records" /\ n.plans = registry
  BY CallFacts, SMTT(30) DEF Alike, CallFields
<1>2. Step(t, n)
  BY DEF ListPlans
<1> HIDE DEF n
<1>3. n.plans \in Registries /\ n.plans \in n.registries
  BY <1>0, <1>1, CallFacts DEF NamespaceInv, Alike
<1>4. HeldOK(n)
  BY <1>1, SMTT(30) DEF HeldOK
<1>5. ListOK(n) /\ KeptOK(n, registry)
  BY <1>1, <1>3, SMTT(30) DEF ListOK, KeptOK
<1>6. CallOK(n, store, registry, inoOf)
  BY <1>0, <1>1, <1>4, <1>5, CallFacts, NextCall DEF ItemPcs
<1> QED
  BY <1>1, <1>2, <1>6, StepKeeps

LEMMA ListRecordsKeeps ==
  ASSUME NamespaceInv, NEW t \in Threads, ListRecords(t) PROVE NamespaceInv'
<1> DEFINE c == call[t]
<1>0. c.pc = "records" /\ c.pc \in ItemPcs
  BY DEF ListRecords, At, ItemPcs
<1>1. PICK failed \in BOOLEAN :
        LET items == ItemsOf(c.plans, Records(failed)) IN
        Step(t, [Noting(c, failed) EXCEPT !.pc = "clear", !.plans = Absent,
                                          !.items = items, !.left = items])
  BY DEF ListRecords
<1> DEFINE items == ItemsOf(c.plans, Records(failed))
           n == [Noting(c, failed) EXCEPT !.pc = "clear", !.plans = Absent,
                                          !.items = items, !.left = items]
<1>2. Step(t, n)
  BY <1>1
<1>3. /\ Alike(n, c) /\ n.reply = "none" /\ n.pc = "clear" /\ n.items = items /\ n.left = items
      /\ (failed => n.failed)
  BY CallFacts, SMTT(30) DEF Alike, CallFields, Noting
<1> HIDE DEF n
<1>4. c.plans \in Registries /\ c.plans \in c.registries
  BY <1>0, CallFacts DEF CallOK, ListOK
<1>5. \A x \in items : ItemOK(x) /\ Live(n, x)
  <2>1. c.plans \in n.registries /\ (Records(failed) \in n.stores \/ Exposed(Records(failed)) = {})
    BY <1>0, <1>3, <1>4, CallFacts, ExposedFacts DEF Alike
  <2> QED
    BY <2>1, ItemsOfOK
<1>6. HeldOK(n)
  BY <1>3, SMTT(30) DEF HeldOK
<1>7. ListOK(n)
  BY <1>3, <1>5, SMTT(30) DEF ListOK
<1>8. ASSUME NEW s \in Secrets, n.asked = <<"file", s>>, Kept(n, s)
      PROVE  /\ \E x \in items : x.id = s
             /\ \A x \in items : x.id = s /\ x.back \in Surfaces => Publishes(registry, x.back, s)
  <2>1. Kept(c, s) /\ c.asked = <<"file", s>>
    BY <1>3, <1>8, AlikeFacts DEF Alike
  <2>2. ~failed /\ s \in Exposed(store)
    BY <1>0, <1>3, <1>8, CallFacts DEF Kept, Alike
  <2>3. items = ItemsOf(c.plans, store)
    BY <2>2, ExposedFacts
  <2>4. /\ \E x \in items : x.id = s
        /\ \A x \in items : x.id = s /\ x.back \in Surfaces => Publishes(c.plans, x.back, s)
    <3>1. /\ \E x \in ItemsOf(c.plans, store) : x.id = s
          /\ \A x \in ItemsOf(c.plans, store) : x.id = s /\ x.back \in Surfaces =>
               x.back \in Listed(c.plans) /\ c.plans[x.back].item = s
      BY <2>2, ItemsOfComplete, SMTT(30)
    <3> QED
      BY <2>3, <3>1 DEF Publishes
  <2>5. \A f : Publishes(c.plans, f, s) => Publishes(registry, f, s)
    <3>1. \A f \in Listed(c.plans) : c.plans[f].item = s => registry[f] = c.plans[f]
      BY <1>0, <2>1, CallFacts DEF CallOK, KeptOK
    <3> QED
      BY <3>1 DEF Publishes, Listed
  <2> QED
    BY <2>4, <2>5
<1>9. KeptOK(n, registry)
  BY <1>3, <1>8, SMTT(30) DEF KeptOK
<1>10. CallOK(n, store, registry, inoOf)
  BY <1>0, <1>3, <1>6, <1>7, <1>9, CallFacts, NextCall DEF ItemPcs
<1> QED
  BY <1>2, <1>3, <1>10, StepKeeps

LEMMA ClearKeeps == ASSUME NamespaceInv, NEW t \in Threads, Clear(t) PROVE NamespaceInv'
<1> DEFINE c == call[t]
           n == [c EXCEPT !.pc = "insert"]
<1>0. c.pc = "clear" /\ c.pc \in ItemPcs
  BY DEF Clear, At, ItemPcs
<1>1. Alike(n, c) /\ n.reply = "none" /\ n.pc = "insert" /\ n.items = c.items /\ n.left = c.left
  BY CallFacts, SMTT(30) DEF Alike, CallFields
<1>2. Goto(t, n) /\ UNCHANGED <<store, registry, inoOf, nextIno>>
  BY DEF Clear
<1>3. InventoryInv'
  BY DEF Clear, InventoryInv
<1> HIDE DEF n
<1>4. HeldOK(n)
  BY <1>1, SMTT(30) DEF HeldOK
<1>5. ListOK(c) /\ KeptOK(c, registry)
  BY CallFacts DEF CallOK
<1>6. ListOK(n)
  BY <1>0, <1>1, <1>5, AlikeFacts DEF ListOK
<1>7. KeptOK(n, registry)
  BY <1>0, <1>1, <1>5, AlikeFacts DEF KeptOK, Alike
<1>8. CallOK(n, store, registry, inoOf)
  BY <1>0, <1>1, <1>4, <1>6, <1>7, CallFacts, NextCall DEF ItemPcs
<1> QED
  BY <1>1, <1>2, <1>3, <1>8, InventoryStepKeeps

LEMMA InsertKeeps == ASSUME NamespaceInv, NEW t \in Threads, Insert(t) PROVE NamespaceInv'
<1> DEFINE c == call[t]
<1>0. c.pc = "insert" /\ c.pc \in ItemPcs
  BY DEF Insert, At, ItemPcs
<1>1. PICK x \in c.left : /\ inventory' = [inventory EXCEPT ![x.id] = x]
                          /\ Goto(t, [c EXCEPT !.left = @ \ {x}])
  BY DEF Insert
<1> DEFINE n == [c EXCEPT !.left = @ \ {x}]
<1>2. Alike(n, c) /\ n.reply = "none" /\ n.pc = "insert" /\ n.items = c.items /\ n.left = c.left \ {x}
  BY <1>0, CallFacts, SMTT(30) DEF Alike, CallFields
<1>3. Goto(t, n) /\ UNCHANGED <<store, registry, inoOf, nextIno>>
  BY <1>1 DEF Insert
<1> HIDE DEF n
<1>4. ListOK(c) /\ KeptOK(c, registry)
  BY CallFacts DEF CallOK
<1>5. ItemOK(x)
  BY <1>0, <1>1, <1>4 DEF ListOK
<1>6. InventoryInv'
  <2>1. DOMAIN inventory' = Ids
    BY <1>1 DEF NamespaceInv, InventoryInv
  <2>2. \A i \in Ids : inventory'[i] = IF i = x.id THEN x ELSE inventory[i]
    BY <1>1, SMTT(30) DEF NamespaceInv, InventoryInv
  <2> QED
    BY <1>5, <2>1, <2>2 DEF NamespaceInv, InventoryInv
<1>7. HeldOK(n)
  BY <1>2, SMTT(30) DEF HeldOK
<1>8. ListOK(n)
  BY <1>0, <1>2, <1>4, AlikeFacts DEF ListOK
<1>9. KeptOK(n, registry)
  BY <1>0, <1>2, <1>4, AlikeFacts DEF KeptOK, Alike
<1>10. CallOK(n, store, registry, inoOf)
  BY <1>0, <1>2, <1>7, <1>8, <1>9, CallFacts, NextCall DEF ItemPcs
<1> QED
  BY <1>2, <1>3, <1>6, <1>10, InventoryStepKeeps

LEMMA ListEndsKeeps == ASSUME NamespaceInv, NEW t \in Threads, ListEnds(t) PROVE NamespaceInv'
<1> DEFINE c == call[t]
           wanted == {x \in c.items : x.id = c.want}
<1>0. c.pc = "insert" /\ c.pc \in ItemPcs /\ CallOK(c, store, registry, inoOf)
  BY CallFacts DEF ListEnds, At, ItemPcs
<1>1. ListOK(c) /\ KeptOK(c, registry) /\ \A x \in c.items : ItemOK(x) /\ Live(c, x)
  BY <1>0 DEF CallOK, ListOK
<1>2. CASE c.op = "readdir_items" /\ Step(t, [c EXCEPT !.pc = "dirs", !.left = c.items])
  <2> DEFINE n == [c EXCEPT !.pc = "dirs", !.left = c.items]
  <2>1. Alike(n, c) /\ n.reply = "none" /\ n.pc = "dirs" /\ n.items = c.items /\ n.left = c.items
    BY CallFacts, SMTT(30) DEF Alike, CallFields
  <2>2. Step(t, n)
    BY <1>2
  <2> HIDE DEF n
  <2>3. HeldOK(n) /\ KeptOK(n, registry)
    BY <2>1, SMTT(30) DEF HeldOK, KeptOK
  <2>4. ListOK(n)
    BY <1>1, <2>1, AlikeFacts, SMTT(30) DEF ListOK
  <2>5. CallOK(n, store, registry, inoOf)
    BY <1>0, <2>1, <2>3, <2>4, NextCall DEF ItemPcs
  <2> QED
    BY <2>1, <2>2, <2>5, StepKeeps
<1>3. CASE /\ wanted # {}
           /\ Step(t, [c EXCEPT !.pc = "found", !.held = CHOOSE x \in wanted : TRUE, !.items = {}])
  <2> DEFINE h == CHOOSE x \in wanted : TRUE
             n == [c EXCEPT !.pc = "found", !.held = h, !.items = {}]
  <2>1. h \in c.items /\ h.id = c.want
    BY <1>3
  <2> HIDE DEF h
  <2>2. Alike(n, c) /\ n.reply = "none" /\ n.pc = "found" /\ n.held = h
    BY CallFacts, SMTT(30) DEF Alike, CallFields
  <2>3. Step(t, n)
    BY <1>3 DEF h
  <2> HIDE DEF n
  <2>4. ItemOK(n.held) /\ n.held.id = n.want /\ Live(n, n.held)
    BY <1>1, <2>1, <2>2, AlikeFacts DEF Alike
  <2>5. HeldOK(n)
    BY <2>2, <2>4, SMTT(30) DEF HeldOK
  <2>6. ListOK(n)
    BY <2>2, SMTT(30) DEF ListOK
  <2>7. ASSUME NEW s \in Secrets, n.asked = <<"file", s>>, Kept(n, s), h.back \in Surfaces
        PROVE  Publishes(registry, h.back, s)
    <3>1. c.asked = <<"file", s>> /\ Kept(c, s)
      BY <2>2, <2>7, AlikeFacts DEF Alike
    <3>2. c.want = s
      BY <1>0, <3>1, WantedSecret
    <3> QED
      BY <1>0, <1>1, <2>1, <2>7, <3>1, <3>2 DEF KeptOK
  <2>8. KeptOK(n, registry)
    BY <2>2, <2>7, SMTT(30) DEF KeptOK
  <2>9. CallOK(n, store, registry, inoOf)
    BY <1>0, <2>2, <2>5, <2>6, <2>8, NextCall DEF ItemPcs
  <2> QED
    BY <2>2, <2>3, <2>9, StepKeeps
<1>4. CASE wanted = {} /\ Step(t, NotFound(c))
  <2>1. ASSUME NEW s \in Secrets, c.asked = <<"file", s>> PROVE ~Kept(c, s)
    <3>1. c.want = s
      BY <1>0, <2>1, WantedSecret
    <3> QED
      BY <1>0, <1>1, <1>4, <2>1, <3>1 DEF KeptOK
  <2>2. CASE c.op \in {"open", "getattr"}
    <3> DEFINE n == [c EXCEPT !.pc = "legacy", !.items = {}]
    <3>1. Alike(n, c) /\ n.reply = "none" /\ n.pc = "legacy"
      BY CallFacts, SMTT(30) DEF Alike, CallFields
    <3>2. Step(t, n)
      BY <1>4, <2>2 DEF NotFound
    <3> HIDE DEF n
    <3>3. HeldOK(n) /\ ListOK(n)
      BY <3>1, SMTT(30) DEF HeldOK, ListOK
    <3>4. KeptOK(n, registry)
      BY <2>1, <3>1, AlikeFacts DEF KeptOK, Alike
    <3>5. CallOK(n, store, registry, inoOf)
      BY <1>0, <2>2, <3>1, <3>3, <3>4, NextCall DEF ItemPcs, Alike
    <3> QED
      BY <3>1, <3>2, <3>5, StepKeeps
  <2>3. CASE c.op \notin {"open", "getattr"}
    <3> DEFINE n == Answer(c, "enoent")
    <3>1. Alike(n, c) /\ n.reply = "enoent"
      BY CallFacts, SMTT(30) DEF Alike, CallFields, Answer
    <3>2. Step(t, n)
      BY <1>4, <2>3 DEF NotFound
    <3> HIDE DEF n
    <3>3. AnswerOK(n)
      BY <2>1, <3>1, AlikeFacts DEF AnswerOK, Alike
    <3> QED
      BY <3>1, <3>2, <3>3, StepKeeps
  <2> QED
    BY <2>2, <2>3
<1> QED
  BY <1>2, <1>3, <1>4 DEF ListEnds

-----------------------------------------------------------------------------
(* What the calls answer. *)

(* A call that is not about an inode may fail. *)
LEMMA OtherEnoentOK ==
  ASSUME NEW c, NEW n, NEW st, NEW reg, NEW m, CallOK(c, st, reg, m), c.op \notin {"open", "getattr"},
         Alike(n, c), n.reply = "enoent"
  PROVE  AnswerOK(n)
BY WantedSecret DEF AnswerOK, Alike

(* So may one whose item is not kept. *)
LEMMA LostEnoentOK ==
  ASSUME NEW c, NEW n, \A s \in Secrets : c.asked = <<"file", s>> => ~Kept(c, s),
         Alike(n, c), n.reply = "enoent"
  PROVE  AnswerOK(n)
BY AlikeFacts DEF AnswerOK, Alike

LEMMA FoundFacts ==
  ASSUME NamespaceInv, NEW t \in Threads, call[t].pc \in {"found", "item_attr"}
  PROVE  /\ ItemOK(call[t].held) /\ call[t].held.id = call[t].want /\ Live(call[t], call[t].held)
         /\ call[t].pc # "idle"
BY CallFacts DEF CallOK, HeldOK

LEMMA LookupDirKeeps == ASSUME NamespaceInv, NEW t \in Threads, LookupDir(t) PROVE NamespaceInv'
<1> DEFINE c == call[t]
           n == Answer([c EXCEPT !.via = "dir"], "entry")
<1>1. Alike(n, c) /\ n.reply = "entry" /\ n.held = c.held
  BY CallFacts, SMTT(30) DEF Alike, CallFields, Answer
<1>2. Naming(t, <<"dir", c.want>>, n) /\ c.pc = "found"
  BY DEF LookupDir, At
<1> HIDE DEF n
<1>3. AnswerOK(n)
  BY <1>1, <1>2, FoundFacts, AlikeFacts, LiveWas, SMTT(30) DEF AnswerOK
<1> QED
  BY <1>1, <1>2, <1>3, NamingKeeps

LEMMA ReaddirItemKeeps == ASSUME NamespaceInv, NEW t \in Threads, ReaddirItem(t) PROVE NamespaceInv'
<1> DEFINE c == call[t]
           n == Answer([c EXCEPT !.via = "file"], "entry")
<1>1. Alike(n, c) /\ n.reply = "entry" /\ n.held = c.held
  BY CallFacts, SMTT(30) DEF Alike, CallFields, Answer
<1>2. Naming(t, <<"file", c.held.id>>, n) /\ c.pc = "found"
  BY DEF ReaddirItem, At
<1> HIDE DEF n
<1>3. AnswerOK(n)
  BY <1>1, <1>2, FoundFacts, AlikeFacts, LiveWas, SMTT(30) DEF AnswerOK
<1> QED
  BY <1>1, <1>2, <1>3, NamingKeeps

LEMMA LookupFileKeeps == ASSUME NamespaceInv, NEW t \in Threads, LookupFile(t) PROVE NamespaceInv'
<1> DEFINE c == call[t]
           a == Answer(c, "enoent")
           n == [c EXCEPT !.pc = "item_attr"]
<1>0. c.pc = "found" /\ c.op = "lookup_file" /\ c.op \notin {"open", "getattr"}
  BY DEF LookupFile, At
<1>1. CASE Step(t, a)
  <2>1. Alike(a, c) /\ a.reply = "enoent"
    BY CallFacts, SMTT(30) DEF Alike, CallFields, Answer
  <2> HIDE DEF a
  <2> QED
    BY <1>0, <1>1, <2>1, CallFacts, OtherEnoentOK, StepKeeps
<1>2. CASE Naming(t, <<"file", c.held.id>>, n)
  <2>1. Alike(n, c) /\ n.reply = "none" /\ n.pc = "item_attr" /\ n.held = c.held
    BY CallFacts, SMTT(30) DEF Alike, CallFields
  <2> HIDE DEF n
  <2>2. HeldOK(n)
    BY <1>0, <2>1, FoundFacts, AlikeFacts, SMTT(30) DEF HeldOK, Alike
  <2>3. ListOK(n) /\ KeptOK(n, registry)
    BY <2>1, SMTT(30) DEF ListOK, KeptOK
  <2>4. n.op \notin {"open", "getattr"} /\ n.pc \notin ItemPcs /\ c.pc # "idle"
    BY <1>0, <2>1 DEF Alike, ItemPcs
  <2>5. CallOK(n, store, registry, inoOf)
    BY <2>1, <2>2, <2>3, <2>4, CallFacts, NextCall
  <2> QED
    BY <1>2, <2>1, <2>5, NamingKeeps
<1> QED
  BY <1>1, <1>2 DEF LookupFile

LEMMA ReaddirDirsKeeps == ASSUME NamespaceInv, NEW t \in Threads, ReaddirDirs(t) PROVE NamespaceInv'
<1> DEFINE c == call[t]
<1>0. c.pc = "dirs" /\ CallOK(c, store, registry, inoOf)
  BY CallFacts DEF ReaddirDirs, At
<1>1. c.left \subseteq c.items /\ \A x \in c.items : ItemOK(x) /\ Live(c, x)
  BY <1>0 DEF CallOK, ListOK
<1>2. ASSUME NEW x \in c.left, Naming(t, <<"dir", x.id>>, [c EXCEPT !.left = @ \ {x}])
      PROVE  NamespaceInv'
  <2> DEFINE n == [c EXCEPT !.left = @ \ {x}]
  <2>1. Alike(n, c) /\ n.reply = "none" /\ n.pc = "dirs" /\ n.items = c.items /\ n.left = c.left \ {x}
    BY <1>0, CallFacts, SMTT(30) DEF Alike, CallFields
  <2>2. Naming(t, <<"dir", x.id>>, n)
    BY <1>2
  <2> HIDE DEF n
  <2>3. HeldOK(n) /\ KeptOK(n, registry)
    BY <2>1, SMTT(30) DEF HeldOK, KeptOK
  <2>4. ListOK(n)
    BY <1>1, <2>1, AlikeFacts, SMTT(30) DEF ListOK
  <2>5. CallOK(n, store, registry, inoOf)
    BY <1>0, <2>1, <2>3, <2>4, NextCall DEF ItemPcs
  <2> QED
    BY <2>1, <2>2, <2>5, NamingKeeps
<1>3. CASE Step(t, Answer(c, "list"))
  <2> DEFINE n == Answer(c, "list")
  <2>1. Alike(n, c) /\ n.reply = "list" /\ n.items = c.items
    BY CallFacts, SMTT(30) DEF Alike, CallFields, Answer
  <2>2. Step(t, n)
    BY <1>3
  <2> HIDE DEF n
  <2>3. AnswerOK(n)
    BY <1>1, <2>1, AlikeFacts, LiveWas, SMTT(30) DEF AnswerOK
  <2> QED
    BY <2>1, <2>2, <2>3, StepKeeps
<1> QED
  BY <1>2, <1>3 DEF ReaddirDirs

(* resolve_open_target, for an inode of items/. *)
LEMMA ItemOpenTargetKeeps ==
  ASSUME NamespaceInv, NEW t \in Threads, ItemOpenTarget(t) PROVE NamespaceInv'
<1> DEFINE c == call[t]
           v == [c EXCEPT !.via = "file"]
           f == c.held.back
           n == IF f \in Secrets THEN Answer(v, "target")
                ELSE IF registry[f] = Absent THEN Answer(v, "enoent")
                ELSE Answer([v EXCEPT !.plan = registry[f]], "target")
<1>0. c.pc = "found" /\ v.op = "open" /\ v.held.back = f /\ v.op = c.op
  BY CallFacts, SMTT(30) DEF ItemOpenTarget, At, CallFields
<1>1. Step(t, n)
  BY <1>0 DEF ItemOpenTarget
<1>2. /\ Alike(n, c) /\ n.held = c.held /\ n.via = "file" /\ n.reply \in {"target", "enoent"}
      /\ n.reply = "enoent" => f \notin Secrets /\ registry[f] = Absent
  BY CallFacts, SMTT(30) DEF Alike, CallFields, Answer
<1> HIDE DEF n
<1>3. c.asked = <<"file", c.want>>
  BY <1>0, CallFacts DEF CallOK, AskedOK, ItemPcs
<1>4. CASE n.reply = "target"
  <2>1. n.asked = <<n.via, n.held.id>>
    BY <1>0, <1>2, <1>3, FoundFacts DEF Alike
  <2>2. WasLive(n, n.held)
    BY <1>0, <1>2, FoundFacts, AlikeFacts, LiveWas
  <2>3. AnswerOK(n)
    BY <1>4, <2>1, <2>2, SMTT(30) DEF AnswerOK
  <2> QED
    BY <1>1, <1>4, <2>3, StepKeeps
<1>5. CASE n.reply = "enoent"
  <2>1. f \in Surfaces /\ f \notin Listed(registry)
    BY <1>0, <1>2, <1>5, FoundFacts, IdsFacts DEF ItemOK, Listed
  <2>2. \A s \in Secrets : c.asked = <<"file", s>> => ~Kept(c, s)
    BY <1>0, <2>1, CallFacts DEF CallOK, KeptOK, Publishes
  <2>3. AnswerOK(n)
    BY <1>2, <1>5, <2>2, LostEnoentOK
  <2> QED
    BY <1>1, <1>5, <2>3, StepKeeps
<1> QED
  BY <1>2, <1>4, <1>5

(* surface_attr: of a surface that is listed. *)
LEMMA SurfaceAttrOK ==
  ASSUME NamespaceInv, NEW t \in Threads, call[t].pc # "idle",
         NEW d, Alike(d, call[t]), d.reply = "none", NEW b \in Listed(registry), d.held.back = b,
         \A s \in Secrets : call[t].asked = <<"file", s>> /\ Kept(call[t], s) => registry[b].item = s
  PROVE  LET n == SurfaceAttr(d, registry[b]) IN
         /\ n.reply = "none" => CallOK(n, store, registry, inoOf)
         /\ n.reply # "none" => AnswerOK(n)
<1> DEFINE c == call[t]
           n == SurfaceAttr(d, registry[b])
<1>0. registry \in Registries /\ b \in Surfaces /\ registry \in d.registries
  BY CallFacts DEF NamespaceInv, Listed, Alike
<1>1. CASE registry[b].backing = Composed
  <2>1. n = Answer([d EXCEPT !.plan = registry[b]], "attr")
    BY <1>1 DEF SurfaceAttr
  <2>2. n.reply = "attr" /\ n.held = d.held /\ n.registries = d.registries
    BY <2>1, SMTT(30) DEF Alike, CallFields, Answer
  <2> HIDE DEF n
  <2>3. WasLive(n, n.held)
    BY <1>0, <2>2 DEF WasLive
  <2>4. AnswerOK(n)
    BY <2>2, <2>3, SMTT(30) DEF AnswerOK
  <2> QED
    BY <2>2, <2>4 DEF n
<1>2. CASE registry[b].backing # Composed
  <2>1. n = [d EXCEPT !.pc = "direct_attr", !.plan = registry[b]]
    BY <1>2 DEF SurfaceAttr
  <2>2. /\ Alike(n, c) /\ n.reply = "none" /\ n.pc = "direct_attr" /\ n.held = d.held
        /\ n.plan = registry[b] /\ n.registries = d.registries
    BY <2>1, SMTT(30) DEF Alike, CallFields
  <2> HIDE DEF n
  <2>3. HeldOK(n)
    BY <1>0, <2>2, SMTT(30) DEF HeldOK
  <2>4. ListOK(n)
    BY <2>2, SMTT(30) DEF ListOK
  <2>5. ASSUME NEW s \in Secrets, n.asked = <<"file", s>>, Kept(n, s) PROVE n.plan.backing = s
    <3>1. registry[b].item = s
      BY <2>2, <2>5, AlikeFacts DEF Alike
    <3> QED
      BY <1>0, <1>2, <2>2, <3>1, PlanFacts
  <2>6. KeptOK(n, registry)
    BY <2>2, <2>5, SMTT(30) DEF KeptOK
  <2>7. CallOK(n, store, registry, inoOf)
    BY <2>2, <2>3, <2>4, <2>6, CallFacts, NextCall DEF ItemPcs
  <2> QED
    BY <2>2, <2>7 DEF n
<1> QED
  BY <1>1, <1>2

LEMMA ItemFileAttrKeeps == ASSUME NamespaceInv, NEW t \in Threads, ItemFileAttr(t) PROVE NamespaceInv'
<1> DEFINE c == call[t]
           v == [c EXCEPT !.via = "file"]
           b == c.held.back
<1>1. Alike(v, c) /\ v.reply = "none" /\ v.held = c.held /\ v.op = c.op
  BY CallFacts, SMTT(30) DEF Alike, CallFields
<1>2. /\ c.pc \in {"found", "item_attr"} /\ c.pc # "idle"
      /\ \/ /\ b \in Surfaces
            /\ Step(t, IF registry[b] = Absent THEN Answer(v, "enoent") ELSE SurfaceAttr(v, registry[b]))
         \/ /\ b \in Secrets
            /\ \E failed \in BOOLEAN :
                 Step(t, Answer(Noting(v, failed), IF b \in Exposed(Records(failed)) THEN "attr" ELSE "enoent"))
  BY <1>1 DEF ItemFileAttr, At
<1>3. ASSUME NEW s \in Secrets, c.asked = <<"file", s>>, Kept(c, s)
      PROVE  (b \in Surfaces => Publishes(registry, b, s)) /\ c.want = s
  <2>1. c.pc = "found"
    BY <1>2, <1>3, CallFacts, WantedSecret DEF CallOK, AskedOK
  <2>2. c.pc \in ItemPcs
    BY <2>1 DEF ItemPcs
  <2>3. CallOK(c, store, registry, inoOf) /\ KeptOK(c, registry)
    BY CallFacts DEF CallOK
  <2>4. c.want = s
    BY <1>3, <2>2, <2>3, WantedSecret
  <2>5. b \in Surfaces => Publishes(registry, b, s)
    BY <1>3, <2>1, <2>3 DEF KeptOK
  <2> QED
    BY <2>4, <2>5
<1>4. ItemOK(c.held) /\ c.held.id = c.want /\ Live(c, c.held)
  BY <1>2, FoundFacts
<1>5. CASE b \in Surfaces /\ registry[b] = Absent /\ Step(t, Answer(v, "enoent"))
  <2> DEFINE n == Answer(v, "enoent")
  <2>1. Alike(n, c) /\ n.reply = "enoent"
    BY CallFacts, SMTT(30) DEF Alike, CallFields, Answer
  <2>2. \A s \in Secrets : c.asked = <<"file", s>> => ~Kept(c, s)
    BY <1>3, <1>5 DEF Publishes, Listed
  <2>3. Step(t, n)
    BY <1>5
  <2> HIDE DEF n
  <2> QED
    BY <2>1, <2>2, <2>3, LostEnoentOK, StepKeeps
<1>6. CASE b \in Surfaces /\ registry[b] # Absent /\ Step(t, SurfaceAttr(v, registry[b]))
  <2>1. b \in Listed(registry)
    BY <1>6 DEF Listed
  <2>2. \A s \in Secrets : c.asked = <<"file", s>> /\ Kept(c, s) => registry[b].item = s
    BY <1>3, <1>6 DEF Publishes
  <2> DEFINE n == SurfaceAttr(v, registry[b])
  <2> HIDE DEF v
  <2>3. (n.reply = "none" => CallOK(n, store, registry, inoOf)) /\ (n.reply # "none" => AnswerOK(n))
    BY <1>1, <1>2, <2>1, <2>2, SurfaceAttrOK
  <2>4. Step(t, n)
    BY <1>6
  <2> HIDE DEF n
  <2> QED
    BY <2>3, <2>4, StepKeeps
<1>7. ASSUME b \in Secrets, NEW failed \in BOOLEAN,
             Step(t, Answer(Noting(v, failed), IF b \in Exposed(Records(failed)) THEN "attr" ELSE "enoent"))
      PROVE  NamespaceInv'
  <2> DEFINE n == Answer(Noting(v, failed), IF b \in Exposed(Records(failed)) THEN "attr" ELSE "enoent")
  <2>1. /\ Alike(n, c) /\ n.held = c.held /\ (failed => n.failed)
        /\ n.reply = IF b \in Exposed(Records(failed)) THEN "attr" ELSE "enoent"
    BY CallFacts, SMTT(30) DEF Alike, CallFields, Answer, Noting
  <2>2. Step(t, n)
    BY <1>7
  <2> HIDE DEF n
  <2>3. CASE b \in Exposed(Records(failed))
    <3>1. n.reply = "attr" /\ WasLive(n, n.held)
      BY <1>4, <2>1, <2>3, AlikeFacts, LiveWas
    <3>2. AnswerOK(n)
      BY <3>1, SMTT(30) DEF AnswerOK
    <3> QED
      BY <2>2, <3>1, <3>2, StepKeeps
  <2>4. CASE b \notin Exposed(Records(failed))
    <3>1. n.reply = "enoent"
      BY <2>1, <2>4
    <3>2. ASSUME NEW s \in Secrets, n.asked = <<"file", s>>, Kept(n, s) PROVE FALSE
      <4>1. c.asked = <<"file", s>> /\ Kept(c, s) /\ ~failed
        BY <2>1, <3>2, AlikeFacts DEF Alike, Kept
      <4>2. b = s
        BY <1>3, <1>4, <1>7, <4>1 DEF ItemOK
      <4>3. s \in Exposed(store)
        BY <1>2, <4>1, CallFacts DEF Kept
      <4> QED
        BY <2>4, <4>1, <4>2, <4>3, ExposedFacts
    <3>3. AnswerOK(n)
      BY <3>1, <3>2, SMTT(30) DEF AnswerOK
    <3> QED
      BY <2>2, <3>1, <3>3, StepKeeps
  <2> QED
    BY <2>3, <2>4
<1> QED
  BY <1>2, <1>5, <1>6, <1>7

LEMMA DirectAttrKeeps == ASSUME NamespaceInv, NEW t \in Threads, DirectAttr(t) PROVE NamespaceInv'
<1> DEFINE c == call[t]
           answer(failed) == IF Records(failed)[c.plan.backing] = Absent THEN "enoent" ELSE "attr"
<1>0. c.pc = "direct_attr" /\ c.pc # "idle" /\ CallOK(c, store, registry, inoOf)
  BY CallFacts DEF DirectAttr, At
<1>1. PICK failed \in BOOLEAN : Step(t, Answer(Noting(c, failed), answer(failed)))
  BY DEF DirectAttr
<1> DEFINE n == Answer(Noting(c, failed), answer(failed))
<1>2. Alike(n, c) /\ n.held = c.held /\ (failed => n.failed) /\ n.reply = answer(failed)
  BY CallFacts, SMTT(30) DEF Alike, CallFields, Answer, Noting
<1>3. Step(t, n)
  BY <1>1
<1> HIDE DEF n
<1>4. CASE answer(failed) = "attr"
  <2>1. c.held.back \in Surfaces /\ \E r \in c.registries : c.held.back \in Listed(r)
    BY <1>0 DEF CallOK, HeldOK
  <2>2. n.reply = "attr" /\ WasLive(n, n.held)
    BY <1>2, <1>4, <2>1 DEF WasLive, Alike
  <2>3. AnswerOK(n)
    BY <2>2, SMTT(30) DEF AnswerOK
  <2> QED
    BY <1>3, <2>2, <2>3, StepKeeps
<1>5. CASE Records(failed)[c.plan.backing] = Absent
  <2>1. n.reply = "enoent"
    BY <1>2, <1>5
  <2>2. ASSUME NEW s \in Secrets, n.asked = <<"file", s>>, Kept(n, s) PROVE FALSE
    <3>1. c.asked = <<"file", s>> /\ Kept(c, s) /\ ~failed
      BY <1>2, <2>2, AlikeFacts DEF Alike, Kept
    <3>2. c.plan.backing = s
      BY <1>0, <3>1 DEF CallOK, KeptOK
    <3>3. s \in Exposed(store)
      BY <1>0, <3>1, CallFacts DEF Kept
    <3> QED
      BY <1>5, <3>1, <3>2, <3>3, ExposedFacts
  <2>3. AnswerOK(n)
    BY <2>1, <2>2, SMTT(30) DEF AnswerOK
  <2> QED
    BY <1>3, <2>1, <2>3, StepKeeps
<1> QED
  BY <1>4, <1>5

(* The legacy namespaces. *)
LEMMA LegacyFacts ==
  ASSUME NamespaceInv, NEW t \in Threads, call[t].pc \in {"legacy", "legacy_secret"}
  PROVE  /\ call[t].pc # "idle" /\ call[t].op \in {"open", "getattr"}
         /\ \A s \in Secrets : call[t].asked = <<"file", s>> => ~Kept(call[t], s)
         /\ \A kind : \A k \in KeysAt(call[t].ino, {kind}) :
              call[t].asked = k /\ k = <<kind, k[2]>>
<1> DEFINE c == call[t]
<1>1. c.pc # "idle" /\ c.op \in {"open", "getattr"} /\ c.asked \in Keys /\ c.ino = inoOf[c.asked] /\ c.ino # 0
  BY CallFacts DEF CallOK, AskedOK
<1>2. \A s \in Secrets : c.asked = <<"file", s>> => ~Kept(c, s)
  BY CallFacts DEF CallOK, KeptOK
<1>3. ASSUME NEW kind, NEW k \in KeysAt(c.ino, {kind}) PROVE c.asked = k /\ k = <<kind, k[2]>>
  <2>1. k \in Keys /\ k[1] = kind /\ inoOf[k] = c.ino
    BY <1>3 DEF KeysAt
  <2> QED
    BY <1>1, <2>1, KeyFacts DEF NamespaceInv, InoInv
<1> QED
  BY <1>1, <1>2, <1>3

LEMMA ToLegacySecretOK ==
  ASSUME NamespaceInv, NEW t \in Threads, call[t].pc = "legacy",
         Step(t, [call[t] EXCEPT !.pc = "legacy_secret"])
  PROVE  NamespaceInv'
<1> DEFINE c == call[t]
           n == [c EXCEPT !.pc = "legacy_secret"]
<1>1. Alike(n, c) /\ n.reply = "none" /\ n.pc = "legacy_secret"
  BY CallFacts, SMTT(30) DEF Alike, CallFields
<1>2. Step(t, n)
  OBVIOUS
<1> HIDE DEF n
<1>3. HeldOK(n) /\ ListOK(n)
  BY <1>1, SMTT(30) DEF HeldOK, ListOK
<1>4. KeptOK(n, registry)
  BY <1>1, LegacyFacts, AlikeFacts DEF KeptOK, Alike
<1>5. CallOK(n, store, registry, inoOf)
  BY <1>1, <1>3, <1>4, CallFacts, LegacyFacts, NextCall DEF ItemPcs, Alike
<1> QED
  BY <1>1, <1>2, <1>5, StepKeeps

LEMMA LegacySurfaceKeeps == ASSUME NamespaceInv, NEW t \in Threads, LegacySurface(t) PROVE NamespaceInv'
<1> DEFINE c == call[t]
           fs == {k[2] : k \in KeysAt(c.ino, {"surfaces"})}
           f == CHOOSE x \in fs : TRUE
<1>0. c.pc = "legacy"
  BY DEF LegacySurface, At
<1>1. \/ Step(t, [c EXCEPT !.pc = "legacy_secret"])
      \/ Step(t, Answer(c, "enoent"))
      \/ /\ fs # {} /\ registry[f] # Absent
         /\ \/ Step(t, SurfaceAttr(SurfaceHeld(c, f), registry[f]))
            \/ Step(t, Answer([SurfaceHeld(c, f) EXCEPT !.plan = registry[f]], "target"))
  BY DEF LegacySurface
<1>2. CASE Step(t, [c EXCEPT !.pc = "legacy_secret"])
  BY <1>0, <1>2, ToLegacySecretOK
<1>3. CASE Step(t, Answer(c, "enoent"))
  <2> DEFINE n == Answer(c, "enoent")
  <2>1. Alike(n, c) /\ n.reply = "enoent"
    BY CallFacts, SMTT(30) DEF Alike, CallFields, Answer
  <2>2. Step(t, n)
    BY <1>3
  <2> HIDE DEF n
  <2> QED
    BY <1>0, <2>1, <2>2, LegacyFacts, LostEnoentOK, StepKeeps
<1>4. CASE fs # {} /\ registry[f] # Absent
  <2>1. f \in fs
    BY <1>4
  <2> HIDE DEF f
  <2>2. c.asked = <<"surfaces", f>> /\ f \in Surfaces
    BY <1>0, <2>1, LegacyFacts, KeyFacts DEF KeysAt
  <2>3. f \in Listed(registry)
    BY <1>4, <2>2 DEF Listed
  <2> DEFINE d == SurfaceHeld(c, f)
  <2>4. Alike(d, c) /\ d.reply = "none" /\ d.held.back = f
    BY CallFacts, SMTT(30) DEF Alike, CallFields, SurfaceHeld
  <2>5. CASE Step(t, SurfaceAttr(d, registry[f]))
    <3> DEFINE n == SurfaceAttr(d, registry[f])
    <3> HIDE DEF d
    <3>1. (n.reply = "none" => CallOK(n, store, registry, inoOf)) /\ (n.reply # "none" => AnswerOK(n))
      BY <1>0, <2>3, <2>4, LegacyFacts, SurfaceAttrOK
    <3>2. Step(t, n)
      BY <2>5
    <3> HIDE DEF n
    <3> QED
      BY <3>1, <3>2, StepKeeps
  <2>6. CASE Step(t, Answer([d EXCEPT !.plan = registry[f]], "target"))
    <3> DEFINE n == Answer([d EXCEPT !.plan = registry[f]], "target")
    <3>1. Alike(n, c) /\ n.reply = "target" /\ n.held.id = f /\ n.held.back = f /\ n.via = "surfaces"
      BY CallFacts, SMTT(30) DEF Alike, CallFields, SurfaceHeld, Answer
    <3>2. Step(t, n)
      BY <2>6
    <3> HIDE DEF n
    <3>3. WasLive(n, n.held)
      BY <1>0, <2>2, <2>3, <3>1, CallFacts, LegacyFacts DEF WasLive, Alike
    <3>4. n.asked = <<n.via, n.held.id>>
      BY <2>2, <3>1 DEF Alike
    <3>5. AnswerOK(n)
      BY <3>1, <3>3, <3>4, SMTT(30) DEF AnswerOK
    <3> QED
      BY <3>1, <3>2, <3>5, StepKeeps
  <2> QED
    BY <1>1, <1>2, <1>3, <2>5, <2>6 DEF f
<1> QED
  BY <1>1, <1>2, <1>3, <1>4

LEMMA LegacySecretKeeps == ASSUME NamespaceInv, NEW t \in Threads, LegacySecret(t) PROVE NamespaceInv'
<1> DEFINE c == call[t]
           ss == {k[2] : k \in KeysAt(c.ino, {"secrets"})}
           found(failed) == ss \cap Exposed(Records(failed))
<1>0. c.pc = "legacy_secret"
  BY DEF LegacySecret, At
<1>1. PICK failed \in BOOLEAN :
        Step(t, IF found(failed) = {} THEN Answer(Noting(c, failed), "enoent")
                ELSE Answer(SecretHeld(c, CHOOSE s \in found(failed) : TRUE),
                            IF c.op = "open" THEN "target" ELSE "attr"))
  BY DEF LegacySecret
<1>2. CASE found(failed) = {}
  <2> DEFINE n == Answer(Noting(c, failed), "enoent")
  <2>1. Alike(n, c) /\ n.reply = "enoent"
    BY CallFacts, SMTT(30) DEF Alike, CallFields, Answer, Noting
  <2>2. Step(t, n)
    BY <1>1, <1>2
  <2> HIDE DEF n
  <2> QED
    BY <1>0, <2>1, <2>2, LegacyFacts, LostEnoentOK, StepKeeps
<1>3. CASE found(failed) # {}
  <2> DEFINE s == CHOOSE x \in found(failed) : TRUE
             n == Answer(SecretHeld(c, s), IF c.op = "open" THEN "target" ELSE "attr")
  <2>1. Step(t, n)
    BY <1>1, <1>3
  <2>2. s \in ss /\ s \in Exposed(Records(failed))
    BY <1>3
  <2> HIDE DEF s
  <2>3. s \in Exposed(store) /\ s \in Secrets /\ s \notin Surfaces
    BY <2>2, ExposedFacts, IdsAssumption
  <2>4. c.asked = <<"secrets", s>>
    BY <1>0, <2>2, LegacyFacts
  <2>5. /\ Alike(n, c) /\ n.held.id = s /\ n.held.back = s /\ n.via = "secrets"
        /\ n.reply \in {"target", "attr"}
    BY CallFacts, SMTT(30) DEF Alike, CallFields, SecretHeld, SecretItem, Answer
  <2> HIDE DEF n
  <2>6. WasLive(n, n.held)
    BY <1>0, <2>3, <2>5, CallFacts, LegacyFacts DEF WasLive, Alike
  <2>7. n.asked = <<n.via, n.held.id>>
    BY <2>4, <2>5 DEF Alike
  <2>8. AnswerOK(n) /\ n.reply # "none"
    BY <2>5, <2>6, <2>7, SMTT(30) DEF AnswerOK
  <2> QED
    BY <2>1, <2>8, StepKeeps
<1> QED
  BY <1>2, <1>3

LEMMA LookupSurfaceKeeps == ASSUME NamespaceInv, NEW t \in Threads, LookupSurface(t) PROVE NamespaceInv'
<1> DEFINE c == call[t]
<1>0. c.pc = "surface" /\ c.pc # "idle" /\ CallOK(c, store, registry, inoOf)
  BY CallFacts DEF LookupSurface, At
<1>1. c.want \in Surfaces /\ c.op \notin {"open", "getattr"}
  BY <1>0 DEF CallOK, HeldOK, AskedOK
<1>2. CASE Step(t, Answer(c, "enoent"))
  <2> DEFINE n == Answer(c, "enoent")
  <2>1. Alike(n, c) /\ n.reply = "enoent"
    BY CallFacts, SMTT(30) DEF Alike, CallFields, Answer
  <2>2. Step(t, n)
    BY <1>2
  <2> HIDE DEF n
  <2> QED
    BY <1>0, <1>1, <2>1, <2>2, OtherEnoentOK, StepKeeps
<1>3. CASE /\ registry[c.want] # Absent
           /\ Naming(t, <<"surfaces", c.want>>, SurfaceAttr(SurfaceHeld(c, c.want), registry[c.want]))
  <2> DEFINE d == SurfaceHeld(c, c.want)
             n == SurfaceAttr(d, registry[c.want])
  <2>1. Alike(d, c) /\ d.reply = "none" /\ d.held.back = c.want
    BY CallFacts, SMTT(30) DEF Alike, CallFields, SurfaceHeld
  <2>2. c.want \in Listed(registry)
    BY <1>1, <1>3 DEF Listed
  <2>3. \A s \in Secrets : c.asked # <<"file", s>>
    BY <1>0, <1>1, WantedSecret
  <2>4. Naming(t, <<"surfaces", c.want>>, n)
    BY <1>3
  <2> HIDE DEF d
  <2>5. (n.reply = "none" => CallOK(n, store, registry, inoOf)) /\ (n.reply # "none" => AnswerOK(n))
    BY <1>0, <2>1, <2>2, <2>3, SurfaceAttrOK
  <2> HIDE DEF n
  <2> QED
    BY <2>4, <2>5, NamingKeeps
<1> QED
  BY <1>2, <1>3 DEF LookupSurface

LEMMA LookupSecretKeeps == ASSUME NamespaceInv, NEW t \in Threads, LookupSecret(t) PROVE NamespaceInv'
<1> DEFINE c == call[t]
<1>0. c.pc = "secret" /\ c.pc # "idle" /\ CallOK(c, store, registry, inoOf)
  BY CallFacts DEF LookupSecret, At
<1>1. c.want \in Secrets /\ c.op \notin {"open", "getattr"}
  BY <1>0 DEF CallOK, HeldOK, AskedOK
<1>2. PICK failed \in BOOLEAN :
        IF c.want \in Exposed(Records(failed))
        THEN Naming(t, <<"secrets", c.want>>, Answer(SecretHeld(c, c.want), "entry"))
        ELSE Step(t, Answer(Noting(c, failed), "enoent"))
  BY DEF LookupSecret
<1>3. CASE c.want \in Exposed(Records(failed))
  <2> DEFINE n == Answer(SecretHeld(c, c.want), "entry")
  <2>1. /\ Alike(n, c) /\ n.reply = "entry" /\ n.held.back = c.want /\ n.via = "secrets"
    BY CallFacts, SMTT(30) DEF Alike, CallFields, SecretHeld, SecretItem, Answer
  <2>2. Naming(t, <<"secrets", c.want>>, n)
    BY <1>2, <1>3
  <2> HIDE DEF n
  <2>3. c.want \in Exposed(store) /\ c.want \notin Surfaces
    BY <1>1, <1>3, ExposedFacts, IdsAssumption
  <2>4. WasLive(n, n.held)
    BY <1>0, <2>1, <2>3, CallFacts DEF WasLive, Alike
  <2>5. AnswerOK(n)
    BY <2>1, <2>4, SMTT(30) DEF AnswerOK
  <2> QED
    BY <2>1, <2>2, <2>5, NamingKeeps
<1>4. CASE c.want \notin Exposed(Records(failed))
  <2> DEFINE n == Answer(Noting(c, failed), "enoent")
  <2>1. Alike(n, c) /\ n.reply = "enoent"
    BY CallFacts, SMTT(30) DEF Alike, CallFields, Answer, Noting
  <2>2. Step(t, n)
    BY <1>2, <1>4
  <2> HIDE DEF n
  <2> QED
    BY <1>0, <1>1, <2>1, <2>2, OtherEnoentOK, StepKeeps
<1> QED
  BY <1>3, <1>4

LEMMA EntriesOK ==
  ASSUME NEW c, NEW n, NEW st, NEW reg, NEW m, CallOK(c, st, reg, m), Alike(n, c),
         c.pc \in {"surfaces", "secrets", "entries"}, n.pc = "entries", n.reply = "none", n.items = c.items
  PROVE  CallOK(n, st, reg, m)
<1>1. c.items = {} /\ c.pc # "idle"
  BY DEF CallOK, ListOK
<1>2. HeldOK(n) /\ KeptOK(n, reg)
  BY SMTT(30) DEF HeldOK, KeptOK
<1>3. ListOK(n)
  BY <1>1, SMTT(30) DEF ListOK
<1> QED
  BY <1>1, <1>2, <1>3, NextCall DEF ItemPcs

LEMMA ReaddirLegacyKeeps == ASSUME NamespaceInv, NEW t \in Threads, ReaddirLegacy(t) PROVE NamespaceInv'
<1> DEFINE c == call[t]
<1>0. c.pc \in {"surfaces", "secrets", "entries"} /\ CallOK(c, store, registry, inoOf)
  BY CallFacts DEF ReaddirLegacy, At
<1>1. CASE Step(t, [c EXCEPT !.pc = "entries", !.via = "surfaces", !.left = Listed(registry)])
  <2> DEFINE n == [c EXCEPT !.pc = "entries", !.via = "surfaces", !.left = Listed(registry)]
  <2>1. Alike(n, c) /\ n.reply = "none" /\ n.pc = "entries" /\ n.items = c.items
    BY CallFacts, SMTT(30) DEF Alike, CallFields
  <2>2. Step(t, n)
    BY <1>1
  <2> HIDE DEF n
  <2> QED
    BY <1>0, <2>1, <2>2, EntriesOK, StepKeeps
<1>2. ASSUME NEW failed \in BOOLEAN,
             Step(t, [Noting(c, failed) EXCEPT !.pc = "entries", !.via = "secrets",
                                               !.left = Exposed(Records(failed))])
      PROVE  NamespaceInv'
  <2> DEFINE n == [Noting(c, failed) EXCEPT !.pc = "entries", !.via = "secrets",
                                            !.left = Exposed(Records(failed))]
  <2>1. Alike(n, c) /\ n.reply = "none" /\ n.pc = "entries" /\ n.items = c.items
    BY CallFacts, SMTT(30) DEF Alike, CallFields, Noting
  <2>2. Step(t, n)
    BY <1>2
  <2> HIDE DEF n
  <2> QED
    BY <1>0, <2>1, <2>2, EntriesOK, StepKeeps
<1>3. ASSUME NEW i \in c.left, c.pc = "entries", Naming(t, <<c.via, i>>, [c EXCEPT !.left = @ \ {i}])
      PROVE  NamespaceInv'
  <2> DEFINE n == [c EXCEPT !.left = @ \ {i}]
  <2>1. Alike(n, c) /\ n.reply = "none" /\ n.pc = "entries" /\ n.items = c.items
    BY <1>3, CallFacts, SMTT(30) DEF Alike, CallFields
  <2>2. Naming(t, <<c.via, i>>, n)
    BY <1>3
  <2> HIDE DEF n
  <2> QED
    BY <1>0, <2>1, <2>2, EntriesOK, NamingKeeps
<1>4. CASE Step(t, Answer(c, "list"))
  <2> DEFINE n == Answer(c, "list")
  <2>1. n.reply = "list" /\ n.items = c.items
    BY CallFacts, SMTT(30) DEF CallFields, Answer
  <2>2. Step(t, n)
    BY <1>4
  <2> HIDE DEF n
  <2>3. n.items = {}
    BY <1>0, <2>1 DEF CallOK, ListOK
  <2>4. AnswerOK(n)
    BY <2>1, <2>3, SMTT(30) DEF AnswerOK
  <2> QED
    BY <2>1, <2>2, <2>4, StepKeeps
<1> QED
  BY <1>1, <1>2, <1>3, <1>4 DEF ReaddirLegacy, At

-----------------------------------------------------------------------------
(* NamespaceInv is inductive. *)
THEOREM NamespaceInvariant == NamespaceSpec => []NamespaceInv
<1>1. ASSUME NamespaceInit PROVE NamespaceInv
  <2>1. InventoryInv /\ registry \in Registries
    BY <1>1 DEF NamespaceInit, InventoryInv
  <2>2. InoInv
    BY <1>1, FirstInoAssumption, SMTT(30) DEF NamespaceInit, InoInv
  <2>3. CallsInv
    BY <1>1, NoCallOK DEF NamespaceInit, CallsInv
  <2> QED
    BY <2>1, <2>2, <2>3 DEF NamespaceInv
<1>2. ASSUME NamespaceInv, [NamespaceNext]_namespaceVars PROVE NamespaceInv'
  <2>1. CASE ChangeStore \/ ReplaceRegistry
    <3>1. registry' \in Registries /\ Witnessed(store', registry') /\ UNCHANGED <<inventory, inoOf, nextIno>>
      BY <1>2, <2>1 DEF ChangeStore, ReplaceRegistry, NamespaceInv, Witnessed
    <3> QED
      BY <1>2, <3>1, WitnessedKeeps
  <2>2. CASE LoopStep
    <3>1. Loop \in Threads
      BY DEF Threads
    <3> QED
      BY <1>2, <2>2, <3>1, LookupKeeps, ReaddirKeeps, OnInodeKeeps, LookupDirKeeps, LookupFileKeeps,
         ReaddirItemKeeps, ReaddirDirsKeeps, ItemFileAttrKeeps, DirectAttrKeeps, LookupSurfaceKeeps,
         LookupSecretKeeps, ReaddirLegacyKeeps DEF LoopStep, Getattr
  <2>3. CASE \E t \in Workers : Open(t)
    BY <1>2, <2>3, OnInodeKeeps DEF Open, Threads
  <2>4. CASE \E t \in Threads : Resolve(t)
    BY <1>2, <2>4, GetKeeps, CurrentSurfaceKeeps, CurrentRecordKeeps, CurrentConfiguredKeeps, RemoveKeeps,
       ListPlansKeeps, ListRecordsKeeps, ClearKeeps, InsertKeeps, ListEndsKeeps, ItemOpenTargetKeeps,
       LegacySurfaceKeeps, LegacySecretKeeps DEF Resolve
  <2>5. CASE UNCHANGED namespaceVars
    BY <1>2, <2>5 DEF namespaceVars, NamespaceInv, InventoryInv, InoInv, CallsInv
  <2> QED
    BY <1>2, <2>1, <2>2, <2>3, <2>4, <2>5 DEF NamespaceNext
<1> QED
  BY <1>1, <1>2, PTL DEF NamespaceSpec

(* An inode names one thing: no two keys share an inode, and an open of an *)
(* inode resolves to what the kernel got the inode for, for any number of  *)
(* secrets, surfaces, threads and changes under them.                      *)
THEOREM InodesNameOne == NamespaceSpec => []InodesNameOneThing
<1>1. NamespaceInv => InodesNameOneThing
  BY DEF NamespaceInv, InoInv, CallsInv, AnswerOK, InodesNameOneThing
<1> QED
  BY <1>1, NamespaceInvariant, PTL

(* An inode that was given out is never given to another key or taken back. *)
THEOREM InodesAreStable ==
  NamespaceSpec => [][\A k \in Keys : inoOf[k] # 0 => inoOf'[k] = inoOf[k]]_namespaceVars
<1>1. ASSUME NamespaceInv, [NamespaceNext]_namespaceVars
      PROVE  [\A k \in Keys : inoOf[k] # 0 => inoOf'[k] = inoOf[k]]_namespaceVars
  <2>1. inoOf' = inoOf \/ \E k : InoFor(k)
    BY <1>1 DEF NamespaceNext, namespaceVars, ChangeStore, ReplaceRegistry, LoopStep, Lookup, Readdir, Getattr,
         OnInode, Open, Resolve, Begin, Step, OnlyCalls, Get, CurrentSurface, CurrentRecord,
         CurrentConfigured, Remove, ListPlans, ListRecords, Clear, Insert, ListEnds, ItemOpenTarget,
         LegacySurface, LegacySecret, LookupDir, LookupFile, ReaddirItem, ReaddirDirs, ItemFileAttr,
         DirectAttr, LookupSurface, LookupSecret, ReaddirLegacy, Naming
  <2> QED
    BY <1>1, <2>1, InoForKeeps DEF NamespaceInv
<1> QED
  BY <1>1, NamespaceInvariant, PTL DEF NamespaceSpec

(* What a call answers from the inventory was live while the call ran, and *)
(* no item is missed that was there throughout.                            *)
THEOREM CurrentAnswers == NamespaceSpec => []AnswersAreCurrent
<1>1. ASSUME NamespaceInv PROVE AnswersAreCurrent
  <2>1. AnswerOK(answered)
    BY <1>1 DEF NamespaceInv, CallsInv
  <2>2. AnswersWereLive
    BY <2>1 DEF AnswerOK, AnswersWereLive
  <2>3. ASSUME answered.reply = "enoent", ~answered.failed,
               answered.asked \in {"file"} \X (Secrets \ answered.withdrawn)
        PROVE  \E st \in answered.stores : answered.asked[2] \notin Exposed(st)
    <3>1. PICK s \in Secrets \ answered.withdrawn : answered.asked = <<"file", s>>
      BY <2>3, SMTT(30)
    <3>2. ~Kept(answered, s)
      BY <2>1, <2>3, <3>1 DEF AnswerOK
    <3>3. \E st \in answered.stores : s \notin Exposed(st)
      BY <2>3, <3>1, <3>2 DEF Kept
    <3>4. answered.asked[2] = s
      BY <3>1, SMTT(30)
    <3> QED
      BY <3>3, <3>4
  <2>4. ConfiguringKeepsItems
    BY <2>3 DEF ConfiguringKeepsItems
  <2> QED
    BY <2>2, <2>4 DEF AnswersAreCurrent
<1> QED
  BY <1>1, NamespaceInvariant, PTL
===========================================================================
