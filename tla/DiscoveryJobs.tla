---------------------------- MODULE DiscoveryJobs ----------------------------
(***************************************************************************)
(* The asynchronous discovery jobs of the control server                   *)
(* (floria-control/src/server/discovery_jobs.rs) and the progress callback *)
(* through which a scan learns that it was cancelled                       *)
(* (floria-discover/src/lib.rs).                                           *)
(*                                                                         *)
(* A job is shared by the registry, its worker thread and every control    *)
(* connection that looked it up.  Its cancel flag is an atomic, its status *)
(* a mutex: the two are written and read in separate steps, so a           *)
(* connection and the worker interleave between them.                      *)
(*                                                                         *)
(* What a scan finds is left out: a scan reports progress, and may fail    *)
(* where the code returns an error.  Reports in the middle and at the end  *)
(* of a phase repeat the one that begins it.                               *)
(***************************************************************************)
EXTENDS Integers, Sequences, SequencesExt

CONSTANTS
  Starters,       \* control connections that start jobs
  Cancellers,     \* control connections that cancel jobs
  MaxRetainedJobs,
  MaxJobs         \* bound: jobs started in a behaviour

ASSUME JobConstants == MaxRetainedJobs \in Nat \ {0} /\ MaxJobs \in Nat

VARIABLES
  order,     \* the registry: identifiers of the retained jobs, oldest first
  status,    \* identifier -> the status behind the job's mutex
  flag,      \* identifier -> the job's cancel flag
  worker,    \* identifier -> where the job's thread is
  client     \* connection -> where it is in start or cancel

jobVars == <<order, status, flag, worker, client>>

Ids == 1 .. Len(status)
Retained == ToSet(order)
Terminal == {"Completed", "Cancelled", "Failed"}
Active == {"Queued", "Running", "Cancelling"}

(* The reports that begin the phases of a scan.                            *)
Reports == <<"ProjectCandidates", "CandidateFiles", "ParsingFiles">>

(* A path that does not exist, or a directory that cannot be read, ends    *)
(* the scan; a file that cannot be parsed becomes a warning in the plan.   *)
MayFail(report) == report \in 1 .. 2

Fresh == [state |-> "Queued", phase |-> "Starting", plan |-> FALSE, error |-> "none"]

JobsInit ==
  /\ order = <<>> /\ status = <<>> /\ flag = <<>> /\ worker = <<>>
  /\ client = [c \in Starters \cup Cancellers |-> [at |-> "idle", id |-> 0]]

Moves(c, place, id) == client' = [client EXCEPT ![c] = [at |-> place, id |-> id]]

(***************************************************************************)
(* Starting a job                                                          *)
(***************************************************************************)
IsTerminal(id) == status[id].state \in Terminal

(* One job is dropped: the oldest one that has ended.                      *)
DropOldest(ids) ==
  LET k == SelectInSeq(ids, IsTerminal) IN IF k = 0 THEN ids ELSE RemoveAt(ids, k)

(* The registry never holds more than the limit, so that one drop makes    *)
(* room or none is possible.                                               *)
PruneTerminalJobs(ids) == IF Len(ids) >= MaxRetainedJobs THEN DropOldest(ids) ELSE ids

Register(c, kept) ==
  LET id == Len(status) + 1 IN
  /\ order' = Append(kept, id)
  /\ status' = Append(status, Fresh)
  /\ flag' = Append(flag, FALSE)
  /\ worker' = Append(worker, [at |-> "unborn", report |-> 1, result |-> "none"])
  /\ Moves(c, "spawning", id)

Refuse(kept) ==
  order' = kept /\ UNCHANGED <<status, flag, worker, client>>

StartJob(c) ==
  /\ client[c].at = "idle" /\ Len(status) < MaxJobs
  /\ LET kept == PruneTerminalJobs(order) IN
     IF Len(kept) >= MaxRetainedJobs THEN Refuse(kept) ELSE Register(c, kept)

(* The thread is created after the registry was unlocked; when it cannot   *)
(* be, the job is taken out of the registry again.                         *)
Spawn(c) ==
  LET id == client[c].id IN
  /\ client[c].at = "spawning"
  /\ Moves(c, "idle", 0)
  /\ \/ /\ worker' = [worker EXCEPT ![id].at = "born"]
        /\ UNCHANGED order
     \/ /\ order' = SelectSeq(order, LAMBDA other : other # id)
        /\ UNCHANGED worker
  /\ UNCHANGED <<status, flag>>

(***************************************************************************)
(* Cancelling a job: find it, set the flag, then lock the status           *)
(***************************************************************************)
CancelStore(c) ==
  /\ client[c].at = "idle"
  /\ \E id \in Retained :
       /\ flag' = [flag EXCEPT ![id] = TRUE]
       /\ Moves(c, "marking", id)
  /\ UNCHANGED <<order, status, worker>>

CancelMarkAlways(c) ==
  LET id == client[c].id IN
  /\ client[c].at = "marking"
  /\ status' = [status EXCEPT ![id].state = "Cancelling"]
  /\ Moves(c, "idle", 0)
  /\ UNCHANGED <<order, flag, worker>>

CancelMark(c) ==
  LET id == client[c].id IN
  /\ client[c].at = "marking"
  /\ status' = IF IsTerminal(id) THEN status
               ELSE [status EXCEPT ![id].state = "Cancelling"]
  /\ Moves(c, "idle", 0)
  /\ UNCHANGED <<order, flag, worker>>

(***************************************************************************)
(* The worker                                                              *)
(***************************************************************************)
Goes(id, place) == worker' = [worker EXCEPT ![id].at = place]
Sets(id, new) == status' = [status EXCEPT ![id] = new]
JobRests == UNCHANGED <<order, flag, client>>

Running(id, phase) == [status[id] EXCEPT !.state = "Running", !.phase = phase]

FinishCancelled(id) ==
  /\ Sets(id, [status[id] EXCEPT !.state = "Cancelled", !.plan = FALSE, !.error = "none"])
  /\ Goes(id, "ended")

FinishFailed(id, error) ==
  /\ Sets(id, [status[id] EXCEPT !.state = "Failed", !.plan = FALSE, !.error = error])
  /\ Goes(id, "ended")

RunJob(id) ==
  /\ worker[id].at = "born"
  /\ Sets(id, Running(id, status[id].phase))
  /\ Goes(id, "report")
  /\ JobRests

(* The callback reads the flag ...                                         *)
Callback(id) ==
  /\ worker[id].at = "report"
  /\ Goes(id, IF flag[id] THEN "cancelled" ELSE "progress")
  /\ UNCHANGED status /\ JobRests

(* ... and then locks the status, which a cancel may have marked meanwhile *)
(* and which it marks Running again.                                       *)
Progress(id) ==
  LET n == worker[id].report IN
  /\ worker[id].at = "progress"
  /\ Sets(id, Running(id, Reports[n]))
  /\ \/ worker' = [worker EXCEPT ![id] =
                     IF n = Len(Reports) THEN [@ EXCEPT !.at = "scanned"]
                     ELSE [@ EXCEPT !.at = "report", !.report = n + 1]]
     \/ MayFail(n) /\ Goes(id, "failed")
  /\ JobRests

ScanEnds(id) ==
  /\ \/ worker[id].at = "cancelled" /\ FinishCancelled(id)
     \/ worker[id].at = "failed" /\ FinishFailed(id, "scan")
  /\ JobRests

CheckScan(id) ==
  /\ worker[id].at = "scanned"
  /\ IF flag[id] THEN FinishCancelled(id)
     ELSE Sets(id, Running(id, "Reconciling")) /\ Goes(id, "match")
  /\ JobRests

(* The closure of run_job: the projects are matched, the flag is read, the *)
(* plan is made, the flag is read, the managed items are looked up.  It    *)
(* returns the plan or an error; the two reads of the flag return an error *)
(* that says that the job was cancelled.                                   *)
Returns(id, result) ==
  worker' = [worker EXCEPT ![id].at = "result", ![id].result = result]

Reconcile(id) ==
  /\ \/ /\ worker[id].at = "match"
        /\ Goes(id, "check match") \/ Returns(id, "catalog")
     \/ /\ worker[id].at = "check match"
        /\ IF flag[id] THEN Returns(id, "cancelled") ELSE Goes(id, "check plan")
     \/ /\ worker[id].at = "check plan"
        /\ IF flag[id] THEN Returns(id, "cancelled") ELSE Goes(id, "review")
     \/ /\ worker[id].at = "review"
        /\ Returns(id, "plan") \/ Returns(id, "catalog")
  /\ UNCHANGED status /\ JobRests

CheckResult(id) ==
  /\ worker[id].at = "result"
  /\ IF flag[id] THEN FinishCancelled(id)
     ELSE Goes(id, "publish") /\ UNCHANGED status
  /\ JobRests

Completed(id) ==
  [status[id] EXCEPT !.state = "Completed", !.phase = "Complete", !.plan = TRUE]

PublishResult(id) ==
  /\ worker[id].at = "publish"
  /\ IF worker[id].result = "plan" THEN Sets(id, Completed(id)) /\ Goes(id, "ended")
     ELSE FinishFailed(id, worker[id].result)
  /\ JobRests

Works(id) ==
  \/ RunJob(id) \/ Callback(id) \/ Progress(id) \/ ScanEnds(id)
  \/ CheckScan(id) \/ Reconcile(id) \/ CheckResult(id) \/ PublishResult(id)

JobsNext ==
  \/ \E c \in Starters : StartJob(c) \/ Spawn(c)
  \/ \E c \in Cancellers : CancelStore(c) \/ CancelMark(c)
  \/ \E id \in Ids : Works(id)

(* The threads of the jobs and of the connections are scheduled.           *)
JobsFairness ==
  /\ \A id \in 1 .. MaxJobs : WF_jobVars(id \in Ids /\ Works(id))
  /\ \A c \in Starters : WF_jobVars(Spawn(c))
  /\ \A c \in Cancellers : WF_jobVars(CancelMark(c))

Statuses ==
  [state : Active \cup Terminal, plan : BOOLEAN,
   phase : {"Starting", "Reconciling", "Complete"} \cup ToSet(Reports),
   error : {"none", "scan", "catalog", "cancelled"}]

(* Every job has a status; the registry keeps each job once and no more    *)
(* jobs than its limit, however many connections start jobs at once.       *)
JobsTypeOK ==
  /\ status \in Seq(Statuses) /\ flag \in Seq(BOOLEAN)
  /\ Len(flag) = Len(status) /\ Len(worker) = Len(status)
  /\ Retained \subseteq Ids /\ IsInjective(order)
  /\ Len(order) <= MaxRetainedJobs

(* A job whose thread still works can be looked up and cancelled: making   *)
(* room in the registry (prune_terminal_jobs) drops only jobs that ended.  *)
ActiveJobsAreRetained ==
  \A id \in Ids : worker[id].at \notin {"unborn", "ended"} => id \in Retained

(* A plan is shown by a completed job only and an error by a failed one,   *)
(* and a job that stopped because it was cancelled is never reported as    *)
(* failed: the error that the closure of run_job returns at its two reads  *)
(* of the flag stays inside it.                                            *)
OutcomesAreTold ==
  \A id \in Ids :
    /\ status[id].plan <=> status[id].state = "Completed"
    /\ (status[id].error # "none") <=> (status[id].state = "Failed")
    /\ status[id].error # "cancelled"

(* A status that says that a job ended is the last one: neither a late     *)
(* cancel nor a progress report of the thread revives it.                  *)
JobsEndOnce ==
  [][\A id \in Ids : IsTerminal(id) => status'[id] = status[id]]_jobVars

(* A cancel whose flag is set before the thread reads it for the last time *)
(* stops the job: it ends as cancelled, or as failed when the scan had     *)
(* failed already, and never offers a plan, although a progress report may *)
(* overwrite the mark "cancelling" meanwhile.                              *)
CancelsAreHonoured ==
  \A id \in 1 .. MaxJobs :
    (/\ id \in Ids /\ flag[id]
     /\ worker[id].at \notin {"unborn", "publish", "ended"})
      ~> (id \in Ids /\ status[id].state \in {"Cancelled", "Failed"})

(* The registry can be trusted: it is bounded, it has every job that still *)
(* works, what it says of a job that ended is what happened and stays, and *)
(* a cancel in time is honoured.                                           *)
JobsAreAccounted ==
  /\ [](JobsTypeOK /\ ActiveJobsAreRetained /\ OutcomesAreTold)
  /\ JobsEndOnce
  /\ CancelsAreHonoured
==============================================================================
