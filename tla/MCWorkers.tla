----------------------------- MODULE MCWorkers -----------------------------
(***************************************************************************)
(* Instances of WriteHandles, DiscoveryJobs and CheckoutMonitor for TLC,   *)
(* side by side: a behaviour belongs to one of them, its subject, and      *)
(* leaves the variables of the others as they were.                        *)
(***************************************************************************)
EXTENDS WriteHandles, DiscoveryJobs, CheckoutMonitor

CONSTANTS h1, p1, p2

VARIABLE subject

workerVars == <<writeVars, jobVars, monitorVars, subject>>

Call(p, k, i) == [fh |-> h1, pid |-> p, kind |-> k, n |-> i]

(* Commits of the writer and of a process that shares the handle. *)
SharedHandle ==
  {Call(p1, "commit", 1), Call(p1, "commit", 2), Call(p2, "commit", 1), Call(p1, "release", 1)}

TheRoots == [p \in Monitored |-> IF p = "p" THEN "a" ELSE "w"]

WorkersInit ==
  /\ subject \in {"write", "jobs", "monitor"}
  /\ Init /\ JobsInit /\ MonitorInit
  /\ subject # "monitor" => git.standing = {"a"}

WorkersNext ==
  \/ subject = "write" /\ Next /\ UNCHANGED <<jobVars, monitorVars, subject>>
  \/ subject = "jobs" /\ JobsNext /\ UNCHANGED <<writeVars, monitorVars, subject>>
  \/ subject = "monitor" /\ MonitorNext /\ UNCHANGED <<writeVars, jobVars, subject>>

(* Two changes of directories or projects, or one beside a notice that is  *)
(* lost or a registration that fails.                                      *)
TwoEvents == spent.changes + spent.unwatched <= 2

(* The fairness of the three components, each in its own behaviours.  Of   *)
(* the threads that write, some one runs, which is less than WriteHandles  *)
(* asks: each of them has a bounded number of steps.                       *)
WorkersFairness ==
  /\ WF_writeVars(subject = "write" /\ \E t \in Calls : CallStep(t))
  /\ \A id \in 1 .. MaxJobs : WF_jobVars(subject = "jobs" /\ id \in Ids /\ Works(id))
  /\ \A c \in Starters : WF_jobVars(subject = "jobs" /\ Spawn(c))
  /\ \A c \in Cancellers : WF_jobVars(subject = "jobs" /\ CancelMark(c))
  /\ WF_monitorVars(subject = "monitor" /\ MonitorWorks)
  /\ WF_monitorVars(subject = "monitor" /\ WatcherWorks)

WorkersSpec == WorkersInit /\ [][WorkersNext]_workerVars /\ WorkersFairness

(* The inventory of the checkout monitor becomes and stays current once    *)
(* directories and projects stop changing.                                 *)
MonitorCatchesUp == subject = "monitor" => InventoryCatchesUp
=============================================================================
