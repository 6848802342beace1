------------------------------ MODULE AuditLog ------------------------------
(***************************************************************************)
(* The authenticated audit log (floria-core/src/audit.rs) and its          *)
(* authority (AuthenticatedAuditAuthority in floria/src/main.rs).          *)
(*                                                                         *)
(* Rows form a chain: the tag of a row covers the row and the tag before,  *)
(* so the tail of a chain stands for all of it and is modelled as the      *)
(* sequence of its rows.  Writers append under a lock and hand the new     *)
(* tail to a worker, which saves the newest one at most a second later:    *)
(* first in a file beside the log (the sidecar), then in the Keychain (the *)
(* anchor).  The daemon can be killed between any two steps.               *)
(***************************************************************************)
EXTENDS Naturals, Sequences, SequencesExt

CONSTANTS
  Threads,       \* those that log or read
  MaxRows,       \* bound on the rows ever written
  MaxReads,      \* bound on the verified reads
  MaxFaults      \* bound on kills, failures and edits from outside

ASSUME AuditAssumption == {MaxRows, MaxReads, MaxFaults} \subseteq Nat

VARIABLES
  log,           \* the rows of the file, by number; 0 is a partial row
  stamped,       \* the file is as the writer left it (FileStamp)
  sidecar,       \* the saved tail and its generation, if any
  anchor,        \* the checkpoint of the Keychain, if any
  phase,         \* "down", "opening" or "up"
  tail,          \* AuditWriter.sequence, head and file_size
  holder,        \* the thread with the writer's lock, if any
  step,          \* what each thread is doing
  mine,          \* the checkpoint each thread is about to hand to the worker
  queue,         \* the channel to the worker
  saver,        \* its durable and pending tails and its deadline
  saving,        \* the call of persist_checkpoint(), if any
  generation,    \* AuthenticatedAuditAuthority.generation
  health,        \* "ok" or "degraded"
  reply,         \* what the worker answered each reader
  logged,        \* history: the rows whose write() returned Ok
  damaged,       \* history: a write failed in part, or the file was edited from outside
  rows, reads, auditFaults

auditVars == <<log, stamped, sidecar, anchor, phase, tail, holder, step, mine, queue, saver,
               saving, generation, health, reply, logged, damaged, rows, reads, auditFaults>>

Saved == {[gen |-> g, tail |-> t] : g \in 0 .. 2 * MaxRows + MaxFaults + 2,
                                    t \in BoundedSeq(1 .. MaxRows, MaxRows)}
Steps == {"idle", "send", "flush", "load"}
\* A worker that ended has no durable tail any more.
Ended == [alive |-> FALSE, durable |-> <<>>, pending |-> {}, deadline |-> FALSE]
SaverUp(t) == [alive |-> TRUE, durable |-> t, pending |-> {}, deadline |-> FALSE]

AuditInit ==
  /\ log \in {<<>>, <<0>>} /\ stamped = TRUE
  /\ sidecar = {} /\ anchor = {}
  /\ phase = "down"
  /\ tail = <<>>
  /\ holder = {}
  /\ step = [t \in Threads |-> "idle"]
  /\ mine = [t \in Threads |-> <<>>]
  /\ queue = <<>>
  /\ saver = Ended
  /\ saving = {}
  /\ generation = 0
  /\ health = "ok"
  /\ reply = [t \in Threads |-> "none"]
  /\ logged = {} /\ damaged = FALSE
  /\ rows = 0 /\ reads = 0 /\ auditFaults = 0

AuditFault == auditFaults' = auditFaults + 1 /\ auditFaults' <= MaxFaults
disk == <<log, stamped, sidecar, anchor>>
writer == <<tail, holder, step, mine>>
history == <<logged, damaged, rows, reads>>

(***************************************************************************)
(* Opening.                                                                *)
(***************************************************************************)
\* Every row is complete and continues the chain of the rows before it.
Verifies(l) == \A i \in DOMAIN l : l[i] # 0

\* open_authenticated_audit(): a sidecar ahead of the Keychain is replaced by the tail the
\* Keychain has committed, if the rows of the log contain it.
Recover(tails) ==
  {c \in anchor : /\ \E s \in sidecar : s.gen > c.gen
                  /\ Verifies(log) /\ c.tail \in tails}

\* The checkpoint AuditLog::open() goes by, or {} on a first run.
Committed == IF sidecar = anchor THEN anchor ELSE Recover({SubSeq(log, 1, n) : n \in 0 .. Len(log)})

\* The log is verified against the checkpoint.  Without one, an existing log is moved aside.
CanOpen ==
  /\ sidecar = anchor \/ Committed # {}
  /\ \A c \in Committed : Verifies(log) /\ IsPrefix(c.tail, log)

Save(who, t) == saving' = {[who |-> who, tail |-> t, at |-> "sidecar"]}

Open ==
  /\ phase = "down"
  /\ CanOpen
  /\ sidecar' = Committed
  /\ generation' = IF Committed = {} THEN 0 ELSE (CHOOSE c \in Committed : TRUE).gen
  /\ LET rest == IF Committed = {} THEN <<>> ELSE log IN
     /\ log' = rest
     /\ tail' = rest
     /\ IF \E c \in Committed : c.tail = rest
        THEN phase' = "up" /\ saver' = SaverUp(rest) /\ UNCHANGED saving
        ELSE phase' = "opening" /\ Save("open", rest) /\ UNCHANGED saver
  /\ stamped' = TRUE
  /\ health' = "ok"
  /\ UNCHANGED <<anchor, holder, step, mine, queue, reply, history, auditFaults>>

(***************************************************************************)
(* persist_checkpoint(), and what its callers do after it.                 *)
(***************************************************************************)
Stop == /\ phase' = "down"
        /\ saver' = Ended
        /\ queue' = <<>>

\* An error ends the worker and degrades the log; while opening, it ends the start.
SaveFailed(s) ==
  /\ saving' = {}
  /\ health' = "degraded"
  /\ IF s.who = "open" THEN Stop
     ELSE saver' = Ended /\ queue' = <<>> /\ UNCHANGED phase
  /\ reply' = IF s.who \in Threads THEN [reply EXCEPT ![s.who] = "error"] ELSE reply

SaveDone(s) ==
  /\ saving' = {}
  /\ UNCHANGED health
  /\ CASE s.who = "open" -> /\ phase' = "up" /\ saver' = SaverUp(s.tail)
                            /\ UNCHANGED <<queue, reply>>
       [] s.who = "shutdown" -> Stop /\ UNCHANGED reply
       [] s.who = "timer" -> /\ saver' = SaverUp(s.tail)
                             /\ UNCHANGED <<phase, queue, reply>>
       [] OTHER -> LET later == {p \in saver.pending : Len(p) > Len(s.tail)} IN
                   /\ saver' = [alive |-> TRUE, durable |-> s.tail, pending |-> later,
                                 deadline |-> later # {}]
                   /\ reply' = [reply EXCEPT ![s.who] = "ok"]
                   /\ UNCHANGED <<phase, queue>>

\* The sidecar is replaced first ...
SaveSidecar ==
  \E s \in saving :
    /\ s.at = "sidecar"
    /\ \/ /\ \A c \in anchor : c.gen <= generation
          /\ sidecar' = {[gen |-> generation + 1, tail |-> s.tail]}
          /\ saving' = {[s EXCEPT !.at = "anchor"]}
          /\ UNCHANGED <<phase, saver, queue, health, reply, auditFaults>>
       \/ /\ \E c \in anchor : c.gen > generation
          /\ SaveFailed(s) /\ UNCHANGED <<sidecar, auditFaults>>
       \/ /\ AuditFault
          /\ SaveFailed(s) /\ UNCHANGED sidecar
    /\ UNCHANGED <<log, stamped, anchor, writer, generation, history>>

\* ... then the Keychain's checkpoint, whose failure may have taken effect.
SaveAnchor ==
  \E s \in saving :
    /\ s.at = "anchor"
    /\ LET checkpoint == {[gen |-> generation + 1, tail |-> s.tail]} IN
       \/ /\ anchor' = checkpoint
          /\ generation' = generation + 1
          /\ SaveDone(s)
          /\ UNCHANGED auditFaults
       \/ /\ AuditFault
          /\ anchor' \in {anchor, checkpoint}
          /\ SaveFailed(s)
          /\ UNCHANGED generation
    /\ UNCHANGED <<log, stamped, sidecar, writer, history>>

(***************************************************************************)
(* The checkpoint worker.                                                  *)
(***************************************************************************)
\* persist_newer_checkpoint(): nothing to do for the durable tail, an error for an older or a
\* conflicting one, and otherwise a save.
SaveCompare ==
  \E s \in saving :
    /\ s.at = "compare"
    /\ IF s.tail = saver.durable THEN SaveDone(s)
       ELSE IF Len(s.tail) <= Len(saver.durable) THEN SaveFailed(s)
       ELSE saving' = {[s EXCEPT !.at = "sidecar"]} /\ UNCHANGED <<phase, saver, queue, health, reply>>
    /\ UNCHANGED <<disk, writer, generation, history, auditFaults>>

\* A plausible bug: an update does not replace the tail that waits for the deadline.
TakeUpdateFirst(c) ==
  saver' = [saver EXCEPT !.pending = IF @ = {} THEN {c.tail} ELSE @, !.deadline = TRUE]

\* The newest tail waits; the second runs from the first update after a save.
TakeUpdate(c) == saver' = [saver EXCEPT !.pending = {c.tail}, !.deadline = TRUE]

WorkerIdle == saver.alive /\ saving = {}
Compare(who, t) == saving' = {[who |-> who, tail |-> t, at |-> "compare"]}

WorkerTakes ==
  /\ WorkerIdle /\ queue # <<>>
  /\ LET c == Head(queue) IN
     \/ /\ c.kind = "update"
        /\ TakeUpdate(c)
        /\ queue' = Tail(queue)
        /\ UNCHANGED <<phase, saving>>
     \/ /\ c.kind = "flush"
        /\ Compare(c.from, c.tail)
        /\ queue' = Tail(queue)
        /\ UNCHANGED <<phase, saver>>
     \/ /\ c.kind = "shutdown" /\ saver.pending = {}
        /\ Stop /\ UNCHANGED saving
     \/ /\ c.kind = "shutdown"
        /\ \E p \in saver.pending : Compare("shutdown", p)
        /\ queue' = Tail(queue)
        /\ UNCHANGED <<phase, saver>>
  /\ UNCHANGED <<disk, writer, generation, health, reply, history, auditFaults>>

\* The deadline passes while no command waits.
WorkerTimeout ==
  /\ WorkerIdle /\ queue = <<>> /\ saver.deadline
  /\ \E p \in saver.pending : Compare("timer", p)
  /\ UNCHANGED <<disk, phase, writer, queue, saver, generation, health, reply, history, auditFaults>>

(***************************************************************************)
(* Writers and readers.                                                    *)
(***************************************************************************)
Locks(t) == phase = "up" /\ step[t] = "idle" /\ holder = {} /\ health = "ok"
Releases(t) == holder' = {} /\ step' = [step EXCEPT ![t] = "idle"] /\ UNCHANGED mine
Degrade(t) == health' = "degraded" /\ Releases(t)

\* A plausible bug: the lock is released before the tail is handed to the worker.
AppendRowUnlocks(t) ==
  /\ Locks(t)
  /\ rows < MaxRows /\ stamped
  /\ rows' = rows + 1
  /\ log' = Append(log, rows')
  /\ tail' = Append(tail, rows') /\ mine' = [mine EXCEPT ![t] = tail']
  /\ step' = [step EXCEPT ![t] = "send"]
  /\ UNCHANGED <<stamped, sidecar, anchor, phase, holder, queue, saver, saving, generation,
                 health, reply, logged, damaged, reads, auditFaults>>

\* write(): with the lock, a row is appended and flushed; the write may fail in part, after the
\* row, or before it.  A file that was changed from outside is not written to.
AppendRow(t) ==
  /\ Locks(t)
  /\ rows < MaxRows
  /\ rows' = rows + 1
  /\ \/ /\ stamped
        /\ log' = Append(log, rows')
        /\ tail' = Append(tail, rows') /\ mine' = [mine EXCEPT ![t] = tail']
        /\ holder' = {t} /\ step' = [step EXCEPT ![t] = "send"]
        /\ UNCHANGED <<health, damaged, auditFaults>>
     \/ /\ stamped
        /\ AuditFault
        /\ log' \in {log, Append(log, 0), Append(log, rows')}
        /\ Degrade(t)
        /\ damaged' = (damaged \/ ~Verifies(log'))
        /\ UNCHANGED tail
     \/ /\ ~stamped
        /\ Degrade(t)
        /\ UNCHANGED <<log, tail, damaged, auditFaults>>
  /\ UNCHANGED <<stamped, sidecar, anchor, phase, queue, saver, saving, generation, reply, logged, reads>>

\* log_open(), log_denied(), log_write_commit(), log_ssh_sign() and log_close() each write one row.
LogEvent(t) == AppendRow(t)

\* The new tail is handed to the worker, unless that has ended.
SendUpdate(t) ==
  /\ phase = "up" /\ step[t] = "send"
  /\ IF saver.alive
     THEN /\ queue' = Append(queue, [kind |-> "update", tail |-> mine[t], from |-> t])
          /\ logged' = logged \cup {Last(mine[t])}
          /\ Releases(t) /\ UNCHANGED health
     ELSE Degrade(t) /\ UNCHANGED <<queue, logged>>
  /\ UNCHANGED <<disk, phase, tail, saver, saving, generation, reply, damaged, rows, reads, auditFaults>>

\* read_recent_verified(): with the lock, the worker is asked to save the tail of the writer ...
ReadVerified(t) ==
  /\ Locks(t)
  /\ reads < MaxReads
  /\ reads' = reads + 1
  /\ IF stamped /\ saver.alive
     THEN /\ queue' = Append(queue, [kind |-> "flush", tail |-> tail, from |-> t])
          /\ holder' = {t} /\ step' = [step EXCEPT ![t] = "flush"] /\ UNCHANGED mine
          /\ reply' = [reply EXCEPT ![t] = "none"]
          /\ UNCHANGED health
     ELSE Degrade(t) /\ UNCHANGED <<queue, reply>>
  /\ UNCHANGED <<disk, phase, tail, saver, saving, generation, logged, damaged, rows, auditFaults>>

\* ... and when it has, the checkpoint is loaded again and the rows of the file are verified.
ReadAnswered(t) ==
  /\ phase = "up" /\ step[t] = "flush"
  /\ \/ reply[t] = "ok" /\ step' = [step EXCEPT ![t] = "load"] /\ UNCHANGED <<holder, mine, health>>
     \/ (reply[t] = "error" \/ ~saver.alive) /\ reply[t] # "ok" /\ Degrade(t)
  /\ UNCHANGED <<disk, phase, tail, queue, saver, saving, generation, reply, history, auditFaults>>

ReadRows(t) ==
  /\ phase = "up" /\ step[t] = "load"
  /\ IF sidecar = anchor /\ stamped /\ log = tail /\ \E c \in anchor : c.tail = tail
     THEN /\ Releases(t) /\ UNCHANGED health
          /\ generation' = (CHOOSE c \in anchor : TRUE).gen
     ELSE Degrade(t) /\ UNCHANGED generation
  /\ UNCHANGED <<disk, phase, tail, queue, saver, saving, reply, history, auditFaults>>

\* The log is dropped when no thread uses it: the worker saves what waits and ends.
Shutdown ==
  /\ phase = "up" /\ \A t \in Threads : step[t] = "idle"
  /\ IF saver.alive
     THEN /\ phase' = "closing"
          /\ queue' = Append(queue, [kind |-> "shutdown", tail |-> <<>>, from |-> "drop"])
          /\ UNCHANGED saver
     ELSE Stop
  /\ UNCHANGED <<disk, writer, saving, generation, health, reply, history, auditFaults>>

\* The worker ended before it took the command.
ShutdownFails ==
  /\ phase = "closing" /\ ~saver.alive
  /\ Stop
  /\ UNCHANGED <<disk, writer, saving, generation, health, reply, history, auditFaults>>

KillDaemon ==
  /\ phase # "down"
  /\ AuditFault
  /\ Stop
  /\ tail' = <<>> /\ holder' = {}
  /\ step' = [t \in Threads |-> "idle"] /\ mine' = [t \in Threads |-> <<>>]
  /\ saving' = {} /\ health' = "ok"
  /\ UNCHANGED <<disk, generation, reply, history>>

\* Another program rewrites the file, or cuts its last row.
EditOutside ==
  /\ AuditFault
  /\ log # <<>>
  /\ log' \in {log, Front(log)}
  /\ stamped' = FALSE /\ damaged' = TRUE
  /\ UNCHANGED <<sidecar, anchor, phase, writer, queue, saver, saving, generation, health,
                 reply, logged, rows, reads>>

WorkerStep == WorkerTakes \/ WorkerTimeout \/ SaveCompare \/ SaveSidecar \/ SaveAnchor

AuditNext ==
  \/ Open \/ WorkerStep
  \/ \E t \in Threads : \/ LogEvent(t) \/ SendUpdate(t)
                        \/ ReadVerified(t) \/ ReadAnswered(t) \/ ReadRows(t)
  \/ Shutdown \/ ShutdownFails \/ KillDaemon \/ EditOutside

AuditFairness == WF_auditVars(WorkerStep)

AuditTypeOK ==
  /\ log \in Seq(0 .. MaxRows) /\ tail \in Seq(0 .. MaxRows)
  /\ sidecar \subseteq Saved /\ anchor \subseteq Saved
  /\ phase \in {"down", "opening", "up", "closing"}
  /\ holder \subseteq Threads /\ step \in [Threads -> Steps]
  /\ \A s \in saving : s.who \in {"open", "timer", "shutdown"} \cup Threads
  /\ health \in {"ok", "degraded"}
  /\ logged \subseteq 1 .. MaxRows

(***************************************************************************)
(* Properties.                                                             *)
(***************************************************************************)
\* Once the Keychain has a checkpoint, a killed daemon can open its log again, wherever it was
\* killed, and finds every row whose write() succeeded.  Only a row written in part or an edit
\* from outside stops it.
OpensAfterKill ==
  (phase = "down" /\ ~damaged /\ anchor # {}) => CanOpen /\ logged \subseteq Range(log)

\* While nothing is being saved and the log is healthy, sidecar, Keychain and the authority's
\* generation agree, so that the next save is not refused as a rollback.
CheckpointsAgree ==
  (phase = "up" /\ saving = {} /\ saver.alive) =>
    /\ sidecar = anchor
    /\ \A c \in anchor : c.gen = generation /\ c.tail = saver.durable

\* The worker sees tails in the order of their rows: it never refuses one as older than what is
\* durable, and never replaces a pending one by an older one.
TailsAreOrdered ==
  saver.alive =>
    LET waiting == SelectSeq(queue, LAMBDA c : c.kind # "shutdown")
        known == SetToSeq(saver.pending) \o [i \in DOMAIN waiting |-> waiting[i].tail]
    IN \A i \in DOMAIN known : /\ IsPrefix(saver.durable, known[i])
                               /\ i > 1 => IsPrefix(known[i - 1], known[i])

\* A reader that loads the checkpoint does not race a save of the worker.
ReadersFindWorkerIdle == \A t \in Threads : step[t] = "load" => saving = {} /\ saver.pending = {}

\* The chain and its checkpoints move together: they agree when nothing is being saved, tails
\* reach them in order, readers do not race them, and a kill between any two writes leaves a log
\* that opens with every row.
LogSurvivesKills ==
  AuditTypeOK /\ OpensAfterKill /\ CheckpointsAgree /\ TailsAreOrdered /\ ReadersFindWorkerIdle

\* A row that was written is checkpointed in time, unless the log is closed, becomes degraded or
\* was damaged: again and again the Keychain's checkpoint has every row.
RowsAreCheckpointed ==
  []<>(\/ phase # "up" \/ health = "degraded" \/ damaged
       \/ \E c \in anchor : logged \subseteq Range(c.tail)
       \/ logged = {})
=============================================================================
