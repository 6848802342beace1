---------------------------- MODULE WriteHandles ----------------------------
(***************************************************************************)
(* Write-opens of store-backed secrets (floria-fs/src/lib.rs,              *)
(* floria-core/src/writebuf.rs): a buffer per file handle, and commits     *)
(* that fsync, flush and release run on pool threads, one at a time for a  *)
(* handle.  Mutations run inline on the event loop.                        *)
(*                                                                         *)
(* The content of a buffer is the number of mutations it has seen.  The    *)
(* kernel sends release once no call on the handle is outstanding; a call  *)
(* whose caller was interrupted goes on without anybody waiting for it.    *)
(***************************************************************************)
EXTENDS Naturals, Sequences, FiniteSets

CONSTANTS
  Handles,       \* the handles writes.insert() hands out
  Processes,     \* process instances
  Calls,         \* the calls that reach the pool
  MaxWrites      \* bound on the mutations of a buffer

ASSUME CallsAssumption ==
  /\ Calls \subseteq [fh : Handles, pid : Processes, kind : {"commit", "release"}, n : Nat]
  /\ \A s, t \in Calls : s.kind = "release" /\ t.kind = "release" /\ s.fh = t.fh => s = t
  /\ MaxWrites \in Nat

VARIABLES
  phase,         \* what the kernel has done with a handle
  owner,         \* WriteState.identity: {} before the open
  table,         \* WriteBufTable.open
  target,        \* write_targets
  buf,           \* WriteState.buf
  dirty,         \* WriteState.dirty
  lock,          \* WriteState.commit_lock: the calls that hold it
  pc,
  cut,           \* the calls whose caller was interrupted
  asked,         \* the buffer when the call was made
  took,          \* the snapshot a call commits
  result,        \* what commit_write() returned
  versions,      \* the versions appended to the store, in order
  logged,        \* the calls whose write_commit event is in the audit log
  healthy        \* the audit log is not degraded

callVars == <<pc, cut, asked, took, result>>
writeVars == <<phase, owner, table, target, buf, dirty, lock, callVars, versions, logged, healthy>>

Init ==
  /\ phase = [h \in Handles |-> "new"]
  /\ owner = [h \in Handles |-> {}]
  /\ table = {} /\ target = {}
  /\ buf = [h \in Handles |-> 0]
  /\ dirty = [h \in Handles |-> FALSE]
  /\ lock = [h \in Handles |-> {}]
  /\ pc = [t \in Calls |-> "idle"]
  /\ cut = {}
  /\ asked = [t \in Calls |-> 0]
  /\ took = [t \in Calls |-> 0]
  /\ result = [t \in Calls |-> "none"]
  /\ versions = << >>
  /\ logged = {}
  /\ healthy = TRUE

GoTo(t, l) == pc' = [pc EXCEPT ![t] = l]

(* The n-th mutation of a handle, or a later one, has reached the store. *)
Reached(h, n) ==
  n = 0 \/ \E i \in DOMAIN versions : versions[i].fh = h /\ n <= versions[i].upto

---------------------------------------------------------------------------
(* handle_open() for writing: healthy audit log, authorization, the buffer *)
(* seeded with the head or, with O_TRUNC, empty and dirty; the handle      *)
(* exists once the open is in the audit log.                               *)
HandleOpen(h, p, trunc) ==
  /\ phase[h] = "new"
  /\ healthy
  /\ phase' = [phase EXCEPT ![h] = "open"]
  /\ owner' = [owner EXCEPT ![h] = {p}]
  /\ table' = table \cup {h}
  /\ target' = target \cup {h}
  /\ buf' = [buf EXCEPT ![h] = IF trunc THEN 1 ELSE 0]
  /\ dirty' = [dirty EXCEPT ![h] = trunc]
  /\ UNCHANGED <<lock, callVars, versions, logged, healthy>>

(* handle_open() fails: refused, unreadable or, with the buffer and the    *)
(* target taken back, impossible to audit.                                 *)
HandleOpenFails(h) ==
  /\ phase[h] = "new"
  /\ phase' = [phase EXCEPT ![h] = "closed"]
  /\ healthy' \in IF healthy THEN BOOLEAN ELSE {FALSE}
  /\ UNCHANGED <<owner, table, target, buf, dirty, lock, callVars, versions, logged>>

(* write_at() and truncate() *)
Mutate(h) ==
  /\ buf[h] < MaxWrites
  /\ buf' = [buf EXCEPT ![h] = @ + 1]
  /\ dirty' = [dirty EXCEPT ![h] = TRUE]
  /\ UNCHANGED <<phase, owner, table, target, lock, callVars, versions, logged, healthy>>

Write(h, p) == phase[h] = "open" /\ h \in table /\ p \in owner[h] /\ Mutate(h)

(* plan_setattr() on a write handle: a new owner or flags are refused, a   *)
(* size is a truncation, and mode and times are ignored.                   *)
Setattr(h, p, wants) ==
  /\ phase[h] = "open" /\ h \in table /\ p \in owner[h]
  /\ wants \cap {"owner", "flags"} = {}
  /\ "size" \in wants
  /\ Mutate(h)

---------------------------------------------------------------------------
(* The kernel. *)

Outstanding(t) == pc[t] \notin {"idle", "done"} /\ t \notin cut

(* fsync() and flush() of any process that has the handle. *)
CallCommit(t) ==
  /\ t.kind = "commit" /\ pc[t] = "idle"
  /\ phase[t.fh] = "open"
  /\ GoTo(t, "check")
  /\ asked' = [asked EXCEPT ![t] = buf[t.fh]]
  /\ UNCHANGED <<phase, owner, table, target, buf, dirty, lock, cut, took, result, versions,
                 logged, healthy>>

(* release(): the last reference to the handle is gone. *)
CallRelease(t) ==
  /\ t.kind = "release" /\ pc[t] = "idle"
  /\ phase[t.fh] = "open"
  /\ \A s \in Calls : s.fh = t.fh => ~Outstanding(s)
  /\ phase' = [phase EXCEPT ![t.fh] = "closing"]
  /\ GoTo(t, "guard")
  /\ asked' = [asked EXCEPT ![t] = buf[t.fh]]
  /\ UNCHANGED <<owner, table, target, buf, dirty, lock, cut, took, result, versions, logged,
                 healthy>>

Interrupt(t) ==
  /\ t.kind = "commit" /\ Outstanding(t)
  /\ cut' = cut \cup {t}
  /\ UNCHANGED <<phase, owner, table, target, buf, dirty, lock, pc, asked, took, result,
                 versions, logged, healthy>>

---------------------------------------------------------------------------
(* A call on a pool thread. *)

(* commit_write() returns; fsync and flush reply, release goes on. *)
Return(t, r) ==
  /\ result' = [result EXCEPT ![t] = r]
  /\ GoTo(t, IF t.kind = "release" THEN "drop" ELSE "done")

Unlock(t) == lock' = [lock EXCEPT ![t.fh] = @ \ {t}]

(* is_write_owner() of fsync and flush: others have nothing to commit. *)
CheckOwner(t) ==
  /\ pc[t] = "check"
  /\ IF t.fh \in table /\ t.pid \in owner[t.fh]
       THEN GoTo(t, "guard") /\ UNCHANGED result
       ELSE Return(t, "ok")
  /\ UNCHANGED <<phase, owner, table, target, buf, dirty, lock, cut, asked, took, versions,
                 logged, healthy>>

CommitGuard(t) ==
  /\ pc[t] = "guard"
  /\ IF t.fh \in table THEN GoTo(t, "lock") /\ UNCHANGED result ELSE Return(t, "ok")
  /\ UNCHANGED <<phase, owner, table, target, buf, dirty, lock, cut, asked, took, versions,
                 logged, healthy>>

(* Mutant: commits of a handle are not serialized. *)
LockNot(t) ==
  /\ pc[t] = "lock"
  /\ GoTo(t, "take")
  /\ UNCHANGED <<phase, owner, table, target, buf, dirty, lock, cut, asked, took, result,
                 versions, logged, healthy>>

Lock(t) ==
  /\ pc[t] = "lock"
  /\ lock[t.fh] = {}
  /\ lock' = [lock EXCEPT ![t.fh] = {t}]
  /\ GoTo(t, "take")
  /\ UNCHANGED <<phase, owner, table, target, buf, dirty, cut, asked, took, result, versions,
                 logged, healthy>>

(* Mutant: a call with nothing to commit keeps the guard. *)
TakeDirtyKeeps(t) ==
  /\ pc[t] = "take"
  /\ IF t.fh \in table /\ dirty[t.fh]
       THEN /\ dirty' = [dirty EXCEPT ![t.fh] = FALSE]
            /\ took' = [took EXCEPT ![t] = buf[t.fh]]
            /\ GoTo(t, "append")
            /\ UNCHANGED <<lock, result>>
       ELSE Return(t, "ok") /\ UNCHANGED <<dirty, took, lock>>
  /\ UNCHANGED <<phase, owner, table, target, buf, cut, asked, versions, logged, healthy>>

TakeDirty(t) ==
  /\ pc[t] = "take"
  /\ IF t.fh \in table /\ dirty[t.fh]
       THEN /\ dirty' = [dirty EXCEPT ![t.fh] = FALSE]
            /\ took' = [took EXCEPT ![t] = buf[t.fh]]
            /\ GoTo(t, "append")
            /\ UNCHANGED <<lock, result>>
       ELSE Return(t, "ok") /\ Unlock(t) /\ UNCHANGED <<dirty, took>>
  /\ UNCHANGED <<phase, owner, table, target, buf, cut, asked, versions, logged, healthy>>

(* commit_secret_version() through the target that was authorized. *)
AppendVersion(t) ==
  /\ pc[t] = "append"
  /\ t.fh \in target
  /\ versions' = Append(versions, [fh |-> t.fh, upto |-> took[t], call |-> t])
  /\ GoTo(t, "audit")
  /\ UNCHANGED <<phase, owner, table, target, buf, dirty, lock, cut, asked, took, result,
                 logged, healthy>>

(* The target is gone, the content does not validate or the store fails:   *)
(* mark_dirty().                                                           *)
AppendFails(t) ==
  /\ pc[t] = "append"
  /\ dirty' = [dirty EXCEPT ![t.fh] = @ \/ t.fh \in table]
  /\ Return(t, "error")
  /\ Unlock(t)
  /\ UNCHANGED <<phase, owner, table, target, buf, cut, asked, took, versions, logged, healthy>>

(* log_write_commit(): a log that is, or becomes, degraded is an error. *)
LogWriteCommit(t) ==
  /\ pc[t] = "audit"
  /\ \/ healthy /\ logged' = logged \cup {t} /\ Return(t, "ok") /\ UNCHANGED healthy
     \/ healthy' = FALSE /\ Return(t, "error") /\ UNCHANGED logged
  /\ Unlock(t)
  /\ UNCHANGED <<phase, owner, table, target, buf, dirty, cut, asked, took, versions>>

(* release() after its commit: the target, then the buffer. *)
DropTarget(t) ==
  /\ pc[t] = "drop"
  /\ target' = target \ {t.fh}
  /\ GoTo(t, "remove")
  /\ UNCHANGED <<phase, owner, table, buf, dirty, lock, cut, asked, took, result, versions,
                 logged, healthy>>

RemoveBuffer(t) ==
  /\ pc[t] = "remove"
  /\ table' = table \ {t.fh}
  /\ phase' = [phase EXCEPT ![t.fh] = "closed"]
  /\ GoTo(t, "done")
  /\ UNCHANGED <<owner, target, buf, dirty, lock, cut, asked, took, result, versions, logged,
                 healthy>>

CallStep(t) ==
  \/ CheckOwner(t) \/ CommitGuard(t) \/ Lock(t) \/ TakeDirty(t) \/ AppendVersion(t)
  \/ AppendFails(t) \/ LogWriteCommit(t) \/ DropTarget(t) \/ RemoveBuffer(t)

---------------------------------------------------------------------------
Next ==
  \/ \E h \in Handles, p \in Processes :
       \/ \E trunc \in BOOLEAN : HandleOpen(h, p, trunc)
       \/ Write(h, p)
       \/ \E wants \in SUBSET {"size", "mode", "owner"} : Setattr(h, p, wants)
  \/ \E h \in Handles : HandleOpenFails(h)
  \/ \E t \in Calls : CallCommit(t) \/ CallRelease(t) \/ Interrupt(t) \/ CallStep(t)

Spec == Init /\ [][Next]_writeVars

(* Pool threads keep running; the store and the audit log answer. *)
Fairness == \A t \in Calls : WF_writeVars(CallStep(t))
FairSpec == Spec /\ Fairness

---------------------------------------------------------------------------
(* Properties. *)

Labels == {"idle", "check", "guard", "lock", "take", "append", "audit", "drop", "remove", "done"}

(* Every variable keeps its type, and one call at most holds the guard of  *)
(* a handle.                                                               *)
TypeOK ==
  /\ phase \in [Handles -> {"new", "open", "closing", "closed"}]
  /\ owner \in [Handles -> SUBSET Processes]
  /\ table \in SUBSET Handles /\ target \in SUBSET Handles
  /\ buf \in [Handles -> Nat]
  /\ dirty \in [Handles -> BOOLEAN]
  /\ lock \in [Handles -> SUBSET Calls]
  /\ \A h \in Handles : \A s, t \in lock[h] : s = t
  /\ pc \in [Calls -> Labels]
  /\ cut \in SUBSET Calls
  /\ asked \in [Calls -> Nat]
  /\ took \in [Calls -> Nat]
  /\ result \in [Calls -> {"none", "ok", "error"}]
  /\ versions \in Seq([fh : Handles, upto : Nat, call : Calls])
  /\ logged \in SUBSET Calls
  /\ healthy \in BOOLEAN

(* "an older one can never land after (and shadow) a newer one": the       *)
(* versions one handle appends are in the order of its mutations.          *)
NewestLandsLast ==
  \A i, j \in DOMAIN versions :
    i < j /\ versions[i].fh = versions[j].fh => versions[i].upto < versions[j].upto

(* An fsync or a flush of the writer that succeeded has put everything     *)
(* written before it into the store, also when another commit of the       *)
(* handle overlapped or failed.                                            *)
SuccessIsStored ==
  \A t \in Calls :
    pc[t] = "done" /\ t.kind = "commit" /\ t \notin cut /\ t.pid \in owner[t.fh] /\ result[t] = "ok"
      => Reached(t.fh, asked[t])

(* Content that is dropped with its handle was reported: the close record  *)
(* of the audit log carries the error of the last commit.                  *)
LossIsReported ==
  \A t \in Calls :
    pc[t] = "done" /\ t.kind = "release" /\ ~Reached(t.fh, buf[t.fh]) => result[t] = "error"

(* Every version has its event in the audit log, unless its commit is in   *)
(* progress or was answered with an error by a log that is now degraded.   *)
CommitsAreAudited ==
  \A i \in DOMAIN versions :
    LET t == versions[i].call
    IN  t \in logged \/ pc[t] = "audit" \/ (result[t] = "error" /\ ~healthy)

(* What a writer is told is true: versions land in order, success means    *)
(* stored, a loss is reported, and every version is audited.               *)
WritesAreHonest ==
  TypeOK /\ NewestLandsLast /\ SuccessIsStored /\ LossIsReported /\ CommitsAreAudited

(* Every call is answered: overlapping commits do not block each other     *)
(* for good, so that again and again no call is in progress.               *)
EveryCallReturns == []<>(\A t \in Calls : pc[t] \in {"idle", "done"})
=============================================================================
