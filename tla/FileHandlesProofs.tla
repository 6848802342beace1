------------------------- MODULE FileHandlesProofs -------------------------
(***************************************************************************)
(* Proofs about WriteHandles and ReadSessions, the two sides of an open    *)
(* file: for every set of handles, processes and calls, any number of pool *)
(* threads and any number of commits.                                      *)
(***************************************************************************)
EXTENDS WriteHandles, ReadSessions, TLAPS

(* The leaves are first-order steps; those with arithmetic or records cite SMT. *)
USE ZenonT(60)

---------------------------------------------------------------------------
(* Writes. *)

(* A handle that has not been opened is untouched, and one that has not    *)
(* been closed has a buffer.                                               *)
HandleInv ==
  \A h \in Handles :
    /\ phase[h] \in {"open", "closing"} => h \in table
    /\ phase[h] = "new" => /\ ~dirty[h] /\ buf[h] = 0
                           /\ \A t \in Calls : t.fh = h => pc[t] = "idle"

(* Who is between the guard and the reply holds the guard alone. *)
LockInv ==
  \A t \in Calls : pc[t] \in {"take", "append", "audit"} => lock[t.fh] = {t}

(* What the kernel sends, and when. *)
CallInv ==
  \A t \in Calls :
    /\ pc[t] # "idle" => asked[t] <= buf[t.fh]
    /\ t.kind = "commit" /\ Outstanding(t) => phase[t.fh] = "open"
    /\ t.kind = "commit" => pc[t] \notin {"drop", "remove"}
    /\ t.kind = "release" => pc[t] # "check"
    /\ t.kind = "release" /\ pc[t] \notin {"idle", "done"} => phase[t.fh] = "closing"
    /\ t.kind = "release" /\ pc[t] = "done" => phase[t.fh] = "closed"

(* The store is behind a dirty buffer; a clean one is in the store, or a   *)
(* commit is about to append it.                                           *)
UptoInv == \A i \in DOMAIN versions : versions[i].upto <= buf[versions[i].fh]
DirtyInv ==
  \A i \in DOMAIN versions : dirty[versions[i].fh] => versions[i].upto < buf[versions[i].fh]
CleanInv ==
  \A h \in table : ~dirty[h] =>
    \/ Reached(h, buf[h])
    \/ \E t \in Calls : t.fh = h /\ pc[t] = "append" /\ took[t] = buf[h]
BufferInv == UptoInv /\ DirtyInv /\ CleanInv

(* The snapshot of a commit in progress. *)
SnapshotInv ==
  \A t \in Calls :
    /\ pc[t] \in {"append", "audit"} => asked[t] <= took[t] /\ took[t] <= buf[t.fh]
    /\ pc[t] = "append" =>
         \A i \in DOMAIN versions : versions[i].fh = t.fh => versions[i].upto < took[t]
    /\ pc[t] = "audit" => Reached(t.fh, took[t])
    /\ pc[t] = "append" /\ dirty[t.fh] => took[t] < buf[t.fh]
    /\ t.kind = "release" /\ pc[t] \in {"append", "audit"} => took[t] = buf[t.fh]

(* What a reply means. *)
ReplyInv ==
  /\ SuccessIsStored
  /\ \A t \in Calls :
       t.kind = "release" /\ pc[t] \in {"drop", "remove", "done"} =>
         result[t] = "error" \/ Reached(t.fh, buf[t.fh])

AuditInv ==
  \A i \in DOMAIN versions :
    /\ pc[versions[i].call] \in {"audit", "drop", "remove", "done"}
    /\ versions[i].call \in logged \/ pc[versions[i].call] = "audit"
         \/ (result[versions[i].call] = "error" /\ ~healthy)

CommitInv == BufferInv /\ SnapshotInv /\ ReplyInv /\ NewestLandsLast
WriteInv == TypeOK /\ HandleInv /\ LockInv /\ CallInv /\ CommitInv /\ AuditInv

---------------------------------------------------------------------------
USE DEF callVars

LEMMA CallType ==
  \A t \in Calls : t.fh \in Handles /\ t.pid \in Processes /\ t.kind \in {"commit", "release"}
  BY CallsAssumption

LEMMA InitWrite == Init => WriteInv
  BY CallType, SMTT(30)
  DEF Init, WriteInv, TypeOK, Labels, HandleInv, LockInv, CallInv, CommitInv, BufferInv, UptoInv, DirtyInv,
      CleanInv, SnapshotInv,
      ReplyInv, SuccessIsStored, NewestLandsLast, AuditInv, Outstanding, Reached

LEMMA NextType ==
  ASSUME TypeOK, Next
  PROVE  TypeOK'
<1> USE CallType DEF TypeOK, Labels, GoTo, Return, Unlock
<1>1. ASSUME NEW h \in Handles, NEW p \in Processes, NEW trunc \in BOOLEAN, HandleOpen(h, p, trunc)
      PROVE  TypeOK'
  BY <1>1 DEF HandleOpen
<1>2. ASSUME NEW h \in Handles, Mutate(h) PROVE TypeOK'
  BY <1>2, SMTT(30) DEF Mutate
<1>3. ASSUME NEW h \in Handles, HandleOpenFails(h) PROVE TypeOK'
  BY <1>3 DEF HandleOpenFails
<1>4. ASSUME NEW t \in Calls, CallCommit(t) PROVE TypeOK'
  BY <1>4 DEF CallCommit
<1>5. ASSUME NEW t \in Calls, CallRelease(t) PROVE TypeOK'
  BY <1>5 DEF CallRelease
<1>6. ASSUME NEW t \in Calls, Interrupt(t) PROVE TypeOK'
  BY <1>6 DEF Interrupt
<1>7. ASSUME NEW t \in Calls, CheckOwner(t) PROVE TypeOK'
  <2>1. CASE t.fh \in table /\ t.pid \in owner[t.fh]
    <3>1. /\ pc' = [pc EXCEPT ![t] = "guard"]
          /\ UNCHANGED <<phase, owner, table, target, buf, dirty, lock, cut, asked, took, result, versions,
                         logged, healthy>>
      BY ONLY <1>7, <2>1 DEF CheckOwner, GoTo
    <3> QED
      BY <3>1
  <2>2. CASE ~(t.fh \in table /\ t.pid \in owner[t.fh])
    BY <1>7, <2>2 DEF CheckOwner
  <2> QED
    BY <2>1, <2>2
<1>8. ASSUME NEW t \in Calls, CommitGuard(t) PROVE TypeOK'
  BY <1>8 DEF CommitGuard
<1>9. ASSUME NEW t \in Calls, Lock(t) PROVE TypeOK'
  BY <1>9, SMTT(30) DEF Lock
<1>10. ASSUME NEW t \in Calls, TakeDirty(t) PROVE TypeOK'
  <2>1. CASE t.fh \in table /\ dirty[t.fh]
    <3>1. /\ pc' = [pc EXCEPT ![t] = "append"]
          /\ dirty' = [dirty EXCEPT ![t.fh] = FALSE]
          /\ took' = [took EXCEPT ![t] = buf[t.fh]]
          /\ UNCHANGED <<phase, owner, table, target, buf, lock, cut, asked, result, versions, logged, healthy>>
      BY ONLY <1>10, <2>1 DEF TakeDirty, GoTo
    <3> QED
      BY <3>1
  <2>2. CASE ~(t.fh \in table /\ dirty[t.fh])
    <3>1. /\ pc' = [pc EXCEPT ![t] = IF t.kind = "release" THEN "drop" ELSE "done"]
          /\ result' = [result EXCEPT ![t] = "ok"]
          /\ lock' = [lock EXCEPT ![t.fh] = @ \ {t}]
          /\ UNCHANGED <<phase, owner, table, target, buf, dirty, cut, asked, took, versions, logged, healthy>>
      BY ONLY <1>10, <2>2 DEF TakeDirty, Return, Unlock, GoTo
    <3> QED
      BY <3>1
  <2> QED
    BY <2>1, <2>2
<1>11. ASSUME NEW t \in Calls, AppendVersion(t) PROVE TypeOK'
  BY <1>11, SMTT(30) DEF AppendVersion
<1>12. ASSUME NEW t \in Calls, AppendFails(t) PROVE TypeOK'
  BY <1>12, SMTT(30) DEF AppendFails
<1>13. ASSUME NEW t \in Calls, LogWriteCommit(t) PROVE TypeOK'
  BY <1>13 DEF LogWriteCommit
<1>14. ASSUME NEW t \in Calls, DropTarget(t) PROVE TypeOK'
  BY <1>14 DEF DropTarget
<1>15. ASSUME NEW t \in Calls, RemoveBuffer(t) PROVE TypeOK'
  BY <1>15 DEF RemoveBuffer
<1> HIDE DEF TypeOK
<1> QED
  BY <1>1, <1>2, <1>3, <1>4, <1>5, <1>6, <1>7, <1>8, <1>9,
     <1>10, <1>11, <1>12, <1>13, <1>14, <1>15
  DEF Next, CallStep, Write, Setattr

LEMMA NextHandle ==
  ASSUME TypeOK, HandleInv, CallInv, Next
  PROVE  HandleInv'
<1> USE CallType DEF TypeOK, HandleInv, GoTo, Return
<1>1. ASSUME NEW h \in Handles, NEW p \in Processes, NEW trunc \in BOOLEAN, HandleOpen(h, p, trunc)
      PROVE  HandleInv'
  BY <1>1 DEF HandleOpen
<1>2. ASSUME NEW h \in Handles, phase[h] = "open", Mutate(h) PROVE HandleInv'
  BY <1>2 DEF Mutate
<1>3. ASSUME NEW h \in Handles, HandleOpenFails(h) PROVE HandleInv'
  BY <1>3 DEF HandleOpenFails
<1>4. ASSUME NEW t \in Calls, CallCommit(t) \/ CallRelease(t) \/ Interrupt(t) PROVE HandleInv'
  BY <1>4, SMTT(30) DEF CallCommit, CallRelease, Interrupt
<1>5. ASSUME NEW t \in Calls, CallStep(t) PROVE HandleInv'
  <2>1. phase[t.fh] # "new"
    BY <1>5 DEF CallStep, CheckOwner, CommitGuard, Lock, TakeDirty, AppendVersion, AppendFails,
                LogWriteCommit, DropTarget, RemoveBuffer
  <2>2. CASE CheckOwner(t) \/ CommitGuard(t) \/ Lock(t) \/ AppendVersion(t) \/ LogWriteCommit(t) \/ DropTarget(t)
    <3>1. UNCHANGED <<phase, table, dirty, buf>> /\ \E l : pc' = [pc EXCEPT ![t] = l]
      BY <2>2 DEF CheckOwner, CommitGuard, Lock, AppendVersion, LogWriteCommit, DropTarget
    <3> QED
      BY <2>1, <3>1
  <2>3. CASE TakeDirty(t) \/ AppendFails(t)
    <3>1. /\ UNCHANGED <<phase, table, buf>> /\ \E l : pc' = [pc EXCEPT ![t] = l]
          /\ \A h \in Handles : h # t.fh => dirty'[h] = dirty[h]
      BY <2>3, SMTT(30) DEF TakeDirty, AppendFails
    <3> QED
      BY <2>1, <3>1
  <2>4. CASE RemoveBuffer(t)
    BY <2>1, <2>4 DEF RemoveBuffer
  <2> QED
    BY <1>5, <2>2, <2>3, <2>4 DEF CallStep
<1> QED
  BY <1>1, <1>2, <1>3, <1>4, <1>5, SMTT(30) DEF Next, Write, Setattr

LEMMA NextLock ==
  ASSUME TypeOK, LockInv, Next
  PROVE  LockInv'
<1> USE CallType DEF TypeOK, LockInv, GoTo, Return, Unlock
<1>1. CASE UNCHANGED <<pc, lock>>
  BY <1>1
<1>2. ASSUME NEW t \in Calls, UNCHANGED lock, NEW l \in {"check", "guard", "lock", "drop", "remove", "done"},
             pc' = [pc EXCEPT ![t] = l]
      PROVE  LockInv'
  BY <1>2
<1>3. ASSUME NEW t \in Calls, pc[t] = "append", UNCHANGED lock, pc' = [pc EXCEPT ![t] = "audit"]
      PROVE  LockInv'
  BY <1>3
<1>4. ASSUME NEW t \in Calls, Lock(t) PROVE LockInv'
  BY <1>4 DEF Lock
<1>5. ASSUME NEW t \in Calls, pc[t] = "take", UNCHANGED lock, pc' = [pc EXCEPT ![t] = "append"]
      PROVE  LockInv'
  BY <1>5
<1>6. ASSUME NEW t \in Calls, pc[t] \in {"take", "append", "audit"}, Unlock(t),
             NEW l \in {"drop", "done"}, pc' = [pc EXCEPT ![t] = l]
      PROVE  LockInv'
  BY <1>6
<1>7. ASSUME NEW t \in Calls, CallStep(t) PROVE LockInv'
  <2>1. CASE CheckOwner(t) \/ CommitGuard(t)
    BY <1>2, <2>1 DEF CheckOwner, CommitGuard
  <2>2. CASE Lock(t)
    BY <1>4, <2>2
  <2>3. CASE TakeDirty(t)
    BY <1>5, <1>6, <2>3 DEF TakeDirty
  <2>4. CASE AppendVersion(t)
    BY <1>3, <2>4 DEF AppendVersion
  <2>5. CASE AppendFails(t) \/ LogWriteCommit(t)
    BY <1>6, <2>5 DEF AppendFails, LogWriteCommit
  <2>6. CASE DropTarget(t) \/ RemoveBuffer(t)
    BY <1>2, <2>6 DEF DropTarget, RemoveBuffer
  <2> QED
    BY <1>7, <2>1, <2>2, <2>3, <2>4, <2>5, <2>6 DEF CallStep
<1>8. ASSUME NEW t \in Calls, CallCommit(t) \/ CallRelease(t) PROVE LockInv'
  BY <1>2, <1>8 DEF CallCommit, CallRelease
<1> QED
  BY <1>1, <1>7, <1>8 DEF Next, Write, Setattr, Mutate, HandleOpen, HandleOpenFails, Interrupt

LEMMA NextCall ==
  ASSUME TypeOK, HandleInv, CallInv, Next
  PROVE  CallInv'
<1> USE CallType DEF TypeOK, CallInv, Outstanding, GoTo, Return
<1>1. ASSUME NEW h \in Handles, NEW p \in Processes, NEW trunc \in BOOLEAN, HandleOpen(h, p, trunc)
      PROVE  CallInv'
  BY <1>1 DEF HandleOpen, HandleInv
<1>2. ASSUME NEW h \in Handles, Mutate(h) PROVE CallInv'
  BY <1>2, SMTT(30) DEF Mutate
<1>3. ASSUME NEW h \in Handles, HandleOpenFails(h) PROVE CallInv'
  BY <1>3 DEF HandleOpenFails, HandleInv
<1>4. ASSUME NEW t \in Calls, CallCommit(t) PROVE CallInv'
  BY <1>4, SMTT(30) DEF CallCommit
<1>5. ASSUME NEW t \in Calls, CallRelease(t) PROVE CallInv'
  BY <1>5, CallsAssumption, SMTT(30) DEF CallRelease
<1>6. ASSUME NEW t \in Calls, Interrupt(t) PROVE CallInv'
  BY <1>6 DEF Interrupt
<1>7. ASSUME NEW t \in Calls, RemoveBuffer(t) PROVE CallInv'
  BY <1>7, CallsAssumption DEF RemoveBuffer
<1>8. ASSUME NEW t \in Calls, pc[t] \notin {"idle", "done"},
             UNCHANGED <<asked, buf, phase, cut>>,
             NEW l \in Labels \ {"idle"}, pc' = [pc EXCEPT ![t] = l],
             t.kind = "commit" => l \notin {"drop", "remove"},
             t.kind = "release" => l \notin {"check", "done"}
      PROVE  CallInv'
  BY <1>8
<1>9. ASSUME NEW t \in Calls, CallStep(t), ~RemoveBuffer(t) PROVE CallInv'
  <2>1. /\ pc[t] \notin {"idle", "done"}
        /\ UNCHANGED <<asked, buf, phase, cut>>
    BY <1>9 DEF CallStep, CheckOwner, CommitGuard, Lock, TakeDirty, AppendVersion, AppendFails,
                LogWriteCommit, DropTarget
  <2>2. \E l \in Labels \ {"idle"} :
           /\ pc' = [pc EXCEPT ![t] = l]
           /\ t.kind = "commit" => l \notin {"drop", "remove"}
           /\ t.kind = "release" => l \notin {"check", "done"}
    <3> USE DEF Labels
    <3>1. CASE CheckOwner(t)
      <4>1. \/ pc' = [pc EXCEPT ![t] = "guard"]
            \/ pc' = [pc EXCEPT ![t] = IF t.kind = "release" THEN "drop" ELSE "done"]
        BY ONLY <3>1 DEF CheckOwner, GoTo, Return
      <4> QED
        BY <4>1, SMTT(30)
    <3>2. CASE CommitGuard(t)
      <4>1. \/ pc' = [pc EXCEPT ![t] = "lock"]
            \/ pc' = [pc EXCEPT ![t] = IF t.kind = "release" THEN "drop" ELSE "done"]
        BY ONLY <3>2 DEF CommitGuard, GoTo, Return
      <4> QED
        BY <4>1, SMTT(30)
    <3>3. CASE Lock(t) \/ AppendVersion(t)
      BY <3>3, SMTT(30) DEF Lock, AppendVersion
    <3>4. CASE TakeDirty(t)
      BY <3>4, SMTT(30) DEF TakeDirty
    <3>5. CASE AppendFails(t) \/ LogWriteCommit(t)
      <4>1. pc' = [pc EXCEPT ![t] = IF t.kind = "release" THEN "drop" ELSE "done"]
        BY ONLY <3>5 DEF AppendFails, LogWriteCommit, GoTo, Return
      <4>2. CASE t.kind = "release"
        <5>1. pc' = [pc EXCEPT ![t] = "drop"]
          BY ONLY <4>1, <4>2
        <5>2. "drop" \in Labels \ {"idle"} /\ "drop" \notin {"check", "done"} /\ t.kind # "commit"
          BY <4>2
        <5> QED
          BY ONLY Zenon, <5>1, <5>2
      <4>3. CASE t.kind # "release"
        BY <4>1, <4>3
      <4> QED
        BY <4>2, <4>3
    <3>6. CASE DropTarget(t)
      <4>1. pc' = [pc EXCEPT ![t] = "remove"] /\ pc[t] = "drop"
        BY ONLY <3>6 DEF DropTarget, GoTo
      <4>2. t.kind # "commit" /\ "remove" \in Labels \ {"idle"}
        BY <4>1
      <4> QED
        BY <4>1, <4>2
    <3> QED
      BY <1>9, <3>1, <3>2, <3>3, <3>4, <3>5, <3>6 DEF CallStep
  <2> QED
    BY <1>8, <2>1, <2>2
<1> HIDE DEF TypeOK, CallInv
<1> QED
  BY <1>1, <1>2, <1>3, <1>4, <1>5, <1>6, <1>7, <1>9 DEF Next, Write, Setattr

(* What a new version changes. *)
LEMMA Appended ==
  ASSUME TypeOK, NEW t \in Calls, AppendVersion(t)
  PROVE  /\ DOMAIN versions = 1 .. Len(versions) /\ Len(versions) \in Nat
         /\ DOMAIN versions' = 1 .. (Len(versions) + 1)
         /\ \A i \in DOMAIN versions : versions'[i] = versions[i]
         /\ versions'[Len(versions) + 1] = [fh |-> t.fh, upto |-> took[t], call |-> t]
  BY CallType, SMTT(30) DEF TypeOK, AppendVersion

LEMMA NewVersion ==
  ASSUME TypeOK, NEW t \in Calls, AppendVersion(t)
  PROVE  /\ \A i \in DOMAIN versions : i \in DOMAIN versions' /\ versions'[i] = versions[i]
         /\ \A i \in DOMAIN versions' : i \in DOMAIN versions \/ i = Len(versions) + 1
         /\ Len(versions) + 1 \in DOMAIN versions'
         /\ versions'[Len(versions) + 1].fh = t.fh
         /\ versions'[Len(versions) + 1].upto = took[t]
         /\ versions'[Len(versions) + 1].call = t
         /\ \A i \in DOMAIN versions : i \in Nat /\ i < Len(versions) + 1
<1>1. \A r : r = [fh |-> t.fh, upto |-> took[t], call |-> t] => r.fh = t.fh /\ r.upto = took[t] /\ r.call = t
  BY SMTT(30)
<1>2. /\ DOMAIN versions = 1 .. Len(versions) /\ Len(versions) \in Nat
      /\ DOMAIN versions' = 1 .. (Len(versions) + 1)
  BY Appended
<1>3. /\ \A i \in DOMAIN versions : i \in DOMAIN versions'
      /\ \A i \in DOMAIN versions' : i \in DOMAIN versions \/ i = Len(versions) + 1
      /\ Len(versions) + 1 \in DOMAIN versions'
      /\ \A i \in DOMAIN versions : i \in Nat /\ i < Len(versions) + 1
  BY ONLY <1>2
<1>4. versions'[Len(versions) + 1] = [fh |-> t.fh, upto |-> took[t], call |-> t]
  BY Appended
<1>5. /\ versions'[Len(versions) + 1].fh = t.fh
      /\ versions'[Len(versions) + 1].upto = took[t]
      /\ versions'[Len(versions) + 1].call = t
  BY ONLY <1>1, <1>4
<1>6. \A i \in DOMAIN versions : versions'[i] = versions[i]
  BY Appended
<1> QED
  BY ONLY <1>3, <1>5, <1>6

(* The steps of a call that touch neither a buffer nor the store. *)
Quiet(t) ==
  /\ UNCHANGED <<buf, dirty, versions, took>>
  /\ table' \subseteq table
  /\ pc[t] # "append"
  /\ asked' = asked \/ asked' = [asked EXCEPT ![t] = buf[t.fh]]
  /\ \E l \in Labels \ {"append", "audit"} : pc' = [pc EXCEPT ![t] = l]

LEMMA QuietSteps ==
  ASSUME NEW t \in Calls,
         \/ CallCommit(t) \/ CallRelease(t) \/ CheckOwner(t) \/ CommitGuard(t) \/ Lock(t)
         \/ TakeDirty(t) /\ ~(t.fh \in table /\ dirty[t.fh])
         \/ LogWriteCommit(t) \/ DropTarget(t) \/ RemoveBuffer(t)
  PROVE  Quiet(t)
<1>1. /\ UNCHANGED <<buf, dirty, versions, took>> /\ table' \subseteq table /\ pc[t] # "append"
      /\ asked' = asked \/ asked' = [asked EXCEPT ![t] = buf[t.fh]]
  BY DEF CallCommit, CallRelease, CheckOwner, CommitGuard, Lock, TakeDirty, LogWriteCommit, DropTarget,
         RemoveBuffer
<1>2. \/ \E l \in {"check", "guard", "lock", "take", "remove", "done"} : pc' = [pc EXCEPT ![t] = l]
      \/ pc' = [pc EXCEPT ![t] = IF t.kind = "release" THEN "drop" ELSE "done"]
  BY DEF CallCommit, CallRelease, CheckOwner, CommitGuard, Lock, TakeDirty, LogWriteCommit, DropTarget,
         RemoveBuffer, GoTo, Return
<1> QED
  BY <1>1, <1>2 DEF Quiet, Labels

LEMMA StoreType ==
  ASSUME TypeOK
  PROVE  /\ buf \in [Handles -> Nat] /\ dirty \in [Handles -> BOOLEAN] /\ table \in SUBSET Handles
         /\ took \in [Calls -> Nat] /\ asked \in [Calls -> Nat] /\ pc \in [Calls -> Labels]
         /\ \A i \in DOMAIN versions :
              versions[i].fh \in Handles /\ versions[i].upto \in Nat /\ versions[i].call \in Calls
<1>1. \A i \in DOMAIN versions : versions[i] \in [fh : Handles, upto : Nat, call : Calls]
  <2> DEFINE Version == [fh : Handles, upto : Nat, call : Calls]
  <2>1. versions \in Seq(Version)
    BY DEF TypeOK
  <2>2. ASSUME NEW V, versions \in Seq(V) PROVE \A i \in DOMAIN versions : versions[i] \in V
    BY ONLY <2>2
  <2> HIDE DEF Version
  <2>3. \A i \in DOMAIN versions : versions[i] \in Version
    BY ONLY <2>1, <2>2
  <2> QED
    BY <2>3 DEF Version
<1> QED
  BY <1>1 DEF TypeOK

LEMMA NextBuffer ==
  ASSUME TypeOK, HandleInv, LockInv, BufferInv, SnapshotInv, Next
  PROVE  BufferInv'
<1> USE CallType, StoreType DEF BufferInv, UptoInv, DirtyInv, CleanInv
<1>1. ASSUME NEW h \in Handles, NEW p \in Processes, NEW trunc \in BOOLEAN, HandleOpen(h, p, trunc)
      PROVE  BufferInv'
  <2>1. phase[h] = "new" /\ buf[h] = 0 /\ ~dirty[h]
    BY <1>1 DEF HandleOpen, HandleInv
  <2>2. /\ buf' = [buf EXCEPT ![h] = IF trunc THEN 1 ELSE 0]
        /\ dirty' = [dirty EXCEPT ![h] = trunc]
        /\ table' = table \cup {h}
        /\ UNCHANGED <<versions, pc, took>>
    BY <1>1 DEF HandleOpen
  <2>3. UptoInv' /\ DirtyInv'
    BY <2>1, <2>2, SMTT(30)
  <2>4. CleanInv'
    BY <2>1, <2>2, SMTT(30) DEF Reached
  <2> QED
    BY <2>3, <2>4
<1>2. ASSUME NEW h \in Handles, Mutate(h) PROVE BufferInv'
  <2>1. /\ buf' = [buf EXCEPT ![h] = @ + 1]
        /\ dirty' = [dirty EXCEPT ![h] = TRUE]
        /\ UNCHANGED <<versions, pc, took, table>>
    BY <1>2 DEF Mutate
  <2>2. UptoInv' /\ DirtyInv'
    BY <2>1, SMTT(30)
  <2>3. CleanInv'
    BY <2>1 DEF Reached
  <2> QED
    BY <2>2, <2>3
<1>3. CASE UNCHANGED <<buf, dirty, versions, table, pc, took>>
  BY <1>3 DEF Reached
<1>4. ASSUME NEW t \in Calls, Quiet(t) PROVE BufferInv'
  <2>1. UptoInv' /\ DirtyInv'
    BY <1>4 DEF Quiet
  <2>2. CleanInv'
    BY <1>4, SMTT(30) DEF Quiet, Reached
  <2> QED
    BY <2>1, <2>2
<1>5. ASSUME NEW t \in Calls, TakeDirty(t), t.fh \in table /\ dirty[t.fh] PROVE BufferInv'
  <2>1. /\ dirty' = [dirty EXCEPT ![t.fh] = FALSE]
        /\ took' = [took EXCEPT ![t] = buf[t.fh]]
        /\ pc' = [pc EXCEPT ![t] = "append"] /\ pc[t] = "take"
        /\ UNCHANGED <<buf, table, versions>>
    BY ONLY <1>5 DEF TakeDirty, GoTo
  <2>2. UptoInv' /\ DirtyInv'
    BY <2>1
  <2>3. CleanInv'
    BY <2>1, SMTT(30) DEF Reached
  <2> QED
    BY <2>2, <2>3
<1>6. ASSUME NEW t \in Calls, AppendVersion(t) PROVE BufferInv'
  <2>1. /\ pc[t] = "append" /\ took[t] <= buf[t.fh] /\ (dirty[t.fh] => took[t] < buf[t.fh])
        /\ pc' = [pc EXCEPT ![t] = "audit"]
        /\ UNCHANGED <<buf, dirty, table, took>>
    BY <1>6 DEF AppendVersion, GoTo, SnapshotInv
  <2>2. /\ \A i \in DOMAIN versions : i \in DOMAIN versions' /\ versions'[i] = versions[i]
        /\ \A i \in DOMAIN versions' : i \in DOMAIN versions \/ i = Len(versions) + 1
        /\ Len(versions) + 1 \in DOMAIN versions'
        /\ versions'[Len(versions) + 1].fh = t.fh /\ versions'[Len(versions) + 1].upto = took[t]
    BY <1>6, NewVersion
  <2>3. UptoInv' /\ DirtyInv'
    <3> SUFFICES ASSUME NEW i \in DOMAIN versions'
                 PROVE  /\ versions'[i].upto <= buf[versions'[i].fh]
                        /\ dirty[versions'[i].fh] => versions'[i].upto < buf[versions'[i].fh]
      BY <2>1
    <3>1. CASE i \in DOMAIN versions
      BY <2>2, <3>1
    <3>2. CASE i = Len(versions) + 1
      BY <2>1, <2>2, <3>2
    <3> QED
      BY <2>2, <3>1, <3>2
  <2>4. CleanInv'
    <3> SUFFICES ASSUME NEW h \in table, ~dirty[h]
                 PROVE  \/ Reached(h, buf[h])'
                        \/ \E s \in Calls : s.fh = h /\ pc'[s] = "append" /\ took[s] = buf[h]
      BY <2>1
    <3>1. CASE Reached(h, buf[h])
      BY <2>1, <2>2, <3>1 DEF Reached
    <3>2. ASSUME NEW s \in Calls, s.fh = h, pc[s] = "append", took[s] = buf[h]
          PROVE  Reached(h, buf[h])' \/ pc'[s] = "append"
      BY <2>1, <2>2, <3>2, SMTT(30) DEF Reached
    <3> QED
      BY <3>1, <3>2
  <2> QED
    BY <2>3, <2>4
<1>7. ASSUME NEW t \in Calls, AppendFails(t) PROVE BufferInv'
  <2>1. /\ pc[t] = "append" /\ took[t] <= buf[t.fh]
        /\ \A i \in DOMAIN versions : versions[i].fh = t.fh => versions[i].upto < took[t]
        /\ t.fh \in table => dirty'[t.fh]
        /\ \A h \in Handles \ {t.fh} : dirty'[h] = dirty[h]
        /\ \A s \in Calls \ {t} : pc'[s] = pc[s]
        /\ UNCHANGED <<buf, versions, table, took>>
    BY <1>7 DEF AppendFails, GoTo, Return, SnapshotInv
  <2>2. UptoInv' /\ DirtyInv'
    BY <2>1, SMTT(30)
  <2>3. CleanInv'
    BY <2>1, SMTT(30) DEF Reached
  <2> QED
    BY <2>2, <2>3
<1> HIDE DEF BufferInv
<1>8. ASSUME NEW t \in Calls, CallStep(t) PROVE BufferInv'
  BY <1>4, <1>5, <1>6, <1>7, <1>8, QuietSteps DEF CallStep
<1>9. ASSUME NEW t \in Calls, CallCommit(t) \/ CallRelease(t) PROVE BufferInv'
  BY <1>4, <1>9, QuietSteps
<1> QED
  BY <1>1, <1>2, <1>3, <1>8, <1>9 DEF Next, Write, Setattr, HandleOpenFails, Interrupt

LEMMA NextSnapshot ==
  ASSUME TypeOK, HandleInv, LockInv, CallInv, BufferInv, SnapshotInv, Next
  PROVE  SnapshotInv'
<1> USE CallType, StoreType DEF SnapshotInv
<1>1. ASSUME NEW h \in Handles, NEW p \in Processes, NEW trunc \in BOOLEAN, HandleOpen(h, p, trunc)
      PROVE  SnapshotInv'
  <2>1. \A t \in Calls : t.fh = h => pc[t] = "idle"
    BY <1>1 DEF HandleOpen, HandleInv
  <2>2. /\ \A g \in Handles \ {h} : buf'[g] = buf[g] /\ dirty'[g] = dirty[g]
        /\ UNCHANGED <<versions, pc, took, asked>>
    BY <1>1 DEF HandleOpen
  <2> QED
    BY <2>1, <2>2 DEF Reached
<1>2. ASSUME NEW h \in Handles, phase[h] = "open", Mutate(h) PROVE SnapshotInv'
  <2>1. /\ buf' = [buf EXCEPT ![h] = @ + 1]
        /\ UNCHANGED <<versions, pc, took, asked>>
        /\ \A g \in Handles \ {h} : buf'[g] = buf[g] /\ dirty'[g] = dirty[g]
    BY <1>2 DEF Mutate
  <2>2. \A t \in Calls : t.kind = "release" /\ pc[t] \in {"append", "audit"} => t.fh # h
    BY <1>2 DEF CallInv
  <2> QED
    BY <2>1, <2>2, SMTT(30) DEF Reached
<1>3. CASE UNCHANGED <<buf, dirty, versions, pc, took, asked>>
  BY <1>3 DEF Reached
<1>4. ASSUME NEW t \in Calls, Quiet(t) PROVE SnapshotInv'
  <2>1. /\ UNCHANGED <<buf, dirty, versions, took>>
        /\ \A s \in Calls \ {t} : asked'[s] = asked[s] /\ pc'[s] = pc[s]
        /\ pc'[t] \notin {"append", "audit"}
    BY <1>4 DEF Quiet
  <2> QED
    BY <2>1 DEF Reached
<1>5. ASSUME NEW t \in Calls, TakeDirty(t), t.fh \in table /\ dirty[t.fh] PROVE SnapshotInv'
  <2>1. /\ dirty' = [dirty EXCEPT ![t.fh] = FALSE]
        /\ took' = [took EXCEPT ![t] = buf[t.fh]]
        /\ pc' = [pc EXCEPT ![t] = "append"] /\ pc[t] = "take"
        /\ UNCHANGED <<buf, asked, versions>>
    BY ONLY <1>5 DEF TakeDirty, GoTo
  <2>2. /\ asked[t] <= buf[t.fh]
        /\ \A i \in DOMAIN versions : versions[i].fh = t.fh => versions[i].upto < buf[t.fh]
    BY <1>5, <2>1 DEF CallInv, BufferInv, DirtyInv
  <2>3. \A s \in Calls \ {t} : s.fh = t.fh => pc[s] \notin {"append", "audit"}
    BY <2>1 DEF LockInv
  <2> QED
    BY <2>1, <2>2, <2>3, SMTT(30) DEF Reached
<1>6. ASSUME NEW t \in Calls, AppendVersion(t) PROVE SnapshotInv'
  <2>1. /\ pc[t] = "append" /\ pc' = [pc EXCEPT ![t] = "audit"]
        /\ UNCHANGED <<buf, dirty, asked, took>>
    BY <1>6 DEF AppendVersion, GoTo
  <2>2. \A s \in Calls \ {t} : s.fh = t.fh => pc[s] \notin {"append", "audit"}
    BY <2>1 DEF LockInv
  <2>3. \A h \in Handles, n \in Nat : Reached(h, n) => Reached(h, n)'
    BY <1>6, NewVersion DEF Reached
  <2>4. Reached(t.fh, took[t])'
    BY <1>6, <2>1, NewVersion, SMTT(30) DEF Reached
  <2>5. \A s \in Calls \ {t} : pc[s] = "append" =>
           \A i \in DOMAIN versions' : versions'[i].fh = s.fh => versions'[i].upto < took[s]
    BY <1>6, <2>2, NewVersion, SMTT(30)
  <2> QED
    BY <2>1, <2>3, <2>4, <2>5
<1>7. ASSUME NEW t \in Calls, AppendFails(t) PROVE SnapshotInv'
  <2>1. /\ pc[t] = "append" /\ pc'[t] \notin {"append", "audit"}
        /\ \A h \in Handles \ {t.fh} : dirty'[h] = dirty[h]
        /\ \A s \in Calls \ {t} : pc'[s] = pc[s]
        /\ UNCHANGED <<buf, versions, asked, took>>
    BY <1>7 DEF AppendFails, GoTo, Return
  <2>2. \A s \in Calls \ {t} : s.fh = t.fh => pc[s] \notin {"append", "audit"}
    BY <2>1 DEF LockInv
  <2> QED
    BY <2>1, <2>2 DEF Reached
<1> HIDE DEF SnapshotInv
<1>8. ASSUME NEW t \in Calls, CallStep(t) PROVE SnapshotInv'
  BY <1>4, <1>5, <1>6, <1>7, <1>8, QuietSteps DEF CallStep
<1>9. ASSUME NEW t \in Calls, CallCommit(t) \/ CallRelease(t) PROVE SnapshotInv'
  BY <1>4, <1>9, QuietSteps
<1> QED
  BY <1>1, <1>2, <1>3, <1>8, <1>9 DEF Next, Write, Setattr, HandleOpenFails, Interrupt

LEMMA ReachedLess ==
  ASSUME TypeOK, NEW h \in Handles, NEW n \in Nat, NEW m \in Nat, m <= n, Reached(h, n)
  PROVE  Reached(h, m)
  BY StoreType, SMTT(30) DEF Reached

(* A call that is about to reply on behalf of the writer. *)
LEMMA ReplyStep ==
  ASSUME TypeOK, LockInv, CallInv, BufferInv, SnapshotInv, NEW t \in Calls,
         \/ pc[t] = "take" /\ t.fh \in table /\ ~dirty[t.fh]
         \/ pc[t] = "audit"
  PROVE  /\ Reached(t.fh, asked[t])
         /\ t.kind = "release" => Reached(t.fh, buf[t.fh])
<1> USE CallType, StoreType
<1>1. CASE pc[t] = "take" /\ t.fh \in table /\ ~dirty[t.fh]
  <2>1. \A s \in Calls : s.fh = t.fh => pc[s] # "append"
    BY <1>1 DEF LockInv
  <2>2. Reached(t.fh, buf[t.fh])
    BY <1>1, <2>1 DEF BufferInv, CleanInv
  <2>3. asked[t] <= buf[t.fh]
    BY <1>1 DEF CallInv
  <2> QED
    BY <2>2, <2>3, ReachedLess
<1>2. CASE pc[t] = "audit"
  <2>1. /\ asked[t] <= took[t] /\ Reached(t.fh, took[t])
        /\ t.kind = "release" => took[t] = buf[t.fh]
    BY <1>2 DEF SnapshotInv
  <2> QED
    BY <2>1, ReachedLess
<1> QED
  BY <1>1, <1>2

LEMMA NextReply ==
  ASSUME TypeOK, HandleInv, LockInv, CallInv, BufferInv, SnapshotInv, ReplyInv, Next
  PROVE  ReplyInv'
<1> USE CallType, StoreType DEF ReplyInv, SuccessIsStored
<1>1. ASSUME NEW h \in Handles, NEW p \in Processes, NEW trunc \in BOOLEAN, HandleOpen(h, p, trunc)
      PROVE  ReplyInv'
  <2>1. \A t \in Calls : t.fh = h => pc[t] = "idle"
    BY <1>1 DEF HandleOpen, HandleInv
  <2>2. /\ \A g \in Handles \ {h} : buf'[g] = buf[g] /\ owner'[g] = owner[g]
        /\ UNCHANGED <<versions, pc, cut, result, asked>>
    BY <1>1 DEF HandleOpen, TypeOK
  <2> QED
    BY <2>1, <2>2, SMTT(30) DEF Reached
<1>2. ASSUME NEW h \in Handles, phase[h] = "open", Mutate(h) PROVE ReplyInv'
  <2>1. /\ \A g \in Handles \ {h} : buf'[g] = buf[g]
        /\ UNCHANGED <<versions, pc, cut, owner, result, asked>>
    BY <1>2 DEF Mutate
  <2>2. \A t \in Calls : t.kind = "release" /\ pc[t] \in {"drop", "remove", "done"} => t.fh # h
    BY <1>2 DEF CallInv
  <2> QED
    BY <2>1, <2>2 DEF Reached
<1>3. CASE cut \subseteq cut' /\ UNCHANGED <<buf, versions, pc, owner, result, asked>>
  BY <1>3 DEF Reached
<1>4. ASSUME NEW t \in Calls,
             UNCHANGED <<buf, owner, cut>>,
             \A i \in DOMAIN versions : i \in DOMAIN versions' /\ versions'[i] = versions[i],
             \A s \in Calls \ {t} : pc'[s] = pc[s] /\ result'[s] = result[s] /\ asked'[s] = asked[s],
             \/ pc'[t] \notin {"drop", "remove", "done"}
             \/ t.kind = "release" /\ pc[t] \in {"drop", "remove"} /\ result' = result
             \/ result'[t] = "error"
             \/ t.kind = "commit" /\ (t.pid \notin owner[t.fh] \/ t \in cut)
             \/ /\ asked' = asked /\ Reached(t.fh, asked[t])
                /\ t.kind = "release" => Reached(t.fh, buf[t.fh])
      PROVE  ReplyInv'
  <2>1. \A h, n : Reached(h, n) => n = 0 \/ \E i \in DOMAIN versions' : versions'[i].fh = h /\ n <= versions'[i].upto
    BY <1>4 DEF Reached
  <2>2. ASSUME NEW s \in Calls, pc'[s] = "done", s.kind = "commit", s \notin cut, s.pid \in owner[s.fh],
               result'[s] = "ok"
        PROVE  Reached(s.fh, asked[s])'
    <3>1. Reached(s.fh, asked[s]) /\ asked'[s] = asked[s]
      BY <1>4, <2>2
    <3> QED
      BY <2>1, <3>1 DEF Reached
  <2>3. ASSUME NEW s \in Calls, s.kind = "release", pc'[s] \in {"drop", "remove", "done"}, result'[s] # "error"
        PROVE  Reached(s.fh, buf[s.fh])'
    <3>1. Reached(s.fh, buf[s.fh])
      BY <1>4, <2>3
    <3> QED
      BY <1>4, <2>1, <3>1, SMTT(30) DEF Reached
  <2> QED
    BY <1>4, <2>2, <2>3
<1>5. ASSUME NEW t \in Calls, CallCommit(t) \/ CallRelease(t) PROVE ReplyInv'
  <2>1. /\ UNCHANGED <<buf, owner, cut, versions, result>>
        /\ \A s \in Calls \ {t} : pc'[s] = pc[s] /\ asked'[s] = asked[s]
        /\ pc'[t] \in {"check", "guard"}
    BY <1>5 DEF CallCommit, CallRelease, GoTo
  <2> QED
    BY <1>4, <2>1
<1>6. ASSUME NEW t \in Calls, CheckOwner(t) \/ CommitGuard(t) PROVE ReplyInv'
  <2>1. /\ UNCHANGED <<buf, owner, cut, versions, asked>>
        /\ \A s \in Calls \ {t} : pc'[s] = pc[s] /\ result'[s] = result[s]
    BY <1>6, SMTT(30) DEF CheckOwner, CommitGuard, GoTo, Return, TypeOK
  <2>2. \/ pc'[t] \in {"guard", "lock"}
        \/ t.kind = "commit" /\ t.pid \notin owner[t.fh]
        \/ t.fh \notin table
    BY <1>6 DEF CheckOwner, CommitGuard, GoTo, CallInv
  <2>3. t.fh \notin table => t.kind = "commit" /\ t \in cut
    BY <1>6 DEF CheckOwner, CommitGuard, CallInv, Outstanding, HandleInv
  <2> QED
    BY <1>4, <2>1, <2>2, <2>3
<1>7. ASSUME NEW t \in Calls, Lock(t) \/ AppendVersion(t) \/ (TakeDirty(t) /\ t.fh \in table /\ dirty[t.fh])
      PROVE  ReplyInv'
  <2>1. /\ UNCHANGED <<buf, owner, cut, asked, result>>
        /\ \A s \in Calls \ {t} : pc'[s] = pc[s]
        /\ pc'[t] \in {"take", "append", "audit"}
    BY <1>7 DEF Lock, AppendVersion, TakeDirty, GoTo
  <2>2. \A i \in DOMAIN versions : i \in DOMAIN versions' /\ versions'[i] = versions[i]
    <3>1. CASE AppendVersion(t)
      BY <3>1, NewVersion
    <3>2. CASE UNCHANGED versions
      BY <3>2
    <3> QED
      BY <1>7, <3>1, <3>2 DEF Lock, TakeDirty
  <2> QED
    BY <1>4, <2>1, <2>2
<1>8. ASSUME NEW t \in Calls, AppendFails(t) PROVE ReplyInv'
  <2>1. /\ UNCHANGED <<buf, owner, cut, asked, versions>>
        /\ \A s \in Calls \ {t} : pc'[s] = pc[s] /\ result'[s] = result[s]
        /\ result'[t] = "error"
    BY <1>8 DEF AppendFails, Return, GoTo, TypeOK
  <2> QED
    BY <1>4, <2>1
<1>9. ASSUME NEW t \in Calls, LogWriteCommit(t) \/ (TakeDirty(t) /\ ~(t.fh \in table /\ dirty[t.fh]))
      PROVE  ReplyInv'
  <2>1. /\ UNCHANGED <<buf, owner, cut, asked, versions>>
        /\ \A s \in Calls \ {t} : pc'[s] = pc[s] /\ result'[s] = result[s]
        /\ pc[t] = "audit" \/ (pc[t] = "take" /\ ~(t.fh \in table /\ dirty[t.fh]))
    BY <1>9 DEF LogWriteCommit, TakeDirty, Return, GoTo, TypeOK
  <2>2. pc[t] = "take" /\ t.fh \notin table => t.kind = "commit" /\ t \in cut
    BY DEF CallInv, Outstanding, HandleInv
  <2>3. CASE pc[t] = "take" /\ t.fh \notin table
    BY <1>4, <2>1, <2>2, <2>3
  <2>4. CASE pc[t] = "audit" \/ (pc[t] = "take" /\ t.fh \in table /\ ~dirty[t.fh])
    <3>1. Reached(t.fh, asked[t]) /\ (t.kind = "release" => Reached(t.fh, buf[t.fh]))
      BY <2>4, ReplyStep
    <3> QED
      BY <1>4, <2>1, <3>1
  <2> QED
    BY <2>1, <2>3, <2>4
<1>10. ASSUME NEW t \in Calls, DropTarget(t) \/ RemoveBuffer(t) PROVE ReplyInv'
  <2>1. /\ UNCHANGED <<buf, owner, cut, asked, versions, result>>
        /\ \A s \in Calls \ {t} : pc'[s] = pc[s]
        /\ pc[t] \in {"drop", "remove"}
    BY <1>10 DEF DropTarget, RemoveBuffer, GoTo
  <2>2. t.kind = "release"
    BY <2>1 DEF CallInv
  <2> QED
    BY <1>4, <2>1, <2>2
<1> HIDE DEF ReplyInv
<1>11. ASSUME NEW t \in Calls, CallStep(t) PROVE ReplyInv'
  BY <1>6, <1>7, <1>8, <1>9, <1>10, <1>11 DEF CallStep
<1> QED
  BY <1>1, <1>2, <1>3, <1>5, <1>11 DEF Next, Write, Setattr, HandleOpenFails, Interrupt

LEMMA NextNewest ==
  ASSUME TypeOK, SnapshotInv, NewestLandsLast, Next
  PROVE  NewestLandsLast'
<1> USE StoreType DEF NewestLandsLast
<1>1. CASE UNCHANGED versions
  BY <1>1
<1>2. ASSUME NEW t \in Calls, AppendVersion(t) PROVE NewestLandsLast'
  <2>1. pc[t] = "append" /\ \A i \in DOMAIN versions : versions[i].fh = t.fh => versions[i].upto < took[t]
    BY <1>2 DEF AppendVersion, SnapshotInv
  <2> SUFFICES ASSUME NEW i \in DOMAIN versions', NEW j \in DOMAIN versions', i < j,
                      versions'[i].fh = versions'[j].fh
               PROVE  versions'[i].upto < versions'[j].upto
    OBVIOUS
  <2>2. i \in DOMAIN versions
    <3>1. /\ DOMAIN versions = 1 .. Len(versions) /\ Len(versions) \in Nat
          /\ DOMAIN versions' = 1 .. (Len(versions) + 1)
      BY <1>2, Appended
    <3> QED
      BY ONLY <3>1, i \in DOMAIN versions', j \in DOMAIN versions', i < j
  <2>3. CASE j \in DOMAIN versions
    BY <1>2, <2>2, <2>3, NewVersion
  <2>4. CASE j = Len(versions) + 1
    BY <1>2, <2>1, <2>2, <2>4, NewVersion
  <2> QED
    BY <1>2, <2>3, <2>4, NewVersion
<1> QED
  BY <1>1, <1>2
  DEF Next, CallStep, Write, Setattr, HandleOpen, HandleOpenFails, Mutate, CallCommit, CallRelease, Interrupt,
      CheckOwner, CommitGuard, Lock, TakeDirty, AppendFails, LogWriteCommit, DropTarget, RemoveBuffer

LEMMA NextAudit ==
  ASSUME TypeOK, AuditInv, Next
  PROVE  AuditInv'
<1> USE CallType, StoreType DEF AuditInv
<1>1. CASE UNCHANGED <<versions, pc, logged, result>> /\ (healthy' = healthy \/ ~healthy')
  BY <1>1
<1>2. ASSUME NEW t \in Calls, pc[t] \in {"idle", "check", "guard", "lock", "take", "append"},
             UNCHANGED <<versions, logged, healthy>>,
             \A s \in Calls \ {t} : pc'[s] = pc[s] /\ result'[s] = result[s]
      PROVE  AuditInv'
  BY <1>2
<1>3. ASSUME NEW t \in Calls, AppendVersion(t) PROVE AuditInv'
  <2>1. /\ pc[t] = "append" /\ pc' = [pc EXCEPT ![t] = "audit"]
        /\ UNCHANGED <<logged, result, healthy>>
    BY <1>3 DEF AppendVersion, GoTo
  <2>2. \A i \in DOMAIN versions : versions[i].call # t
    BY <2>1
  <2> QED
    BY <1>3, <2>1, <2>2, NewVersion, SMTT(30)
<1>4. ASSUME NEW t \in Calls, LogWriteCommit(t) PROVE AuditInv'
  <2>1. /\ pc'[t] \in {"drop", "done"} /\ UNCHANGED versions
        /\ \A s \in Calls \ {t} : pc'[s] = pc[s] /\ result'[s] = result[s]
        /\ logged \subseteq logged'
        /\ t \in logged' \/ (result'[t] = "error" /\ ~healthy')
        /\ healthy' = healthy \/ ~healthy'
    BY <1>4 DEF LogWriteCommit, Return, GoTo, TypeOK
  <2> QED
    BY <2>1
<1>5. ASSUME NEW t \in Calls, DropTarget(t) \/ RemoveBuffer(t) PROVE AuditInv'
  <2>1. /\ pc[t] \in {"drop", "remove"} /\ pc'[t] \in {"remove", "done"}
        /\ \A s \in Calls \ {t} : pc'[s] = pc[s]
        /\ UNCHANGED <<versions, logged, healthy, result>>
    BY <1>5 DEF DropTarget, RemoveBuffer, GoTo
  <2> QED
    BY <2>1
<1>6. ASSUME NEW t \in Calls,
             \/ CallCommit(t) \/ CallRelease(t) \/ CheckOwner(t) \/ CommitGuard(t) \/ Lock(t)
             \/ TakeDirty(t) \/ AppendFails(t)
      PROVE  AuditInv'
  <2>1. /\ pc[t] \in {"idle", "check", "guard", "lock", "take", "append"}
        /\ UNCHANGED <<versions, logged, healthy>>
    BY <1>6 DEF CallCommit, CallRelease, CheckOwner, CommitGuard, Lock, TakeDirty, AppendFails
  <2>2. \A s \in Calls \ {t} : pc'[s] = pc[s] /\ result'[s] = result[s]
    BY <1>6 DEF CallCommit, CallRelease, CheckOwner, CommitGuard, Lock, TakeDirty, AppendFails, GoTo, Return,
                TypeOK
  <2> QED
    BY <1>2, <2>1, <2>2
<1> HIDE DEF AuditInv
<1>7. ASSUME NEW t \in Calls, CallStep(t) PROVE AuditInv'
  BY <1>3, <1>4, <1>5, <1>6, <1>7 DEF CallStep
<1>8. CASE UNCHANGED <<versions, pc, logged, result>> /\ healthy' \in IF healthy THEN BOOLEAN ELSE {FALSE}
  BY <1>1, <1>8
<1> QED
  BY <1>1, <1>6, <1>7, <1>8 DEF Next, Write, Setattr, HandleOpen, HandleOpenFails, Mutate, Interrupt

---------------------------------------------------------------------------
(* The inductive invariant holds in every reachable state. *)
THEOREM WriteCorrect == Spec => []WriteInv
<1>1. WriteInv /\ [Next]_writeVars => WriteInv'
  <2>1. ASSUME WriteInv, Next PROVE WriteInv'
    BY <2>1, NextType, NextHandle, NextLock, NextCall, NextBuffer, NextSnapshot, NextReply, NextNewest, NextAudit
    DEF WriteInv, CommitInv
  <2>2. ASSUME WriteInv, UNCHANGED writeVars PROVE WriteInv'
    <3> USE <2>2 DEF writeVars, WriteInv, CommitInv, BufferInv, ReplyInv
    <3>1. TypeOK'
      BY DEF TypeOK
    <3>2. HandleInv' /\ LockInv' /\ CallInv'
      BY DEF HandleInv, LockInv, CallInv, Outstanding
    <3>3. UptoInv' /\ DirtyInv' /\ CleanInv'
      BY DEF UptoInv, DirtyInv, CleanInv, Reached
    <3>4. SnapshotInv'
      BY DEF SnapshotInv, Reached
    <3>5. ReplyInv'
      BY DEF SuccessIsStored, Reached
    <3>6. NewestLandsLast' /\ AuditInv'
      BY DEF NewestLandsLast, AuditInv
    <3> QED
      BY <3>1, <3>2, <3>3, <3>4, <3>5, <3>6
  <2> QED
    BY <2>1, <2>2
<1> QED
  BY <1>1, InitWrite, PTL DEF Spec

(* Every variable keeps its type, and the commit guard of a handle (its     *)
(* commit_lock) is held by one call at most.                               *)
THEOREM TypeCorrect == Spec => []TypeOK
<1>1. WriteInv => TypeOK
  BY DEF WriteInv
<1> QED
  BY <1>1, WriteCorrect, PTL

(* The versions a handle appends are in the order of its mutations, however *)
(* many fsync, flush and release calls overlap (commit_write).             *)
THEOREM CommitsAreOrdered == Spec => []NewestLandsLast
<1>1. WriteInv => NewestLandsLast
  BY DEF WriteInv, CommitInv
<1> QED
  BY <1>1, WriteCorrect, PTL

(* A commit of the writer that was answered with success has put what was   *)
(* written before it into the store (commit_write, fsync, flush).          *)
THEOREM SyncIsDurable == Spec => []SuccessIsStored
<1>1. WriteInv => SuccessIsStored
  BY DEF WriteInv, CommitInv, ReplyInv
<1> QED
  BY <1>1, WriteCorrect, PTL

(* A handle whose last content never reached the store was closed with an  *)
(* error (release).                                                        *)
THEOREM NoSilentLoss == Spec => []LossIsReported
<1>1. WriteInv => LossIsReported
  BY DEF WriteInv, CommitInv, ReplyInv, LossIsReported
<1> QED
  BY <1>1, WriteCorrect, PTL

(* No version without its audit event, except where the commit was answered *)
(* with an error by a degraded log (log_write_commit).                     *)
THEOREM VersionsAreAudited == Spec => []CommitsAreAudited
<1>1. WriteInv => CommitsAreAudited
  BY DEF WriteInv, AuditInv, CommitsAreAudited
<1> QED
  BY <1>1, WriteCorrect, PTL

(* All that fsync, flush and release promise to a writer together.         *)
THEOREM WritersAreTold == Spec => []WritesAreHonest
  BY TypeCorrect, CommitsAreOrdered, SyncIsDurable, NoSilentLoss, VersionsAreAudited, PTL
     DEF WritesAreHonest

---------------------------------------------------------------------------
(* Reads. *)

Pool == {"queued", "slot", "init", "create", "use"}
Holding == {"init", "create", "use"}
Live == {"empty", "busy", "ok"}

(* A handle has an opener, whose open is in the log, from its open on; no  *)
(* call gets anywhere before.                                              *)
OpenerInv ==
  /\ \A h \in ReadHandles :
       handlePhase[h] # "new" => \E p \in ReadProcesses : opener[h] = {p} /\ <<h, p>> \in audited
  /\ \A c \in Reads : handlePhase[c.fh] = "new" => readAt[c] = "idle"

(* A call on the pool is not the opener's, and until its caller is         *)
(* interrupted the handle is open.                                         *)
CallerInv ==
  \A c \in Reads :
    /\ readAt[c] \in Pool => c.pid \notin opener[c.fh]
    /\ readAt[c] \in Pool /\ c \notin readCut => handlePhase[c.fh] = "open"
    /\ reply[c].kind # "none" => readAt[c] = "done"

(* The slot of a key, and the slot that a call holds, was made by a call   *)
(* for that key; a slot is busy exactly while one call creates its         *)
(* session, and a session is its process's own.                            *)
SlotInv ==
  /\ \A k \in ReadHandles \X ReadProcesses : \A s \in readers[k] : Key(s) = k /\ slot[s].state # "none"
  /\ \A c \in Reads : readAt[c] \in {"idle", "queued", "slot"} => slot[c].state = "none"
  /\ \A c \in Reads : slot[c].state = "ok" => slot[c].for = {c.pid} /\ Key(c) \in audited

HoldInv ==
  \A c \in Reads :
    readAt[c] \in Holding =>
      \E s \in Reads : /\ mine[c] = {s} /\ Key(s) = Key(c) /\ slot[s].state # "none"
                       /\ readAt[c] = "create" => slot[s].state = "busy"
                       /\ readAt[c] = "use" => slot[s].state \in {"ok", "error"}

CreatorInv ==
  /\ \A s \in Reads : slot[s].state = "busy" => \E d \in Reads : readAt[d] = "create" /\ mine[d] = {s}
  /\ \A c, d \in Reads : readAt[c] = "create" /\ readAt[d] = "create" /\ mine[c] = mine[d] => c = d

(* While a handle is open, a slot leaves the map only when it failed.      *)
MapInv ==
  \A s \in Reads :
    handlePhase[s.fh] = "open" /\ slot[s].state \in Live => readers[Key(s)] = {s}

(* What a reply shows is what the handle still has. *)
Shown(c) ==
  IF c.pid \in opener[c.fh]
    THEN reply[c].ver = base[c.fh]
    ELSE handlePhase[c.fh] = "open" =>
           \E s \in readers[Key(c)] : slot[s].state = "ok" /\ slot[s].ver = reply[c].ver

ShownInv == \A c \in Reads \ readCut : reply[c].kind = "data" => Shown(c)

ReadInv ==
  /\ ReadTypeOK /\ OpenerInv /\ CallerInv /\ SlotInv /\ HoldInv /\ CreatorInv /\ MapInv /\ ShownInv
  /\ ReadsAreOwn /\ ReadsRepeat

---------------------------------------------------------------------------
LEMMA KeyType ==
  ASSUME NEW c \in Reads
  PROVE  c.fh \in ReadHandles /\ c.pid \in ReadProcesses /\ Key(c) \in ReadHandles \X ReadProcesses
  BY ReadsAssumption DEF Key

LEMMA SameKey ==
  ASSUME NEW c \in Reads, NEW d \in Reads, Key(c) = Key(d)
  PROVE  c.fh = d.fh /\ c.pid = d.pid
  BY DEF Key

LEMMA InitRead == ReadInit => ReadInv
<1> SUFFICES ASSUME ReadInit PROVE ReadInv
  OBVIOUS
<1> USE DEF ReadInit, NoSlot, Empty
<1>1. ReadTypeOK
  BY DEF ReadTypeOK, Slots, Replies
<1>2. OpenerInv /\ CallerInv
  BY KeyType DEF OpenerInv, CallerInv, Pool
<1>3. SlotInv /\ HoldInv /\ CreatorInv /\ MapInv
  BY DEF SlotInv, HoldInv, CreatorInv, MapInv, Holding, Live
<1>4. ShownInv /\ ReadsAreOwn /\ ReadsRepeat
  BY DEF ShownInv, ReadsAreOwn, ReadsRepeat
<1> QED
  BY <1>1, <1>2, <1>3, <1>4 DEF ReadInv

(* The slot that a call on the pool holds. *)
LEMMA Held ==
  ASSUME HoldInv, NEW c \in Reads, readAt[c] \in Holding, NEW s \in mine[c]
  PROVE  /\ s \in Reads /\ mine[c] = {s} /\ Key(s) = Key(c) /\ slot[s].state # "none"
         /\ readAt[c] = "create" => slot[s].state = "busy"
         /\ readAt[c] = "use" => slot[s].state \in {"ok", "error"}
  BY DEF HoldInv

(* Every step keeps the types. *)
LEMMA NextReadType ==
  ASSUME ReadInv, ReadNext
  PROVE  ReadTypeOK'
<1> USE DEF ReadInv, ReadTypeOK
<1>1. CASE Commit
  BY <1>1, SMTT(30) DEF Commit
<1>2. ASSUME NEW h \in ReadHandles, NEW p \in ReadProcesses, OpenForReads(h, p) PROVE ReadTypeOK'
  BY <1>2, SMTT(30) DEF OpenForReads
<1>3. ASSUME NEW h \in ReadHandles, Release(h) PROVE ReadTypeOK'
  BY <1>3 DEF Release
<1>4. ASSUME NEW h \in ReadHandles, Retain(h) PROVE ReadTypeOK'
  <2>1. /\ readers' \in [ReadHandles \X ReadProcesses -> SUBSET Reads]
        /\ \A k \in ReadHandles \X ReadProcesses : readers'[k] \subseteq readers[k]
    BY <1>4 DEF Retain
  <2>2. \A k \in ReadHandles \X ReadProcesses : \A s, t \in readers'[k] : s = t
    BY <2>1
  <2> QED
    BY <1>4, <2>1, <2>2 DEF Retain
<1>5. ASSUME NEW h \in ReadHandles, RemoveSlots(h) PROVE ReadTypeOK'
  BY <1>5 DEF RemoveSlots
<1>6. ASSUME NEW c \in Reads, Read(c) PROVE ReadTypeOK'
  <2>1. Own(c) \in Replies
    BY KeyType DEF Own, Replies
  <2>2. \A s \in readers[Key(c)] : Data(s) \in Replies
    BY KeyType DEF Data, Replies, Slots
  <2> QED
    BY <1>6, <2>1, <2>2, SMTT(30) DEF Read, Answer, ReadGoesTo
<1>7. ASSUME NEW c \in Reads, Start(c) PROVE ReadTypeOK'
  <2>1. Empty("badf") \in Replies
    BY DEF Empty, Replies
  <2>2. reply' \in [Reads -> Replies] /\ (readAt' = [readAt EXCEPT ![c] = "slot"]
                                          \/ readAt' = [readAt EXCEPT ![c] = "done"])
    BY <1>7, <2>1 DEF Start, Answer, ReadGoesTo
  <2> QED
    BY <1>7, <2>2 DEF Start
<1>8. ASSUME NEW c \in Reads, GetSlot(c) PROVE ReadTypeOK'
  <2> DEFINE s == IF readers[Key(c)] = {} THEN {c} ELSE readers[Key(c)]
  <2>1. s \in SUBSET Reads /\ \A x, y \in s : x = y
    BY KeyType
  <2>2. slot' \in [Reads -> Slots]
    BY <1>8 DEF GetSlot, Slots
  <2>3. /\ readers' = [readers EXCEPT ![Key(c)] = s]
        /\ mine' = [mine EXCEPT ![c] = s]
        /\ readAt' = [readAt EXCEPT ![c] = "init"]
        /\ UNCHANGED <<head, handlePhase, opener, sessionTable, base, reply, readCut, audited>>
    BY <1>8 DEF GetSlot, ReadGoesTo
  <2> HIDE DEF s
  <2>4. mine' \in [Reads -> SUBSET Reads] /\ readers' \in [ReadHandles \X ReadProcesses -> SUBSET Reads]
    BY <2>1, <2>3
  <2>5. \A k \in ReadHandles \X ReadProcesses : readers'[k] = readers[k] \/ readers'[k] = s
    BY <2>3
  <2>6. \A k \in ReadHandles \X ReadProcesses : \A x, y \in readers'[k] : x = y
    BY <2>1, <2>5
  <2> QED
    BY <2>2, <2>3, <2>4, <2>6
<1>9. ASSUME NEW c \in Reads, GetOrInit(c) \/ CreateFails(c) PROVE ReadTypeOK'
  <2>1. ASSUME NEW s \in Reads, NEW x \in {"none", "empty", "busy", "ok", "error"}
        PROVE  [slot EXCEPT ![s].state = x] \in [Reads -> Slots]
    BY SMTT(30) DEF Slots
  <2>2. \A s \in Reads : slot[s].state \in {"none", "empty", "busy", "ok", "error"}
    BY DEF Slots
  <2>3. slot' \in [Reads -> Slots]
    <3>1. CASE GetOrInit(c)
      <4>1. PICK s \in mine[c] :
              slot' = [slot EXCEPT ![s].state = IF slot[s].state = "empty" THEN "busy" ELSE slot[s].state]
        BY <3>1 DEF GetOrInit
      <4> QED
        BY <2>1, <2>2, <4>1
    <3>2. CASE CreateFails(c)
      <4>1. PICK s \in mine[c] : slot' = [slot EXCEPT ![s].state = "error"]
        BY <3>2 DEF CreateFails
      <4> QED
        BY <2>1, <4>1
    <3> QED
      BY <1>9, <3>1, <3>2
  <2>4. \E l \in {"create", "use"} : readAt' = [readAt EXCEPT ![c] = l]
    BY <1>9 DEF GetOrInit, CreateFails, ReadGoesTo
  <2> QED
    BY <1>9, <2>3, <2>4, SMTT(30) DEF GetOrInit, CreateFails
<1>10. ASSUME NEW c \in Reads, CreateReadSession(c) PROVE ReadTypeOK'
  BY <1>10, KeyType, SMTT(30) DEF CreateReadSession, ReadGoesTo, Slots
<1>11. ASSUME NEW c \in Reads, UseSlot(c) PROVE ReadTypeOK'
  <2>1. PICK s \in mine[c] :
          IF slot[s].state = "ok"
            THEN Answer(c, Data(s)) /\ UNCHANGED readers
            ELSE Answer(c, Empty("error")) /\ readers' = [readers EXCEPT ![Key(c)] = @ \ {s}]
    BY <1>11 DEF UseSlot
  <2>2. Data(s) \in Replies /\ Empty("error") \in Replies
    BY DEF Data, Empty, Replies, Slots
  <2>3. reply' \in [Reads -> Replies] /\ readAt' = [readAt EXCEPT ![c] = "done"]
    BY <2>1, <2>2, SMTT(30) DEF Answer, ReadGoesTo
  <2>4. /\ readers' \in [ReadHandles \X ReadProcesses -> SUBSET Reads]
        /\ \A k \in ReadHandles \X ReadProcesses : readers'[k] \subseteq readers[k]
    BY <2>1, SMTT(30)
  <2>5. \A k \in ReadHandles \X ReadProcesses : \A x, y \in readers'[k] : x = y
    BY <2>4
  <2> QED
    BY <1>11, <2>3, <2>4, <2>5 DEF UseSlot
<1>12. ASSUME NEW c \in Reads, InterruptRead(c) PROVE ReadTypeOK'
  BY <1>12 DEF InterruptRead
<1> QED
  BY <1>1, <1>2, <1>3, <1>4, <1>5, <1>6, <1>7, <1>8, <1>9, <1>10, <1>11, <1>12
  DEF ReadNext, PoolStep

(* A call that moves within the pool, or out of it, keeps OpenerInv and     *)
(* CallerInv.                                                                *)
LEMMA PoolMove ==
  ASSUME ReadTypeOK, OpenerInv, CallerInv,
         NEW c \in Reads, readAt[c] \in Pool, NEW l \in Pool \cup {"done"},
         readAt' = [readAt EXCEPT ![c] = l],
         UNCHANGED <<handlePhase, opener, readCut>>, audited \subseteq audited',
         \A d \in Reads : reply'[d] = reply[d] \/ (d = c /\ l = "done")
  PROVE  OpenerInv' /\ CallerInv'
<1>1. /\ readAt'[c] = l
      /\ \A d \in Reads : d # c => readAt'[d] = readAt[d]
  BY DEF ReadTypeOK
<1>2. handlePhase[c.fh] # "new"
  BY DEF OpenerInv, Pool
<1>3. OpenerInv'
  BY <1>1, <1>2 DEF OpenerInv
<1>4. ASSUME NEW d \in Reads
      PROVE  /\ readAt'[d] \in Pool => d.pid \notin opener'[d.fh]
             /\ readAt'[d] \in Pool /\ d \notin readCut' => handlePhase'[d.fh] = "open"
             /\ reply'[d].kind # "none" => readAt'[d] = "done"
  BY <1>1, SMTT(30) DEF CallerInv, Pool
<1> QED
  BY <1>3, <1>4 DEF CallerInv

(* Openers, calls and handles. *)
LEMMA NextOpenerAndCalls ==
  ASSUME ReadInv, ReadNext
  PROVE  OpenerInv' /\ CallerInv'
<1>0. ReadTypeOK /\ OpenerInv /\ CallerInv
  BY DEF ReadInv
<1>1. CASE Commit
  BY <1>0, <1>1 DEF Commit, OpenerInv, CallerInv
<1>2. ASSUME NEW h \in ReadHandles, NEW p \in ReadProcesses, OpenForReads(h, p)
      PROVE  OpenerInv' /\ CallerInv'
  <2>1. /\ handlePhase[h] = "new"
        /\ \A g \in ReadHandles : g # h => opener'[g] = opener[g] /\ handlePhase'[g] = handlePhase[g]
        /\ opener'[h] = {p} /\ handlePhase'[h] = "open" /\ <<h, p>> \in audited'
        /\ audited \subseteq audited' /\ UNCHANGED <<readAt, reply, readCut>>
    BY <1>0, <1>2 DEF OpenForReads, ReadTypeOK
  <2>2. \A g \in ReadHandles : handlePhase'[g] # "new" =>
          \E q \in ReadProcesses : opener'[g] = {q} /\ <<g, q>> \in audited'
    <3> SUFFICES ASSUME NEW g \in ReadHandles, g # h, handlePhase[g] # "new"
                 PROVE  \E q \in ReadProcesses : opener[g] = {q} /\ <<g, q>> \in audited'
      BY <2>1
    <3> QED
      BY <1>0, <2>1 DEF OpenerInv
  <2>3. \A c \in Reads : handlePhase'[c.fh] = "new" => readAt'[c] = "idle"
    BY <1>0, <2>1, KeyType DEF OpenerInv
  <2>4. \A c \in Reads : readAt[c] \in Pool => c.fh # h
    BY <1>0, <2>1 DEF OpenerInv, Pool
  <2>5. CallerInv'
    BY <1>0, <2>1, <2>4, KeyType DEF CallerInv
  <2> QED
    BY <2>2, <2>3, <2>5 DEF OpenerInv
<1>3. ASSUME NEW h \in ReadHandles, Release(h) PROVE OpenerInv' /\ CallerInv'
  <2>1. /\ \A c \in Reads : c.fh = h => readAt[c] \in {"idle", "done"} \/ c \in readCut
        /\ handlePhase[h] = "open" /\ handlePhase'[h] \in {"retain", "remove"}
        /\ \A g \in ReadHandles : g # h => handlePhase'[g] = handlePhase[g]
        /\ UNCHANGED <<opener, readAt, reply, readCut, audited>>
    BY <1>0, <1>3 DEF Release, ReadTypeOK
  <2>2. \A g \in ReadHandles : handlePhase'[g] # handlePhase[g] =>
                                handlePhase'[g] # "new" /\ handlePhase[g] # "new"
    BY <2>1
  <2>3. OpenerInv'
    BY <1>0, <2>1, <2>2, KeyType DEF OpenerInv
  <2>4. \A c \in Reads : readAt[c] \in Pool /\ c \notin readCut => c.fh # h
    BY <1>0, <2>1 DEF Pool
  <2>5. CallerInv'
    BY <1>0, <2>1, <2>4, KeyType DEF CallerInv
  <2> QED
    BY <2>3, <2>5
<1>4. ASSUME NEW h \in ReadHandles, Retain(h) \/ RemoveSlots(h) PROVE OpenerInv' /\ CallerInv'
  <2>1. /\ handlePhase[h] \in {"retain", "remove"} /\ handlePhase'[h] \in {"retain", "remove", "closed"}
        /\ \A g \in ReadHandles : g # h => handlePhase'[g] = handlePhase[g]
        /\ UNCHANGED <<opener, readAt, reply, readCut, audited>>
    BY <1>0, <1>4 DEF Retain, RemoveSlots, ReadTypeOK
  <2>2. \A g \in ReadHandles : handlePhase'[g] # handlePhase[g] =>
                                handlePhase'[g] # "new" /\ handlePhase[g] # "new"
    BY <2>1
  <2>3. OpenerInv'
    BY <1>0, <2>1, <2>2, KeyType DEF OpenerInv
  <2>4. \A c \in Reads : readAt[c] \in Pool /\ c \notin readCut => c.fh # h
    BY <1>0, <2>1 DEF CallerInv
  <2>5. CallerInv'
    BY <1>0, <2>1, <2>4, KeyType DEF CallerInv
  <2> QED
    BY <2>3, <2>5
<1>5. ASSUME NEW c \in Reads, Read(c) PROVE OpenerInv' /\ CallerInv'
  <2>1. /\ readAt[c] = "idle" /\ handlePhase[c.fh] = "open"
        /\ UNCHANGED <<handlePhase, opener, readCut, audited>>
        /\ \/ readAt'[c] = "done"
           \/ c.pid \notin opener[c.fh] /\ reply'[c] = reply[c] /\ readAt'[c] = "queued"
        /\ \A d \in Reads : d # c => reply'[d] = reply[d] /\ readAt'[d] = readAt[d]
    BY <1>0, <1>5, SMTT(30) DEF Read, Answer, ReadGoesTo, ReadTypeOK
  <2>2. OpenerInv'
    BY <1>0, <2>1 DEF OpenerInv
  <2>3. reply[c].kind = "none"
    BY <1>0, <2>1 DEF CallerInv
  <2>4. CallerInv'
    BY <1>0, <2>1, <2>3 DEF CallerInv, Pool
  <2> QED
    BY <2>2, <2>4
<1>6. ASSUME NEW c \in Reads, PoolStep(c) PROVE OpenerInv' /\ CallerInv'
  <2>1. readAt[c] \in Pool /\ UNCHANGED <<handlePhase, opener, readCut>> /\ audited \subseteq audited'
    BY <1>6 DEF PoolStep, Start, GetSlot, GetOrInit, CreateReadSession, CreateFails, UseSlot, Pool
  <2>2. \E l \in Pool \cup {"done"} :
          /\ readAt' = [readAt EXCEPT ![c] = l]
          /\ \A d \in Reads : reply'[d] = reply[d] \/ (d = c /\ l = "done")
    <3>1. CASE Start(c)
      BY <1>0, <3>1 DEF Start, Answer, ReadGoesTo, Pool, ReadTypeOK
    <3>2. CASE GetSlot(c)
      BY <3>2 DEF GetSlot, ReadGoesTo, Pool
    <3>3. CASE GetOrInit(c)
      BY <3>3 DEF GetOrInit, ReadGoesTo, Pool
    <3>4. CASE CreateReadSession(c) \/ CreateFails(c)
      BY <3>4 DEF CreateReadSession, CreateFails, ReadGoesTo, Pool
    <3>5. CASE UseSlot(c)
      BY <1>0, <3>5, SMTT(30) DEF UseSlot, Answer, ReadGoesTo, ReadTypeOK
    <3> QED
      BY <1>6, <3>1, <3>2, <3>3, <3>4, <3>5 DEF PoolStep
  <2> QED
    BY <1>0, <2>1, <2>2, PoolMove
<1>7. ASSUME NEW c \in Reads, InterruptRead(c) PROVE OpenerInv' /\ CallerInv'
  BY <1>0, <1>7 DEF InterruptRead, OpenerInv, CallerInv
<1> QED
  BY <1>1, <1>2, <1>3, <1>4, <1>5, <1>6, <1>7 DEF ReadNext

(* Slots.  A step that changes no slot, and in which calls only get to     *)
(* where they hold none, keeps what is said about them, if the slots that  *)
(* an open handle loses are failed ones.                                   *)
SlotsInv == SlotInv /\ HoldInv /\ CreatorInv /\ MapInv

LEMMA SlotsStay ==
  ASSUME ReadInv, UNCHANGED <<slot, mine>>, audited \subseteq audited',
         \A k \in ReadHandles \X ReadProcesses : readers'[k] \subseteq readers[k],
         \A s \in Reads : handlePhase'[s.fh] = "open" /\ slot[s].state \in Live
                            => readers'[Key(s)] = readers[Key(s)],
         \A h \in ReadHandles : handlePhase'[h] = "open" => handlePhase[h] \in {"open", "new"},
         \A c \in Reads : \/ readAt'[c] = readAt[c]
                          \/ readAt[c] # "create" /\ readAt'[c] = "done"
                          \/ readAt[c] \in {"idle", "queued"} /\ readAt'[c] \in {"queued", "slot"}
  PROVE  SlotsInv'
<1>0. SlotInv /\ HoldInv /\ CreatorInv /\ MapInv /\ OpenerInv
  BY DEF ReadInv
<1>1. \A c, s \in Reads : slot'[s] = slot[s] /\ mine'[c] = mine[c]
  OBVIOUS
<1>2. \A c \in Reads : /\ readAt'[c] \in Holding => readAt'[c] = readAt[c]
                       /\ readAt[c] = "create" => readAt'[c] = "create"
                       /\ readAt'[c] \in {"idle", "queued", "slot"} => readAt[c] \in {"idle", "queued", "slot"}
  BY DEF Holding
<1>3. SlotInv'
  BY <1>0, <1>1, <1>2, SMTT(30) DEF SlotInv, Key
<1>4. HoldInv'
  BY <1>0, <1>1, <1>2, SMTT(30) DEF HoldInv, Key
<1>5. CreatorInv'
  <2>1. \A s \in Reads : slot'[s].state = "busy" => \E d \in Reads : readAt'[d] = "create" /\ mine'[d] = {s}
    BY <1>0, <1>1, <1>2 DEF CreatorInv
  <2>2. \A c, d \in Reads : readAt'[c] = "create" /\ readAt'[d] = "create" /\ mine'[c] = mine'[d] => c = d
    BY <1>0, <1>1, <1>2, SMTT(30) DEF CreatorInv, Holding
  <2> QED
    BY <2>1, <2>2 DEF CreatorInv
<1>6. MapInv'
  <2> SUFFICES ASSUME NEW s \in Reads, handlePhase'[s.fh] = "open", slot[s].state \in Live
               PROVE  readers'[Key(s)] = {s}
    BY <1>1 DEF MapInv, Key
  <2>1. handlePhase[s.fh] # "new"
    BY <1>0 DEF OpenerInv, SlotInv, Live
  <2>2. readers[Key(s)] = {s}
    BY <1>0, <2>1, KeyType DEF MapInv
  <2> QED
    BY <2>2
<1> QED
  BY <1>3, <1>4, <1>5, <1>6 DEF SlotsInv

(* The first call for a key brings an empty slot, the others clone it. *)
LEMMA GetSlotKeepsSlots ==
  ASSUME ReadInv, NEW c \in Reads, GetSlot(c)
  PROVE  SlotsInv'
<1>0. SlotInv /\ HoldInv /\ CreatorInv /\ MapInv /\ ReadTypeOK
  BY DEF ReadInv
<1>1. /\ readAt[c] = "slot" /\ readAt'[c] = "init"
      /\ \A d \in Reads : d # c => readAt'[d] = readAt[d] /\ mine'[d] = mine[d]
      /\ UNCHANGED <<handlePhase, audited>>
  BY <1>0 DEF GetSlot, ReadGoesTo, ReadTypeOK
<1>2. slot[c].state = "none"
  BY <1>0, <1>1 DEF SlotInv
<1>3. \A k \in ReadHandles \X ReadProcesses : k # Key(c) => readers'[k] = readers[k]
  BY <1>0 DEF GetSlot, ReadTypeOK
<1>4. CASE readers[Key(c)] = {}
  <2>1. /\ slot'[c] = [state |-> "empty", for |-> {}, ver |-> 0]
        /\ \A s \in Reads : s # c => slot'[s] = slot[s]
        /\ mine'[c] = {c} /\ readers'[Key(c)] = {c}
    BY <1>0, <1>4, KeyType DEF GetSlot, ReadTypeOK
  <2>2. slot'[c].state = "empty"
    BY <2>1, SMTT(30)
  <2>3. SlotInv'
    <3>1. \A k \in ReadHandles \X ReadProcesses : \A s \in readers'[k] : Key(s) = k /\ slot'[s].state # "none"
      <4> SUFFICES ASSUME NEW k \in ReadHandles \X ReadProcesses, NEW s \in readers'[k]
                   PROVE  Key(s) = k /\ slot'[s].state # "none"
        OBVIOUS
      <4>1. CASE k = Key(c)
        BY <2>1, <2>2, <4>1
      <4>2. CASE k # Key(c)
        <5>1. s \in readers[k] /\ s \in Reads /\ Key(s) = k /\ slot[s].state # "none"
          BY <1>0, <1>3, <4>2 DEF SlotInv, ReadTypeOK
        <5> QED
          BY <1>2, <2>1, <5>1
      <4> QED
        BY <4>1, <4>2
    <3>2. \A d \in Reads : readAt'[d] \in {"idle", "queued", "slot"} => slot'[d].state = "none"
      BY <1>0, <1>1, <2>1 DEF SlotInv
    <3>3. \A d \in Reads : slot'[d].state = "ok" => slot'[d].for = {d.pid} /\ Key(d) \in audited
      BY <1>0, <2>1, <2>2 DEF SlotInv
    <3> QED
      BY <1>1, <3>1, <3>2, <3>3 DEF SlotInv, Key
  <2>4. HoldInv'
    <3> SUFFICES ASSUME NEW d \in Reads, d # c, readAt[d] \in Holding
                 PROVE  \E s \in Reads : /\ mine[d] = {s} /\ Key(s) = Key(d) /\ slot'[s].state # "none"
                                         /\ readAt[d] = "create" => slot'[s].state = "busy"
                                         /\ readAt[d] = "use" => slot'[s].state \in {"ok", "error"}
      BY <1>1, <2>1, <2>2 DEF HoldInv, Key
    <3> QED
      BY <1>0, <1>2, <2>1 DEF HoldInv
  <2>5. CreatorInv'
    <3>1. \A s \in Reads : slot'[s].state = "busy" => slot[s].state = "busy"
      BY <2>1, <2>2
    <3>2. \A d \in Reads : /\ readAt'[d] = "create" <=> readAt[d] = "create"
                           /\ readAt[d] = "create" => mine'[d] = mine[d]
      BY <1>1
    <3>3. \A s \in Reads : slot'[s].state = "busy" => \E d \in Reads : readAt'[d] = "create" /\ mine'[d] = {s}
      BY <1>0, <3>1, <3>2 DEF CreatorInv
    <3>4. \A a, d \in Reads : readAt'[a] = "create" /\ readAt'[d] = "create" /\ mine'[a] = mine'[d] => a = d
      BY <1>0, <3>2 DEF CreatorInv
    <3> QED
      BY <3>3, <3>4 DEF CreatorInv
  <2>6. MapInv'
    <3> SUFFICES ASSUME NEW s \in Reads, s # c, handlePhase[s.fh] = "open", slot[s].state \in Live
                 PROVE  readers'[Key(s)] = {s}
      BY <1>1, <2>1 DEF MapInv, Key
    <3>1. readers[Key(s)] = {s}
      BY <1>0 DEF MapInv
    <3> QED
      BY <1>3, <1>4, <3>1, KeyType
  <2> QED
    BY <2>3, <2>4, <2>5, <2>6 DEF SlotsInv
<1>5. CASE readers[Key(c)] # {}
  <2>1. UNCHANGED slot /\ mine'[c] = readers[Key(c)] /\ readers'[Key(c)] = readers[Key(c)]
    BY <1>0, <1>5, KeyType DEF GetSlot, ReadTypeOK
  <2>2. PICK s \in Reads : readers[Key(c)] = {s} /\ Key(s) = Key(c) /\ slot[s].state # "none"
    BY <1>0, <1>5, KeyType, SMTT(30) DEF ReadTypeOK, SlotInv
  <2>3. \A k \in ReadHandles \X ReadProcesses : readers'[k] = readers[k]
    BY <1>3, <2>1
  <2>4. SlotInv'
    BY <1>0, <1>1, <2>1, <2>3 DEF SlotInv, Key
  <2>5. HoldInv'
    BY <1>0, <1>1, <2>1, <2>2, SMTT(30) DEF HoldInv, Key
  <2>6. CreatorInv'
    <3>1. \A d \in Reads : /\ readAt'[d] = "create" <=> readAt[d] = "create"
                           /\ readAt[d] = "create" => mine'[d] = mine[d]
      BY <1>1
    <3> QED
      BY <1>0, <2>1, <3>1 DEF CreatorInv
  <2>7. MapInv'
    BY <1>0, <1>1, <2>1, <2>3, KeyType DEF MapInv, Key
  <2> QED
    BY <2>4, <2>5, <2>6, <2>7 DEF SlotsInv
<1> QED
  BY <1>4, <1>5

(* The call that finds the slot empty makes it busy; the others go on once *)
(* it is initialized.                                                      *)
LEMMA GetOrInitKeepsSlots ==
  ASSUME ReadInv, NEW c \in Reads, GetOrInit(c)
  PROVE  SlotsInv'
<1>0. SlotInv /\ HoldInv /\ CreatorInv /\ MapInv /\ ReadTypeOK
  BY DEF ReadInv
<1>1. PICK s \in mine[c] :
        /\ readAt[c] = "init" /\ slot[s].state # "busy"
        /\ slot' = [slot EXCEPT ![s].state = IF slot[s].state = "empty" THEN "busy" ELSE slot[s].state]
        /\ ReadGoesTo(c, IF slot[s].state = "empty" THEN "create" ELSE "use")
        /\ UNCHANGED <<handlePhase, readers, mine, audited>>
  BY DEF GetOrInit
<1>2. s \in Reads /\ mine[c] = {s} /\ Key(s) = Key(c) /\ slot[s].state # "none"
  BY <1>0, <1>1, Held DEF Holding
<1>3. /\ \A t \in Reads : t # s => slot'[t] = slot[t]
      /\ slot'[s].state = (IF slot[s].state = "empty" THEN "busy" ELSE slot[s].state)
      /\ slot'[s].for = slot[s].for
  BY <1>0, <1>1, <1>2, SMTT(30) DEF ReadTypeOK, Slots
<1>4. /\ readAt'[c] = (IF slot[s].state = "empty" THEN "create" ELSE "use")
      /\ \A d \in Reads : d # c => readAt'[d] = readAt[d]
  BY <1>0, <1>1 DEF ReadGoesTo, ReadTypeOK
<1>5. slot[s].state \in {"empty", "ok", "error"}
  BY <1>0, <1>1, <1>2 DEF ReadTypeOK, Slots
<1>6. SlotInv'
  <2>1. \A k \in ReadHandles \X ReadProcesses : \A t \in readers[k] : Key(t) = k /\ slot'[t].state # "none"
    BY <1>0, <1>3, <1>5 DEF SlotInv, ReadTypeOK
  <2>2. \A d \in Reads : readAt'[d] \in {"idle", "queued", "slot"} => slot'[d].state = "none"
    BY <1>0, <1>2, <1>3, <1>4 DEF SlotInv
  <2>3. \A d \in Reads : slot'[d].state = "ok" => slot'[d].for = {d.pid} /\ Key(d) \in audited
    BY <1>0, <1>3, <1>5 DEF SlotInv
  <2> QED
    BY <1>1, <2>1, <2>2, <2>3 DEF SlotInv, Key
<1>7. HoldInv'
  <2> SUFFICES ASSUME NEW d \in Reads, readAt'[d] \in Holding
               PROVE  \E t \in Reads : /\ mine[d] = {t} /\ Key(t) = Key(d) /\ slot'[t].state # "none"
                                       /\ readAt'[d] = "create" => slot'[t].state = "busy"
                                       /\ readAt'[d] = "use" => slot'[t].state \in {"ok", "error"}
    BY <1>1 DEF HoldInv, Key
  <2>1. CASE d = c
    BY <1>2, <1>3, <1>4, <1>5, <2>1
  <2>2. CASE d # c
    <3>1. PICK t \in Reads : /\ mine[d] = {t} /\ Key(t) = Key(d) /\ slot[t].state # "none"
                             /\ readAt[d] = "create" => slot[t].state = "busy"
                             /\ readAt[d] = "use" => slot[t].state \in {"ok", "error"}
      BY <1>0, <1>4, <2>2 DEF HoldInv
    <3> QED
      BY <1>1, <1>3, <1>4, <1>5, <2>2, <3>1, SMTT(30)
  <2> QED
    BY <2>1, <2>2
<1>8. CreatorInv'
  <2>1. \A d \in Reads : readAt[d] = "create" => readAt'[d] = "create" /\ mine[d] # {s}
    BY <1>0, <1>1, <1>4 DEF HoldInv, Holding
  <2>2. \A d \in Reads : readAt'[d] = "create" => d = c \/ readAt[d] = "create"
    BY <1>4
  <2>3. \A t \in Reads : slot'[t].state = "busy" => \E d \in Reads : readAt'[d] = "create" /\ mine[d] = {t}
    <3> SUFFICES ASSUME NEW t \in Reads, slot'[t].state = "busy"
                 PROVE  \E d \in Reads : readAt'[d] = "create" /\ mine[d] = {t}
      OBVIOUS
    <3>1. CASE t = s
      BY <1>1, <1>2, <1>3, <1>4, <3>1
    <3>2. CASE t # s
      BY <1>0, <1>3, <2>1, <3>2 DEF CreatorInv
    <3> QED
      BY <3>1, <3>2
  <2>4. \A a, d \in Reads : readAt'[a] = "create" /\ readAt'[d] = "create" /\ mine[a] = mine[d] => a = d
    BY <1>0, <1>2, <2>1, <2>2 DEF CreatorInv
  <2> QED
    BY <1>1, <2>3, <2>4 DEF CreatorInv
<1>9. MapInv'
  <2>1. \A t \in Reads : slot'[t].state \in Live => slot[t].state \in Live
    BY <1>3, <1>5 DEF Live
  <2> QED
    BY <1>0, <1>1, <2>1 DEF MapInv, Key
<1> QED
  BY <1>6, <1>7, <1>8, <1>9 DEF SlotsInv

(* The creator leaves its slot initialized: with its own snapshot, or      *)
(* failed.                                                                 *)
LEMMA CreateKeepsSlots ==
  ASSUME ReadInv, NEW c \in Reads, CreateReadSession(c) \/ CreateFails(c)
  PROVE  SlotsInv'
<1>0. SlotInv /\ HoldInv /\ CreatorInv /\ MapInv /\ ReadTypeOK
  BY DEF ReadInv
<1>1. PICK s \in mine[c] :
        /\ readAt[c] = "create" /\ ReadGoesTo(c, "use")
        /\ UNCHANGED <<handlePhase, readers, mine>> /\ audited \subseteq audited'
        /\ \/ /\ slot' = [slot EXCEPT ![s] = [state |-> "ok", for |-> {c.pid}, ver |-> head]]
              /\ Key(c) \in audited'
           \/ slot' = [slot EXCEPT ![s].state = "error"]
  BY DEF CreateReadSession, CreateFails, Key
<1>2. s \in Reads /\ mine[c] = {s} /\ Key(s) = Key(c) /\ slot[s].state = "busy"
  BY <1>0, <1>1, Held DEF Holding
<1>3. /\ \A t \in Reads : t # s => slot'[t] = slot[t]
      /\ slot'[s].state \in {"ok", "error"}
      /\ slot'[s].state = "ok" => slot'[s].for = {s.pid} /\ Key(s) \in audited'
  BY <1>0, <1>1, <1>2, SameKey, SMTT(30) DEF ReadTypeOK, Slots
<1>4. readAt'[c] = "use" /\ \A d \in Reads : d # c => readAt'[d] = readAt[d]
  BY <1>0, <1>1 DEF ReadGoesTo, ReadTypeOK
<1>5. SlotInv'
  <2>1. \A k \in ReadHandles \X ReadProcesses : \A t \in readers[k] : Key(t) = k /\ slot'[t].state # "none"
    BY <1>0, <1>3, SMTT(30) DEF SlotInv, ReadTypeOK
  <2>2. \A d \in Reads : readAt'[d] \in {"idle", "queued", "slot"} => slot'[d].state = "none"
    BY <1>0, <1>2, <1>3, <1>4 DEF SlotInv
  <2>3. \A d \in Reads : slot'[d].state = "ok" => slot'[d].for = {d.pid} /\ Key(d) \in audited'
    BY <1>0, <1>1, <1>3 DEF SlotInv
  <2> QED
    BY <1>1, <2>1, <2>2, <2>3 DEF SlotInv, Key
<1>6. \A d \in Reads : readAt'[d] = "create" => d # c /\ readAt[d] = "create" /\ mine[d] # {s}
  BY <1>0, <1>1, <1>2, <1>4 DEF CreatorInv
<1>7. HoldInv'
  <2> SUFFICES ASSUME NEW d \in Reads, readAt'[d] \in Holding
               PROVE  \E t \in Reads : /\ mine[d] = {t} /\ Key(t) = Key(d) /\ slot'[t].state # "none"
                                       /\ readAt'[d] = "create" => slot'[t].state = "busy"
                                       /\ readAt'[d] = "use" => slot'[t].state \in {"ok", "error"}
    BY <1>1 DEF HoldInv, Key
  <2>1. CASE d = c
    BY <1>2, <1>3, <1>4, <2>1
  <2>2. CASE d # c
    <3>1. PICK t \in Reads : /\ mine[d] = {t} /\ Key(t) = Key(d) /\ slot[t].state # "none"
                             /\ readAt[d] = "create" => slot[t].state = "busy"
                             /\ readAt[d] = "use" => slot[t].state \in {"ok", "error"}
      BY <1>0, <1>4, <2>2 DEF HoldInv
    <3> QED
      BY <1>3, <1>4, <1>6, <2>2, <3>1
  <2> QED
    BY <2>1, <2>2
<1>8. CreatorInv'
  <2>1. \A t \in Reads : slot'[t].state = "busy" => \E d \in Reads : readAt'[d] = "create" /\ mine[d] = {t}
    <3> SUFFICES ASSUME NEW t \in Reads, slot'[t].state = "busy"
                 PROVE  \E d \in Reads : readAt'[d] = "create" /\ mine[d] = {t}
      OBVIOUS
    <3>1. t # s /\ slot[t].state = "busy"
      BY <1>3
    <3>2. PICK d \in Reads : readAt[d] = "create" /\ mine[d] = {t}
      BY <1>0, <3>1 DEF CreatorInv
    <3> QED
      BY <1>2, <1>4, <3>1, <3>2
  <2>2. \A a, d \in Reads : readAt'[a] = "create" /\ readAt'[d] = "create" /\ mine[a] = mine[d] => a = d
    BY <1>0, <1>6 DEF CreatorInv
  <2> QED
    BY <1>1, <2>1, <2>2 DEF CreatorInv
<1>9. MapInv'
  <2>1. \A t \in Reads : slot'[t].state \in Live => slot[t].state \in Live
    BY <1>2, <1>3 DEF Live
  <2> QED
    BY <1>0, <1>1, <2>1 DEF MapInv, Key
<1> QED
  BY <1>5, <1>7, <1>8, <1>9 DEF SlotsInv

LEMMA NextSlots ==
  ASSUME ReadInv, ReadNext
  PROVE  SlotsInv'
<1>0. ReadTypeOK
  BY DEF ReadInv
<1>1. CASE Commit
  BY <1>1, KeyType, SlotsStay DEF Commit
<1>2. ASSUME NEW h \in ReadHandles, NEW p \in ReadProcesses, OpenForReads(h, p) PROVE SlotsInv'
  <2>1. \A g \in ReadHandles : handlePhase'[g] = "open" => handlePhase[g] \in {"open", "new"}
    BY <1>0, <1>2 DEF OpenForReads, ReadTypeOK
  <2>2. UNCHANGED <<slot, mine, readers, readAt>> /\ audited \subseteq audited'
    BY <1>2 DEF OpenForReads
  <2> QED
    BY <2>1, <2>2, SlotsStay
<1>3. ASSUME NEW h \in ReadHandles, Release(h) \/ RemoveSlots(h) PROVE SlotsInv'
  <2>1. \A g \in ReadHandles : handlePhase'[g] = "open" => handlePhase[g] \in {"open", "new"}
    BY <1>0, <1>3 DEF Release, RemoveSlots, ReadTypeOK
  <2>2. UNCHANGED <<slot, mine, readers, readAt, audited>>
    BY <1>3 DEF Release, RemoveSlots
  <2> QED
    BY <2>1, <2>2, SlotsStay
<1>4. ASSUME NEW h \in ReadHandles, Retain(h) PROVE SlotsInv'
  <2>1. \A g \in ReadHandles : handlePhase'[g] = "open" => g # h /\ handlePhase[g] = "open"
    BY <1>0, <1>4 DEF Retain, ReadTypeOK
  <2>2. UNCHANGED <<slot, mine, readAt, audited>>
    BY <1>4 DEF Retain
  <2>3. \A k \in ReadHandles \X ReadProcesses : readers'[k] \subseteq readers[k]
    BY <1>0, <1>4 DEF Retain, ReadTypeOK
  <2>4. \A s \in Reads : s.fh # h => readers'[Key(s)] = readers[Key(s)]
    BY <1>0, <1>4, KeyType DEF Retain, ReadTypeOK, Key
  <2>5. \A s \in Reads : handlePhase'[s.fh] = "open" => readers'[Key(s)] = readers[Key(s)]
    BY <2>1, <2>4, KeyType
  <2> QED
    BY <2>1, <2>2, <2>3, <2>5, SlotsStay
<1>5. ASSUME NEW c \in Reads, Read(c) PROVE SlotsInv'
  <2>1. \A d \in Reads : \/ readAt'[d] = readAt[d]
                         \/ readAt[d] = "idle" /\ readAt'[d] \in {"done", "queued"}
    BY <1>0, <1>5, SMTT(30) DEF Read, Answer, ReadGoesTo, ReadTypeOK
  <2>2. UNCHANGED <<slot, mine, readers, handlePhase, audited>>
    BY <1>5 DEF Read
  <2> QED
    BY <2>1, <2>2, SlotsStay
<1>6. ASSUME NEW c \in Reads, Start(c) PROVE SlotsInv'
  <2>1. \A d \in Reads : \/ readAt'[d] = readAt[d]
                         \/ readAt[d] = "queued" /\ readAt'[d] \in {"done", "slot"}
    BY <1>0, <1>6 DEF Start, Answer, ReadGoesTo, ReadTypeOK
  <2>2. UNCHANGED <<slot, mine, readers, handlePhase, audited>>
    BY <1>6 DEF Start
  <2> QED
    BY <2>1, <2>2, SlotsStay
<1>7. ASSUME NEW c \in Reads, UseSlot(c) PROVE SlotsInv'
  <2>1. PICK s \in mine[c] :
          /\ readAt[c] = "use" /\ ReadGoesTo(c, "done")
          /\ \/ UNCHANGED readers
             \/ slot[s].state # "ok" /\ readers' = [readers EXCEPT ![Key(c)] = @ \ {s}]
          /\ UNCHANGED <<slot, mine, handlePhase, audited>>
    BY <1>7 DEF UseSlot, Answer
  <2>2. s \in Reads /\ slot[s].state \in {"ok", "error"}
    BY <2>1, Held DEF ReadInv, Holding
  <2>3. \A d \in Reads : readAt'[d] = readAt[d] \/ (readAt[d] = "use" /\ readAt'[d] = "done")
    BY <1>0, <2>1 DEF ReadGoesTo, ReadTypeOK
  <2>4. \A k \in ReadHandles \X ReadProcesses : readers'[k] \subseteq readers[k]
    BY <1>0, <2>1, SMTT(30) DEF ReadTypeOK
  <2>5. ASSUME NEW t \in Reads, handlePhase'[t.fh] = "open", slot[t].state \in Live
        PROVE  readers'[Key(t)] = readers[Key(t)]
    <3>1. readers[Key(t)] = {t}
      BY <2>1, <2>5 DEF ReadInv, MapInv
    <3>2. s = t => slot[s].state = "ok"
      BY <2>2, <2>5 DEF Live
    <3> QED
      BY <1>0, <2>1, <3>1, <3>2, KeyType, SMTT(30) DEF ReadTypeOK
  <2> QED
    BY <2>1, <2>3, <2>4, <2>5, SlotsStay
<1>8. ASSUME NEW c \in Reads, InterruptRead(c) PROVE SlotsInv'
  BY <1>8, SlotsStay DEF InterruptRead
<1> QED
  BY <1>1, <1>2, <1>3, <1>4, <1>5, <1>6, <1>7, <1>8, GetSlotKeepsSlots, GetOrInitKeepsSlots,
     CreateKeepsSlots DEF ReadNext, PoolStep

(* Replies. *)

(* A step that answers nobody, and keeps the sessions of the open handles, *)
(* keeps what the replies show.                                            *)
LEMMA ShownStays ==
  ASSUME ReadInv, NEW c \in Reads \ readCut, reply[c].kind = "data",
         UNCHANGED <<reply[c], opener[c.fh], base[c.fh]>>,
         handlePhase'[c.fh] = "open" => handlePhase[c.fh] = "open",
         \A s \in Reads : slot[s].state = "ok" => slot'[s] = slot[s],
         \A s \in readers[Key(c)] :
           handlePhase'[c.fh] = "open" /\ slot[s].state = "ok" => s \in readers'[Key(c)]
  PROVE  Shown(c)'
<1>1. Shown(c) /\ readers[Key(c)] \subseteq Reads
  BY KeyType DEF ReadInv, ShownInv, ReadTypeOK
<1>2. CASE c.pid \in opener[c.fh]
  BY <1>1, <1>2 DEF Shown
<1>3. CASE c.pid \notin opener[c.fh]
  <2> SUFFICES ASSUME handlePhase'[c.fh] = "open"
               PROVE  \E s \in readers'[Key(c)] : slot'[s].state = "ok" /\ slot'[s].ver = reply[c].ver
    BY <1>3 DEF Shown, Key
  <2>1. PICK s \in readers[Key(c)] : slot[s].state = "ok" /\ slot[s].ver = reply[c].ver
    BY <1>1, <1>3 DEF Shown
  <2> QED
    BY <1>1, <2>1
<1> QED
  BY <1>2, <1>3

(* A session, once created, is frozen; so is the snapshot of an open. *)
LEMMA SessionsAreFrozen ==
  ASSUME ReadInv, ReadNext
  PROVE  /\ \A s \in Reads : slot[s].state = "ok" => slot'[s] = slot[s]
         /\ \A h \in ReadHandles : handlePhase[h] # "new" =>
              /\ opener'[h] = opener[h] /\ base'[h] = base[h]
              /\ handlePhase'[h] = "open" => handlePhase[h] = "open"
<1>0. ReadTypeOK /\ SlotInv /\ HoldInv
  BY DEF ReadInv
<1>1. CASE Commit
  BY <1>1 DEF Commit
<1>2. ASSUME NEW h \in ReadHandles, NEW p \in ReadProcesses, OpenForReads(h, p)
      PROVE  UNCHANGED slot /\ \A g \in ReadHandles : handlePhase[g] # "new" =>
               UNCHANGED <<opener[g], base[g], handlePhase[g]>>
  BY <1>0, <1>2 DEF OpenForReads, ReadTypeOK
<1>3. ASSUME NEW h \in ReadHandles, Release(h) \/ Retain(h) \/ RemoveSlots(h)
      PROVE  /\ UNCHANGED <<slot, opener, base>>
             /\ \A g \in ReadHandles : handlePhase'[g] = "open" => handlePhase[g] = "open"
  BY <1>0, <1>3 DEF Release, Retain, RemoveSlots, ReadTypeOK
<1>4. ASSUME NEW c \in Reads, Read(c) \/ Start(c) \/ UseSlot(c) \/ InterruptRead(c)
      PROVE  UNCHANGED <<slot, opener, base, handlePhase>>
  BY <1>4 DEF Read, Start, UseSlot, InterruptRead
<1>5. ASSUME NEW c \in Reads, GetSlot(c)
      PROVE  /\ \A s \in Reads : slot[s].state = "ok" => slot'[s] = slot[s]
             /\ UNCHANGED <<opener, base, handlePhase>>
  <2>1. slot[c].state = "none"
    BY <1>0, <1>5 DEF GetSlot, SlotInv
  <2> QED
    BY <1>0, <1>5, <2>1 DEF GetSlot, ReadTypeOK
<1>6. ASSUME NEW c \in Reads, GetOrInit(c)
      PROVE  /\ \A s \in Reads : slot[s].state = "ok" => slot'[s] = slot[s]
             /\ UNCHANGED <<opener, base, handlePhase>>
  <2>1. PICK s \in mine[c] :
          /\ readAt[c] = "init"
          /\ slot' = [slot EXCEPT ![s].state = IF slot[s].state = "empty" THEN "busy" ELSE slot[s].state]
          /\ UNCHANGED <<opener, base, handlePhase>>
    BY <1>6 DEF GetOrInit
  <2>2. s \in Reads
    BY <1>0, <2>1, Held DEF Holding
  <2>3. slot[s].state = "ok" => slot'[s] = slot[s]
    BY <1>0, <2>1, <2>2 DEF ReadTypeOK, Slots
  <2>4. \A t \in Reads : t # s => slot'[t] = slot[t]
    BY <1>0, <2>1 DEF ReadTypeOK
  <2> QED
    BY <2>1, <2>3, <2>4
<1>7. ASSUME NEW c \in Reads, CreateReadSession(c) \/ CreateFails(c)
      PROVE  /\ \A s \in Reads : slot[s].state = "ok" => slot'[s] = slot[s]
             /\ UNCHANGED <<opener, base, handlePhase>>
  <2>1. PICK s \in mine[c] :
          /\ readAt[c] = "create"
          /\ \/ slot' = [slot EXCEPT ![s] = [state |-> "ok", for |-> {c.pid}, ver |-> head]]
             \/ slot' = [slot EXCEPT ![s].state = "error"]
          /\ UNCHANGED <<opener, base, handlePhase>>
    BY <1>7 DEF CreateReadSession, CreateFails
  <2>2. s \in Reads /\ slot[s].state = "busy"
    BY <1>0, <2>1, Held DEF Holding
  <2>3. \A t \in Reads : t # s => slot'[t] = slot[t]
    BY <1>0, <2>1 DEF ReadTypeOK
  <2> QED
    BY <2>1, <2>2, <2>3
<1> QED
  BY <1>1, <1>2, <1>3, <1>4, <1>5, <1>6, <1>7 DEF ReadNext, PoolStep

(* Who is answered with data gets what was opened or created for it.  A    *)
(* caller that still waits is answered while its handle is open.           *)
LEMMA NewReply ==
  ASSUME ReadInv, ReadNext, NEW c \in Reads, reply'[c] # reply[c]
  PROVE  /\ UNCHANGED <<handlePhase, opener, base, slot, readCut, audited>>
         /\ c \notin readCut => handlePhase[c.fh] = "open"
         /\ \/ reply'[c].kind \notin {"data", "buffer"}
            \/ c.pid \in opener[c.fh] /\ reply'[c] = Own(c) /\ handlePhase[c.fh] # "new"
            \/ /\ c.pid \notin opener[c.fh]
               /\ \E s \in Reads : slot[s].state = "ok" /\ Key(s) = Key(c) /\ reply'[c] = Data(s)
<1>0. ReadTypeOK /\ SlotInv /\ HoldInv /\ CallerInv
  BY DEF ReadInv
<1>1. ~ UNCHANGED reply
  OBVIOUS
<1>2. ~ Commit /\ \A h \in ReadHandles :
        /\ \A p \in ReadProcesses : ~ OpenForReads(h, p)
        /\ ~ Release(h) /\ ~ Retain(h) /\ ~ RemoveSlots(h)
  BY <1>1 DEF Commit, OpenForReads, Release, Retain, RemoveSlots
<1>3. \A d \in Reads : /\ ~ GetSlot(d) /\ ~ GetOrInit(d) /\ ~ CreateReadSession(d)
                       /\ ~ CreateFails(d) /\ ~ InterruptRead(d)
  BY <1>1 DEF GetSlot, GetOrInit, CreateReadSession, CreateFails, InterruptRead
<1>4. PICK d \in Reads : Read(d) \/ Start(d) \/ UseSlot(d)
  BY <1>2, <1>3 DEF ReadNext, PoolStep
<1>5. d = c /\ \E r : reply' = [reply EXCEPT ![d] = r]
  BY <1>0, <1>1, <1>4, SMTT(30) DEF Read, Start, UseSlot, Answer, ReadTypeOK
<1>6. UNCHANGED <<handlePhase, opener, base, slot, readCut, audited>>
  BY <1>4 DEF Read, Start, UseSlot
<1>7. CASE Read(c)
  <2>1. handlePhase[c.fh] = "open"
    BY <1>7 DEF Read
  <2>2. CASE c.pid \in opener[c.fh]
    BY <1>0, <1>6, <1>7, <2>1, <2>2, SMTT(30) DEF Read, Answer, ReadTypeOK
  <2>3. CASE c.pid \notin opener[c.fh]
    <3>1. PICK s \in readers[Key(c)] : slot[s].state = "ok" /\ Answer(c, Data(s))
      BY <1>1, <1>7, <2>3 DEF Read
    <3>2. s \in Reads /\ Key(s) = Key(c)
      BY <1>0, <3>1, KeyType DEF ReadTypeOK, SlotInv
    <3> QED
      BY <1>0, <1>6, <2>1, <2>3, <3>1, <3>2 DEF Answer, ReadTypeOK
  <2> QED
    BY <2>2, <2>3
<1>8. CASE Start(c)
  <2>1. Answer(c, Empty("badf")) /\ readAt[c] = "queued"
    BY <1>1, <1>8 DEF Start
  <2>2. reply'[c].kind = "badf"
    BY <1>0, <2>1 DEF Answer, Empty, ReadTypeOK
  <2> QED
    BY <1>0, <1>6, <2>1, <2>2 DEF CallerInv, Pool
<1>9. CASE UseSlot(c)
  <2>1. PICK s \in mine[c] :
          /\ readAt[c] = "use"
          /\ IF slot[s].state = "ok" THEN Answer(c, Data(s)) ELSE Answer(c, Empty("error"))
    BY <1>9 DEF UseSlot
  <2>2. s \in Reads /\ Key(s) = Key(c)
    BY <1>0, <2>1, Held DEF Holding
  <2>3. c.pid \notin opener[c.fh] /\ (c \notin readCut => handlePhase[c.fh] = "open")
    BY <1>0, <2>1 DEF CallerInv, Pool
  <2>4. CASE slot[s].state = "ok"
    BY <1>0, <1>6, <2>1, <2>2, <2>3, <2>4 DEF Answer, ReadTypeOK
  <2>5. CASE slot[s].state # "ok"
    <3>1. reply'[c].kind = "error"
      BY <1>0, <2>1, <2>5, SMTT(30) DEF Answer, Empty, ReadTypeOK
    <3> QED
      BY <1>6, <2>3, <3>1
  <2> QED
    BY <2>4, <2>5
<1> QED
  BY <1>4, <1>5, <1>7, <1>8, <1>9

LEMMA NextReplies ==
  ASSUME ReadInv, ReadNext, ReadTypeOK', SlotsInv'
  PROVE  ShownInv' /\ ReadsAreOwn' /\ ReadsRepeat'
<1>0. /\ ReadTypeOK /\ OpenerInv /\ CallerInv /\ SlotInv /\ MapInv /\ ReadsAreOwn /\ ReadsRepeat
      /\ MapInv'
  BY DEF ReadInv, SlotsInv
<1>1. readCut \subseteq readCut' /\ audited \subseteq audited'
  BY DEF ReadNext, PoolStep, Commit, OpenForReads, Release, Retain, RemoveSlots, Read, Start, GetSlot,
         GetOrInit, CreateReadSession, CreateFails, UseSlot, InterruptRead
<1>2. ShownInv'
  <2> SUFFICES ASSUME NEW c \in Reads \ readCut, reply'[c].kind = "data" PROVE Shown(c)'
    BY <1>1 DEF ShownInv
  <2>1. CASE reply'[c] = reply[c]
    <3>1. handlePhase[c.fh] # "new"
      BY <1>0, <2>1 DEF CallerInv, OpenerInv
    <3>2. /\ opener'[c.fh] = opener[c.fh] /\ base'[c.fh] = base[c.fh]
          /\ handlePhase'[c.fh] = "open" => handlePhase[c.fh] = "open"
          /\ \A s \in Reads : slot[s].state = "ok" => slot'[s] = slot[s]
      BY <3>1, KeyType, SessionsAreFrozen
    <3>3. ASSUME NEW s \in readers[Key(c)], handlePhase'[c.fh] = "open", slot[s].state = "ok"
          PROVE  s \in readers'[Key(c)]
      <4>1. s \in Reads /\ Key(s) = Key(c)
        BY <1>0, KeyType DEF ReadTypeOK, SlotInv
      <4>2. s.fh = c.fh /\ slot'[s].state \in Live
        BY <3>2, <3>3, <4>1, SameKey DEF Live
      <4>3. readers'[Key(s)] = {s}
        BY <1>0, <3>3, <4>1, <4>2 DEF MapInv, Key
      <4> QED
        BY <4>1, <4>3
    <3> QED
      BY <2>1, <3>2, <3>3, ShownStays
  <2>2. CASE reply'[c] # reply[c]
    <3>1. /\ UNCHANGED <<handlePhase, opener, base, slot>> /\ handlePhase[c.fh] = "open"
          /\ \/ c.pid \in opener[c.fh] /\ reply'[c] = Own(c)
             \/ /\ c.pid \notin opener[c.fh]
                /\ \E s \in Reads : slot[s].state = "ok" /\ Key(s) = Key(c) /\ reply'[c] = Data(s)
      BY <2>2, NewReply
    <3>2. CASE c.pid \in opener[c.fh]
      BY <3>1, <3>2, SMTT(30) DEF Shown, Own
    <3>3. CASE c.pid \notin opener[c.fh]
      <4>1. PICK s \in Reads : slot[s].state = "ok" /\ Key(s) = Key(c) /\ reply'[c] = Data(s)
        BY <3>1, <3>3
      <4>2. readers'[Key(s)] = {s}
        BY <1>0, <3>1, <4>1, SameKey DEF MapInv, Live, Key
      <4>3. reply'[c].ver = slot[s].ver
        BY <4>1, SMTT(30) DEF Data
      <4> QED
        BY <3>1, <3>3, <4>1, <4>2, <4>3 DEF Shown, Key
    <3> QED
      BY <3>2, <3>3
  <2> QED
    BY <2>1, <2>2
<1>3. ReadsAreOwn'
  <2> SUFFICES ASSUME NEW c \in Reads, reply'[c].kind \in {"data", "buffer"}
               PROVE  reply'[c].for = {c.pid} /\ <<c.fh, c.pid>> \in audited'
    BY DEF ReadsAreOwn
  <2>1. CASE reply'[c] = reply[c]
    BY <1>0, <1>1, <2>1 DEF ReadsAreOwn
  <2>2. CASE reply'[c] # reply[c]
    <3>1. \/ c.pid \in opener[c.fh] /\ reply'[c] = Own(c) /\ handlePhase[c.fh] # "new"
          \/ \E s \in Reads : slot[s].state = "ok" /\ Key(s) = Key(c) /\ reply'[c] = Data(s)
      BY <2>2, NewReply
    <3>2. CASE c.pid \in opener[c.fh] /\ reply'[c] = Own(c) /\ handlePhase[c.fh] # "new"
      <4>1. opener[c.fh] = {c.pid} /\ <<c.fh, c.pid>> \in audited
        BY <1>0, <3>2, KeyType DEF OpenerInv
      <4> QED
        BY <1>1, <3>2, <4>1, SMTT(30) DEF Own
    <3>3. ASSUME NEW s \in Reads, slot[s].state = "ok", Key(s) = Key(c), reply'[c] = Data(s)
          PROVE  reply'[c].for = {c.pid} /\ <<c.fh, c.pid>> \in audited'
      <4>1. slot[s].for = {s.pid} /\ Key(s) \in audited /\ s.pid = c.pid
        BY <1>0, <3>3, SameKey DEF SlotInv
      <4> QED
        BY <1>1, <3>3, <4>1, SMTT(30) DEF Data, Key
    <3> QED
      BY <3>1, <3>2, <3>3
  <2> QED
    BY <2>1, <2>2
<1>4. ReadsRepeat'
  <2> SUFFICES ASSUME NEW c \in Reads \ readCut', NEW d \in Reads \ readCut',
                      reply'[c].kind = "data", reply'[d].kind = "data", c.fh = d.fh, c.pid = d.pid
               PROVE  reply'[c].ver = reply'[d].ver
    BY DEF ReadsRepeat
  <2>1. Shown(c)' /\ Shown(d)' /\ Key(c) = Key(d)
    BY <1>2 DEF ShownInv, Key
  <2>2. CASE c.pid \in opener'[c.fh]
    BY <2>1, <2>2 DEF Shown
  <2>3. CASE c.pid \notin opener'[c.fh] /\ handlePhase'[c.fh] = "open"
    <3>1. PICK s \in readers'[Key(c)] : slot'[s].ver = reply'[c].ver
      BY <2>1, <2>3 DEF Shown, Key
    <3>2. PICK t \in readers'[Key(c)] : slot'[t].ver = reply'[d].ver
      BY <2>1, <2>3 DEF Shown, Key
    <3>3. s = t
      BY KeyType DEF ReadTypeOK
    <3> QED
      BY <3>1, <3>2, <3>3
  <2>4. CASE handlePhase'[c.fh] # "open"
    <3>1. reply'[c] = reply[c] /\ reply'[d] = reply[d]
      BY <1>1, <2>4, NewReply
    <3> QED
      BY <1>0, <1>1, <3>1 DEF ReadsRepeat
  <2> QED
    BY <2>2, <2>3, <2>4
<1> QED
  BY <1>2, <1>3, <1>4

---------------------------------------------------------------------------
LEMMA NextRead == ReadInv /\ [ReadNext]_readVars => ReadInv'
<1> SUFFICES ASSUME ReadInv, [ReadNext]_readVars PROVE ReadInv'
  OBVIOUS
<1>1. CASE ReadNext
  <2>1. ReadTypeOK' /\ OpenerInv' /\ CallerInv' /\ SlotsInv'
    BY <1>1, NextReadType, NextOpenerAndCalls, NextSlots
  <2> QED
    BY <1>1, <2>1, NextReplies DEF ReadInv, SlotsInv
<1>2. CASE UNCHANGED readVars
  <2> USE <1>2 DEF readVars, ReadInv
  <2>1. ReadTypeOK' /\ OpenerInv' /\ CallerInv'
    <3>1. ReadTypeOK'
      BY DEF ReadTypeOK
    <3>2. OpenerInv'
      BY DEF OpenerInv
    <3>3. CallerInv'
      BY DEF CallerInv
    <3> QED
      BY <3>1, <3>2, <3>3
  <2>2. SlotInv' /\ HoldInv' /\ CreatorInv' /\ MapInv'
    <3>1. SlotInv' /\ MapInv'
      BY DEF SlotInv, MapInv, Key
    <3>2. HoldInv'
      BY DEF HoldInv, Key
    <3>3. CreatorInv'
      BY DEF CreatorInv
    <3> QED
      BY <3>1, <3>2, <3>3
  <2>3. ShownInv' /\ ReadsAreOwn' /\ ReadsRepeat'
    BY DEF ShownInv, Shown, ReadsAreOwn, ReadsRepeat, Key
  <2> QED
    BY <2>1, <2>2, <2>3
<1> QED
  BY <1>1, <1>2

LEMMA ReadInvariance == ReadSpec => []ReadInv
  BY InitRead, NextRead, PTL DEF ReadSpec

(* The state of the read sessions keeps its type, and a key has one slot   *)
(* at most.                                                                *)
THEOREM ReadTypeCorrect == ReadSpec => []ReadTypeOK
<1>1. ReadInv => ReadTypeOK
  BY DEF ReadInv
<1> QED
  BY <1>1, ReadInvariance, PTL

(* Nobody is answered with what was opened or created for another process, *)
(* or before its open is in the audit log, whatever the callers, the       *)
(* threads of the pool and the releases do between the steps of a read.    *)
THEOREM ReadsAreTheCallers == ReadSpec => []ReadsAreOwn
<1>1. ReadInv => ReadsAreOwn
  BY DEF ReadInv
<1> QED
  BY <1>1, ReadInvariance, PTL

(* All the answers a process gets through one handle show one version.     *)
THEOREM ReadsAreRepeatable == ReadSpec => []ReadsRepeat
<1>1. ReadInv => ReadsRepeat
  BY DEF ReadInv
<1> QED
  BY <1>1, ReadInvariance, PTL

(* While the handle is open, at most one call creates the session of a     *)
(* process: get_or_init() on the one slot of the key.                      *)
THEOREM CreatedOnce == ReadSpec => []OneCreator
<1>1. ReadInv => OneCreator
  <2> SUFFICES ASSUME ReadInv, NEW c \in Reads, NEW d \in Reads, readAt[c] = "create",
                      readAt[d] = "create", c.fh = d.fh, c.pid = d.pid, handlePhase[c.fh] = "open"
               PROVE  c = d
    BY DEF OneCreator
  <2>1. PICK s \in Reads : mine[c] = {s} /\ Key(s) = Key(c) /\ slot[s].state = "busy"
    BY DEF ReadInv, HoldInv, Holding
  <2>2. PICK t \in Reads : mine[d] = {t} /\ Key(t) = Key(d) /\ slot[t].state = "busy"
    BY DEF ReadInv, HoldInv, Holding
  <2>3. Key(c) = Key(d) /\ s.fh = c.fh /\ t.fh = c.fh
    BY <2>1, <2>2, SameKey DEF Key
  <2>4. readers[Key(c)] = {s} /\ readers[Key(c)] = {t}
    BY <2>1, <2>2, <2>3 DEF ReadInv, MapInv, Live
  <2>5. mine[c] = mine[d]
    BY <2>1, <2>2, <2>4
  <2> QED
    BY <2>5 DEF ReadInv, CreatorInv
<1> QED
  BY <1>1, ReadInvariance, PTL

(* A thread that waits in get_or_init() waits for a call that is creating. *)
THEOREM NobodyWaitsForNobody == ReadSpec => []WaitersHaveCreator
<1>1. ReadInv => WaitersHaveCreator
  <2> SUFFICES ASSUME ReadInv, NEW c \in Reads, readAt[c] = "init", NEW s \in mine[c],
                      slot[s].state = "busy"
               PROVE  \E d \in Reads : readAt[d] = "create" /\ mine[d] = {s}
    BY DEF WaitersHaveCreator
  <2>1. readAt[c] \in Holding /\ HoldInv
    BY DEF ReadInv, Holding
  <2>2. s \in Reads
    BY <2>1, Held
  <2> QED
    BY <2>2 DEF ReadInv, CreatorInv
<1> QED
  BY <1>1, ReadInvariance, PTL

(* All that a session promises to its process together.                    *)
THEOREM SessionsServeTheirProcess == ReadSpec => []SessionsAreOwn
  BY ReadTypeCorrect, ReadsAreTheCallers, ReadsAreRepeatable, CreatedOnce, NobodyWaitsForNobody,
     PTL DEF SessionsAreOwn
============================================================================
