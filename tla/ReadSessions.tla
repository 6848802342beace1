---------------------------- MODULE ReadSessions ----------------------------
(***************************************************************************)
(* Reads of the mounted file system (floria-fs/src/read_session.rs and the *)
(* read path of floria-fs/src/lib.rs).  macFUSE lets several processes     *)
(* share one file handle, so the process that opened it reads the snapshot *)
(* of that open (or its write buffer), and every other one gets a snapshot *)
(* of its own, authorized, generated and audited at its first read.        *)
(*                                                                         *)
(* The event loop answers what is there; the rest goes to a pool of        *)
(* threads.  The content of the file is the number of its committed        *)
(* version.  The kernel releases a handle when no call on it is            *)
(* outstanding; a call whose caller was interrupted goes on by itself.     *)
(***************************************************************************)
EXTENDS Naturals, FiniteSets

CONSTANTS
  ReadHandles,
  WriteFds,      \* those opened for writing
  ReadProcesses,     \* process instances
  Reads,         \* the calls of read(), with the handle and the process
  Workers,       \* AUTH_POOL_THREADS
  MaxHead        \* bound on the committed versions

ASSUME ReadsAssumption ==
  /\ WriteFds \subseteq ReadHandles
  /\ Reads \subseteq [fh : ReadHandles, pid : ReadProcesses, n : Nat]
  /\ Workers \in Nat \ {0}
  /\ MaxHead \in Nat

VARIABLES
  head,          \* the committed version
  handlePhase,         \* the life of a handle
  opener,        \* the identity in the table of the handle, {} before the open
  sessionTable,         \* the handles in SnapshotTable.open and WriteBufTable.open
  base,          \* the version a handle's own snapshot holds
  readers,       \* ReadSessionTable.readers: the slot of a key, named by the call that made it
  slot,          \* what a slot holds
  readAt,
  mine,          \* the slot a call has cloned out of the map
  reply,         \* the answer to a call
  readCut,           \* the calls whose caller was interrupted
  audited        \* the opens in the audit log, by handle and process

readVars == <<head, handlePhase, opener, sessionTable, base, readers, slot, readAt, mine, reply, readCut, audited>>

Slots == [state : {"none", "empty", "busy", "ok", "error"}, for : SUBSET ReadProcesses, ver : Nat]
Replies == [kind : {"none", "data", "buffer", "badf", "error"}, for : SUBSET ReadProcesses, ver : Nat]
NoSlot == [state |-> "none", for |-> {}, ver |-> 0]
Empty(k) == [kind |-> k, for |-> {}, ver |-> 0]

ReadInit ==
  /\ head = 0
  /\ handlePhase = [h \in ReadHandles |-> "new"]
  /\ opener = [h \in ReadHandles |-> {}]
  /\ sessionTable = {}
  /\ base = [h \in ReadHandles |-> 0]
  /\ readers = [k \in ReadHandles \X ReadProcesses |-> {}]
  /\ slot = [c \in Reads |-> NoSlot]
  /\ readAt = [c \in Reads |-> "idle"]
  /\ mine = [c \in Reads |-> {}]
  /\ reply = [c \in Reads |-> Empty("none")]
  /\ readCut = {}
  /\ audited = {}

ReadGoesTo(c, l) == readAt' = [readAt EXCEPT ![c] = l]

Answer(c, r) == ReadGoesTo(c, "done") /\ reply' = [reply EXCEPT ![c] = r]

---------------------------------------------------------------------------
(* A commit through some other handle, or by the daemon's own commands. *)
Commit ==
  /\ head < MaxHead
  /\ head' = head + 1
  /\ UNCHANGED <<handlePhase, opener, sessionTable, base, readers, slot, readAt, mine, reply, readCut, audited>>

(* handle_open(): the snapshot of the committed version, or the buffer     *)
(* seeded with it, once the open is in the audit log.  A refused open      *)
(* leaves nothing behind.                                                  *)
OpenForReads(h, p) ==
  /\ handlePhase[h] = "new"
  /\ handlePhase' = [handlePhase EXCEPT ![h] = "open"]
  /\ opener' = [opener EXCEPT ![h] = {p}]
  /\ sessionTable' = sessionTable \cup {h}
  /\ base' = [base EXCEPT ![h] = head]
  /\ audited' = audited \cup {<<h, p>>}
  /\ UNCHANGED <<head, readers, slot, readAt, mine, reply, readCut>>

(* The key of the session of a call: ReaderKey. *)
Key(c) == <<c.fh, c.pid>>

(* What the opener reads: its snapshot or its buffer. *)
Own(c) ==
  [kind |-> IF c.fh \in WriteFds THEN "buffer" ELSE "data", for |-> opener[c.fh], ver |-> base[c.fh]]

Data(s) == [kind |-> "data", for |-> slot[s].for, ver |-> slot[s].ver]

(* read() on the event loop: read_existing(), read_existing_secondary(). *)
Read(c) ==
  LET ready == {s \in readers[Key(c)] : slot[s].state = "ok"}
  IN  /\ readAt[c] = "idle"
      /\ handlePhase[c.fh] = "open"
      /\ \/ c.pid \in opener[c.fh] /\ Answer(c, Own(c))
         \/ c.pid \notin opener[c.fh] /\ \E s \in ready : Answer(c, Data(s))
         \/ c.pid \notin opener[c.fh] /\ ready = {} /\ ReadGoesTo(c, "queued") /\ UNCHANGED reply
      /\ UNCHANGED <<head, handlePhase, opener, sessionTable, base, readers, slot, mine, readCut, audited>>

---------------------------------------------------------------------------
(* handle_uncached_read() on a thread of the pool. *)

Running == {c \in Reads : readAt[c] \in {"slot", "init", "create", "use"}}

(* The handle is looked up again: it may be gone by now. *)
Start(c) ==
  /\ readAt[c] = "queued"
  /\ Cardinality(Running) < Workers
  /\ IF c.fh \in sessionTable THEN ReadGoesTo(c, "slot") /\ UNCHANGED reply ELSE Answer(c, Empty("badf"))
  /\ UNCHANGED <<head, handlePhase, opener, sessionTable, base, readers, slot, mine, readCut, audited>>

(* readers.entry(key).or_insert_with() *)
GetSlot(c) ==
  LET found == readers[Key(c)]
      s == IF found = {} THEN {c} ELSE found
  IN  /\ readAt[c] = "slot"
      /\ readers' = [readers EXCEPT ![Key(c)] = s]
      /\ slot' = IF found = {} THEN [slot EXCEPT ![c] = [state |-> "empty", for |-> {}, ver |-> 0]]
                               ELSE slot
      /\ mine' = [mine EXCEPT ![c] = s]
      /\ ReadGoesTo(c, "init")
      /\ UNCHANGED <<head, handlePhase, opener, sessionTable, base, reply, readCut, audited>>

(* get_or_init(): the first call creates, the others wait for it. *)
GetOrInit(c) ==
  \E s \in mine[c] :
    /\ readAt[c] = "init"
    /\ slot[s].state # "busy"
    /\ slot' = [slot EXCEPT ![s].state = IF @ = "empty" THEN "busy" ELSE @]
    /\ ReadGoesTo(c, IF slot[s].state = "empty" THEN "create" ELSE "use")
    /\ UNCHANGED <<head, handlePhase, opener, sessionTable, base, readers, mine, reply, readCut, audited>>

(* create_read_session(): authorized, generated and audited. *)
CreateReadSession(c) ==
  \E s \in mine[c] :
    /\ readAt[c] = "create"
    /\ slot' = [slot EXCEPT ![s] = [state |-> "ok", for |-> {c.pid}, ver |-> head]]
    /\ audited' = audited \cup {<<c.fh, c.pid>>}
    /\ ReadGoesTo(c, "use")
    /\ UNCHANGED <<head, handlePhase, opener, sessionTable, base, readers, mine, reply, readCut>>

(* create_read_session() refused, or failed, or not to be audited. *)
CreateFails(c) ==
  \E s \in mine[c] :
    /\ readAt[c] = "create"
    /\ slot' = [slot EXCEPT ![s].state = "error"]
    /\ ReadGoesTo(c, "use")
    /\ UNCHANGED <<head, handlePhase, opener, sessionTable, base, readers, mine, reply, readCut, audited>>

(* Mutant: a failed call removes whatever slot the key has. *)
UseSlotOfKey(c) ==
  \E s \in mine[c] :
    /\ readAt[c] = "use"
    /\ IF slot[s].state = "ok"
         THEN Answer(c, Data(s)) /\ UNCHANGED readers
         ELSE Answer(c, Empty("error")) /\ readers' = [readers EXCEPT ![Key(c)] = {}]
    /\ UNCHANGED <<head, handlePhase, opener, sessionTable, base, slot, mine, readCut, audited>>

(* The slot is initialized: a failure is not cached, and only the slot     *)
(* that failed is removed.                                                 *)
UseSlot(c) ==
  \E s \in mine[c] :
    /\ readAt[c] = "use"
    /\ IF slot[s].state = "ok"
         THEN Answer(c, Data(s)) /\ UNCHANGED readers
         ELSE Answer(c, Empty("error")) /\ readers' = [readers EXCEPT ![Key(c)] = @ \ {s}]
    /\ UNCHANGED <<head, handlePhase, opener, sessionTable, base, slot, mine, readCut, audited>>

PoolStep(c) ==
  \/ Start(c) \/ GetSlot(c) \/ GetOrInit(c) \/ CreateReadSession(c) \/ CreateFails(c) \/ UseSlot(c)

---------------------------------------------------------------------------
(* The kernel. *)

InterruptRead(c) ==
  /\ readAt[c] \notin {"idle", "done"} /\ c \notin readCut
  /\ readCut' = readCut \cup {c}
  /\ UNCHANGED <<head, handlePhase, opener, sessionTable, base, readers, slot, readAt, mine, reply, audited>>

Release(h) ==
  /\ handlePhase[h] = "open"
  /\ \A c \in Reads : c.fh = h => readAt[c] \in {"idle", "done"} \/ c \in readCut
  /\ handlePhase' = [handlePhase EXCEPT ![h] = IF h \in WriteFds THEN "remove" ELSE "retain"]
  /\ UNCHANGED <<head, opener, sessionTable, base, readers, slot, readAt, mine, reply, readCut, audited>>

(* ReadSessionTable::remove() is retain() and then base.remove(); the      *)
(* buffer of a write handle goes before both.                              *)
Retain(h) ==
  /\ handlePhase[h] = "retain"
  /\ readers' = [k \in DOMAIN readers |-> IF k[1] = h THEN {} ELSE readers[k]]
  /\ handlePhase' = [handlePhase EXCEPT ![h] = IF h \in WriteFds THEN "closed" ELSE "remove"]
  /\ UNCHANGED <<head, opener, sessionTable, base, slot, readAt, mine, reply, readCut, audited>>

RemoveSlots(h) ==
  /\ handlePhase[h] = "remove"
  /\ sessionTable' = sessionTable \ {h}
  /\ handlePhase' = [handlePhase EXCEPT ![h] = IF h \in WriteFds THEN "retain" ELSE "closed"]
  /\ UNCHANGED <<head, opener, base, readers, slot, readAt, mine, reply, readCut, audited>>

ReadNext ==
  \/ Commit
  \/ \E h \in ReadHandles :
       \/ \E p \in ReadProcesses : OpenForReads(h, p)
       \/ Release(h) \/ Retain(h) \/ RemoveSlots(h)
  \/ \E c \in Reads : Read(c) \/ PoolStep(c) \/ InterruptRead(c)

ReadSpec == ReadInit /\ [][ReadNext]_readVars

---------------------------------------------------------------------------
(* Properties. *)

(* Every variable keeps its type, and a key has one slot at most. *)
ReadTypeOK ==
  /\ head \in Nat
  /\ handlePhase \in [ReadHandles -> {"new", "open", "retain", "remove", "closed"}]
  /\ opener \in [ReadHandles -> SUBSET ReadProcesses]
  /\ sessionTable \in SUBSET ReadHandles
  /\ base \in [ReadHandles -> Nat]
  /\ readers \in [ReadHandles \X ReadProcesses -> SUBSET Reads]
  /\ \A k \in ReadHandles \X ReadProcesses : \A s, t \in readers[k] : s = t
  /\ slot \in [Reads -> Slots]
  /\ readAt \in [Reads -> {"idle", "queued", "slot", "init", "create", "use", "done"}]
  /\ mine \in [Reads -> SUBSET Reads]
  /\ reply \in [Reads -> Replies]
  /\ readCut \in SUBSET Reads
  /\ audited \in SUBSET (ReadHandles \X ReadProcesses)

(* What a process reads was authorized for that very process, under that   *)
(* handle, and is in the audit log: neither another process's snapshot nor *)
(* its uncommitted buffer is ever served.                                  *)
ReadsAreOwn ==
  \A c \in Reads :
    reply[c].kind \in {"data", "buffer"} => reply[c].for = {c.pid} /\ <<c.fh, c.pid>> \in audited

(* The snapshot of a session is frozen: all reads of a process through one *)
(* handle see one version, however they overlap and whichever fail.        *)
ReadsRepeat ==
  \A c, d \in Reads \ readCut :
    reply[c].kind = "data" /\ reply[d].kind = "data" /\ c.fh = d.fh /\ c.pid = d.pid
      => reply[c].ver = reply[d].ver

(* "creating it exactly once for a process": while a handle is open, a     *)
(* process is never asked about twice at a time.                           *)
OneCreator ==
  \A c, d \in Reads :
    readAt[c] = "create" /\ readAt[d] = "create" /\ c.fh = d.fh /\ c.pid = d.pid /\ handlePhase[c.fh] = "open"
      => c = d

(* A call that waits for a session waits for a call that is running: a     *)
(* creation that fails does not leave its slot busy, and no release takes  *)
(* the creator away.                                                       *)
WaitersHaveCreator ==
  \A c \in Reads : readAt[c] = "init" =>
    \A s \in mine[c] : slot[s].state = "busy" => \E d \in Reads : readAt[d] = "create" /\ mine[d] = {s}

(* A process that reads through a handle has one session, its own and      *)
(* frozen, however many threads ask for it and whichever of them fail.     *)
SessionsAreOwn ==
  ReadTypeOK /\ ReadsAreOwn /\ ReadsRepeat /\ OneCreator /\ WaitersHaveCreator
=============================================================================
