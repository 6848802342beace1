----------------------------- MODULE DaemonState -----------------------------
(***************************************************************************)
(* What the authorization daemon keeps over a restart: the grants          *)
(* (floria-agent/src/grant_cache.rs) and the policy mode (policy_mode.rs), *)
(* each an authenticated file whose generation and MAC are checkpointed in *)
(* one Keychain record (floria-integrity/src/lib.rs).                      *)
(*                                                                         *)
(* A file and its checkpoint are written one after the other, so the       *)
(* daemon can crash between them; each of the calls can fail, before or    *)
(* after its effect; and a restored backup can put an older file back.     *)
(* An HMAC identifies the generation and the document it covers, so an     *)
(* envelope is that pair.  Grants expire by the monotonic clock while the  *)
(* daemon runs and by the wall clock over a restart.                       *)
(***************************************************************************)
EXTENDS Integers

CONSTANTS
  Keys,          \* grant keys
  MaximumTtl,    \* MAXIMUM_TTL
  MaxClock,      \* bound on the clocks
  MaxWrites,     \* bound on the mutations
  MaxStateFaults,     \* bound on failures, crashes, restored files and clock changes
  NoState        \* None: no file, checkpoint, job, deadline or generation

VARIABLES
  credential,    \* the authority account of the Keychain: "none", "raw" key or "record"
  checkpoints,   \* AuthorityRecord.checkpoints
  legacy,        \* the checkpoint accounts of older versions
  writeLock,     \* who holds KEYCHAIN_AUTHORITY_WRITE_LOCK
  files,         \* the two state files
  copies,        \* every envelope that was ever in a file
  running,
  entries,       \* GrantCache.entries
  generations,    \* GrantPersistence.generation and PolicyModeState.generation
  degraded,      \* GrantPersistence.degraded_reason is some
  status,        \* PolicyModeState.status
  job,           \* the call of persist() of each domain
  clock,         \* Instant::now()
  unix,          \* the wall clock
  absent,        \* history: the keys the last acknowledged document does not hold
  writes,
  faults

keychain == <<credential, checkpoints, legacy, writeLock>>
memory == <<running, entries, generations, degraded, status, job>>
budget == <<writes, faults>>
daemonVars == <<keychain, files, copies, memory, clock, unix, absent, budget>>

Domains == {"grants", "policy"}
Normal == [mode |-> "normal", expires |-> NoState]

\* Unix time starts above zero so that a clock can be set back.
Times == (0 - MaxStateFaults) .. (MaxClock + MaximumTtl)
Timed == [key : Keys, allowed : BOOLEAN, scope : {"timed"}, monotonic : Times, unix : Times]
UntilLock == [key : Keys, allowed : BOOLEAN, scope : {"until_lock"}]
Persisted == [key : Keys, allowed : BOOLEAN, unix : Times]
Statuses == [mode : {"normal", "audit_only"}, expires : Times \cup {NoState}]
Documents(d) == IF d = "grants" THEN SUBSET Persisted ELSE Statuses
Envelopes(d) == [generation : Nat, document : Documents(d)]
StateEnvelopes(d) == {NoState} \cup Envelopes(d)
Records == [Domains -> StateEnvelopes("grants") \cup StateEnvelopes("policy")]
Jobs(d) == [step : {"persist", "read", "store"}, generation : Nat \cup {NoState},
            document : Documents(d), attempt : {1, 2}, record : Records]
Empty(d) == IF d = "grants" THEN {} ELSE Normal

ASSUME DaemonStateAssumption ==
  /\ MaximumTtl \in Nat \ {0}
  /\ {MaxClock, MaxWrites, MaxStateFaults} \subseteq Nat

\* None is none of the values it stands in for.
ASSUME NoStateAssumption ==
  /\ NoState \notin Int /\ NoState \notin Domains
  /\ \A d \in Domains : NoState \notin Envelopes(d) /\ NoState \notin Jobs(d)

DaemonInit ==
  /\ credential \in {"none", "raw"}
  /\ checkpoints = [d \in Domains |-> NoState]
  /\ \E old \in IF credential = "none" THEN {{}} ELSE SUBSET Domains :
       legacy = [d \in Domains |-> IF d \in old THEN [generation |-> 1, document |-> Empty(d)] ELSE NoState]
  /\ files = legacy
  /\ copies = [d \in Domains |-> {legacy[d]} \ {NoState}]
  /\ writeLock = NoState
  /\ running = FALSE
  /\ entries = {}
  /\ generations = [d \in Domains |-> 0]
  /\ degraded = FALSE
  /\ status = Normal
  /\ job = [d \in Domains |-> NoState]
  /\ clock = 0 /\ unix = 0
  /\ absent = {}
  /\ writes = 0 /\ faults = 0

(***************************************************************************)
(* The Keychain authority.                                                 *)
(***************************************************************************)
\* n of the calls of a step fail.
Fails(n) == faults' = faults + n /\ faults' <= MaxStateFaults

Loaded(ok, checkpoint, record, old, n) ==
  [ok |-> ok, checkpoint |-> checkpoint, record |-> record, legacy |-> old, fault |-> n]

\* CheckpointStore::load: from the record, or from the account of an older version, which is
\* merged into the record and then deleted.  Reading and storing may fail, storing with or
\* without effect; a failure to delete goes unnoticed.
LoadCheckpoint(d, record, old) ==
  LET merged == [record EXCEPT ![d] = old[d]]
      deleted == [old EXCEPT ![d] = NoState]
  IN {Loaded(FALSE, NoState, record, old, 1)} \cup
     IF record[d] # NoState \/ old[d] = NoState
     THEN {Loaded(TRUE, record[d], record, old, 0)}
     ELSE {Loaded(TRUE, old[d], merged, deleted, 0), Loaded(TRUE, old[d], merged, old, 1),
           Loaded(FALSE, NoState, merged, old, 1)}

\* A merge takes the write lock.
Merge(l) ==
  /\ l.record # checkpoints => writeLock = NoState
  /\ checkpoints' = l.record
  /\ legacy' = l.legacy

Generation(checkpoint) == IF checkpoint = NoState THEN 0 ELSE checkpoint.generation

\* A plausible bug: the generation of the file is not compared with the checkpoint.
LoadUnordered(d, checkpoint) ==
  IF files[d] = NoState THEN [kind |-> "missing", generation |-> Generation(checkpoint)]
  ELSE [kind |-> "document", generation |-> files[d].generation,
        document |-> files[d].document]

\* StateAuthenticator::load of a domain with this checkpoint.
Load(d, checkpoint) ==
  IF files[d] = NoState THEN [kind |-> "missing", generation |-> Generation(checkpoint)]
  ELSE IF files[d] # checkpoint THEN [kind |-> "rejected"]
  ELSE [kind |-> "document", generation |-> checkpoint.generation,
        document |-> checkpoint.document]

(***************************************************************************)
(* StateAuthenticator::persist(), called by both domains.                  *)
(***************************************************************************)
\* persisted_document(): grants until the screen locks are not kept.
Document(es) ==
  {[key |-> e.key, allowed |-> e.allowed, unix |-> e.unix] : e \in {x \in es : x.scope = "timed"}}

Job(g, document, attempt) ==
  [step |-> "persist", generation |-> g, document |-> document, attempt |-> attempt,
   record |-> checkpoints]

Persist(d, document) == job' = [job EXCEPT ![d] = Job(generations[d], document, 1)]

\* The error path, after n failures: the grants take the generation of the checkpoint and try
\* once more, and are memory-only after that; the policy mode reports the error.
PersistFailed(d, record, old, n) ==
  LET j == job[d] IN
  \/ /\ d = "grants"
     /\ \E l \in LoadCheckpoint(d, record, old) :
          /\ Fails(n + l.fault)
          /\ l.record # record => writeLock' = NoState
          /\ checkpoints' = l.record /\ legacy' = l.legacy
          /\ LET g == IF l.ok THEN Generation(l.checkpoint) ELSE j.generation IN
             IF l.ok /\ j.attempt = 1
             THEN /\ job' = [job EXCEPT ![d] = Job(g, j.document, 2)]
                  /\ UNCHANGED <<generations, degraded>>
             ELSE /\ job' = [job EXCEPT ![d] = NoState]
                  /\ generations' = [generations EXCEPT ![d] = g]
                  /\ degraded' = TRUE
  \/ /\ d = "policy"
     /\ Fails(n)
     /\ checkpoints' = record /\ legacy' = old
     /\ job' = [job EXCEPT ![d] = NoState]
     /\ UNCHANGED <<generations, degraded>>

jobUnchanged == <<credential, running, entries, clock, unix, writes>>

\* persist_authenticated() of a cache that has no generation asks the checkpoint for one.
PersistResolve(d) ==
  /\ job[d] # NoState /\ job[d].step = "persist" /\ job[d].generation = NoState
  /\ \E l \in LoadCheckpoint(d, checkpoints, legacy) :
       /\ Fails(l.fault)
       /\ Merge(l)
       /\ IF l.ok
          THEN /\ job' = [job EXCEPT ![d].generation = Generation(l.checkpoint)]
               /\ UNCHANGED degraded
          ELSE job' = [job EXCEPT ![d] = NoState] /\ degraded' = TRUE
  /\ UNCHANGED <<jobUnchanged, writeLock, files, copies, generations, status, absent>>

\* The checkpoint is compared and the file replaced.
PersistFile(d) ==
  LET j == job[d]
      envelope == [generation |-> j.generation + 1, document |-> j.document]
      Replaced == /\ files' = [files EXCEPT ![d] = envelope]
                  /\ copies' = [copies EXCEPT ![d] = @ \cup {envelope}]
  IN /\ j # NoState /\ j.step = "persist" /\ j.generation # NoState
     /\ UNCHANGED writeLock
     /\ \E l \in LoadCheckpoint(d, checkpoints, legacy) :
          /\ l.record # checkpoints => writeLock = NoState
          /\ LET refused == ~l.ok \/ Generation(l.checkpoint) > j.generation IN
             \/ /\ refused
                /\ PersistFailed(d, l.record, l.legacy, l.fault)
                /\ UNCHANGED <<files, copies>>
             \/ /\ ~refused
                /\ PersistFailed(d, l.record, l.legacy, l.fault + 1)
                /\ Replaced \/ UNCHANGED <<files, copies>>
             \/ /\ ~refused
                /\ Fails(l.fault)
                /\ checkpoints' = l.record /\ legacy' = l.legacy
                /\ Replaced
                /\ job' = [job EXCEPT ![d].step = "read"]
                /\ UNCHANGED <<generations, degraded>>
     /\ UNCHANGED <<jobUnchanged, status, absent>>

\* A plausible bug: the record is read without the lock.
PersistReadUnlocked(d) ==
  /\ job[d] # NoState /\ job[d].step = "read"
  /\ Fails(0)
  /\ job' = [job EXCEPT ![d].step = "store", ![d].record = checkpoints]
  /\ UNCHANGED <<jobUnchanged, keychain, files, copies, generations, degraded, status, absent>>

\* CredentialCheckpoints::store takes the lock and reads the record of both domains ...
PersistRead(d) ==
  /\ job[d] # NoState /\ job[d].step = "read"
  /\ writeLock = NoState
  /\ \/ /\ Fails(0)
        /\ writeLock' = d
        /\ job' = [job EXCEPT ![d].step = "store", ![d].record = checkpoints]
        /\ UNCHANGED <<checkpoints, legacy, generations, degraded>>
     \/ UNCHANGED writeLock /\ PersistFailed(d, checkpoints, legacy, 1)
  /\ UNCHANGED <<jobUnchanged, files, copies, status, absent>>

\* A plausible bug: the new generation is not kept.
AcknowledgedAtOldGeneration(d) ==
  /\ job' = [job EXCEPT ![d] = NoState]
  /\ degraded' = (degraded /\ d # "grants")
  /\ status' = IF d = "policy" THEN job[d].document ELSE status
  /\ absent' = IF d = "grants" THEN Keys \ {e.key : e \in entries} ELSE absent
  /\ UNCHANGED generations

\* persist() returned the new generation.
Acknowledged(d) ==
  /\ job' = [job EXCEPT ![d] = NoState]
  /\ generations' = [generations EXCEPT ![d] = job[d].generation + 1]
  /\ degraded' = (degraded /\ d # "grants")
  /\ status' = IF d = "policy" THEN job[d].document ELSE status
  /\ absent' = IF d = "grants" THEN Keys \ {e.key : e \in entries} ELSE absent

\* ... and writes it back with the new checkpoint.
PersistStore(d) ==
  LET j == job[d]
      record == [j.record EXCEPT ![d] = [generation |-> j.generation + 1,
                                         document |-> j.document]]
  IN /\ j # NoState /\ j.step = "store"
     /\ writeLock' = NoState
     /\ \/ /\ Fails(0)
           /\ checkpoints' = record
           /\ Acknowledged(d)
           /\ UNCHANGED legacy
        \/ /\ \/ PersistFailed(d, record, legacy, 1)
              \/ PersistFailed(d, checkpoints, legacy, 1)
           /\ UNCHANGED <<status, absent>>
     /\ UNCHANGED <<jobUnchanged, files, copies>>

(***************************************************************************)
(* The grant cache.  Its lock is held until the document is persisted.     *)
(***************************************************************************)
Mutation(d) == running /\ job[d] = NoState /\ writes < MaxWrites /\ writes' = writes + 1

\* entries' is set, and the document of the new entries is persisted.
SaveEntries(es) ==
  /\ entries' = es
  /\ Persist("grants", Document(es))
  /\ UNCHANGED <<keychain, files, copies, running, generations, degraded, status, clock, unix, faults>>

EntryExpired(e) == e.scope = "timed" /\ e.monotonic <= clock

\* insert_decision() of a grant for ttl, at most MAXIMUM_TTL, or until the screen locks.
Insert(k, allowed) ==
  /\ Mutation("grants")
  /\ \E new \in {[key |-> k, allowed |-> allowed, scope |-> "until_lock"]} \cup
                {[key |-> k, allowed |-> allowed, scope |-> "timed",
                  monotonic |-> clock + ttl, unix |-> unix + ttl] : ttl \in 1 .. MaximumTtl} :
       SaveEntries({e \in entries : e.key # k} \cup {new})
  /\ absent' = absent \ {k}

\* decision() drops an expired grant, and active() every one.
Decision(k) ==
  /\ Mutation("grants")
  /\ \E e \in entries : e.key = k /\ EntryExpired(e)
  /\ SaveEntries({e \in entries : e.key # k})
  /\ UNCHANGED absent

Active ==
  /\ Mutation("grants")
  /\ \E e \in entries : EntryExpired(e)
  /\ SaveEntries({e \in entries : ~EntryExpired(e)})
  /\ UNCHANGED absent

ClearLockBound ==
  /\ Mutation("grants")
  /\ \E e \in entries : e.scope = "until_lock"
  /\ SaveEntries({e \in entries : e.scope # "until_lock"})
  /\ UNCHANGED absent

Revoke(k) ==
  /\ Mutation("grants")
  /\ \E e \in entries : e.key = k
  /\ SaveEntries({e \in entries : e.key # k})
  /\ UNCHANGED absent

Clear == Mutation("grants") /\ SaveEntries({}) /\ UNCHANGED absent

(***************************************************************************)
(* The policy mode.                                                        *)
(***************************************************************************)
policyUnchanged == <<keychain, files, copies, running, entries, generations, degraded, clock,
                     unix, faults, absent>>

\* set(): the status changes when the document has been persisted.
SetPolicyMode(mode, expires) ==
  /\ Mutation("policy")
  /\ mode = "normal" => expires = NoState
  /\ Persist("policy", [mode |-> mode, expires |-> expires])
  /\ UNCHANGED <<status, policyUnchanged>>

OverrideExpired(s) == s.expires # NoState /\ s.expires <= unix

\* status(): an expired override ends at once, whether or not that can be persisted.
ModeStatus ==
  /\ Mutation("policy")
  /\ OverrideExpired(status)
  /\ status' = Normal
  /\ Persist("policy", Normal)
  /\ UNCHANGED policyUnchanged

\* load_document(): grants whose wall-clock expiry has passed are dropped; one that is further
\* away than the longest lifetime makes the document invalid.
Valid(document) == \A p \in document : p.unix - unix <= MaximumTtl
Restored(document) ==
  {[key |-> p.key, allowed |-> p.allowed, scope |-> "timed",
    monotonic |-> clock + (p.unix - unix), unix |-> p.unix] : p \in {q \in document : q.unix > unix}}

Opened(value, g, l, n, rejected) ==
  [value |-> value, generation |-> g, record |-> l.record, legacy |-> l.legacy,
   fault |-> n + l.fault, rejected |-> rejected]

\* A state that cannot be loaded is empty, with the generation of the checkpoint if that can
\* be read on its own.
OpenRejected(d, l, value, unknown) ==
  {Opened(value, IF k.ok THEN Generation(k.checkpoint) ELSE unknown, k, l.fault, TRUE) :
     k \in LoadCheckpoint(d, l.record, l.legacy)}

\* GrantCache::open
OpenGrants ==
  UNION {LET r == Load("grants", l.checkpoint) IN
         IF ~l.ok \/ r.kind = "rejected" THEN OpenRejected("grants", l, {}, NoState)
         ELSE IF r.kind = "missing" THEN {Opened({}, r.generation, l, 0, r.generation # 0)}
         ELSE IF Valid(r.document) THEN {Opened(Restored(r.document), r.generation, l, 0, FALSE)}
         ELSE {Opened({}, r.generation, l, 0, TRUE)}
         : l \in LoadCheckpoint("grants", checkpoints, legacy)}

\* PolicyModeState::open, after the grants were opened
OpenPolicy(g) ==
  UNION {LET r == Load("policy", l.checkpoint) IN
         IF ~l.ok \/ r.kind = "rejected" THEN OpenRejected("policy", l, Normal, 0)
         ELSE {Opened(IF r.kind = "missing" THEN Normal ELSE r.document, r.generation, l, 0, FALSE)}
         : l \in LoadCheckpoint("policy", g.record, g.legacy)}

\* quarantine_rejected_state()
Quarantined == [files EXCEPT !["grants"] = NoState]

\* The authority is opened, then the two states.  Rejected grants are moved out of the way, which
\* may fail, and replaced by an empty document; an expired override is replaced by the normal mode.
Start ==
  /\ ~running
  /\ \E g \in OpenGrants : \E p \in OpenPolicy(g) : \E stuck \in IF g.rejected THEN 0 .. 1 ELSE {0} :
       /\ Fails(g.fault + p.fault + stuck)
       /\ checkpoints' = p.record /\ legacy' = p.legacy
       /\ files' = IF g.rejected /\ stuck = 0 THEN Quarantined ELSE files
       /\ entries' = g.value
       /\ degraded' = g.rejected
       /\ generations' = [grants |-> g.generation, policy |-> p.generation]
       /\ status' = IF OverrideExpired(p.value) THEN Normal ELSE p.value
       /\ job' = [grants |-> IF g.rejected THEN Job(g.generation, {}, 1) ELSE NoState,
                  policy |-> IF OverrideExpired(p.value) THEN Job(p.generation, Normal, 1) ELSE NoState]
  /\ credential' = "record"
  /\ running' = TRUE
  /\ UNCHANGED <<writeLock, copies, clock, unix, absent, writes>>

\* The authority cannot be stored: the daemon does not start.
StartFails ==
  /\ ~running /\ credential # "record"
  /\ Fails(1)
  /\ credential' \in {credential, "record"}
  /\ UNCHANGED <<checkpoints, legacy, writeLock, files, copies, memory, clock, unix, absent, writes>>

Crash ==
  /\ running
  /\ Fails(1)
  /\ running' = FALSE
  /\ entries' = {} /\ degraded' = FALSE /\ status' = Normal
  /\ generations' = [d \in Domains |-> 0]
  /\ job' = [d \in Domains |-> NoState]
  /\ writeLock' = NoState
  /\ UNCHANGED <<credential, checkpoints, legacy, files, copies, clock, unix, absent, writes>>

\* A backup puts an older file back, or the file is lost.
RestoreFile(d) ==
  /\ ~running
  /\ Fails(1)
  /\ \E f \in copies[d] \cup {NoState} : files' = [files EXCEPT ![d] = f]
  /\ UNCHANGED <<keychain, copies, memory, clock, unix, absent, writes>>

Tick ==
  /\ clock < MaxClock
  /\ clock' = clock + 1 /\ unix' = unix + 1
  /\ UNCHANGED <<keychain, files, copies, memory, absent, budget>>

\* The wall clock is set back.
SetClock ==
  /\ Fails(1)
  /\ unix' = unix - 1
  /\ UNCHANGED <<keychain, files, copies, memory, clock, absent, writes>>

PersistStep == \E d \in Domains : PersistResolve(d) \/ PersistFile(d) \/ PersistRead(d) \/ PersistStore(d)

DaemonNext ==
  \/ PersistStep
  \/ \E k \in Keys : (\E allowed \in BOOLEAN : Insert(k, allowed)) \/ Decision(k) \/ Revoke(k)
  \/ Active \/ ClearLockBound \/ Clear
  \/ SetPolicyMode("normal", NoState)
  \/ \E expires \in {NoState, unix + 1} : SetPolicyMode("audit_only", expires)
  \/ ModeStatus
  \/ Start \/ StartFails \/ Crash
  \/ \E d \in Domains : RestoreFile(d)
  \/ Tick \/ SetClock

DaemonSpec == DaemonInit /\ [][DaemonNext]_daemonVars

DaemonTypeOK ==
  /\ credential \in {"none", "raw", "record"}
  /\ \A d \in Domains : {checkpoints[d], legacy[d], files[d]} \cup copies[d] \subseteq StateEnvelopes(d)
  /\ writeLock \in Domains \cup {NoState}
  /\ {running, degraded} \subseteq BOOLEAN
  /\ entries \subseteq Timed \cup UntilLock
  /\ generations \in [Domains -> Nat \cup {NoState}]
  /\ status \in Statuses
  /\ absent \subseteq Keys

(***************************************************************************)
(* Properties.                                                             *)
(***************************************************************************)
\* A grant that an acknowledged document no longer holds does not come back by a restart, a
\* crash between file and checkpoint, a failed or repeated save, or an older file: only
\* insert_decision() brings it back.
RemovedStaysRemoved == \A e \in entries : e.key \notin absent

\* Unless the cache says it is memory-only, a restart finds every timed grant it holds, and the
\* next save is not refused.
GrantsAreDurable ==
  (running /\ job["grants"] = NoState /\ ~degraded) =>
    /\ generations["grants"] = Generation(checkpoints["grants"])
    /\ Document(entries) # {} => /\ files["grants"] = checkpoints["grants"]
                                 /\ Document(entries) \subseteq files["grants"].document

\* No grant lives longer than MAXIMUM_TTL from now, even when the wall clock is set back before
\* a restart computes what remains of it.
LifetimeIsBounded == \A e \in entries : e.scope = "timed" => e.monotonic <= clock + MaximumTtl

\* A grant lasts for its lifetime and no longer: what a restart finds is what the cache holds, in
\* documents of their type, and nothing outlives MAXIMUM_TTL.
GrantsLastTheirTime == DaemonTypeOK /\ GrantsAreDurable /\ LifetimeIsBounded

Known(d) == Generation(IF checkpoints[d] = NoState THEN legacy[d] ELSE checkpoints[d])

\* What a domain's checkpoint says, in the record or in the account of an older version, never
\* goes back: not by the migration, and not by the other domain's write of the shared record.
CheckpointNeverFalls == [][\A d \in Domains : Known(d)' >= Known(d)]_daemonVars
=============================================================================
