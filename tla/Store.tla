-------------------------------- MODULE Store --------------------------------
(***************************************************************************)
(* The encrypted Store of one device (floria-store/src/store.rs): one head *)
(* document per Secret with the table of its versions, the immutable       *)
(* objects that hold them, and the sealed snapshot of all head documents   *)
(* whose checkpoint is in the Keychain.                                    *)
(*                                                                         *)
(* Mutations are serialized by the mutation gate and the lock file.  Each  *)
(* of them verifies the seal and then is a sequence of steps on the disk,  *)
(* which a kill or a failure can cut short: the object, the head document, *)
(* the sidecar, the checkpoint, the cache of verified documents.  Reads    *)
(* take the cached documents without the lock, guarded by file stamps.     *)
(*                                                                         *)
(* A version is identified with its ciphertext object.  The pre-format-5   *)
(* location of the sidecar is left out.                                    *)
(***************************************************************************)
EXTENDS Integers, Sequences, SequencesExt, FiniteSets

CONSTANTS
  Secrets,     \* the ids
  Mutations,   \* the ids of durable mutations
  Settings,    \* the values of metadata, enforcement and placements
  Incoming,    \* the objects that replication delivers
  Readers,
  MaxObjects,  \* bound on the objects that this device makes
  MaxStoreMishaps,  \* bound on kills and failures
  MaxSeals,    \* bound on the checkpoints
  NoDoc

ASSUME StoreAssumption ==
  /\ {MaxObjects, MaxStoreMishaps, MaxSeals} \subseteq Nat
  /\ Incoming \cap (1 .. MaxObjects) = {}

VARIABLES
  heads,     \* local/heads: the head documents
  storedObjects,   \* shared/objects
  sidecar,   \* local/.integrity.json
  sealed,    \* the Keychain checkpoint of it
  running,   \* the daemon has opened the Store
  verified,  \* the documents in VerifiedStoreState
  changed,   \* a stamp in VerifiedStoreState is out of date
  job,       \* the mutation that holds the lock
  backup,    \* the maintenance guard that holds it, and its copies
  reads,     \* what each reader is doing
  others,    \* another device is enrolled
  made,      \* the objects made so far
  storeMishaps,
  acked,     \* history: the acknowledged versions of each Secret
  doomed,    \* history: the Secrets whose deletion has begun
  torn       \* history: a mishap hit between a head document and its seal

storeVars == <<heads, storedObjects, sidecar, sealed, running, verified, changed, job, backup, reads,
               others, made, storeMishaps, acked, doomed, torn>>

Objects == Incoming \cup (1 .. MaxObjects)
NoMutation == "none"
Remote == "remote"  \* the mutations of other devices
Empty == [s \in Secrets |-> NoDoc]
Unsealed == [generation |-> 0, docs |-> Empty]
NoJob == [todo |-> <<>>, id |-> NoDoc, doc |-> NoDoc]
NoRead == [at |-> "idle"]
NoBackup == [at |-> "none", objects |-> {}, heads |-> Empty]

ObjectsIn(doc) ==
  IF doc = NoDoc THEN {} ELSE {doc.versions[i].object : i \in DOMAIN doc.versions}

\* HeadsVersion and HeadsDocument.
VersionRow(object, mutation) == [object |-> object, mutation |-> mutation]
Document(versions, current, settings) ==
  [versions |-> versions, current |-> current, settings |-> settings]

StoreInit ==
  /\ heads = Empty /\ storedObjects = {}
  /\ sidecar = Unsealed /\ sealed = Unsealed
  /\ running = FALSE
  /\ verified = Empty /\ changed = FALSE
  /\ job = NoJob /\ backup = NoBackup
  /\ reads = [r \in Readers |-> NoRead]
  /\ others \in BOOLEAN
  /\ made = 0 /\ storeMishaps = 0
  /\ acked = [s \in Secrets |-> {}] /\ doomed = {} /\ torn = FALSE

(***************************************************************************)
(* Opening and the seal.                                                   *)
(***************************************************************************)
\* verify_security_state(): the sidecar is the checkpointed one and the documents are its.
Verifies == sidecar = sealed /\ sidecar.docs = heads


\* lock_exclusive().
Free == running /\ backup.at \notin {"shared", "local"}
        /\ job.todo = <<>> /\ sealed.generation < MaxSeals

\* A plausible bug: a mutation is acknowledged before the checkpoint is stored.
SealingEarly == <<"sidecar", "capture", "checkpoint">>

Sealing == <<"sidecar", "checkpoint", "capture">>

\* A mutation has the lock, has verified the seal, and knows what it will write.
Begin(steps, s, doc) ==
  /\ job' = [todo |-> steps, id |-> s, doc |-> doc]
  /\ verified' = heads /\ changed' = FALSE

\* authenticate(): an empty Store without a checkpoint is sealed first.
OpenStore ==
  /\ ~running
  /\ sidecar = sealed
  /\ \/ /\ sealed.generation = 0 /\ heads = Empty
        /\ job' = [todo |-> Sealing, id |-> NoDoc, doc |-> NoDoc]
     \/ /\ sealed.generation > 0 /\ heads = sealed.docs
        /\ job' = NoJob
  /\ running' = TRUE
  /\ verified' = heads /\ changed' = FALSE
  /\ UNCHANGED <<heads, storedObjects, sidecar, sealed, reads, others, made, storeMishaps, acked, doomed,
                 torn, backup>>

(***************************************************************************)
(* The mutations, up to their first write.                                 *)
(***************************************************************************)
beginUnchanged == <<heads, storedObjects, sidecar, sealed, running, backup, others, storeMishaps, torn>>
Exists(s) == heads[s] # NoDoc

\* The ordinal of the version with that mutation id, or 0.
VersionForMutation(s, m) ==
  LET rows == {i \in DOMAIN heads[s].versions : heads[s].versions[i].mutation = m}
  IN IF m = NoMutation \/ rows = {} THEN 0 ELSE CHOOSE i \in rows : TRUE

Appended(s, row) == Append(heads[s].versions, row)

\* put_internal().
Put(s, m, settings) ==
  /\ Free /\ Verifies /\ ~Exists(s)
  /\ made < MaxObjects
  /\ made' = made + 1
  /\ Begin(<<"object", "head">> \o Sealing, s,
           Document(<<VersionRow(made', m)>>, 1, settings))
  /\ UNCHANGED <<beginUnchanged, reads, acked, doomed>>

\* append_version_internal(): a mutation that is in the table only gets the head back.
AppendVersion(s, m) ==
  LET known == VersionForMutation(s, m) IN
  /\ Free /\ Verifies /\ Exists(s)
  /\ \/ /\ known = 0
        /\ made < MaxObjects
        /\ made' = made + 1
        /\ LET rows == Appended(s, VersionRow(made', m))
           IN Begin(<<"object", "head">> \o Sealing, s,
                    [heads[s] EXCEPT !.versions = rows, !.current = Len(rows)])
     \/ /\ known # 0
        /\ heads[s].versions[known].object \in storedObjects
        /\ heads[s].current # known
        /\ Begin(<<"head">> \o Sealing, s, [heads[s] EXCEPT !.current = known])
        /\ UNCHANGED made
  /\ UNCHANGED <<beginUnchanged, reads, acked, doomed>>

\* set_head(), which takes an ordinal, and set_head_to_uuid().
SetHead(s, ordinal) ==
  /\ Free /\ Verifies /\ Exists(s)
  /\ ordinal \in DOMAIN heads[s].versions
  /\ Begin(<<"head">> \o Sealing, s, [heads[s] EXCEPT !.current = ordinal])
  /\ UNCHANGED <<beginUnchanged, reads, acked, doomed, made>>

SetHeadToUuid(s, object) ==
  /\ Free /\ Verifies /\ Exists(s)
  /\ \E i \in DOMAIN heads[s].versions :
       /\ heads[s].versions[i].object = object
       /\ heads[s].current # i
       /\ Begin(<<"head">> \o Sealing, s, [heads[s] EXCEPT !.current = i])
  /\ UNCHANGED <<beginUnchanged, reads, acked, doomed, made>>

\* update_settings() and update_placements().
UpdateSettings(s, settings) ==
  /\ Free /\ Verifies /\ Exists(s)
  /\ Begin(<<"head">> \o Sealing, s, [heads[s] EXCEPT !.settings = settings])
  /\ UNCHANGED <<beginUnchanged, reads, acked, doomed, made>>

\* apply_replicated_settings(): a Secret that keeps its own path is as valid as one without.
ApplyReplicatedSettings(s, settings) == UpdateSettings(s, settings)

\* install_replicated_object(): no lock, and never over an object that is there.
InstallObject(object) ==
  /\ running
  /\ object \in Incoming \ storedObjects
  /\ storedObjects' = storedObjects \cup {object}
  /\ UNCHANGED <<heads, sidecar, sealed, running, verified, changed, job, backup, reads, others, made,
                 storeMishaps, acked, doomed, torn>>

\* register_replicated_version(): idempotent, and only the first version becomes the head.
RegisterVersion(s, object, settings) ==
  /\ Free /\ Verifies
  /\ object \in storedObjects \cap Incoming
  /\ IF Exists(s)
     THEN /\ \A i \in DOMAIN heads[s].versions : heads[s].versions[i].object # object
          /\ Begin(<<"head">> \o Sealing, s,
                   [heads[s] EXCEPT !.versions = Appended(s, VersionRow(object, Remote))])
     ELSE Begin(<<"head">> \o Sealing, s, Document(<<VersionRow(object, Remote)>>, 1, settings))
  /\ UNCHANGED <<beginUnchanged, reads, acked, doomed, made>>

\* delete(): the objects go first, unless another device is enrolled.
Delete(s) ==
  /\ Free /\ Verifies /\ Exists(s)
  /\ Begin((IF others THEN <<>> ELSE <<"destroy">>) \o <<"head">> \o Sealing, s, NoDoc)
  /\ doomed' = doomed \cup {s}
  /\ reads' = [r \in Readers |-> IF reads[r].at = "object" /\ reads[r].id = s
                                THEN [reads[r] EXCEPT !.gone = TRUE] ELSE reads[r]]
  /\ acked' = [acked EXCEPT ![s] = {}]
  /\ UNCHANGED <<beginUnchanged, made>>

\* remove_replicated_heads().
RemoveReplicated(s) ==
  /\ Free /\ Verifies /\ Exists(s)
  /\ Begin(<<"head">> \o Sealing, s, NoDoc)
  /\ acked' = [acked EXCEPT ![s] = {}]
  /\ UNCHANGED <<beginUnchanged, reads, doomed, made>>

(***************************************************************************)
(* The writes.  Each may fail before its effect, and a checkpoint after.   *)
(***************************************************************************)
Step(name) == running /\ job.todo # <<>> /\ Head(job.todo) = name
Done == job' = [job EXCEPT !.todo = Tail(@)] /\ UNCHANGED storeMishaps
Mishap == storeMishaps < MaxStoreMishaps /\ storeMishaps' = storeMishaps + 1
Fails == job' = NoJob /\ Mishap
\* The daemon does not start without a seal.
StillRunning == running' = (storeMishaps' = storeMishaps \/ job.id # NoDoc)
NoteTorn == torn' = (torn \/ (storeMishaps' # storeMishaps /\ (sidecar' # sealed' \/ heads' # sealed'.docs)))

\* write_version_object() publishes before the head document names it.
PublishObject ==
  /\ Step("object")
  /\ \/ storedObjects' = storedObjects \cup {made} /\ Done
     \/ Fails /\ UNCHANGED storedObjects
  /\ UNCHANGED <<heads, sidecar, sealed, running, verified, changed, backup, reads, others, made, acked,
                 doomed>>
  /\ NoteTorn

\* delete() removes the objects one by one.
DestroyObject ==
  /\ Step("destroy")
  /\ LET left == ObjectsIn(heads[job.id]) \cap storedObjects
     IN \/ left = {} /\ Done /\ UNCHANGED storedObjects
        \/ /\ left # {}
           /\ \E object \in left : storedObjects' = storedObjects \ {object}
           /\ UNCHANGED <<job, storeMishaps>>
        \/ Fails /\ UNCHANGED storedObjects
  /\ UNCHANGED <<heads, sidecar, sealed, running, verified, changed, backup, reads, others, made, acked,
                 doomed>>
  /\ NoteTorn

\* write_heads(), or the removal of the document: both change the directory's stamp.
WriteHead ==
  /\ Step("head")
  /\ \/ /\ heads' = [heads EXCEPT ![job.id] = job.doc]
        /\ Done
        /\ changed' = TRUE
     \/ Fails /\ UNCHANGED <<heads, changed>>
  /\ UNCHANGED <<storedObjects, sidecar, sealed, running, verified, backup, reads, others, made, acked,
                 doomed>>
  /\ NoteTorn

\* seal_security_state(): StateAuthenticator::persist ...
WriteSidecar ==
  /\ Step("sidecar")
  /\ \/ /\ sidecar' = [generation |-> sealed.generation + 1, docs |-> heads]
        /\ Done
        /\ changed' = TRUE
     \/ Fails /\ UNCHANGED <<sidecar, changed>>
  /\ StillRunning
  /\ UNCHANGED <<heads, storedObjects, sealed, verified, backup, reads, others, made, acked,
                 doomed>>
  /\ NoteTorn

\* ... the checkpoint, which may be stored and yet reported as failed ...
StoreCheckpoint ==
  /\ Step("checkpoint")
  /\ \/ sealed' = sidecar /\ (Done \/ Fails)
     \/ Fails /\ UNCHANGED sealed
  /\ StillRunning
  /\ UNCHANGED <<heads, storedObjects, sidecar, verified, changed, backup, reads, others, made, acked,
                 doomed>>
  /\ NoteTorn

\* ... and the cache; the mutation is acknowledged.
CaptureSeal ==
  /\ Step("capture")
  /\ verified' = sealed.docs /\ changed' = FALSE
  /\ Done
  /\ acked' = [s \in Secrets |-> ObjectsIn(heads[s])]
  /\ doomed' = doomed \ {s \in Secrets : heads[s] = NoDoc}
  /\ UNCHANGED <<heads, storedObjects, sidecar, sealed, running, backup, reads, others, made>>
  /\ NoteTorn

KillDaemon ==
  /\ running
  /\ running' = FALSE
  /\ job' = NoJob /\ backup' = NoBackup
  /\ reads' = [r \in Readers |-> NoRead]
  /\ UNCHANGED <<heads, storedObjects, sidecar, sealed, verified, changed, others, made, acked,
                 doomed>>
  /\ Mishap
  /\ NoteTorn

(***************************************************************************)
(* Reads.                                                                  *)
(***************************************************************************)
HeadObject(doc) == doc.versions[doc.current].object

\* validate_store_stamp() of the sidecar, the directory and the document.
StampsMatch == ~changed

\* get(): read_verified_heads() ...
StartRead(r, s) ==
  /\ running /\ reads[r] = NoRead
  /\ StampsMatch
  /\ verified[s] # NoDoc
  /\ reads' = [reads EXCEPT ![r] = [at |-> "object", id |-> s,
                                    object |-> HeadObject(verified[s]),
                                    gone |-> s \in doomed]]
  /\ UNCHANGED <<heads, storedObjects, sidecar, sealed, running, verified, changed, job, backup, others, made,
                 storeMishaps, acked, doomed, torn>>

\* ... and read_object_verified(), which does not find what a deletion destroyed.
FinishRead(r) ==
  /\ reads[r].at = "object"
  /\ reads' = [reads EXCEPT ![r] = IF @.object \in storedObjects THEN NoRead ELSE [@ EXCEPT !.at = "lost"]]
  /\ UNCHANGED <<heads, storedObjects, sidecar, sealed, running, verified, changed, job, backup, others, made,
                 storeMishaps, acked, doomed, torn>>

ReportLost(r) ==
  /\ reads[r].at = "lost"
  /\ reads' = [reads EXCEPT ![r] = NoRead]
  /\ UNCHANGED <<heads, storedObjects, sidecar, sealed, running, verified, changed, job, backup, others, made,
                 storeMishaps, acked, doomed, torn>>

Mutation ==
  \E s \in Secrets :
    \/ \E m \in Mutations \cup {NoMutation} :
         \/ AppendVersion(s, m)
         \/ \E v \in Settings : Put(s, m, v)
    \/ \E n \in 1 .. MaxObjects + Cardinality(Incoming) : SetHead(s, n)
    \/ \E o \in Objects : SetHeadToUuid(s, o)
    \/ \E v \in Settings : UpdateSettings(s, v)
    \/ \E v \in Settings : ApplyReplicatedSettings(s, v) \/ \E o \in Incoming : RegisterVersion(s, o, v)
    \/ Delete(s) \/ RemoveReplicated(s)

\* lock_for_maintenance(), once ...
LockForMaintenance ==
  /\ Free /\ Verifies
  /\ backup = NoBackup
  /\ backup' = [NoBackup EXCEPT !.at = "shared"]

\* ... and backup_to(): the shared half, then the local half.
CopyShared ==
  /\ backup.at = "shared"
  /\ backup' = [backup EXCEPT !.at = "local", !.objects = storedObjects]

CopyLocal ==
  /\ backup.at = "local"
  /\ backup' = [backup EXCEPT !.at = "done",
                   !.heads = [s \in Secrets |-> IF s \in doomed THEN NoDoc ELSE heads[s]]]

BackupTo ==
  /\ LockForMaintenance \/ CopyShared \/ CopyLocal
  /\ UNCHANGED <<heads, storedObjects, sidecar, sealed, running, verified, changed, job, reads, others,
                 made, storeMishaps, acked, doomed, torn>>

StoreWrite ==
  \/ PublishObject \/ DestroyObject \/ WriteHead \/ WriteSidecar \/ StoreCheckpoint \/ CaptureSeal

StoreNext ==
  \/ OpenStore \/ Mutation \/ StoreWrite \/ BackupTo \/ KillDaemon
  \/ \E o \in Incoming : InstallObject(o)
  \/ \E r \in Readers : FinishRead(r) \/ ReportLost(r) \/ \E s \in Secrets : StartRead(r, s)

(***************************************************************************)
(* Properties.                                                             *)
(***************************************************************************)
Rows == [object : Objects, mutation : Mutations \cup {NoMutation, Remote}]
IsDocument(doc) ==
  \/ doc = NoDoc
  \/ /\ DOMAIN doc = {"versions", "current", "settings"}
     /\ \A i \in DOMAIN doc.versions : doc.versions[i] \in Rows
     /\ doc.current \in DOMAIN doc.versions
     /\ doc.settings \in Settings

\* Every document has a version table whose head is in it (read_heads(), head_version_ref()).
StoreTypeOK ==
  /\ \A s \in Secrets : IsDocument(heads[s]) /\ IsDocument(verified[s])
  /\ storedObjects \subseteq Objects
  /\ \A e \in {sidecar, sealed} : e.generation \in Nat /\ DOMAIN e.docs = Secrets
  /\ {running, changed, others, torn} \subseteq BOOLEAN
  /\ DOMAIN reads = Readers
  /\ doomed \subseteq Secrets
  /\ made \in 0 .. MaxObjects /\ storeMishaps \in 0 .. MaxStoreMishaps

\* Unless a kill or a failure struck between a head document and its checkpoint, what is on the
\* disk is what is sealed whenever no mutation runs, so that the next mutation and the next start
\* are accepted (store.rs:2101 after every write_heads()).
UntornStoreVerifies == job.todo = <<>> /\ ~torn => Verifies

\* A version that was acknowledged is in the checkpointed snapshot until its Secret is deleted, so
\* that no restart loses it (store.rs:2108 before the mutation returns).
AcknowledgedIsSealed == \A s \in Secrets : acked[s] \subseteq ObjectsIn(sealed.docs[s])

\* The objects that a sealed document names are there unless its deletion has begun: an object is published before and destroyed only with its document
\* (store.rs:1755, :2521), and a read in flight misses it only then.
SealedObjectsExist ==
  /\ \A s \in Secrets \ doomed : ObjectsIn(sealed.docs[s]) \subseteq storedObjects
  /\ \A r \in Readers : reads[r].at = "lost" => reads[r].gone

\* A durable mutation is applied at most once to a Secret, whatever was retried after a kill
\* (store.rs:1951).
MutationsApplyOnce ==
  \A s \in Secrets, m \in Mutations : heads[s] # NoDoc =>
    Cardinality({i \in DOMAIN heads[s].versions : heads[s].versions[i].mutation = m}) <= 1

\* A read without the lock takes the sealed documents: while the stamps match, the cache is
\* neither behind nor ahead of the checkpoint (store.rs:1998, :2025).
CacheIsSealed == running /\ StampsMatch => verified = sealed.docs

\* A backup has every object that its documents name, but for a Secret whose deletion was cut
\* short: verify_all() of it succeeds (store.rs:484, copied in two steps under the lock).
BackupIsComplete == \A s \in Secrets : ObjectsIn(backup.heads[s]) \subseteq backup.objects

\* The version table of a Secret only grows (immutable versions, store.rs:1951).
VersionsOnlyGrow ==
  [][\A s \in Secrets : heads[s] # NoDoc /\ heads'[s] # NoDoc
       => IsPrefix(heads[s].versions, heads'[s].versions)]_storeVars

\* The store keeps what it acknowledged, once and whole, through kills, failures and retries, for
\* writers, for readers of its cache and for backups.
VersionsAreKept ==
  /\ [](StoreTypeOK /\ UntornStoreVerifies /\ CacheIsSealed)
  /\ [](AcknowledgedIsSealed /\ SealedObjectsExist /\ MutationsApplyOnce /\ BackupIsComplete)
  /\ VersionsOnlyGrow
=============================================================================
