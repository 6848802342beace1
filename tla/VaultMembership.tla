--------------------------- MODULE VaultMembership ---------------------------
(***************************************************************************)
(* The lifecycle of a Vault that several Macs share through create-only    *)
(* records: enrollment requests, signed Device identities, key generations *)
(* and the envelopes that wrap a generation's key for one Device.          *)
(*                                                                         *)
(* Every Mac holds its own copy of the lifecycle documents in its Store;   *)
(* the record zone holds the published ones.  Documents are written one    *)
(* file at a time and the daemon may stop between two of them.  Only the   *)
(* genesis Mac signs identities and generations.                           *)
(***************************************************************************)
EXTENDS Integers, FiniteSets

CONSTANTS
  Macs, Genesis,    \* the installations; Genesis created the Vault
  Members,          \* the Macs that have joined at the start
  Renewers,         \* the Macs that may replace their identity
  MaxIdentities,    \* Device identities one of those may go through
  MaxGenerations,   \* key generations of the Vault
  MaxMacCrashes        \* times a daemon stops between two files

ASSUME MembershipAssumption ==
  /\ Genesis \in Members /\ Members \subseteq Macs /\ Renewers \subseteq Macs
  /\ MaxIdentities \in Nat \ {0} /\ MaxGenerations \in Nat \ {0} /\ MaxMacCrashes \in Nat

VARIABLES
  shared,    \* the lifecycle documents in each Mac's Store for this Vault
  zone,      \* the published lifecycle documents
  device,    \* the identity number each Mac's device.age holds
  joined,    \* the Macs whose Store points at this Vault
  secrets,   \* the Macs whose previous Vault holds secrets
  held,      \* the bootstrap snapshot each Mac's user is looking at
  job,       \* the lifecycle operation each daemon is running
  macCrashes \* bound: crashes so far

membershipVars == <<shared, zone, device, joined, secrets, held, job, macCrashes>>

\* A Device id: the Mac and how many identities it had before this one.
Ids == Macs \X (1..MaxIdentities)
Id(m) == <<m, device[m]>>

Identity(id) == [kind |-> "identity", id |-> id]
RequestOf(id) == [kind |-> "request", id |-> id]
\* Encryption is randomized: an envelope of the same key by another writer
\* has other bytes.
Envelope(id, gen, by) == [kind |-> "envelope", id |-> id, gen |-> gen, by |-> by]
Generation(gen, for, revoked) ==
  [kind |-> "generation", gen |-> gen, for |-> for, revoked |-> revoked]

\* SharedLayout: the path a document is stored under.
Route(doc) ==
  CASE doc.kind = "generation" -> <<"generation", doc.gen>>
    [] doc.kind = "envelope"   -> <<"envelope", doc.id, doc.gen>>
    [] OTHER                   -> <<doc.kind, doc.id>>

OfKind(docs, kind) == {doc \in docs : doc.kind = kind}
Identities(docs) == {doc.id : doc \in OfKind(docs, "identity")}
Requests(docs) == {doc.id : doc \in OfKind(docs, "request")}
Generations(docs) == OfKind(docs, "generation")
Revoked(docs) == UNION {doc.revoked : doc \in Generations(docs)}
CurrentGeneration(docs) == Cardinality(Generations(docs))

\* GenerationAccess::identity: the envelope in the document, or its file.
Unwraps(docs, id, doc) ==
  id \in doc.for \/ \E env \in OfKind(docs, "envelope") : env.id = id /\ env.gen = doc.gen

\* verify_device_access: every generation of the chain.
ReadsChain(docs, id) == \A doc \in Generations(docs) : Unwraps(docs, id, doc)

\* verify_local_device_access: the Device is enrolled and reads the chain.
HasAccess(docs, id) == id \in Identities(docs) /\ ReadsChain(docs, id)

\* SyncVaultBootstrap::validated: the genesis identity, a gapless chain, and
\* no envelope for a Device that neither asked nor was enrolled.
Valid(docs) ==
  /\ <<Genesis, 1>> \in Identities(docs)
  /\ {doc.gen : doc \in Generations(docs)} = 1..CurrentGeneration(docs)
  /\ Generations(docs) # {}
  /\ \A env \in OfKind(docs, "envelope") :
       /\ env.id \in Identities(docs) \cup Requests(docs)
       /\ env.gen \in 1..CurrentGeneration(docs)

Collides(doc, docs) == \E other \in docs : Route(other) = Route(doc) /\ other # doc

NoJob == [op |-> "none", todo |-> {}, target |-> <<Genesis, 1>>]

\* genesis_initialize for the Vault of the genesis Mac; the other members
\* were enrolled in it and everything has been published.
MembershipInit ==
  LET lifecycle == {Identity(<<m, 1>>) : m \in Members}
                     \cup {RequestOf(<<m, 1>>) : m \in Members \ {Genesis}}
                     \cup {Envelope(<<m, 1>>, 1, Genesis) : m \in Members \ {Genesis}}
                     \cup {Generation(1, {<<Genesis, 1>>}, {})}
  IN /\ shared = [m \in Macs |-> IF m \in Members THEN lifecycle ELSE {}]
     /\ zone = lifecycle
     /\ held = [m \in Macs |-> IF m \in Members THEN lifecycle ELSE {}]
     /\ device = [m \in Macs |-> 1]
     /\ joined = Members
     /\ secrets = {}
     /\ job = [m \in Macs |-> NoJob]
     /\ macCrashes = 0

\* Daemons of different Macs share nothing but the zone, so the files of one
\* operation commute with everything the other Macs do between two of them.
NobodyBusy(m) == \A other \in Macs : job[other].op = "none"

-----------------------------------------------------------------------------
(* The record zone.                                                        *)

\* recordSyncVaultBootstrap captures and validates the local documents; the
\* batch creates those the zone does not have and fails on any that differ.
PublishLifecycle(m) ==
  /\ NobodyBusy(m) /\ m \in joined
  /\ Valid(shared[m])
  /\ ~ \E doc \in shared[m] : Collides(doc, zone)
  /\ zone' = zone \cup shared[m]
  /\ UNCHANGED <<shared, device, joined, secrets, held, job, macCrashes>>

\* loadAndAuthenticate: a valid snapshot of the zone replaces the held one.
LoadLifecycle(m) ==
  /\ NobodyBusy(m) /\ Valid(zone)
  /\ held' = [held EXCEPT ![m] = zone]
  /\ UNCHANGED <<shared, zone, device, joined, secrets, job, macCrashes>>

\* prepare_enrollment: an existing request is replayed, an enrolled Device
\* has nothing to ask for.
RequestEnrollment(m) ==
  /\ NobodyBusy(m) /\ m # Genesis /\ held[m] # {}
  /\ Id(m) \notin Identities(held[m])
  /\ ~ Collides(RequestOf(Id(m)), zone)
  /\ zone' = zone \cup {RequestOf(Id(m))}
  /\ UNCHANGED <<shared, device, joined, secrets, held, job, macCrashes>>

-----------------------------------------------------------------------------
(* Operations that write several files.                                    *)

Begin(m, op, todo, target) ==
  job' = [job EXCEPT ![m] = [op |-> op, todo |-> todo, target |-> target]]

\* enroll_device: the identity first, then an envelope for every generation
\* that has none; files already there are kept.
Enrolls(docs, id) ==
  LET envelopes == {Envelope(id, gen, Genesis) : gen \in 1..CurrentGeneration(docs)}
  IN ({Identity(id)} \ docs)
       \cup {env \in envelopes : ~ \E doc \in docs : Route(doc) = Route(env)}

\* approve_enrollment: a request the review still shows, of no revoked id.
ApproveEnrollment(id) ==
  /\ NobodyBusy(Genesis)
  /\ id \in Requests(held[Genesis]) \ Identities(held[Genesis])
  /\ id \notin Revoked(shared[Genesis])
  /\ Begin(Genesis, "enroll", Enrolls(shared[Genesis], id), id)
  /\ UNCHANGED <<shared, zone, device, joined, secrets, held, macCrashes>>

\* revoke_device: the snapshot is materialized before the key is rotated.
RevokeDevice(id) ==
  /\ NobodyBusy(Genesis)
  /\ HasAccess(held[Genesis], <<Genesis, 1>>) /\ Valid(held[Genesis])
  /\ id # <<Genesis, 1>>
  /\ id \in Identities(held[Genesis])
  /\ CurrentGeneration(shared[Genesis]) < MaxGenerations
  /\ Begin(Genesis, "revoke", held[Genesis] \ shared[Genesis], id)
  /\ UNCHANGED <<shared, zone, device, joined, secrets, held, macCrashes>>

\* activate: a Mac that has items in another Vault is told to merge; the
\* number of items was counted before the gate was taken.
CountItems(m) ==
  /\ NobodyBusy(m) /\ held[m] # {}
  /\ m \in joined \/ m \notin secrets
  /\ HasAccess(held[m], Id(m))
  /\ Begin(m, "activate", held[m] \ shared[m], Id(m))
  /\ UNCHANGED <<shared, zone, device, joined, secrets, held, macCrashes>>

\* prepare_merge re-encrypts the secrets into the target Vault; the scheduled
\* activation swaps the Stores at the next start.
MergeSecrets(m) ==
  /\ NobodyBusy(m) /\ m \notin joined /\ m \in secrets
  /\ held[m] # {} /\ HasAccess(held[m], Id(m))
  /\ shared' = [shared EXCEPT ![m] = held[m]]
  /\ joined' = joined \cup {m}
  /\ secrets' = secrets \ {m}
  /\ UNCHANGED <<zone, device, held, job, macCrashes>>

\* External: the user stores a secret in the Vault the Mac has.
AddSecret(m) ==
  /\ m \notin joined
  /\ secrets' = secrets \cup {m}
  /\ UNCHANGED <<shared, zone, device, joined, held, job, macCrashes>>

\* rotate_device_identity: an envelope for the new id of every key that the
\* present identity can unwrap.
Rewraps(m, fresh) ==
  {Envelope(fresh, doc.gen, m) : doc \in
     {doc \in Generations(shared[m]) : Unwraps(shared[m], Id(m), doc)}}

\* prepare_reenrollment: only for an identity the snapshot shows as revoked.
RequestReenrollment(m) ==
  /\ NobodyBusy(m) /\ m \in Renewers /\ device[m] < MaxIdentities
  /\ m \in joined /\ m # Genesis
  /\ Id(m) \in Revoked(held[m])
  /\ Begin(m, "rotate", Rewraps(m, <<m, device[m] + 1>>), <<m, device[m] + 1>>)
  /\ UNCHANGED <<shared, zone, device, joined, secrets, held, macCrashes>>

\* Generation documents published before the envelopes they need.
RankGenerationsFirst(doc) ==
  CASE doc.kind = "identity" -> 1
    [] doc.kind = "request"  -> 2
    [] doc.kind = "envelope" -> 3 + MaxGenerations
    [] OTHER                 -> 2 + doc.gen

\* materialize_lifecycle publishes the kinds in this order.
Rank(doc) ==
  CASE doc.kind = "identity" -> 1
    [] doc.kind = "request"  -> 2
    [] doc.kind = "envelope" -> 3
    [] OTHER                 -> 3 + doc.gen

\* publish_immutable, write_new_atomic: one file.  Bytes that differ from the
\* ones already at the path end the operation.
WriteFile(m) ==
  \E doc \in job[m].todo :
    /\ \A other \in job[m].todo : Rank(doc) <= Rank(other)
    /\ IF Collides(doc, shared[m])
       THEN /\ job' = [job EXCEPT ![m] = NoJob]
            /\ UNCHANGED shared
       ELSE /\ shared' = [shared EXCEPT ![m] = @ \cup {doc}]
            /\ job' = [job EXCEPT ![m].todo = @ \ {doc}]
    /\ UNCHANGED <<zone, device, joined, secrets, held, macCrashes>>

AllWritten(m, op) == job[m].op = op /\ job[m].todo = {}
EndJob(m) == job' = [job EXCEPT ![m] = NoJob]

\* The answered request is removed.
FinishEnroll ==
  /\ AllWritten(Genesis, "enroll")
  /\ shared' = [shared EXCEPT ![Genesis] = @ \ {RequestOf(job[Genesis].target)}]
  /\ EndJob(Genesis)
  /\ UNCHANGED <<zone, device, joined, secrets, held, macCrashes>>

\* revocation_recipients: the enrolled Devices that stay.
Survivors(docs, id) == Identities(docs) \ (Revoked(docs) \cup {id})

\* rotate_generation: the surviving Devices get the new key in the document.
FinishRevoke ==
  LET docs == shared[Genesis]
      id == job[Genesis].target
  IN /\ AllWritten(Genesis, "revoke")
     /\ shared' = [shared EXCEPT ![Genesis] =
          IF id \in Identities(docs) \ Revoked(docs)
          THEN @ \cup {Generation(CurrentGeneration(docs) + 1, Survivors(docs, id), {id})}
          ELSE @]
     /\ EndJob(Genesis)
     /\ UNCHANGED <<zone, device, joined, secrets, held, macCrashes>>

\* activate_shared_location looks at the heads again under the store lock;
\* refresh_shared_lifecycle reloads the Vault the Store already has.
FinishActivate(m) ==
  /\ AllWritten(m, "activate")
  /\ joined' = IF ReadsChain(shared[m], Id(m)) /\ m \notin secrets
               THEN joined \cup {m} ELSE joined
  /\ EndJob(m)
  /\ UNCHANGED <<shared, zone, device, secrets, held, macCrashes>>

\* commit_rotation; the new request is published against the same snapshot.
FinishRotate(m) ==
  /\ AllWritten(m, "rotate")
  /\ device' = [device EXCEPT ![m] = @ + 1]
  /\ zone' = zone \cup {RequestOf(job[m].target)}
  /\ EndJob(m)
  /\ UNCHANGED <<shared, joined, secrets, held, macCrashes>>

\* The daemon stops; the files it wrote stay.
CrashOfMac(m) ==
  /\ macCrashes < MaxMacCrashes /\ job[m] # NoJob
  /\ macCrashes' = macCrashes + 1
  /\ EndJob(m)
  /\ UNCHANGED <<shared, zone, device, joined, secrets, held>>

MembershipNext ==
  \/ \E m \in Macs :
       \/ PublishLifecycle(m) \/ LoadLifecycle(m) \/ RequestEnrollment(m)
       \/ CountItems(m) \/ MergeSecrets(m) \/ AddSecret(m) \/ RequestReenrollment(m)
       \/ WriteFile(m) \/ FinishActivate(m) \/ FinishRotate(m) \/ CrashOfMac(m)
  \/ \E id \in Ids : ApproveEnrollment(id) \/ RevokeDevice(id)
  \/ FinishEnroll \/ FinishRevoke

MembershipSpec == MembershipInit /\ [][MembershipNext]_membershipVars

-----------------------------------------------------------------------------
(* Properties.                                                             *)

\* Type invariant; the chain of generations a Store shows has no gap.
MembershipTypeOK ==
  /\ device \in [Macs -> 1..MaxIdentities]
  /\ joined \subseteq Macs /\ secrets \subseteq Macs
  /\ \A m \in Macs :
       /\ {doc.gen : doc \in Generations(shared[m])} = 1..CurrentGeneration(shared[m])
       /\ job[m].op \in {"none", "enroll", "revoke", "activate", "rotate", "rewrap"}

\* A Mac that joined reads every generation its Store shows, at every moment
\* of a materialization, an approval, a revocation or a crash between two
\* files, for as long as its Store knows of no revocation.
MembersUnwrapEveryGeneration ==
  \A m \in joined :
    Id(m) \in Identities(shared[m]) \ Revoked(shared[m]) => HasAccess(shared[m], Id(m))

\* No envelope anywhere, in a document or beside one, gives a removed Device
\* the key of the generation that removed it or of a later one.
RemovedDevicesGetNoNewKey ==
  \A docs \in {zone} \cup {shared[m] : m \in Macs} :
    \A revoking \in Generations(docs) : \A id \in revoking.revoked :
      \A doc \in Generations(docs) : doc.gen >= revoking.gen => ~Unwraps(docs, id, doc)

\* A Store that holds secrets of its own Vault is switched to another Vault
\* only through the merge that carries them over, whenever they were added.
SwitchesKeepSecrets == joined \cap secrets = {}

\* What a Mac that joined can read stays readable across the replacement of
\* its identity and a crash at any file of it (rotate_device_identity).
Readable(m) == {doc.gen : doc \in {doc \in Generations(shared[m]) : Unwraps(shared[m], Id(m), doc)}}
LibrariesStayReadable ==
  [][\A m \in joined : Readable(m) \subseteq Readable(m)']_membershipVars

\* Members can read, removed Devices cannot: every generation is readable to
\* those it is for and no later one to those removed, and joining, leaving or
\* switching never makes a library unreadable or loses its secrets.
MembersCanRead ==
  /\ [](MembershipTypeOK /\ MembersUnwrapEveryGeneration)
  /\ [](RemovedDevicesGetNoNewKey /\ SwitchesKeepSecrets)
  /\ LibrariesStayReadable
=============================================================================
