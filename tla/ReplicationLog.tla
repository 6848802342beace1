--------------------------- MODULE ReplicationLog ---------------------------
(* The operation log of a Vault that several Devices share through a synced *)
(* directory (floria-replication/src/lib.rs).  A Device stages what changed *)
(* since the log it can see, journals the intent, commits it to the         *)
(* catalog's outbox, signs it into its next slot, publishes the signed      *)
(* bytes as an immutable file and only then checkpoints the slot.  It       *)
(* imports the other Devices' slots in causal order, and stops at a slot    *)
(* that conflicts.  The directory is moved by a sync tool: a file reaches   *)
(* each Device at its own time and may be rolled back; a Device may be      *)
(* killed between any two durable steps, or restored with an empty library. *)
(*                                                                          *)
(* Abstraction.  The portable state is two entities: the catalog, and one   *)
(* secret with its immutable versions and its head (0: no such secret).  A  *)
(* value is the number of the edit that made it; the model starts when the  *)
(* first Device's initial catalog (0) has reached every Device.  Encryption and signatures are the constructor *)
(* Sealed: the bytes it yields differ each time, which the mishap count     *)
(* stands for (an intent is signed twice only with a kill in between).      *)
EXTENDS Naturals, FiniteSets, Sequences, TLC

CONSTANTS
    Devices,      \* Device ids, naturals: the log orders slots by Device id
    Editors,      \* the Devices whose user edits
    MaxEdits,     \* bound on the edits of all users
    MaxOperations,\* bound on the operations ever enqueued, merges aside
    MaxMerges,    \* bound on the conflicts a user resolves
    MaxMishaps    \* bound on kills, rollbacks of the directory and restores

VARIABLES
    files,     \* every operation file ever published
    view,      \* view[d]: the operation files Device d can read
    objects,   \* objects[d]: the version objects Device d can read
    local,     \* local[d]: the catalog and the secret of Device d
    outbox,    \* outbox[d]: the committed outbox rows, in causal order
    intents,   \* intents[d]: the entries of the authenticated intent journal
    accepted,  \* accepted[d][e]: the operation ids checkpointed for Device e
    proc,      \* proc[d]: where Device d's mutation gate holder stands
    mode,      \* mode[d]: active, error or fenced
    nextId, edits, merges, mishaps,
    dirty,     \* history: Devices with an edit no staging has captured
    marks      \* history: marks[d] is what happened to Device d so far

replicationVars == <<files, view, objects, local, outbox, intents, accepted, proc, mode,
                     nextId, edits, merges, mishaps, dirty, marks>>

Entities == {"catalog", "secret"}
Unsigned == [id |-> 0]
NoWork == [pc |-> "idle", work |-> Unsigned, left |-> {}, published |-> FALSE]

\* A delta of one entity: the operations it supersedes, the value it sets (0 is
\* a tombstone) and the version objects it brings.
Delta(parents, value, versions) ==
    [parents |-> parents, value |-> value, versions |-> versions]

Sealed(d, seq, id, ents) == [id |-> id, dev |-> d, seq |-> seq, ents |-> ents, bytes |-> mishaps]

Image(s) == {s[i] : i \in DOMAIN s}
ObjectsOf(o) == UNION {o.ents[e].versions : e \in DOMAIN o.ents}
ParentsOf(o) == UNION {o.ents[e].parents : e \in DOMAIN o.ents}
Ids(S) == {o.id : o \in S}

-----------------------------------------------------------------------------
(* What a scan of the directory makes of the files a Device can read.       *)

\* Two different signed files in one slot are equivocation: the slot is dropped
\* and its Device is fenced.
Equivocated(S) == {o \in S : \E p \in S : p # o /\ p.dev = o.dev /\ p.seq = o.seq}
Observed(S) == S \ Equivocated(S)
FencedDevices(S) == {o.dev : o \in Equivocated(S)}

\* A slot is materialised once every earlier slot of its Device is, and its
\* objects have arrived.
Materialized(S, O) ==
    {o \in Observed(S) :
        \A n \in 1..o.seq : \E p \in Observed(S) :
            p.dev = o.dev /\ p.seq = n /\ ObjectsOf(p) \subseteq O}

\* Operations whose parents are materialised and touch the same entity.
WithParents(M) ==
    {o \in M : \A e \in DOMAIN o.ents : \A p \in o.ents[e].parents :
        \E q \in M : q.id = p /\ e \in DOMAIN q.ents}

Before(o, p) == o.dev < p.dev \/ (o.dev = p.dev /\ o.seq < p.seq)
First(S) == CHOOSE o \in S : \A p \in S \ {o} : Before(o, p)

\* The causal order a scan yields: always the first operation, by Device and
\* slot, all of whose parents were emitted.
ResolveHistory(S, O) ==
    LET remaining == WithParents(Materialized(S, O))
        ready(done) == {o \in remaining \ Image(done) : ParentsOf(o) \subseteq Ids(Image(done))}
        order[n \in 0..Cardinality(remaining)] ==
            IF n = 0 THEN <<>>
            ELSE LET done == order[n - 1]
                 IN  IF ready(done) = {} THEN done ELSE Append(done, First(ready(done)))
    IN  order[Cardinality(remaining)]

History(d) == ResolveHistory(view[d], objects[d])
Verified(d) == Image(History(d))
Touching(S, e) == {o \in S : e \in DOMAIN o.ents}
Heads(S, e) == {o.id : o \in {p \in Touching(S, e) :
                    ~\E q \in Touching(S, e) : p.id \in q.ents[e].parents}}
Conflicts(S) == {e \in Entities : Cardinality(Heads(S, e)) > 1}
FullySynchronized(d) == Observed(view[d]) = Verified(d) /\ view[d] = Observed(view[d])

\* The next operation of another Device in causal order that is not checkpointed.
IsAccepted(d, o) ==
    o.seq <= Len(accepted[d][o.dev]) /\ accepted[d][o.dev][o.seq] = o.id
Unaccepted(d) == SelectSeq(History(d), LAMBDA o : o.dev # d /\ ~IsAccepted(d, o))

-----------------------------------------------------------------------------
(* Staging: the difference between the local state and the log.             *)

\* No catalog was ever published; no secret is the same as a deleted one.
NoValue(e) == IF e = "catalog" THEN MaxEdits + 1 ELSE 0

\* fold_known_state over the verified operations and the outbox: the last
\* operation that touches an entity, its heads, the versions it names.
Known(d, rows) ==
    LET log == History(d) \o rows
        last(e) == {i \in DOMAIN log : e \in DOMAIN log[i].ents
                       /\ \A j \in i + 1 .. Len(log) : e \notin DOMAIN log[j].ents}
    IN  [e \in Entities |->
            [heads    |-> Heads(Image(log), e),
             value    |-> IF last(e) = {} THEN NoValue(e) ELSE log[CHOOSE i \in last(e) : TRUE].ents[e].value,
             versions |-> UNION {o.ents[e].versions : o \in Touching(Image(log), e)}]]

\* build_delta_entities: forced names the conflicted entities of a merge, whose
\* parents are all their heads.
CatalogDelta(d, known, forced) ==
    IF local[d].catalog # known["catalog"].value \/ "catalog" \in forced
    THEN [e \in {"catalog"} |-> Delta(known[e].heads, local[d].catalog, {})]
    ELSE <<>>

SecretDelta(d, known, forced) ==
    LET new == local[d].versions \ known["secret"].versions
    IN  IF local[d].head # 0
        THEN IF new # {} \/ local[d].head # known["secret"].value \/ "secret" \in forced
             THEN [e \in {"secret"} |-> Delta(known[e].heads, local[d].head, new)]
             ELSE <<>>
        ELSE IF known["secret"].value # 0
             THEN [e \in {"secret"} |-> Delta(known[e].heads, 0, {})]
             ELSE <<>>

BuildDelta(d, known, forced) ==
    CatalogDelta(d, known, forced) @@ SecretDelta(d, known, forced)

\* An intent may name at most one new version of a secret (validate_intent).
ValidIntent(ents) == \A e \in DOMAIN ents : Cardinality(ents[e].versions) <= 1

\* ordered_outbox: the rows must form one causal chain.
RowHeads(rows) == {r \in Image(rows) : ~\E q \in Image(rows) : r.id \in ParentsOf(q)}
OneHead(rows) == Len(rows) < 2 \/ Cardinality(RowHeads(rows)) = 1


-----------------------------------------------------------------------------
(* The state and its parts.                                                 *)

\* The operation that enabling synchronization published.
Base ==
    LET first == CHOOSE d \in Devices : \A e \in Devices : d <= e
    IN  [id |-> 1, dev |-> first, seq |-> 1, bytes |-> 0,
         ents |-> [e \in {"catalog"} |-> Delta({}, 0, {})]]

ReplicationInit ==
    /\ files = {Base}
    /\ view = [d \in Devices |-> {Base}]
    /\ objects = [d \in Devices |-> {}]
    /\ local = [d \in Devices |-> [catalog |-> 0, head |-> 0, versions |-> {}]]
    /\ outbox = [d \in Devices |-> <<>>]
    /\ intents = [d \in Devices |-> {}]
    /\ accepted = [d \in Devices |-> [e \in Devices |-> IF e = Base.dev THEN <<1>> ELSE <<>>]]
    /\ proc = [d \in Devices |-> NoWork]
    /\ mode = [d \in Devices |-> "active"]
    /\ nextId = 2 /\ edits = 0 /\ merges = 0 /\ mishaps = 0
    /\ dirty = {}
    /\ marks = [d \in Devices |-> {}]

directory == <<files, view, objects>>
bounds == <<nextId, edits, merges, mishaps>>
history == <<dirty, marks>>

Idle(d) == proc[d].pc \in {"idle", "synced"}

\* A Device starts to work while the others rest: between its scans a Device
\* neither reads nor writes what another can change, so two that work at once
\* reach no state of either that they do not reach one after the other.
Turn == \A e \in Devices : Idle(e)
Goto(d, pc) == proc' = [proc EXCEPT ![d].pc = pc]
Stop(d, as) == proc' = [proc EXCEPT ![d] = [NoWork EXCEPT !.pc = as]]
Mark(d, why) == marks' = [marks EXCEPT ![d] = @ \union why]
Checkpoint(d) == Len(accepted[d][d])
Intent(d, id) == CHOOSE i \in intents[d] : i.id = id
HasIntent(d, id) == id \in Ids(intents[d])

\* The bound on operations: one is left for every Device that must stage.
Room == nextId - merges + Cardinality({d \in Devices : proc[d].pc = "observe"}) <= MaxOperations

\* A mutation the user commits under the mutation gate: of the catalog alone, of
\* the secret alone (a new version), or of both (the secret is created with its
\* catalog item, or deleted with it).  The version object is written into the
\* shared half.  The gate's observer then stages it, unless replication is not
\* active.
Commit(d, catalog, head, versions) ==
    /\ Turn /\ d \in Editors /\ edits < MaxEdits /\ Room
    /\ edits' = edits + 1
    /\ local' = [local EXCEPT ![d] = [catalog |-> catalog, head |-> head, versions |-> versions]]
    /\ objects' = [objects EXCEPT ![d] = @ \union versions]
    /\ Stop(d, IF mode[d] = "active" THEN "observe" ELSE "idle")
    /\ dirty' = dirty \union {d}
    /\ UNCHANGED <<files, view, outbox, intents, accepted, mode, nextId, merges, mishaps, marks>>

EditCatalog(d) == Commit(d, edits + 1, local[d].head, local[d].versions)

PutSecret(d) ==
    Commit(d, IF local[d].head = 0 THEN edits + 1 ELSE local[d].catalog,
           edits + 1, local[d].versions \union {edits + 1})

DeleteSecret(d) == local[d].head # 0 /\ Commit(d, edits + 1, 0, {})

\* stage_current_snapshot_uncoordinated, up to the journal entry.  It is run by
\* the observer of a commit, and after a synchronization that went through.
StageReady(d) ==
    /\ OneHead(outbox[d])
    /\ FullySynchronized(d)
    /\ Conflicts(Verified(d)) = {}

EnqueueIntent(d, ents, next) ==
    /\ intents' = [intents EXCEPT ![d] = @ \union {[id |-> nextId, ents |-> ents, signed |-> Unsigned]}]
    /\ proc' = [proc EXCEPT ![d].pc = next, ![d].work = [id |-> nextId, ents |-> ents]]
    /\ nextId' = nextId + 1

Stage(d) ==
    LET ents == BuildDelta(d, Known(d, outbox[d]), {})
    IN  /\ proc[d].pc = "observe" \/ (proc[d].pc = "synced" /\ Turn /\ Room)
        /\ StageReady(d)
        /\ \/ /\ DOMAIN ents = {}
              /\ Stop(d, "idle")
              /\ dirty' = dirty \ {d}
              /\ UNCHANGED <<intents, nextId, marks>>
           \/ /\ DOMAIN ents # {} /\ ValidIntent(ents)
              /\ EnqueueIntent(d, ents, "enqueue")
              /\ Mark(d, IF Unaccepted(d) = <<>> THEN {} ELSE {"overtook"})
              /\ UNCHANGED dirty
        /\ UNCHANGED <<directory, local, outbox, accepted, mode, edits, merges, mishaps>>

\* Staging fails: the log is not fully synchronized, the outbox has two heads or
\* the intent is refused.
StageFails(d) ==
    /\ proc[d].pc \in {"observe", "synced"}
    /\ \/ ~StageReady(d)
       \/ ~ValidIntent(BuildDelta(d, Known(d, outbox[d]), {}))
    /\ Stop(d, "idle")
    /\ mode' = [mode EXCEPT ![d] = "error"]
    /\ UNCHANGED <<directory, local, outbox, intents, accepted, bounds, history>>

\* enqueue_transaction, after the journal: the outbox row commits, or the intent
\* is dropped again.
EnqueueRow(d) ==
    /\ proc[d].pc \in {"enqueue", "enqueue merge"}
    /\ outbox' = [outbox EXCEPT ![d] = Append(@, proc[d].work)]
    /\ dirty' = dirty \ {d}
    /\ IF proc[d].pc = "enqueue" THEN Stop(d, "idle") ELSE Goto(d, "acknowledge")
    /\ UNCHANGED <<directory, local, intents, accepted, mode, bounds, marks>>

RowRefused(d) ==
    /\ proc[d].pc \in {"enqueue", "enqueue merge"}
    /\ mishaps < MaxMishaps /\ mishaps' = mishaps + 1
    /\ intents' = [intents EXCEPT ![d] = {i \in @ : i.id # proc[d].work.id}]
    /\ Stop(d, "idle")
    /\ mode' = [mode EXCEPT ![d] = "error"]
    /\ UNCHANGED <<directory, local, outbox, accepted, nextId, edits, merges, history>>

-----------------------------------------------------------------------------
(* One synchronization, sync_uncoordinated.  The files read by its scan are *)
(* the Device's view, which stands still until the synchronization scans    *)
(* again.                                                                   *)

Fence(d, why) ==
    /\ Stop(d, "idle")
    /\ mode' = [mode EXCEPT ![d] = "fenced"]
    /\ Mark(d, {why})
    /\ UNCHANGED <<directory, local, outbox, intents, accepted, bounds, dirty>>

\* An operation the Device checkpointed for itself is no longer in its slot.
Disappeared(d) ==
    \E n \in DOMAIN accepted[d][d] :
        ~\E o \in Observed(view[d]) : o.dev = d /\ o.seq = n /\ o.id = accepted[d][d][n]

SyncBegin(d) ==
    /\ Turn \/ proc[d].pc = "begin"
    /\ \/ /\ d \in FencedDevices(view[d]) \/ Disappeared(d)
          /\ Fence(d, "own")
       \/ /\ d \notin FencedDevices(view[d]) /\ ~Disappeared(d)
          /\ ~OneHead(outbox[d])
          /\ Stop(d, "idle")
          /\ mode' = [mode EXCEPT ![d] = "error"]
          /\ UNCHANGED <<directory, local, outbox, intents, accepted, bounds, history>>
       \/ /\ d \notin FencedDevices(view[d]) /\ ~Disappeared(d)
          /\ OneHead(outbox[d])
          /\ Stop(d, "own")
          /\ UNCHANGED <<directory, local, outbox, intents, accepted, mode, bounds, history>>

\* Own slots beyond the checkpoint: the signed bytes are in the journal, or the
\* library is empty and the slot is replayed into it.
OwnSlots(d) == {o \in Observed(view[d]) : o.dev = d /\ o.seq > Checkpoint(d)}
Journalled(d, o) == \E i \in intents[d] : i.signed = o

Accept(d, o) == accepted' = [accepted EXCEPT ![d][o.dev] = Append(@, o.id)]

SyncOwn(d) ==
    LET next == {o \in OwnSlots(d) : o.seq = Checkpoint(d) + 1}
    IN  /\ proc[d].pc = "own"
        /\ \/ /\ OwnSlots(d) = {}
              /\ Goto(d, "intents")
              /\ UNCHANGED <<directory, local, outbox, intents, accepted, mode, bounds, history>>
           \/ /\ OwnSlots(d) # {}
              /\ \/ next = {}
                 \/ \E o \in next : ~Journalled(d, o) /\ (intents[d] # {} \/ outbox[d] # <<>>)
                 \/ \E o \in next : ~Journalled(d, o) /\ o \notin Verified(d)
              /\ Fence(d, "own")
           \/ \E o \in next :
                 /\ Journalled(d, o)
                 /\ Accept(d, o)
                 /\ UNCHANGED <<directory, local, outbox, intents, proc, mode, bounds, history>>
           \/ \E o \in next :
                 /\ ~Journalled(d, o) /\ intents[d] = {} /\ outbox[d] = <<>> /\ o \in Verified(d)
                 /\ proc' = [proc EXCEPT ![d].pc = "apply", ![d].work = o, ![d].left = DOMAIN o.ents]
                 /\ UNCHANGED <<directory, local, outbox, intents, accepted, mode, bounds, history>>

\* Intents without an outbox row: published ones are completed, unsigned ones
\* never committed, a signed one in neither place is lost.
SyncIntents(d) ==
    LET loose == {i \in intents[d] : i.id \notin Ids(Image(outbox[d]))}
        published(i) == i.signed.seq <= Checkpoint(d) /\ accepted[d][d][i.signed.seq] = i.id
        drop(i) == /\ intents' = [intents EXCEPT ![d] = @ \ {i}]
                   /\ UNCHANGED <<directory, local, outbox, accepted, proc, mode, bounds, history>>
    IN  /\ proc[d].pc = "intents"
        /\ \/ /\ loose = {}
              /\ Goto(d, "outbox")
              /\ UNCHANGED <<directory, local, outbox, intents, accepted, mode, bounds, history>>
           \/ \E i \in loose :
                 IF i.signed = Unsigned \/ published(i) THEN drop(i) ELSE Fence(d, "own")

PrepareUnsaved(d) ==
    /\ proc[d].pc = "outbox" /\ outbox[d] # <<>>
    /\ LET row == Head(outbox[d])
           op == Sealed(d, Checkpoint(d) + 1, row.id, row.ents)
       IN  /\ HasIntent(d, row.id) /\ Intent(d, row.id).signed = Unsigned
           /\ files' = files \union {op}
           /\ view' = [view EXCEPT ![d] = @ \union {op}]
    /\ UNCHANGED <<objects, local, outbox, intents, accepted, proc, mode, bounds, history>>

\* The first row is signed into the next slot, and the signed bytes are saved.
Prepare(d) ==
    /\ proc[d].pc = "outbox" /\ outbox[d] # <<>>
    /\ LET row == Head(outbox[d])
       IN  /\ HasIntent(d, row.id) /\ Intent(d, row.id).signed = Unsigned
           /\ intents' = [intents EXCEPT ![d] = {i \in @ : i.id # row.id} \union
                  {[Intent(d, row.id) EXCEPT !.signed = Sealed(d, Checkpoint(d) + 1, row.id, row.ents)]}]
    /\ UNCHANGED <<directory, local, outbox, accepted, proc, mode, bounds, history>>

\* The saved bytes become an immutable file.
Publish(d) ==
    /\ proc[d].pc = "outbox" /\ outbox[d] # <<>>
    /\ LET row == Head(outbox[d])
           op == Intent(d, row.id).signed
       IN  /\ HasIntent(d, row.id) /\ op # Unsigned /\ op \notin view[d]
           /\ row.id \notin Ids(view[d])
           /\ files' = files \union {op}
           /\ view' = [view EXCEPT ![d] = @ \union {op}]
    /\ UNCHANGED <<objects, local, outbox, intents, accepted, proc, mode, bounds, history>>

\* The published slot is checkpointed, and then its row leaves the outbox.
AcceptPublished(d) ==
    /\ proc[d].pc = "outbox" /\ outbox[d] # <<>>
    /\ LET op == Intent(d, Head(outbox[d]).id).signed
       IN  /\ HasIntent(d, Head(outbox[d]).id) /\ op \in view[d]
           /\ ~(op.seq <= Checkpoint(d) /\ accepted[d][d][op.seq] = op.id)
           /\ IF op.seq = Checkpoint(d) + 1
              THEN /\ Accept(d, op)
                   /\ UNCHANGED <<directory, local, outbox, intents, proc, mode, bounds, history>>
              ELSE Fence(d, "own")

RemoveRow(d) ==
    /\ proc[d].pc = "outbox" /\ outbox[d] # <<>>
    /\ LET row == Head(outbox[d])
           op == Intent(d, row.id).signed
       IN  /\ HasIntent(d, row.id) /\ op \in view[d]
           /\ op.seq <= Checkpoint(d) /\ accepted[d][d][op.seq] = op.id
           /\ proc' = [proc EXCEPT ![d].pc = "complete", ![d].work = row]
    /\ outbox' = [outbox EXCEPT ![d] = Tail(@)]
    /\ UNCHANGED <<directory, local, intents, accepted, mode, bounds, history>>

Complete(d) ==
    /\ proc[d].pc = "complete"
    /\ intents' = [intents EXCEPT ![d] = {i \in @ : i.id # proc[d].work.id}]
    /\ proc' = [proc EXCEPT ![d].pc = "outbox", ![d].published = TRUE]
    /\ UNCHANGED <<directory, local, outbox, accepted, mode, bounds, history>>


\* The outbox is drained: if anything was published the directory is scanned
\* again, so that a concurrent change shows as a conflict before it is imported.
SyncRescan(d) ==
    /\ proc[d].pc = "outbox" /\ outbox[d] = <<>>
    /\ Goto(d, "rescan")
    /\ UNCHANGED <<directory, local, outbox, intents, accepted, mode, bounds, history>>

SyncConflicts(d) ==
    /\ proc[d].pc = "rescan"
    /\ \/ d \in FencedDevices(view[d]) /\ Fence(d, "own")
       \/ /\ d \notin FencedDevices(view[d])
          /\ IF Conflicts(Verified(d)) # {} THEN Stop(d, "idle") ELSE Goto(d, "import")
          /\ mode' = [mode EXCEPT ![d] = IF Conflicts(Verified(d)) # {} THEN "active" ELSE @]
          /\ UNCHANGED <<directory, local, outbox, intents, accepted, bounds, history>>

Import(d) ==
    /\ proc[d].pc = "import" /\ Unaccepted(d) # <<>>
    /\ LET o == Head(Unaccepted(d))
       IN  IF o.seq = Len(accepted[d][o.dev]) + 1
           THEN /\ proc' = [proc EXCEPT ![d].pc = "apply", ![d].work = o, ![d].left = DOMAIN o.ents]
                /\ UNCHANGED <<directory, local, outbox, intents, accepted, mode, bounds, history>>
           ELSE Fence(d, "gap")

\* apply_verified_mutation, one entity at a time: catalog, then secret.
ApplyEntity(d) ==
    /\ proc[d].pc = "apply" /\ proc[d].left # {}
    /\ LET e == IF "catalog" \in proc[d].left THEN "catalog" ELSE "secret"
           delta == proc[d].work.ents[e]
       IN  /\ local' = [local EXCEPT ![d] =
                  IF e = "catalog" THEN [@ EXCEPT !.catalog = delta.value]
                  ELSE [@ EXCEPT !.head = delta.value,
                                 !.versions = IF delta.value = 0 THEN {} ELSE @ \union delta.versions]]
           /\ proc' = [proc EXCEPT ![d].left = @ \ {e}]
    /\ UNCHANGED <<directory, outbox, intents, accepted, mode, bounds, history>>

\* Only then is the slot checkpointed.
AcceptApplied(d) ==
    /\ proc[d].pc = "apply" /\ proc[d].left = {}
    /\ LET o == proc[d].work
       IN  /\ Accept(d, o)
           /\ proc' = [proc EXCEPT ![d].pc = IF o.dev = d THEN "own" ELSE "import", ![d].work = Unsigned]
    /\ UNCHANGED <<directory, local, outbox, intents, mode, bounds, history>>

SyncEnd(d) ==
    /\ proc[d].pc = "import" /\ Unaccepted(d) = <<>>
    /\ Stop(d, IF view[d] = Observed(view[d]) THEN "synced" ELSE "idle")
    /\ mode' = [mode EXCEPT ![d] = "active"]
    /\ UNCHANGED <<directory, local, outbox, intents, accepted, bounds, history>>

-----------------------------------------------------------------------------
(* Resolving a conflict with what this Device shows.                        *)

Resolve(d) ==
    LET clash == Conflicts(Verified(d))
        built == BuildDelta(d, Known(d, <<>>), clash)
        ents == [e \in DOMAIN built \intersect clash |-> built[e]]
    IN  /\ Turn /\ d \in Editors /\ merges < MaxMerges
        /\ outbox[d] = <<>> /\ FullySynchronized(d) /\ d \notin FencedDevices(view[d])
        /\ clash # {} /\ DOMAIN ents = clash /\ ValidIntent(ents)
        /\ EnqueueIntent(d, ents, "enqueue merge")
        /\ merges' = merges + 1
        /\ Mark(d, {"merged"})
        /\ UNCHANGED <<directory, local, outbox, accepted, mode, edits, mishaps, dirty>>

\* Every other Device's verified slot is checkpointed without being applied,
\* and the merge is then published by a synchronization.
Acknowledge(d) ==
    /\ proc[d].pc = "acknowledge" /\ Unaccepted(d) # <<>>
    /\ LET o == Head(Unaccepted(d))
       IN  IF o.seq = Len(accepted[d][o.dev]) + 1
           THEN Accept(d, o) /\ UNCHANGED <<proc, mode>>
           ELSE /\ Stop(d, "idle")
                /\ mode' = [mode EXCEPT ![d] = "error"]
                /\ UNCHANGED accepted
    /\ UNCHANGED <<directory, local, outbox, intents, bounds, history>>

Acknowledged(d) ==
    /\ proc[d].pc = "acknowledge" /\ Unaccepted(d) = <<>>
    /\ Goto(d, "begin")
    /\ UNCHANGED <<directory, local, outbox, intents, accepted, mode, bounds, history>>

-----------------------------------------------------------------------------
(* The environment.                                                         *)

\* The sync tool delivers a file or an object of another Device's view.
ViewMoves(d) == Idle(d) \/ (proc[d].pc = "rescan" /\ proc[d].published)

ArriveFile(d) ==
    /\ ViewMoves(d)
    /\ \E o \in files \ view[d] : view' = [view EXCEPT ![d] = @ \union {o}]
    /\ UNCHANGED <<files, objects, local, outbox, intents, accepted, proc, mode, bounds, history>>

ArriveObject(d) ==
    /\ ViewMoves(d)
    /\ \E v \in UNION {objects[e] : e \in Devices} \ objects[d] :
           objects' = [objects EXCEPT ![d] = @ \union {v}]
    /\ UNCHANGED <<files, view, local, outbox, intents, accepted, proc, mode, bounds, history>>

\* The sync tool takes a file back.
RollBack(d) ==
    /\ Idle(d) /\ mishaps < MaxMishaps /\ mishaps' = mishaps + 1
    /\ \E o \in view[d] : view' = [view EXCEPT ![d] = @ \ {o}]
    /\ Mark(d, {"rollback"})
    /\ UNCHANGED <<files, objects, local, outbox, intents, accepted, proc, mode, nextId, edits, merges, dirty>>

\* A kill: the gate's holder is gone, the durable state stays.
Kill(d) ==
    /\ ~Idle(d) \/ mode[d] = "fenced"
    /\ mishaps < MaxMishaps /\ mishaps' = mishaps + 1
    /\ Stop(d, "idle")
    /\ mode' = [mode EXCEPT ![d] = "active"]
    /\ UNCHANGED <<directory, local, outbox, intents, accepted, nextId, edits, merges, history>>

\* A restored Mac: the Device identity and the shared half survive, the library,
\* the outbox and the journal do not.
Restore(d) ==
    /\ Idle(d) /\ mishaps < MaxMishaps /\ mishaps' = mishaps + 1
    /\ local' = [local EXCEPT ![d] = [catalog |-> 0, head |-> 0, versions |-> {}]]
    /\ outbox' = [outbox EXCEPT ![d] = <<>>]
    /\ intents' = [intents EXCEPT ![d] = {}]
    /\ accepted' = [accepted EXCEPT ![d] = [e \in Devices |-> <<>>]]
    /\ Mark(d, {"restored"})
    /\ dirty' = dirty \ {d}
    /\ Stop(d, "idle")
    /\ mode' = [mode EXCEPT ![d] = "active"]
    /\ UNCHANGED <<directory, nextId, edits, merges>>

-----------------------------------------------------------------------------
SyncStep(d) ==
    \/ SyncBegin(d) \/ SyncOwn(d) \/ SyncIntents(d)
    \/ Prepare(d) \/ Publish(d) \/ AcceptPublished(d) \/ RemoveRow(d) \/ Complete(d)
    \/ SyncRescan(d) \/ SyncConflicts(d)
    \/ Import(d) \/ ApplyEntity(d) \/ AcceptApplied(d) \/ SyncEnd(d)
    \/ Acknowledge(d) \/ Acknowledged(d)

StageStep(d) == Stage(d) \/ StageFails(d) \/ EnqueueRow(d)

ReplicationNext ==
    \E d \in Devices :
        \/ EditCatalog(d) \/ PutSecret(d) \/ DeleteSecret(d)
        \/ StageStep(d) \/ RowRefused(d)
        \/ SyncStep(d) \/ Resolve(d)
        \/ ArriveFile(d) \/ ArriveObject(d)
        \/ RollBack(d) \/ Kill(d) \/ Restore(d)

-----------------------------------------------------------------------------
(* Properties.                                                              *)

\* Types: every Device reads published files, and its catalog, secret and
\* journal hold values that some commit or enqueued operation made.
ReplicationTypeOK ==
    /\ \A d \in Devices : view[d] \subseteq files
    /\ \A d \in Devices : mode[d] \in {"active", "error", "fenced"}
    /\ \A d \in Devices : local[d].catalog \in 0..edits /\ local[d].head \in 0..edits
    /\ \A d \in Devices : local[d].versions \subseteq 1..edits
    /\ \A d \in Devices : \A i \in intents[d] : i.id \in 1..nextId - 1

\* A Device never signs two operations into one slot: a kill anywhere between
\* signing, publishing and checkpointing reuses the saved bytes.  Only a Device
\* restored without its journal can.
SlotsAreUnique ==
    \A o, p \in files : o.dev = p.dev /\ o.seq = p.seq /\ o # p => "restored" \in marks[o.dev]

\* A Device fences itself over its own slots only when the directory lost one of
\* them or its journal was restored: no kill makes its history look foreign.
OwnHistoryNeverFences ==
    \A d \in Devices : "own" \in marks[d] => marks[d] \intersect {"rollback", "restored"} # {}

\* Every committed outbox row finds the intent it was journalled as, without
\* which every later synchronization fails.
OutboxIsJournalled ==
    \A d \in Devices : \A r \in Image(outbox[d]) : \E i \in intents[d] : i.id = r.id /\ i.ents = r.ents

\* A Device at rest that has accepted every operation it can read, and whose
\* edits are all staged, shows what the log and its outbox say, whatever was
\* killed between applying an entity and checkpointing its slot.  Exempt are a
\* Device whose directory lost a file, a restored one (it replays its own slots
\* before the older ones of the others), one that checkpointed a branch without
\* applying it (a merge) and one that staged over an operation it had not
\* imported.
ProjectionIsReplay ==
    \A d \in Devices :
        LET known == Known(d, outbox[d])
        IN  /\ proc[d].pc = "idle" /\ d \notin dirty
            /\ marks[d] = {}
            /\ Unaccepted(d) = <<>> /\ OwnSlots(d) = {} /\ Conflicts(Verified(d)) = {}
            => /\ local[d].catalog = known["catalog"].value
               /\ local[d].head = known["secret"].value

\* Kills do not damage a Device's history: its slots are unique, it never
\* fences itself over them, its outbox is journalled and its catalog and
\* secret are what a replay of the log yields.
HistorySurvivesKills ==
    ReplicationTypeOK /\ SlotsAreUnique /\ OwnHistoryNeverFences /\ OutboxIsJournalled
        /\ ProjectionIsReplay

=============================================================================
