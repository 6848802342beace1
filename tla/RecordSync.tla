----------------------------- MODULE RecordSync -----------------------------
(***************************************************************************)
(* Record synchronisation between the devices of a vault                   *)
(* (floria-replication: record.rs, record_journal.rs, record_publisher.rs, *)
(* projection_applicator.rs, record_conflict.rs, sync_control.rs, and      *)
(* their callers in floria/src/main.rs).                                   *)
(*                                                                         *)
(* A commit is a set of revisions, one for each entity it changes, and is  *)
(* numbered in the order of creation; the revision of entity e in commit c *)
(* is named by the two.  Its parents are earlier revisions of e.           *)
(*                                                                         *)
(* All operations of a daemon hold its mutation gate, except the           *)
(* settlement of what was sent.  A daemon may crash between two durable    *)
(* steps.  The transport delivers what the cloud has in any parts and      *)
(* order.  Its head records only tell an accepted commit from a conflict   *)
(* branch; the records are saved, and the commit is settled, in both       *)
(* cases.                                                                  *)
(***************************************************************************)
EXTENDS Naturals, Sequences, FiniteSets

CONSTANTS
  Devices,
  Entities,
  Secrets,       \* the entities of the store; the others are the catalog's
  Base,          \* the entities every device has at the start
  Mutations,     \* what a user does: the entities changed together, or deleted
  MaxEdits, MaxCrashes, MaxResolves, MaxPartials   \* bounds

ASSUME SyncAssumption ==
  /\ Secrets \subseteq Entities
  /\ Base \subseteq Entities /\ Base # {}
  /\ Mutations \subseteq [entities : SUBSET Entities, delete : BOOLEAN]
  /\ MaxEdits \in Nat /\ MaxCrashes \in Nat /\ MaxResolves \in Nat /\ MaxPartials \in Nat

VARIABLES
  log,           \* every commit that was made: its revisions by entity
  local,         \* the content of an entity in store or catalog, 0 when there is none
  objects,       \* the encrypted contents that the store of a device has
  known,         \* record_revisions
  manifests,     \* record_commits
  outbox, inbox, \* record_outbox, record_inbox
  intent,        \* record_projection_intent: no or one map of heads
  checkpoint,    \* record_projection_checkpoint
  pc, task,      \* where the operation of a daemon is, and what it is
  left,          \* secrets that the projection has yet to write
  cloud,         \* the records that were saved
  shown,         \* history: the revision that local shows, or the edits build on
  overtaken,     \* history: the devices that queued a commit while a projection was pending
  blocked,       \* history: the devices on which a conflict has blocked a capture
  edited,        \* history: the entities with edits that no capture has recorded
  edits, crashes, resolves, partials,
  failures       \* 1 once a projection was refused for want of an object

graphVars == <<log, known, manifests, outbox, overtaken>>
docVars == <<local, shown, edited, blocked>>
planVars == <<intent, checkpoint>>
opVars == <<pc, task, left>>
bounds == <<edits, crashes, failures, resolves, partials>>
syncVars == <<graphVars, docVars, objects, inbox, planVars, opVars, cloud, bounds>>

---------------------------------------------------------------------------
(* The revision graph. *)

Commits == 1 .. Len(log)
Changes(c) == DOMAIN log[c]
Revisions(c) == Changes(c) \X {c}

(* Mutant: the parents are not looked at. *)
ReadyOrphans(d) == {c \in manifests[d] : Revisions(c) \subseteq known[d]}

(* commit_readiness(): the commits whose members are there, and the        *)
(* commits of all their parents too.                                       *)
Complete(S) == \A c \in S : \A e \in Changes(c) : log[c][e].parents \subseteq S
Ready(d) ==
  LET whole == {c \in manifests[d] : Revisions(c) \subseteq known[d]}
  IN  IF Complete(whole) THEN whole ELSE UNION {S \in SUBSET whole : Complete(S)}

(* analyze(): the eligible revisions of an entity that nobody builds on. *)
Tips(S, e) ==
  LET of == {c \in S : e \in Changes(c)}
  IN  of \ UNION {log[c][e].parents : c \in of}

(* The heads of all entities, and what follows from them. *)
Heads(d) == LET R == Ready(d) IN [e \in Entities |-> Tips(R, e)]
Conflicts(H) == {e \in Entities : \E b, c \in H[e] : b # c}
Tracked(H) == {e \in Entities : H[e] # {}}
HeadMap(H) == [e \in Tracked(H) |-> CHOOSE c \in H[e] : TRUE]

Value(doc) == IF doc.live THEN doc.content ELSE 0

---------------------------------------------------------------------------
BaseCommit == [e \in Base |-> [doc |-> [content |-> 1, live |-> TRUE], parents |-> {}, base |-> 0,
                               by |-> "capture"]]
BaseMap == [e \in Base |-> 1]

(* The devices have joined and share what the first one had. *)
Init ==
  /\ log = <<BaseCommit>>
  /\ local = [d \in Devices |-> [e \in Entities |-> IF e \in Base THEN 1 ELSE 0]]
  /\ objects = [d \in Devices |-> {1}]
  /\ known = [d \in Devices |-> Base \X {1}]
  /\ manifests = [d \in Devices |-> {1}]
  /\ outbox = [d \in Devices |-> <<>>]
  /\ inbox = [d \in Devices |-> {}]
  /\ intent = [d \in Devices |-> {}]
  /\ checkpoint = [d \in Devices |-> {BaseMap}]
  /\ pc = [d \in Devices |-> "idle"]
  /\ task = [d \in Devices |-> "none"]
  /\ left = [d \in Devices |-> {}]
  /\ cloud = {1}
  /\ shown = [d \in Devices |-> [e \in Entities |-> IF e \in Base THEN 1 ELSE 0]]
  /\ overtaken = {} /\ blocked = {}
  /\ edited = [d \in Devices |-> {}]
  /\ edits = 0 /\ crashes = 0 /\ failures = 0 /\ resolves = 0 /\ partials = 0

GoTo(d, l) == pc' = [pc EXCEPT ![d] = l]
Finish(d) == GoTo(d, "idle") /\ task' = [task EXCEPT ![d] = "none"]

---------------------------------------------------------------------------
(* SealedRecordTransaction.queue(): the commit is stored and in the outbox. *)
Queue(d, commit) ==
  LET c == Len(log) + 1 IN
  /\ log' = Append(log, commit)
  /\ known' = [known EXCEPT ![d] = @ \cup ((DOMAIN commit) \X {c})]
  /\ manifests' = [manifests EXCEPT ![d] = @ \cup {c}]
  /\ outbox' = [outbox EXCEPT ![d] = Append(@, c)]
  /\ overtaken' = IF intent[d] = {} THEN overtaken ELSE overtaken \cup {d}

(* The entities whose local document is not that of their head: the new    *)
(* and the changed ones, and the ones that are gone but not archived.      *)
Dirty(head, docs) ==
  {e \in Entities :
    docs[e] # (IF e \in DOMAIN head THEN Value(log[head[e]][e].doc) ELSE 0)}

(* A document that is gone is published as its head, archived. *)
Document(head, docs, e) ==
  IF docs[e] # 0 THEN [content |-> docs[e], live |-> TRUE]
                 ELSE [log[head[e]][e].doc EXCEPT !.live = FALSE]

Captured(d, head, docs) ==
  [e \in Dirty(head, docs) |->
    [doc |-> Document(head, docs, e),
     parents |-> IF e \in DOMAIN head THEN {head[e]} ELSE {},
     base |-> shown[d][e],
     by |-> "capture"]]

(* capture(): a conflict blocks it; otherwise every difference between the *)
(* local documents and the heads becomes one commit.                       *)
Capture(d, docs, touched) ==
  LET H == Heads(d)
      head == HeadMap(H)
      dirty == Dirty(head, docs)
  IN  IF Conflicts(H) # {}
        THEN /\ edited' = [edited EXCEPT ![d] = @ \cup touched]
             /\ blocked' = blocked \cup {d}
             /\ UNCHANGED <<graphVars, shown>>
        ELSE /\ edited' = [edited EXCEPT ![d] = {}]
             /\ UNCHANGED blocked
             /\ shown' = [shown EXCEPT ![d] =
                  [e \in Entities |-> IF e \in dirty THEN Len(log) + 1
                                      ELSE IF e \in DOMAIN head THEN head[e] ELSE 0]]
             /\ IF dirty = {} THEN UNCHANGED graphVars ELSE Queue(d, Captured(d, head, docs))

---------------------------------------------------------------------------
(* A control operation changes or deletes entities under the gate, and the *)
(* observer captures the change.                                           *)
Written(d, m) ==
  [e \in Entities |-> IF e \notin m.entities THEN local[d][e] ELSE IF m.delete THEN 0 ELSE edits + 2]

Mutate(d, m) ==
  /\ pc[d] = "idle" /\ edits < MaxEdits
  /\ Written(d, m) # local[d]
  /\ edits' = edits + 1
  /\ local' = [local EXCEPT ![d] = Written(d, m)]
  /\ objects' = [objects EXCEPT ![d] = IF m.delete THEN @ ELSE @ \cup {edits + 2}]
  /\ UNCHANGED <<inbox, planVars, opVars, cloud, failures, resolves, partials>>

Edit(d, m) == Mutate(d, m) /\ Capture(d, Written(d, m), m.entities) /\ UNCHANGED crashes

(* The daemon stops between the change and its capture. *)
EditAndCrash(d, m) ==
  /\ crashes < MaxCrashes
  /\ Mutate(d, m)
  /\ crashes' = crashes + 1
  /\ edited' = [edited EXCEPT ![d] = @ \cup m.entities]
  /\ UNCHANGED <<graphVars, shown, blocked>>

(* status() after a start and next_outbound() capture first. *)
CaptureState(d) ==
  /\ pc[d] = "idle"
  /\ Capture(d, local[d], {})
  /\ UNCHANGED <<local, objects, inbox, planVars, opVars, cloud, bounds>>

(* The app saves the oldest commit with its objects. *)
Save(d) ==
  /\ outbox[d] # <<>>
  /\ Head(outbox[d]) \notin cloud
  /\ cloud' = cloud \cup {Head(outbox[d])}
  /\ UNCHANGED <<graphVars, docVars, objects, inbox, planVars, opVars, bounds>>

(* settle_outbound(): the app may be told late, or again. *)
SettleOutbound(d) ==
  /\ outbox[d] # <<>>
  /\ Head(outbox[d]) \in cloud
  /\ outbox' = [outbox EXCEPT ![d] = Tail(@)]
  /\ UNCHANGED <<log, known, manifests, overtaken, docVars, objects, inbox, planVars, opVars, cloud, bounds>>

---------------------------------------------------------------------------
(* apply_inbound() *)

Contents(c) == {log[c][e].doc.content : e \in Changes(c) \cap Secrets}

Missing(d, c) ==
  c \notin manifests[d] \/ ~(Revisions(c) \subseteq known[d]) \/ ~(Contents(c) \subseteq objects[d])

(* The app delivers what is new, and repeats a delivery that a crash or a  *)
(* failure interrupted: it keeps its fetch token until it is told the end. *)
Deliverable(d) ==
  \/ \E c \in cloud : Missing(d, c)
  \/ crashes + failures > 0 /\ (inbox[d] # {} \/ intent[d] # {})

(* The daemon captures before it applies a delivery. *)
BeginInbound(d) ==
  /\ pc[d] = "idle"
  /\ Deliverable(d)
  /\ Capture(d, local[d], {})
  /\ GoTo(d, "receive")
  /\ task' = [task EXCEPT ![d] = "inbound"]
  /\ UNCHANGED <<local, objects, inbox, planVars, left, cloud, bounds>>

(* install_replicated_object() and receive_inbound() of manifests,         *)
(* revisions and objects.                                                  *)
Receive(d, commits, revs, objs) ==
  /\ pc[d] = "receive"
  /\ objects' = [objects EXCEPT ![d] = @ \cup objs]
  /\ known' = [known EXCEPT ![d] = @ \cup revs]
  /\ manifests' = [manifests EXCEPT ![d] = @ \cup commits]
  /\ inbox' = [inbox EXCEPT ![d] = @ \cup commits]
  /\ GoTo(d, "recover")
  /\ UNCHANGED <<log, outbox, overtaken, docVars, planVars, task, left, cloud, edits, crashes, failures,
                 resolves>>

(* Everything that the cloud has and the device does not.  A repeated      *)
(* delivery brings nothing new: what it brought is in the journal.         *)
ReceiveAll(d) ==
  LET new == {c \in cloud : Missing(d, c)} IN
  /\ Receive(d, new, UNION {Revisions(c) : c \in new}, UNION {Contents(c) : c \in new})
  /\ UNCHANGED partials

(* Some of the parts of one commit. *)
ReceiveSome(d) ==
  /\ partials < MaxPartials
  /\ partials' = partials + 1
  /\ \E c \in cloud :
       \E commits \in SUBSET ({c} \ manifests[d]), revs \in SUBSET (Revisions(c) \ known[d]),
          objs \in SUBSET (Contents(c) \ objects[d]) :
         Receive(d, commits, revs, objs)

---------------------------------------------------------------------------
(* ProjectionApplicator *)

Plan(d) == CHOOSE heads \in intent[d] : TRUE
PlanDoc(d, e) == log[Plan(d)[e]][e].doc

(* recover_pending() starts: without an intent there is nothing to do, and *)
(* without all objects nothing is done.                                    *)
RecoverPending(d) ==
  /\ pc[d] = "recover"
  /\ IF intent[d] = {}
       THEN GoTo(d, "plan") /\ UNCHANGED <<task, left, failures>>
     ELSE IF \A e \in DOMAIN Plan(d) \cap Secrets : PlanDoc(d, e).content \in objects[d]
       THEN /\ GoTo(d, "store")
            /\ left' = [left EXCEPT ![d] = {e \in DOMAIN Plan(d) \cap Secrets : PlanDoc(d, e).live}]
            /\ UNCHANGED <<task, failures>>
       ELSE /\ Finish(d)
            /\ failures' = 1
            /\ UNCHANGED left
  /\ UNCHANGED <<graphVars, docVars, objects, inbox, planVars, cloud, edits, crashes, resolves, partials>>

(* settle_inbound_batch() of what ready_inbound() returns. *)
SettleInbound(d) == inbox' = [inbox EXCEPT ![d] = @ \ Ready(d)]

(* projection_records() and prepare_projection(): nothing is projected     *)
(* while an entity has two heads, and only one intent may be pending.      *)
Project(d) ==
  /\ pc[d] = "plan"
  /\ LET H == Heads(d)
         head == HeadMap(H)
     IN  IF \/ Conflicts(H) # {} \/ Tracked(H) = {}
            \/ (head \notin checkpoint[d] /\ ~(intent[d] \subseteq {head}))
           THEN Finish(d) /\ UNCHANGED <<inbox, intent>>
         ELSE IF head \in checkpoint[d]
           THEN /\ Finish(d)
                /\ IF task[d] = "inbound" THEN SettleInbound(d) ELSE UNCHANGED inbox
                /\ UNCHANGED intent
           ELSE /\ intent' = [intent EXCEPT ![d] = {head}]
                /\ GoTo(d, "recover")
                /\ task' = [task EXCEPT ![d] = IF @ = "inbound" THEN "project" ELSE @]
                /\ UNCHANGED inbox
  /\ UNCHANGED <<graphVars, docVars, objects, checkpoint, left, cloud, bounds>>

(* The entities in E now hold what the plan wants, those it does not name  *)
(* nothing.                                                                *)
Write(d, E) ==
  LET planned == E \cap DOMAIN Plan(d) IN
  /\ local' = [local EXCEPT ![d] =
       [e \in Entities |-> IF e \in planned THEN Value(PlanDoc(d, e)) ELSE IF e \in E THEN 0 ELSE @[e]]]
  /\ shown' = [shown EXCEPT ![d] =
       [e \in Entities |-> IF e \in planned THEN Plan(d)[e] ELSE IF e \in E THEN 0 ELSE @[e]]]
  /\ edited' = [edited EXCEPT ![d] = @ \ E]
  /\ UNCHANGED <<graphVars, blocked, objects, inbox, cloud, bounds>>

(* apply_store_heads(): one active secret after the other. *)
ApplyStoreHead(d, e) ==
  /\ pc[d] = "store"
  /\ e \in left[d]
  /\ Write(d, {e})
  /\ left' = [left EXCEPT ![d] = @ \ {e}]
  /\ UNCHANGED <<planVars, pc, task>>

(* apply_replicated_catalog(): one transaction, which also deletes the     *)
(* rows that the plan does not name.                                       *)
ApplyCatalog(d) ==
  /\ pc[d] = "store"
  /\ left[d] = {}
  /\ Write(d, Entities \ Secrets)
  /\ GoTo(d, "archive")
  /\ UNCHANGED <<planVars, task, left>>

ApplyArchives(d) ==
  /\ pc[d] = "archive"
  /\ Write(d, {e \in DOMAIN Plan(d) \cap Secrets : ~PlanDoc(d, e).live})
  /\ GoTo(d, "complete")
  /\ UNCHANGED <<planVars, task, left>>

(* complete_projection(); recovery goes on to project, a projection of     *)
(* apply_inbound() goes on to settle.                                      *)
CompleteProjection(d) ==
  /\ pc[d] = "complete"
  /\ checkpoint' = [checkpoint EXCEPT ![d] = intent[d]]
  /\ intent' = [intent EXCEPT ![d] = {}]
  /\ IF task[d] = "inbound" THEN GoTo(d, "plan")
     ELSE IF task[d] = "project" THEN GoTo(d, "settle") ELSE GoTo(d, "idle")
  /\ task' = [task EXCEPT ![d] = IF @ = "resolve" THEN "none" ELSE @]
  /\ UNCHANGED <<graphVars, docVars, objects, inbox, left, cloud, bounds>>

Settle(d) ==
  /\ pc[d] = "settle"
  /\ SettleInbound(d)
  /\ Finish(d)
  /\ UNCHANGED <<graphVars, docVars, objects, planVars, left, cloud, bounds>>

(* resolve_conflict(): the chosen document becomes a child of all heads.   *)
(* Nothing is captured first.                                              *)
Resolve(d) ==
  /\ pc[d] = "idle" /\ resolves < MaxResolves
  /\ LET H == Heads(d) IN
     \E e \in Conflicts(H) : \E c \in H[e] :
       /\ Queue(d, [x \in {e} |-> [doc |-> log[c][e].doc, parents |-> H[e], base |-> c, by |-> "resolve"]])
       /\ IF Conflicts(H) = {e}
            THEN GoTo(d, "plan") /\ task' = [task EXCEPT ![d] = "resolve"]
            ELSE UNCHANGED <<pc, task>>
  /\ resolves' = resolves + 1
  /\ blocked' = blocked \cup {d}
  /\ UNCHANGED <<local, shown, edited, objects, inbox, planVars, left, cloud, edits, crashes, failures,
                 partials>>

(* The daemon stops in the middle of an operation and starts again. *)
Crash(d) ==
  /\ pc[d] # "idle" /\ crashes < MaxCrashes
  /\ crashes' = crashes + 1
  /\ Finish(d)
  /\ left' = [left EXCEPT ![d] = {}]
  /\ UNCHANGED <<graphVars, docVars, objects, inbox, planVars, cloud, edits, failures, resolves, partials>>

---------------------------------------------------------------------------
OperationStep(d) ==
  \/ ReceiveAll(d) \/ ReceiveSome(d) \/ RecoverPending(d) \/ Project(d)
  \/ \E e \in Entities : ApplyStoreHead(d, e)
  \/ ApplyCatalog(d) \/ ApplyArchives(d) \/ CompleteProjection(d) \/ Settle(d)

UserStep(d) ==
  \/ \E m \in Mutations : Edit(d, m) \/ EditAndCrash(d, m)
  \/ Resolve(d)

TransportStep(d) == CaptureState(d) \/ Save(d) \/ SettleOutbound(d) \/ BeginInbound(d)

Next == \E d \in Devices : OperationStep(d) \/ UserStep(d) \/ TransportStep(d) \/ Crash(d)

Spec == Init /\ [][Next]_syncVars

---------------------------------------------------------------------------
(* Properties. *)

Doc == [content : Nat \ {0}, live : BOOLEAN]
Revision == [doc : Doc, parents : SUBSET Nat, base : Nat, by : {"capture", "resolve"}]
Labels == {"idle", "receive", "recover", "plan", "store", "archive", "complete", "settle"}

(* The types.  An operation writes only under an intent, and the outbox of *)
(* a device holds commits that it has.                                     *)
TypeOK ==
  /\ \A c \in Commits : Changes(c) \subseteq Entities /\ \A e \in Changes(c) : log[c][e] \in Revision
  /\ local \in [Devices -> [Entities -> Nat]]
  /\ objects \in [Devices -> SUBSET Nat]
  /\ known \in [Devices -> SUBSET (Entities \X Nat)]
  /\ manifests \in [Devices -> SUBSET Nat]
  /\ \A d \in Devices : \A i \in DOMAIN outbox[d] : outbox[d][i] \in manifests[d]
  /\ \A d \in Devices : inbox[d] \subseteq manifests[d]
  /\ \A d \in Devices : Cardinality(intent[d]) <= 1 /\ Cardinality(checkpoint[d]) <= 1
  /\ pc \in [Devices -> Labels]
  /\ task \in [Devices -> {"none", "inbound", "project", "resolve"}]
  /\ left \in [Devices -> SUBSET Secrets]
  /\ cloud \subseteq Commits
  /\ shown \in [Devices -> [Entities -> Nat]]
  /\ overtaken \subseteq Devices /\ blocked \subseteq Devices
  /\ edited \in [Devices -> SUBSET Entities]
  /\ \A d \in Devices : pc[d] \in {"store", "archive", "complete"} => intent[d] # {}

AtRest(d) == pc[d] = "idle" /\ intent[d] = {}

(* "Applying the unaffected entities would violate a transaction": what a  *)
(* device shows when no projection is pending is the state of a set of     *)
(* whole commits, closed under parents, without concurrent heads.  A crash *)
(* in the middle of a projection changes nothing about this, unless the    *)
(* device queues a commit before the projection is finished.               *)
ShowsWholeCommits ==
  \A d \in Devices \ overtaken : AtRest(d) =>
    \E S \in SUBSET manifests[d] :
      /\ Complete(S)
      /\ \A e \in Entities : Tips(S, e) = {shown[d][e]} \ {0}

(* While nothing has crashed or failed, a captured revision is a child of  *)
(* the revision that the device showed: nobody overwrites what the device  *)
(* did not show.                                                           *)
CapturesBuildOnShown ==
  crashes = 0 /\ failures = 0 =>
    \A c \in Commits : \A e \in Changes(c) :
      log[c][e].parents # {} => log[c][e].base \in log[c][e].parents

(* A projection replaces a document only if the user's edits of it are in  *)
(* a captured revision, even if the daemon stopped before it captured      *)
(* them, unless a conflict has blocked captures.                           *)
EditsAreCapturedFirst ==
  [][\A d \in Devices : \A e \in Entities :
       local'[d][e] # local[d][e] /\ pc[d] # "idle" =>
         e \notin edited[d] \/ d \in blocked]_syncVars

Clean(d) ==
  AtRest(d) /\ outbox[d] = <<>> /\ inbox[d] = {} /\ Conflicts(Heads(d)) = {} /\ edited[d] = {}

(* Devices whose status is clean, and that have received everything, show  *)
(* the same.                                                               *)
CleanDevicesAgree ==
  (\A d \in Devices : Clean(d) /\ \A c \in cloud : ~Missing(d, c)) =>
    \A d, b \in Devices : local[d] = local[b]

(* Devices exchange whole commits: each shows a closed set of them, builds *)
(* on what it showed, captures edits before it projects over them, and     *)
(* agrees with the others when all is delivered.                           *)
DevicesShareCommits ==
  /\ [](TypeOK /\ ShowsWholeCommits /\ CapturesBuildOnShown /\ CleanDevicesAgree)
  /\ EditsAreCapturedFirst

(* "It emits complete entity state only for actual changes": a captured    *)
(* revision differs from the one that the device showed.                   *)
CapturesAreChanges ==
  \A c \in Commits : \A e \in Changes(c) :
    log[c][e].by = "capture" /\ log[c][e].base # 0 => log[c][e].doc # log[log[c][e].base][e].doc
=============================================================================
