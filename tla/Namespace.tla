----------------------------- MODULE Namespace -----------------------------
(***************************************************************************)
(* The dynamic namespaces of the mount (floria-fs): items/<id>/<name>,     *)
(* surfaces/<id> and secrets/<id> over the store and the surface registry. *)
(*                                                                         *)
(* The kernel's lookup, getattr and readdir run on the event loop, one at  *)
(* a time; an open resolves its inode on a pool thread.  Every thread      *)
(* reads the store, the registry and the shared inventory cache one access *)
(* at a time, while the control plane writes the store and replaces the    *)
(* registry.                                                               *)
(***************************************************************************)
EXTENDS Naturals

CONSTANTS
  Secrets,      \* ids of stored secrets
  Surfaces,     \* ids of file surfaces, numbers: the registry lists them in order
  Names,        \* base names of source paths
  Loop, Workers,  \* the event loop, and the threads of the pool
  Absent, Hidden, \* no such record; a managed value, without a source path
  Composed,     \* the backing of a composed surface
  FirstIno,     \* the first inode after the static tree
  MaxChanges,   \* bound on the changes of the store and of the registry
  MaxInos       \* bound on the inodes allocated

ASSUME IdsAssumption ==
  /\ Surfaces \subseteq Nat /\ Secrets \cap Surfaces = {}
  /\ {Absent, Hidden} \cap Names = {}
  /\ {Absent, Composed} \cap (Secrets \cup Surfaces) = {}
ASSUME FirstInoAssumption == FirstIno \in Nat \ {0}

Threads == Workers \cup {Loop}
Ids == Secrets \cup Surfaces

(* A name the mount can give an inode: the directory and the file of a     *)
(* managed item, a surface, a secret.                                      *)
Keys == ({"dir", "file"} \X Ids) \cup ({"surfaces"} \X Surfaces) \cup ({"secrets"} \X Secrets)
ASSUME AbsentAssumption == Absent \notin Keys

(* A registry is finite: among some of its surfaces there is a last one.   *)
ASSUME SurfacesAssumption ==
  \A fs \in SUBSET Surfaces : fs # {} => \E g \in fs : \A h \in fs : h <= g

(* A published surface: the managed item it is, the secret behind a direct *)
(* env file, and its base name.                                            *)
Plans(f) ==
  {p \in [item : Secrets \cup {f}, backing : Secrets \cup {Composed}, name : Names] :
     p.backing \in Secrets => p.item \in {f, p.backing}}

VARIABLES
  store,        \* the record of each secret: its base name, Hidden or Absent
  registry,     \* the plan of each surface, or Absent
  inventory,    \* ItemsNs::inventory: the item cached for each id, or Absent
  inoOf,        \* the inode of each key, 0 before it is allocated
  nextIno,      \* the counter the namespaces share
  call,         \* what each thread does
  answered,     \* the call that the last step answered, if it answered one
  changes

namespaceVars == <<store, registry, inventory, inoOf, nextIno, call, answered, changes>>

-----------------------------------------------------------------------------
(* Items. *)

Exposed(records) == {s \in Secrets : records[s] \in Names}
Listed(plans) == {f \in Surfaces : plans[f] # Absent}
ConfiguredIds(plans) == {plans[f].item : f \in Listed(plans)} \cap Secrets

(* The registry of a catalog snapshot. *)
Registries ==
  {r \in [Surfaces -> UNION {Plans(f) : f \in Surfaces} \cup {Absent}] :
     \A f \in Listed(r) : r[f] \in Plans(f)}

SurfaceItem(f, plans) == [id |-> plans[f].item, name |-> plans[f].name, back |-> f]
SecretItem(s, records) == [id |-> s, name |-> records[s], back |-> s]

(* ItemsNs::list: of two surfaces that are one item the last one listed    *)
(* wins, and a surface wins over the raw secret of its item.               *)
ItemsOf(plans, records) ==
  {SurfaceItem(f, plans) : f \in {g \in Listed(plans) :
       \A h \in Listed(plans) : plans[h].item = plans[g].item => h <= g}}
    \cup {SecretItem(s, records) : s \in Exposed(records) \ ConfiguredIds(plans)}

(* A call: the inode or the id it is about and the key the kernel got the  *)
(* inode for, what it has read, and what it answers.  The last four fields *)
(* are history: the stores and registries there were during the call, the  *)
(* items that lost a surface meanwhile, and whether a read failed.         *)
NoCall == [op |-> "none", pc |-> "idle", ino |-> 0, want |-> Absent, name |-> Absent,
           asked |-> Absent, held |-> Absent, plan |-> Absent, plans |-> Absent,
           items |-> {}, left |-> {}, via |-> Absent, reply |-> "none",
           stores |-> {}, registries |-> {}, withdrawn |-> {}, failed |-> FALSE]

(* The key a namespace's inode map holds an inode for. *)
KeysAt(ino, kinds) == {k \in Keys : k[1] \in kinds /\ inoOf[k] = ino /\ ino # 0}

NamespaceInit ==
  /\ store \in [Secrets -> Names \cup {Hidden, Absent}]
  /\ registry \in Registries
  /\ inventory = [i \in Ids |-> Absent]
  /\ inoOf = [k \in Keys |-> 0]
  /\ nextIno = FirstIno
  /\ call = [t \in Threads |-> NoCall]
  /\ answered = NoCall
  /\ changes = 0

-----------------------------------------------------------------------------
(* The control plane. *)

Withdrawn(old, new) == {old[f].item : f \in {g \in Listed(old) : new[g] # old[g]}}

Witnessed(st, reg) ==
  /\ call' = [t \in Threads |->
                IF call[t].pc = "idle" THEN NoCall
                ELSE [call[t] EXCEPT !.stores = @ \cup {st}, !.registries = @ \cup {reg},
                                     !.withdrawn = @ \cup Withdrawn(registry, reg)]]
  /\ answered' = NoCall

(* The store gains, changes or loses a record. *)
ChangeStore ==
  /\ changes < MaxChanges
  /\ \E s \in Secrets, r \in Names \cup {Hidden, Absent} :
       /\ r # store[s]
       /\ store' = [store EXCEPT ![s] = r]
  /\ changes' = changes + 1
  /\ Witnessed(store', registry)
  /\ UNCHANGED <<registry, inventory, inoOf, nextIno>>

(* SurfaceRegistry::replace: all the plans of a catalog snapshot at once.  *)
ReplaceRegistry ==
  /\ changes < MaxChanges
  /\ registry' \in Registries \ {registry}
  /\ changes' = changes + 1
  /\ Witnessed(store, registry')
  /\ UNCHANGED <<store, inventory, inoOf, nextIno>>

-----------------------------------------------------------------------------
(* The kernel's calls. *)

Goto(t, c) ==
  IF c.reply = "none" THEN call' = [call EXCEPT ![t] = c] /\ answered' = NoCall
  ELSE call' = [call EXCEPT ![t] = NoCall] /\ answered' = c
OnlyCalls == UNCHANGED <<store, registry, inventory, inoOf, nextIno, changes>>
Step(t, c) == Goto(t, c) /\ OnlyCalls
At(t, pc) == call[t].pc = pc

Answer(c, reply) == [c EXCEPT !.reply = reply]

Begin(t, c) ==
  /\ At(t, "idle")
  /\ Step(t, [c EXCEPT !.stores = {store}, !.registries = {registry}])

Request(op, pc, want) == [NoCall EXCEPT !.op = op, !.pc = pc, !.want = want]

(* lookup() of a name in one of the directories. *)
Lookup ==
  \/ \E i \in Ids : Begin(Loop, Request("lookup_dir", "get", i))
  \/ \E i \in Ids, n \in Names :
       /\ inoOf[<<"dir", i>>] # 0
       /\ Begin(Loop, [Request("lookup_file", "get", i) EXCEPT !.name = n])
  \/ \E f \in Surfaces : Begin(Loop, Request("lookup_surface", "surface", f))
  \/ \E s \in Secrets : Begin(Loop, Request("lookup_secret", "secret", s))

(* readdir() of one of the directories. *)
Readdir ==
  \/ Begin(Loop, Request("readdir_items", "list", Absent))
  \/ \E i \in Ids : inoOf[<<"dir", i>>] # 0 /\ Begin(Loop, Request("readdir_item", "get", i))
  \/ Begin(Loop, Request("readdir_surfaces", "surfaces", Absent))
  \/ Begin(Loop, Request("readdir_secrets", "secrets", Absent))

(* getattr() on the event loop, and an open on a pool thread, of an inode  *)
(* the kernel has for the key k: an inode of an item's file names the item *)
(* to get, any other one falls through to the legacy namespaces.  (The     *)
(* inode of an item's directory is answered without reading anything.)     *)
OnInode(t, op) ==
  \E k \in {k \in Keys : k[1] # "dir" /\ inoOf[k] # 0} :
    LET files == KeysAt(inoOf[k], {"file"})
        c == [Request(op, "legacy", Absent) EXCEPT !.ino = inoOf[k], !.asked = k] IN
    IF files = {} THEN Begin(t, c)
    ELSE \E x \in files : Begin(t, [c EXCEPT !.pc = "get", !.want = x[2]])
Getattr == OnInode(Loop, "getattr")
Open(t) == OnInode(t, "open")

-----------------------------------------------------------------------------
(* ItemsNs::get, one access of the shared state at a time. *)

(* A read of the store may fail; the callers go on without the records. *)
Records(failed) == IF failed THEN [s \in Secrets |-> Absent] ELSE store
Noting(c, failed) == [c EXCEPT !.failed = @ \/ failed]

Get(t) ==
  LET c == call[t] IN
  /\ At(t, "get")
  /\ Step(t, IF inventory[c.want] = Absent THEN [c EXCEPT !.pc = "list"]
             ELSE [c EXCEPT !.pc = "current", !.held = inventory[c.want]])

(* current_item: the cached item against the live registry, or against the *)
(* store and then the registry.                                            *)
CurrentSurface(t) ==
  LET c == call[t]
      f == c.held.back IN
  /\ At(t, "current") /\ f \in Surfaces
  /\ Step(t, IF f \in Listed(registry) /\ registry[f].item = c.held.id
             THEN [c EXCEPT !.pc = "found", !.held = SurfaceItem(f, registry)]
             ELSE [c EXCEPT !.pc = "remove", !.held = Absent])

CurrentRecord(t) ==
  LET c == call[t]
      s == c.held.back IN
  /\ At(t, "current") /\ s \in Secrets
  /\ \E failed \in BOOLEAN :
       Step(t, IF s \in Exposed(Records(failed))
               THEN [c EXCEPT !.pc = "configured", !.held = SecretItem(s, store)]
               ELSE [Noting(c, failed) EXCEPT !.pc = "remove", !.held = Absent])

(* Mutant: a cached secret is served without a look at the registry. *)
CurrentConfiguredUnread(t) == At(t, "configured") /\ Step(t, [call[t] EXCEPT !.pc = "found"])

CurrentConfigured(t) ==
  LET c == call[t] IN
  /\ At(t, "configured")
  /\ Step(t, IF c.held.id \in ConfiguredIds(registry) THEN [c EXCEPT !.pc = "remove", !.held = Absent]
             ELSE [c EXCEPT !.pc = "found"])

Remove(t) ==
  /\ At(t, "remove")
  /\ inventory' = [inventory EXCEPT ![call[t].want] = Absent]
  /\ Goto(t, [call[t] EXCEPT !.pc = "list"])
  /\ UNCHANGED <<store, registry, inoOf, nextIno, changes>>

(* list: the registry, then the store, then a new inventory. *)
ListPlans(t) ==
  /\ At(t, "list")
  /\ Step(t, [call[t] EXCEPT !.pc = "records", !.plans = registry])

ListRecords(t) ==
  LET c == call[t] IN
  /\ At(t, "records")
  /\ \E failed \in BOOLEAN :
       LET items == ItemsOf(c.plans, Records(failed)) IN
       Step(t, [Noting(c, failed) EXCEPT !.pc = "clear", !.plans = Absent,
                                         !.items = items, !.left = items])

Clear(t) ==
  /\ At(t, "clear")
  /\ inventory' = [i \in Ids |-> Absent]
  /\ Goto(t, [call[t] EXCEPT !.pc = "insert"])
  /\ UNCHANGED <<store, registry, inoOf, nextIno, changes>>

Insert(t) ==
  LET c == call[t] IN
  /\ At(t, "insert")
  /\ \E x \in c.left :
       /\ inventory' = [inventory EXCEPT ![x.id] = x]
       /\ Goto(t, [c EXCEPT !.left = @ \ {x}])
  /\ UNCHANGED <<store, registry, inoOf, nextIno, changes>>

(* No item was found: an inode may still be one of a legacy namespace. *)
NotFound(c) ==
  IF c.op \in {"open", "getattr"} THEN [c EXCEPT !.pc = "legacy", !.items = {}] ELSE Answer(c, "enoent")

ListEnds(t) ==
  LET c == call[t]
      wanted == {x \in c.items : x.id = c.want} IN
  /\ At(t, "insert") /\ c.left = {}
  /\ \/ c.op = "readdir_items" /\ Step(t, [c EXCEPT !.pc = "dirs", !.left = c.items])
     \/ /\ c.op # "readdir_items" /\ wanted # {}
        /\ Step(t, [c EXCEPT !.pc = "found", !.held = CHOOSE x \in wanted : TRUE, !.items = {}])
     \/ c.op # "readdir_items" /\ wanted = {} /\ Step(t, NotFound(c))

-----------------------------------------------------------------------------
(* What the calls do with what they found. *)

(* Mutant: every namespace counts its inodes from the first one. *)
InoForOwn(k) ==
  IF inoOf[k] # 0 THEN UNCHANGED <<inoOf, nextIno>>
  ELSE /\ nextIno < FirstIno + MaxInos
       /\ inoOf' = [inoOf EXCEPT ![k] = IF \E l \in Keys : l[1] = k[1] /\ inoOf[l] # 0
                                        THEN nextIno ELSE FirstIno]
       /\ nextIno' = nextIno + 1

(* InoMap::ino_for. *)
InoFor(k) ==
  IF inoOf[k] # 0 THEN UNCHANGED <<inoOf, nextIno>>
  ELSE /\ nextIno < FirstIno + MaxInos
       /\ inoOf' = [inoOf EXCEPT ![k] = nextIno]
       /\ nextIno' = nextIno + 1

Naming(t, k, c) ==
  /\ InoFor(k)
  /\ Goto(t, c)
  /\ UNCHANGED <<store, registry, inventory, changes>>

(* An item was found. *)
LookupDir(t) ==
  /\ At(t, "found") /\ call[t].op = "lookup_dir"
  /\ Naming(t, <<"dir", call[t].want>>, Answer([call[t] EXCEPT !.via = "dir"], "entry"))

LookupFile(t) ==
  LET c == call[t] IN
  /\ At(t, "found") /\ c.op = "lookup_file"
  /\ IF c.name # c.held.name THEN Step(t, Answer(c, "enoent"))
     ELSE Naming(t, <<"file", c.held.id>>, [c EXCEPT !.pc = "item_attr"])

ReaddirItem(t) ==
  /\ At(t, "found") /\ call[t].op = "readdir_item"
  /\ Naming(t, <<"file", call[t].held.id>>, Answer([call[t] EXCEPT !.via = "file"], "entry"))

ReaddirDirs(t) ==
  LET c == call[t] IN
  /\ At(t, "dirs")
  /\ \/ \E x \in c.left : Naming(t, <<"dir", x.id>>, [c EXCEPT !.left = @ \ {x}])
     \/ c.left = {} /\ Step(t, Answer(c, "list"))

(* item_open_target: the plan of a surface is read again. *)
ItemOpenTarget(t) ==
  LET c == [call[t] EXCEPT !.via = "file"]
      f == c.held.back IN
  /\ At(t, "found") /\ c.op = "open"
  /\ Step(t, IF f \in Secrets THEN Answer(c, "target")
             ELSE IF registry[f] = Absent THEN Answer(c, "enoent")
             ELSE Answer([c EXCEPT !.plan = registry[f]], "target"))

(* surface_attr: a direct env file has the attributes of its secret. *)
SurfaceAttr(c, plan) ==
  IF plan.backing = Composed THEN Answer([c EXCEPT !.plan = plan], "attr")
  ELSE [c EXCEPT !.pc = "direct_attr", !.plan = plan]

(* item_file_attr. *)
ItemFileAttr(t) ==
  LET c == [call[t] EXCEPT !.via = "file"]
      b == c.held.back IN
  /\ At(t, "item_attr") \/ (At(t, "found") /\ c.op = "getattr")
  /\ \/ /\ b \in Surfaces
        /\ Step(t, IF registry[b] = Absent THEN Answer(c, "enoent") ELSE SurfaceAttr(c, registry[b]))
     \/ /\ b \in Secrets
        /\ \E failed \in BOOLEAN :
             Step(t, Answer(Noting(c, failed),
                            IF b \in Exposed(Records(failed)) THEN "attr" ELSE "enoent"))

DirectAttr(t) ==
  LET c == call[t] IN
  /\ At(t, "direct_attr")
  /\ \E failed \in BOOLEAN :
       Step(t, Answer(Noting(c, failed),
                      IF Records(failed)[c.plan.backing] = Absent THEN "enoent" ELSE "attr"))

(* The surfaces and the secrets of the legacy namespaces. *)
SurfaceHeld(c, f) == [c EXCEPT !.held = [id |-> f, name |-> Absent, back |-> f], !.via = "surfaces"]
SecretHeld(c, s) == [c EXCEPT !.held = SecretItem(s, store), !.via = "secrets"]

LegacySurface(t) ==
  LET c == call[t]
      fs == {k[2] : k \in KeysAt(c.ino, {"surfaces"})} IN
  /\ At(t, "legacy")
  /\ Step(t, IF fs = {} THEN [c EXCEPT !.pc = "legacy_secret"]
             ELSE LET f == CHOOSE f \in fs : TRUE IN
                  IF registry[f] = Absent
                  THEN IF c.op = "open" THEN [c EXCEPT !.pc = "legacy_secret"] ELSE Answer(c, "enoent")
                  ELSE IF c.op = "getattr" THEN SurfaceAttr(SurfaceHeld(c, f), registry[f])
                  ELSE Answer([SurfaceHeld(c, f) EXCEPT !.plan = registry[f]], "target"))

LegacySecret(t) ==
  LET c == call[t]
      ss == {k[2] : k \in KeysAt(c.ino, {"secrets"})} IN
  /\ At(t, "legacy_secret")
  /\ \E failed \in BOOLEAN :
       LET found == ss \cap Exposed(Records(failed)) IN
       Step(t, IF found = {} THEN Answer(Noting(c, failed), "enoent")
               ELSE Answer(SecretHeld(c, CHOOSE s \in found : TRUE),
                           IF c.op = "open" THEN "target" ELSE "attr"))

LookupSurface(t) ==
  LET c == call[t] IN
  /\ At(t, "surface")
  /\ IF registry[c.want] = Absent THEN Step(t, Answer(c, "enoent"))
     ELSE Naming(t, <<"surfaces", c.want>>, SurfaceAttr(SurfaceHeld(c, c.want), registry[c.want]))

LookupSecret(t) ==
  LET c == call[t] IN
  /\ At(t, "secret")
  /\ \E failed \in BOOLEAN :
       IF c.want \in Exposed(Records(failed))
       THEN Naming(t, <<"secrets", c.want>>, Answer(SecretHeld(c, c.want), "entry"))
       ELSE Step(t, Answer(Noting(c, failed), "enoent"))

(* readdir() of surfaces/ and of secrets/: what is listed, then an inode   *)
(* for each entry.                                                         *)
ReaddirLegacy(t) ==
  LET c == call[t] IN
  \/ At(t, "surfaces") /\ Step(t, [c EXCEPT !.pc = "entries", !.via = "surfaces", !.left = Listed(registry)])
  \/ /\ At(t, "secrets")
     /\ \E failed \in BOOLEAN :
          Step(t, [Noting(c, failed) EXCEPT !.pc = "entries", !.via = "secrets",
                                            !.left = Exposed(Records(failed))])
  \/ /\ At(t, "entries")
     /\ \/ \E i \in c.left : Naming(t, <<c.via, i>>, [c EXCEPT !.left = @ \ {i}])
        \/ c.left = {} /\ Step(t, Answer(c, "list"))

-----------------------------------------------------------------------------
Resolve(t) ==
  \/ Get(t) \/ CurrentSurface(t) \/ CurrentRecord(t) \/ CurrentConfigured(t) \/ Remove(t)
  \/ ListPlans(t) \/ ListRecords(t) \/ Clear(t) \/ Insert(t) \/ ListEnds(t)
  \/ ItemOpenTarget(t) \/ LegacySurface(t) \/ LegacySecret(t)

(* The event loop alone allocates inodes. *)
LoopStep ==
  \/ Lookup \/ Readdir \/ Getattr
  \/ LookupDir(Loop) \/ LookupFile(Loop) \/ ReaddirItem(Loop) \/ ReaddirDirs(Loop)
  \/ ItemFileAttr(Loop) \/ DirectAttr(Loop)
  \/ LookupSurface(Loop) \/ LookupSecret(Loop) \/ ReaddirLegacy(Loop)

NamespaceNext ==
  \/ ChangeStore \/ ReplaceRegistry
  \/ LoopStep
  \/ \E t \in Workers : Open(t)
  \/ \E t \in Threads : Resolve(t)

NamespaceSpec == NamespaceInit /\ [][NamespaceNext]_namespaceVars

-----------------------------------------------------------------------------
(* An inode names one thing for the life of the mount: no two keys of the  *)
(* three namespaces share an inode or one of the static tree               *)
(* (InoMap::ino_for), and what an open of an inode resolves to is what     *)
(* the kernel got the inode for, even when that is gone and the inode      *)
(* falls through the other namespaces (resolve_open_target).               *)
InodesNameOneThing ==
  /\ \A k, l \in Keys : inoOf[k] # 0 /\ inoOf[k] = inoOf[l] => k = l
  /\ \A k \in Keys : inoOf[k] # 0 => inoOf[k] >= FirstIno
  /\ answered.reply = "target" => answered.asked = <<answered.via, answered.held.id>>

(* The inventory is a cache and never an authority: what a call answers    *)
(* was published while the call ran.  A surface was in the registry; a raw *)
(* secret was an exposed record, and one reached through items/ was not    *)
(* the backing of a configured file during the whole call.                 *)
WasLive(c, x) ==
  IF x.back \in Surfaces THEN \E r \in c.registries : x.back \in Listed(r)
  ELSE /\ \E s \in c.stores : x.back \in Exposed(s)
       /\ c.via # "secrets" => \E r \in c.registries : x.back \notin ConfiguredIds(r)

AnswersWereLive ==
  /\ answered.reply \in {"target", "entry", "attr"} => WasLive(answered, answered.held)
  /\ answered.reply = "list" => \A x \in answered.items : WasLive(answered, x)

(* Configuring a protected file as an env file keeps its managed item: an  *)
(* open or getattr of the item's file fails only if a read of the store    *)
(* failed, the record was not there for a moment, or a surface of the item *)
(* was withdrawn or changed during the call.                               *)
ConfiguringKeepsItems ==
  LET c == answered IN
  (c.reply = "enoent" /\ ~c.failed /\ c.asked \in {"file"} \X (Secrets \ c.withdrawn))
    => \E s \in c.stores : c.asked[2] \notin Exposed(s)

(* What a call answers from the inventory is neither out of date nor short *)
(* of an item that was there throughout.                                   *)
AnswersAreCurrent == AnswersWereLive /\ ConfiguringKeepsItems
=============================================================================
