-------------------------- MODULE DiscoveryImport --------------------------
(***************************************************************************)
(* Commands that write the catalog, the encrypted store and the project    *)
(* tree together: applying a reviewed discovery, configuring a managed     *)
(* file, restoring files, and the commands on shared secrets and SSH       *)
(* identities.  None of the three backends can undo the others, so each    *)
(* command orders its writes and undoes what it did when one fails.        *)
(*                                                                         *)
(* Commands run under the mutation gate, one at a time.  Other programs    *)
(* save files at any moment, any write can fail, and the daemon can end    *)
(* between two writes.  A file is its token (a secret value) and whether   *)
(* it has further plain values; a private key is a token.  Putting one     *)
(* file under protection is a single step (ProtectedFiles has its steps).  *)
(***************************************************************************)
EXTENDS Integers, FiniteSets

CONSTANTS
  EnvFiles,      \* discovered files made of keys and values
  KeyFiles,      \* discovered private keys
  OtherKeys,     \* the private keys that are not SSH keys
  Unsupported,   \* key-value files with content discovery cannot represent
  OutputPaths,   \* further paths a Project Output can be placed at
  Folder,        \* the project folder of each path
  Tokens,        \* secret values
  Menu,          \* the requests a review may make for each file
  MaxFiles,      \* files of one review
  Absent,        \* nothing at a path, no token, no file
  Saves,         \* what other programs may save: a path and a content
  MaxCommands, MaxSaves, MaxFaults   \* bounds (the end of the daemon is a fault)

Discovered == EnvFiles \cup KeyFiles
AllPaths == Discovered \cup OutputPaths
Folders == {Folder[p] : p \in AllPaths}
Contents == [token : Tokens, plain : BOOLEAN]

ASSUME ImportConstants ==
  /\ OtherKeys \subseteq KeyFiles
  /\ Unsupported \subseteq EnvFiles
  /\ Absent \notin AllPaths /\ Absent \notin Tokens

VARIABLES
  tree,          \* what is at each path
  backups,       \* what was moved aside at each path and not removed
  secrets,       \* the encrypted store: id to content
  table,         \* the catalog, and the store's file records (items)
  command,       \* the command in progress
  serial,        \* ids generated so far
  tally,         \* bounds left: commands, saves, faults
  written,       \* history: the content each file should have
  racy,          \* history: files saved while a command was changing them
  owned,         \* history: rows that commands reported
  marred         \* history: a rollback failed, or the daemon ended in a command

importVars == <<tree, backups, secrets, table, command, serial, tally,
                written, racy, owned, marred>>

-----------------------------------------------------------------------------
(* Paths and rows                                                          *)

FileAt(c) == [is |-> "file", of |-> c]
LinkTo(s) == [is |-> "surface", of |-> s]
ItemAt(i) == [is |-> "item", of |-> i]
Nothing == [is |-> "absent", of |-> Absent]

Less(f, ids) == [x \in DOMAIN f \ ids |-> f[x]]
With(f, id, row) == [x \in DOMAIN f \cup {id} |-> IF x = id THEN row ELSE f[x]]

\* What reading a composed surface yields.
Rendered(s, t, store) ==
  LET values == {store[t.resources[t.bindings[b]].secret] : b \in t.surfaces[s].bindings}
  IN {[token |-> v.token, plain |-> \E w \in values : w.plain] :
        v \in {x \in values : x.token # Absent}}

\* What reading a path yields.
ValuesOf(node, t, store) ==
  CASE node.is = "file" -> {node.of}
    [] node.is = "item" /\ node.of \in DOMAIN store -> {store[node.of]}
    [] node.is = "surface" /\ node.of \in DOMAIN t.surfaces -> Rendered(node.of, t, store)
    [] OTHER -> {}

\* Removing a binding takes it out of surfaces, removing an environment takes
\* its surfaces and bindings, and a bound resource stays.
WithoutSurfaces(t, gone) == [t EXCEPT !.surfaces = Less(@, gone)]
WithoutBindings(t, gone) ==
  [t EXCEPT !.bindings = Less(@, gone),
            !.surfaces = [s \in DOMAIN @ |-> [@[s] EXCEPT !.bindings = @ \ gone]]]
WithoutEnvironments(t, gone) ==
  LET surfaces == {s \in DOMAIN t.surfaces : t.surfaces[s].environment \in gone}
      bindings == UNION {t.surfaces[s].bindings : s \in surfaces}
  IN [WithoutBindings(WithoutSurfaces(t, surfaces), bindings) EXCEPT !.environments = @ \ gone]
Bound(t, r) == \E b \in DOMAIN t.bindings : t.bindings[b] = r
WithoutResources(t, gone) == [t EXCEPT !.resources = Less(@, {r \in gone : ~Bound(t, r)})]

\* The rows of a catalog.
RowsOf(t) == DOMAIN t.resources \cup DOMAIN t.bindings \cup DOMAIN t.surfaces

\* Protected files whose record names a secret.
ItemPaths(i) == {p \in DOMAIN table.items : table.items[p] = i}
ResourcesOf(i) == {r \in DOMAIN table.resources : table.resources[r].secret = i}

-----------------------------------------------------------------------------
(* Commands, steps and failures                                            *)

Idle == [at |-> "idle"]
NoWork == [resources |-> {}, bindings |-> {}, environments |-> {}, surfaces |-> {}]

At(at) == command.at = at
Goes(at) == command' = [command EXCEPT !.at = at]
Spend(what) == tally' = [tally EXCEPT ![what] = @ - 1]
Fault == tally.faults > 0 /\ Spend("faults")

Unreported == UNCHANGED <<written, racy, owned, marred>>
Untouched == UNCHANGED <<tree, backups, secrets, table, serial>> /\ Unreported
OnlyTable == UNCHANGED <<tally, tree, backups, secrets, serial>> /\ Unreported

\* A write of the current step fails and has had no effect.
Fails(at) == Fault /\ Goes(at) /\ Untouched

\* A command's record: the files it scanned, the one it is working on, what
\* it made for that file, and where it is.
Task(at, file, request) ==
  [at |-> at, file |-> file, request |-> request, scanned |-> <<>>, review |-> <<>>,
   existing |-> {}, kept |-> {}, missing |-> {}, made |-> {}, succeeded |-> {},
   work |-> NoWork, used |-> {}, todo |-> {}, output |-> file, bound |-> {},
   pending |-> {}, surface |-> 0, aside |-> Nothing, secret |-> 0]
Starts(task) ==
  /\ command = Idle
  /\ tally.commands > 0
  /\ Spend("commands")
  /\ command' = task
  /\ Untouched

\* Paths a command is about to change.
Concerned ==
  IF command = Idle THEN {}
  ELSE {command.file} \cup DOMAIN command.scanned \cup command.todo \cup {command.output}

\* Another program saves a file where there is no managed link.
SaveFile(p, c) ==
  /\ tally.saves > 0
  /\ tree[p].is \in {"file", "absent"}
  /\ tree[p] # FileAt(c)
  /\ Spend("saves")
  /\ tree' = [tree EXCEPT ![p] = FileAt(c)]
  /\ written' = [written EXCEPT ![p] = c]
  /\ racy' = IF p \in Concerned THEN racy \cup {p} ELSE racy \ {p}
  /\ UNCHANGED <<backups, secrets, table, command, serial, owned, marred>>

\* The daemon ends.  Its next start makes the links of file surfaces where
\* nothing is in the way.
EndDaemon ==
  /\ command # Idle
  /\ Fault
  /\ command' = Idle
  /\ marred' = TRUE
  /\ owned' = owned \cup RowsOf(table)
  /\ LET shown == [p \in AllPaths |-> {s \in DOMAIN table.surfaces : table.surfaces[s].path = p}]
     IN tree' = [p \in AllPaths |->
          IF tree[p] = Nothing /\ shown[p] # {} THEN LinkTo(CHOOSE s \in shown[p] : TRUE)
          ELSE tree[p]]
  /\ UNCHANGED <<backups, secrets, table, serial, written, racy>>

-----------------------------------------------------------------------------
(* Reviewing and starting an import                                        *)

\* Where the content goes (the library, the file as it is, one output at its
\* path, several outputs), what becomes of the source, and how its token is
\* stored.
Requests(f) ==
  [to : {"library", "file", "output", "outputs"}, source : {"protect", "leave", "replace"},
   outputs : SUBSET ({f} \cup OutputPaths), as : {"shared", "separate", "plain"}]
Command == [to |-> "command", source |-> "leave", outputs |-> {}, as |-> "separate"]
ManagedCommand == [Command EXCEPT !.source = "protect"]
Configuration == [Command EXCEPT !.to = "configure", !.source = "replace"]

\* One output per project.
ValidOutputs(outputs) == \A o, p \in outputs : o # p => Folder[o] # Folder[p]

\* How a token is stored can be chosen for outputs of key-value files only.
ValidImport(f, r) ==
  /\ r.as # "shared" => r.to \in {"output", "outputs"}
  /\ \/ r.to = "file" /\ r.source = "protect" /\ r.outputs = {}
     \/ r.to = "library" /\ r.source \in {"protect", "leave"} /\ r.outputs = {}
     \/ r.to = "output" /\ f \in EnvFiles /\ r.source = "replace" /\ r.outputs = {f}
     \/ /\ r.to = "outputs" /\ f \in EnvFiles
        /\ r.outputs # {} /\ ValidOutputs(r.outputs)
        /\ (r.source = "replace") = (f \in r.outputs)

\* Folders that need a project before any file is applied.
ProjectTargets(f, r) ==
  CASE r.to = "library" -> {}
    [] r.to = "outputs" -> {Folder[o] : o \in r.outputs}
    [] OTHER -> {Folder[f]}

\* Shared secrets a token can be matched with.
ExistingSecrets ==
  {[resource |-> r, token |-> secrets[table.resources[r].secret].token] :
     r \in {x \in DOMAIN table.resources : table.resources[x].kind = "shared"}}

\* The files are read, and the review is checked against what was read.
ApplyDiscovery(reviewed) ==
  /\ \A f \in DOMAIN reviewed : tree[f].is = "file"
  /\ Starts([Task("project", Absent, Command) EXCEPT
       !.review = reviewed,
       !.scanned = [f \in DOMAIN reviewed |-> tree[f].of],
       !.existing = ExistingSecrets,
       !.missing = UNION {ProjectTargets(f, reviewed[f]) : f \in DOMAIN reviewed}
                     \ table.projects])

\* Projects are made one by one; an error ends the command.
EnsureProject ==
  /\ At("project")
  /\ IF command.missing = {} THEN Goes("file") /\ UNCHANGED tally /\ Untouched
     ELSE \/ \E folder \in command.missing :
               /\ table' = [table EXCEPT !.projects = @ \cup {folder}]
               /\ command' = [command EXCEPT !.missing = @ \ {folder},
                                             !.made = @ \cup {folder}]
               /\ OnlyTable
          \/ Fault /\ command' = Idle /\ Untouched

FirstStep(f, r) ==
  CASE f \in KeyFiles -> "identity"
    [] r.to = "file" -> "protect"
    [] f \in Unsupported /\ r.to # "library" -> "file"
    [] r.to = "output" -> "environment"
    [] OTHER -> "materialize"

\* The next file, with how the list of reusable secrets was before it.
NextFile ==
  /\ At("file")
  /\ UNCHANGED tally
  /\ Untouched
  /\ IF DOMAIN command.review = {} THEN Goes("cleanup")
     ELSE \E f \in DOMAIN command.review :
       LET r == command.review[f]
       IN command' = [Task(FirstStep(f, r), f, r) EXCEPT
            !.review = Less(command.review, {f}), !.scanned = command.scanned,
            !.existing = command.existing, !.kept = command.existing,
            !.made = command.made, !.succeeded = command.succeeded,
            !.todo = r.outputs]

\* The command is done, or its file is and the file's projects are kept.
Finished ==
  IF command.request.to \in {"command", "configure"} THEN Idle
  ELSE [command EXCEPT !.at = "file",
          !.succeeded = @ \cup ProjectTargets(command.file, command.request)]
IsCommand == command.request.to = "command"
Reported(t) == owned' = owned \cup RowsOf(t)

-----------------------------------------------------------------------------
(* Resources of a key-value file                                           *)

Scanned == command.scanned[command.file]
OriginsOf == {command.file} \ {Absent}
Reusable ==
  {e \in command.existing : command.request.as = "shared" /\ e.token = Scanned.token}

\* A new secret is stored under a new id, and its row comes in the next step.
Stores(content, at) ==
  /\ secrets' = With(secrets, serial + 1, content)
  /\ serial' = serial + 1
  /\ command' = [command EXCEPT !.secret = serial + 1, !.at = at]
  /\ UNCHANGED <<tally, tree, backups, table>> /\ Unreported

\* A token is reused when a shared secret has its value, kept with the plain
\* values when the review says so, and stored on its own otherwise.
MaterializeToken ==
  /\ At("materialize")
  /\ IF command.request.as = "plain" THEN Goes("plain") /\ UNCHANGED tally /\ Untouched
     ELSE \/ \E e \in Reusable :
               /\ table' = [table EXCEPT !.resources[e.resource].sources = @ \cup OriginsOf]
               /\ command' = [command EXCEPT !.used = {e.resource}, !.at = "plain"]
               /\ OnlyTable
          \/ Reusable = {} /\ Stores([token |-> Scanned.token, plain |-> FALSE], "token")
          \/ Fails("drop")

\* Creating the row of a stored secret; a refused row takes the secret along.
CreateRow(kind, at) ==
  LET r == serial + 1 IN
  \/ /\ table' = [table EXCEPT !.resources = With(@, r,
          [secret |-> command.secret, kind |-> kind, sources |-> OriginsOf, managed |-> {}])]
     /\ serial' = r
     /\ command' = [command EXCEPT
          !.at = at, !.used = @ \cup {r},
          !.work.resources = IF kind = "identity" /\ ~IsCommand THEN @ ELSE @ \cup {r},
          !.existing = IF kind = "shared" /\ command.request.as = "shared"
                       THEN @ \cup {[resource |-> r, token |-> Scanned.token]} ELSE @]
     /\ owned' = IF kind = "identity" THEN owned \cup {r} ELSE owned
     /\ UNCHANGED <<tally, tree, backups, secrets, written, racy, marred>>
  \/ /\ Fault /\ Goes("drop")
     /\ secrets' = Less(secrets, {command.secret})
     /\ UNCHANGED <<tree, backups, table, serial>> /\ Unreported
CreateToken == At("token") /\ CreateRow("shared", "plain")
CreatePlain == At("rest") /\ CreateRow("env", "bind")

\* The remaining entries become one env file.
MaterializePlain ==
  LET apart == command.request.as # "plain"
      rest == [token |-> IF apart THEN Absent ELSE Scanned.token, plain |-> Scanned.plain]
  IN /\ At("plain")
     /\ IF apart /\ ~Scanned.plain THEN Goes("bind") /\ UNCHANGED tally /\ Untouched
        ELSE Stores(rest, "rest") \/ Fails("drop")

-----------------------------------------------------------------------------
(* Outputs                                                                 *)

\* A single output makes its environment before the resources, several make
\* theirs as they are placed.
EnsureEnvironment ==
  LET e == Folder[command.output]
      next == CASE command.request = Configuration -> "adopt"
                [] command.used = {} -> "materialize"
                [] OTHER -> "place"
  IN /\ At("environment")
     /\ IF e \in table.environments THEN Goes(next) /\ UNCHANGED tally /\ Untouched
        ELSE \/ /\ table' = [table EXCEPT !.environments = @ \cup {e}]
                /\ command' = [command EXCEPT !.at = next, !.work.environments = @ \cup {e}]
                /\ OnlyTable
             \/ Fails("drop")

\* Outputs are placed in any order, but the source is replaced at the end.
NextOutput ==
  /\ At("bind")
  /\ UNCHANGED tally
  /\ IF IsCommand
     THEN /\ command' = Idle
          /\ Reported(table)
          /\ UNCHANGED <<tree, backups, secrets, table, serial, written, racy, marred>>
     ELSE /\ IF command.request.to = "output" /\ command.pending = {} THEN Goes("place")
             ELSE IF command.todo # {}
             THEN \E o \in command.todo :
                    command' = [command EXCEPT !.at = "environment", !.output = o]
             ELSE IF command.pending # {}
             THEN command' = [command EXCEPT !.at = "aside", !.output = command.file,
                                             !.bound = command.pending]
             ELSE Goes("source")
          /\ Untouched

\* One binding for each resource, in the environment of the output; a further
\* output must not exist yet.
BindResources ==
  LET ids == serial + 1 .. serial + Cardinality(command.used)
      target == CHOOSE f \in [ids -> command.used] : {f[b] : b \in ids} = command.used
      isSource == command.output = command.file
  IN /\ At("place")
     /\ \/ /\ table' = [table EXCEPT !.bindings =
                [b \in DOMAIN @ \cup ids |-> IF b \in ids THEN target[b] ELSE @[b]]]
           /\ serial' = serial + Cardinality(ids)
           /\ command' = [command EXCEPT
                !.work.bindings = @ \cup ids, !.todo = @ \ {command.output}, !.bound = ids,
                !.pending = IF isSource THEN ids ELSE @,
                !.at = IF isSource THEN "bind"
                       ELSE IF tree[command.output] = Nothing THEN "surface" ELSE "drop"]
           /\ UNCHANGED <<tally, tree, backups, secrets>> /\ Unreported
        \/ Fails("drop")

IsSource == command.output = command.file

\* Replacing the source: it is renamed to a backup,
MoveAside ==
  /\ At("aside")
  /\ \/ /\ tree[command.file] # Nothing
        /\ backups' = [backups EXCEPT ![command.file] = @ \cup {tree[command.file]}]
        /\ tree' = [tree EXCEPT ![command.file] = Nothing]
        /\ command' = [command EXCEPT !.at = "surface", !.aside = tree[command.file]]
        /\ UNCHANGED <<tally, secrets, table, serial>> /\ Unreported
     \/ Fails("drop")

\* which is renamed back over whatever is there when a later step fails;
PutBack ==
  /\ tree' = [tree EXCEPT ![command.file] = command.aside]
  /\ backups' = [backups EXCEPT ![command.file] = @ \ {command.aside}]

\* its surface is written,
UpsertOutput ==
  /\ At("surface")
  /\ \/ /\ table' = [table EXCEPT !.surfaces = With(@, serial + 1,
             [environment |-> Folder[command.output], bindings |-> command.bound,
              path |-> command.output])]
        /\ serial' = serial + 1
        /\ command' = [command EXCEPT !.at = "link", !.surface = serial + 1]
        /\ UNCHANGED <<tally, tree, backups, secrets>> /\ Unreported
     \/ /\ Fault /\ Goes("drop")
        /\ IF IsSource THEN PutBack ELSE UNCHANGED <<tree, backups>>
        /\ UNCHANGED <<secrets, table, serial>> /\ Unreported

\* the link is made where nothing is, or the surface goes again (and whatever
\* stands at a further output); an error in reading the catalog undoes nothing;
LinkOutput ==
  /\ At("link")
  /\ \/ /\ tree[command.output] = Nothing
        /\ tree' = [tree EXCEPT ![command.output] = LinkTo(command.surface)]
        /\ command' = IF IsSource THEN [command EXCEPT !.at = "unlink"]
             ELSE [command EXCEPT !.at = "bind", !.work.surfaces = @ \cup {command.surface}]
        /\ UNCHANGED <<tally, backups, secrets, table, serial>> /\ Unreported
     \/ /\ IF tree[command.output] # Nothing THEN UNCHANGED tally ELSE Fault
        /\ table' = WithoutSurfaces(table, {command.surface})
        /\ IF IsSource THEN PutBack
           ELSE tree' = [tree EXCEPT ![command.output] = Nothing] /\ UNCHANGED backups
        /\ Goes("drop")
        /\ UNCHANGED <<secrets, serial>> /\ Unreported
     \/ /\ Fault /\ Goes("drop") /\ marred' = TRUE
        /\ UNCHANGED <<tree, backups, secrets, table, serial, written, racy, owned>>

\* and the backup is removed, or all of it is undone.
RemoveBackup ==
  /\ At("unlink")
  /\ \/ /\ backups' = [backups EXCEPT ![command.file] = @ \ {command.aside}]
        /\ command' = Finished
        /\ Reported(table)
        /\ UNCHANGED <<tally, tree, secrets, table, serial, written, racy, marred>>
     \/ /\ Fault /\ Goes("drop")
        /\ table' = WithoutSurfaces(table, {command.surface})
        /\ PutBack
        /\ UNCHANGED <<secrets, serial>> /\ Unreported

\* A source that no output replaces is protected or left.
DisposeSource ==
  /\ At("source")
  /\ IF command.request.source = "protect" THEN Goes("protect") /\ UNCHANGED owned
     ELSE command' = Finished /\ Reported(table)
  /\ UNCHANGED <<tally, tree, backups, secrets, table, serial, written, racy, marred>>

-----------------------------------------------------------------------------
(* Rolling back                                                            *)

\* Resources before the bindings that still refuse it.
UndoneResourcesFirst(t, work) ==
  WithoutEnvironments(WithoutBindings(WithoutResources(
    WithoutSurfaces(t, work.surfaces), work.resources), work.bindings), work.environments)

\* The guard removes surfaces, bindings, environments and resources in turn.
Undone(t, work) ==
  WithoutResources(WithoutEnvironments(WithoutBindings(
    WithoutSurfaces(t, work.surfaces), work.bindings), work.environments), work.resources)

\* Secrets of resources that are gone follow them, except for a configured
\* file, whose secret is the file's.
Discards(t) ==
  secrets' = IF command.request = Configuration THEN secrets
             ELSE Less(secrets, {table.resources[r].secret :
                         r \in command.work.resources \ DOMAIN t.resources})

RolledBackTo(existing) ==
  /\ command' = IF command.request.to \in {"command", "configure"} THEN Idle
                ELSE [command EXCEPT !.at = "file", !.existing = existing]
  /\ tree' = [p \in AllPaths |->
       IF tree[p].is = "surface" /\ tree[p].of \in command.work.surfaces THEN Nothing ELSE tree[p]]
  /\ UNCHANGED <<backups, serial, written, racy, owned>>

\* A removal that fails is logged and the others go on.
RollBack ==
  /\ At("drop")
  /\ \/ table' = Undone(table, command.work) /\ UNCHANGED <<tally, marred>>
     \/ /\ Fault /\ marred' = TRUE
        /\ \E part \in DOMAIN NoWork :
             table' = Undone(table, [command.work EXCEPT ![part] = {}])
  /\ Discards(table')
  /\ RolledBackTo(command.kept)

\* Projects made for the command that no file needs are removed; an error
\* leaves the others.
RemoveUnusedProjects ==
  /\ At("cleanup")
  /\ \E gone \in SUBSET (command.made \ command.succeeded) :
       /\ table' = [WithoutEnvironments(table, gone) EXCEPT !.projects = @ \ gone]
       /\ IF gone = command.made \ command.succeeded THEN UNCHANGED tally ELSE Fault
  /\ command' = Idle
  /\ UNCHANGED <<tree, backups, secrets, serial>> /\ Unreported

-----------------------------------------------------------------------------
(* Protecting in place, and private keys                                   *)

Identities == {r \in DOMAIN table.resources : table.resources[r].kind = "identity"}

\* Protecting stores what is at the path now, under the id of an earlier
\* protection of the path if there is one, and puts a link in its place.
ProtectInPlace ==
  /\ At("protect")
  /\ \/ /\ tree[command.file].is = "file"
        /\ LET known == command.file \in DOMAIN table.items
               i == IF known THEN table.items[command.file] ELSE serial + 1
           IN /\ secrets' = With(secrets, i, tree[command.file].of)
              /\ table' = [table EXCEPT !.items = With(@, command.file, i)]
              /\ tree' = [tree EXCEPT ![command.file] = ItemAt(i)]
              /\ serial' = IF known THEN serial ELSE i
              /\ IF command.request.to = "file" \/ command.used \cap Identities # {}
                 THEN /\ command' = [command EXCEPT !.secret = i,
                           !.at = IF command.request.to = "file" THEN "scope" ELSE "attach"]
                      /\ UNCHANGED owned
                 ELSE command' = Finished /\ Reported(table)
        /\ UNCHANGED <<tally, backups, written, racy, marred>>
     \/ /\ IF tree[command.file].is # "file" THEN UNCHANGED tally ELSE Fault
        /\ Goes("drop")
        /\ Untouched

\* The scope of the new item; an environment made for it is not tracked.
ScopeFile ==
  /\ At("scope")
  /\ table' = [table EXCEPT !.environments = @ \cup {Folder[command.file]}]
  /\ \/ /\ UNCHANGED tally
        /\ IF command.used = {} THEN command' = Finished /\ Reported(table)
           ELSE Goes("attach") /\ UNCHANGED owned
     \/ Fault /\ Goes("drop") /\ UNCHANGED owned
  /\ UNCHANGED <<tree, backups, secrets, serial, written, racy, marred>>

\* An identity remembers the item its file became; a failure restores the file
\* when a command made the item.
AttachManagedSource ==
  /\ At("attach")
  /\ \/ /\ table' = [table EXCEPT !.resources = [r \in DOMAIN @ |->
             IF r \in command.used THEN [@[r] EXCEPT !.managed = @ \cup {command.secret}] ELSE @[r]]]
        /\ command' = Finished
        /\ Reported(table)
        /\ UNCHANGED <<tally, tree, backups, secrets, serial, written, racy, marred>>
     \/ /\ Fault /\ Goes("drop")
        /\ IF IsCommand
           THEN /\ tree' = [tree EXCEPT ![command.file] = FileAt(secrets[command.secret])]
                /\ table' = [table EXCEPT !.items = Less(@, {command.file})]
                /\ secrets' = Less(secrets, {command.secret})
           ELSE UNCHANGED <<tree, table, secrets>>
        /\ UNCHANGED <<backups, serial>> /\ Unreported

\* An identity is known by a path it came from or by its key.
KnownIdentities ==
  {r \in Identities :
        \/ command.file \in table.resources[r].sources
        \/ /\ tree[command.file].is = "file"
           /\ secrets[table.resources[r].secret].token = tree[command.file].of.token}

AfterIdentity ==
  IF command.request.source = "protect" THEN "protect"
  ELSE IF IsCommand THEN "bind" ELSE "source"

\* A discovered key is imported once, and a key that is not an SSH key is
\* protected as a file; the command for one key always makes an identity.
ImportIdentity ==
  /\ At("identity")
  /\ \/ /\ ~IsCommand
        /\ \E r \in KnownIdentities :
             /\ table' = [table EXCEPT !.resources[r].sources = @ \cup {command.file}]
             /\ command' = [command EXCEPT !.used = {r}, !.at = AfterIdentity]
        /\ OnlyTable
     \/ /\ KnownIdentities = {} \/ IsCommand
        /\ tree[command.file].is = "file"
        /\ IF command.file \in OtherKeys
           THEN Goes(IF IsCommand THEN "drop" ELSE "protect") /\ UNCHANGED tally /\ Untouched
           ELSE Stores(tree[command.file].of, "key")
     \/ Fails("drop")
CreateIdentity == At("key") /\ CreateRow("identity", AfterIdentity)

ImportSshIdentity(p, manage) ==
  /\ tree[p].is = "file"
  /\ Starts(Task("identity", p, IF manage THEN ManagedCommand ELSE Command))

-----------------------------------------------------------------------------
(* Commands on one file or one resource                                    *)

\* The link of a composed file over one env file made from its path is the
\* link of that env file's item.
ManagedItem(s) ==
  LET surface == table.surfaces[s] IN
  {table.resources[r].secret :
     r \in {x \in DOMAIN table.resources :
              /\ table.resources[x].kind = "env"
              /\ surface.path \in table.resources[x].sources
              /\ \E b \in surface.bindings : surface.bindings = {b} /\ table.bindings[b] = x}}
OwnsLink(p) ==
  \/ tree[p] = ItemAt(table.items[p])
  \/ \E s \in DOMAIN table.surfaces : tree[p] = LinkTo(s) /\ table.items[p] \in ManagedItem(s)

\* A protected key-value file becomes a composed one over the same secret.
ConfigureManagedFile(p) ==
  /\ p \in EnvFiles \ Unsupported
  /\ p \in DOMAIN table.items
  /\ ResourcesOf(table.items[p]) = {}
  /\ OwnsLink(p)
  /\ Folder[p] \in table.projects
  /\ Starts([Task("environment", p, Configuration) EXCEPT !.secret = table.items[p]])

\* The row, then its binding.  A row that is refused ends the command.
AdoptItem ==
  /\ At("adopt")
  /\ LET r == serial + 1
         b == serial + 2
         made == [table EXCEPT
           !.resources = With(@, r, [secret |-> command.secret, kind |-> "env",
                                     sources |-> {command.file}, managed |-> {}]),
           !.bindings = With(@, b, r)]
     IN \/ /\ table' = made
           /\ serial' = b
           /\ command' = [command EXCEPT !.at = "aside", !.bound = {b},
                !.work.resources = {r}, !.work.bindings = {b}]
           /\ UNCHANGED <<tally, tree, backups, secrets>> /\ Unreported
        \/ Fault /\ (command' = Idle \/ Goes("drop")) /\ Untouched

Restorable(p) ==
  /\ p \in DOMAIN table.items
  /\ ResourcesOf(table.items[p]) = {}
  /\ OwnsLink(p)

\* The file is written in place of its link, then the record is deleted; an
\* error there leaves the record.
Restores(p) ==
  /\ tree' = [tree EXCEPT ![p] = FileAt(secrets[table.items[p]])]
  /\ \/ /\ secrets' = Less(secrets, {table.items[p]})
        /\ table' = [table EXCEPT !.items = Less(@, {p})]
        /\ UNCHANGED tally
     \/ Fault /\ UNCHANGED <<secrets, table>>

RestoreFile(p) == Restorable(p) /\ Starts(Task("restore", p, Command))
RestoreLink ==
  /\ At("restore")
  /\ Restores(command.file)
  /\ command' = Idle
  /\ UNCHANGED <<backups, serial>> /\ Unreported

\* Restoring a composed file: its link becomes a file with what it showed,
RestoreManagedFile(s) ==
  /\ s \in DOMAIN table.surfaces
  /\ tree[table.surfaces[s].path] = LinkTo(s)
  /\ Starts([Task("unconfigure", table.surfaces[s].path, Command) EXCEPT !.surface = s])

\* The resource made from the file itself, and its binding.
Backing(s) ==
  {r \in DOMAIN table.resources :
     /\ table.resources[r].sources = {table.surfaces[s].path}
     /\ table.surfaces[s].path \in DOMAIN table.items
     /\ table.items[table.surfaces[s].path] = table.resources[r].secret}
BackingBindings(s) == {b \in DOMAIN table.bindings : table.bindings[b] \in Backing(s)}

WriteRestored ==
  LET p == command.file
      shown == Rendered(command.surface, table, secrets)
  IN /\ At("unconfigure")
     /\ \/ /\ \E c \in shown :
                /\ tree' = [tree EXCEPT ![p] = FileAt(c)]
                /\ command' = [command EXCEPT !.at = "unrow", !.aside = FileAt(c)]
           /\ UNCHANGED <<tally, backups, secrets, table, serial>> /\ Unreported
        \/ (IF shown = {} THEN UNCHANGED tally ELSE Fault) /\ command' = Idle /\ Untouched

\* then its rows go in one transaction (the binding unless another surface has
\* it, the resource unless another binding has it), or the link comes back if
\* the file still is what was written,
RemoveConfiguration ==
  LET s == command.surface
      without == WithoutSurfaces(table, {s})
      free == {b \in BackingBindings(s) :
                 \A x \in DOMAIN without.surfaces : b \notin without.surfaces[x].bindings}
      removed == WithoutResources(WithoutBindings(without, free), Backing(s))
  IN /\ At("unrow")
     /\ \/ /\ table' = removed
           /\ command' = IF Backing(s) \subseteq DOMAIN removed.resources THEN Idle
                         ELSE [command EXCEPT !.at = "unstore", !.secret = table.items[command.file]]
           /\ UNCHANGED <<tally, tree, backups, secrets, serial>> /\ Unreported
        \/ /\ Fault /\ command' = Idle
           /\ tree' = IF tree[command.file] = command.aside
                      THEN [tree EXCEPT ![command.file] = LinkTo(s)] ELSE tree
           /\ UNCHANGED <<backups, secrets, table, serial>> /\ Unreported

\* and the secret goes when its resource did; an error leaves it.
DeleteStorage ==
  /\ At("unstore")
  /\ \/ /\ secrets' = Less(secrets, {command.secret})
        /\ table' = [table EXCEPT !.items = Less(@, {command.file})]
        /\ UNCHANGED tally
     \/ Fault /\ UNCHANGED <<secrets, table>>
  /\ command' = Idle
  /\ UNCHANGED <<tree, backups, serial>> /\ Unreported

CreateSharedSecret(t) ==
  Starts([Task("materialize", Absent, Command) EXCEPT
    !.scanned = [f \in {Absent} |-> [token |-> t, plain |-> FALSE]]])

\* A new value; what surfaces show changes with it.
RotateSharedSecret(r, t) ==
  /\ command = Idle
  /\ tally.commands > 0
  /\ Spend("commands")
  /\ r \in DOMAIN table.resources
  /\ table.resources[r].kind = "shared"
  /\ secrets[table.resources[r].secret].token # t
  /\ secrets' = [secrets EXCEPT ![table.resources[r].secret].token = t]
  /\ written' = [p \in AllPaths |->
       IF tree[p].is = "surface" /\ ValuesOf(tree[p], table, secrets') # {}
       THEN CHOOSE c \in ValuesOf(tree[p], table, secrets') : TRUE ELSE written[p]]
  /\ UNCHANGED <<tree, backups, table, command, serial, racy, owned, marred>>

\* The row goes first and comes back when its secret cannot be deleted.
RemoveSharedSecret(r) ==
  /\ r \in DOMAIN table.resources
  /\ table.resources[r].kind = "shared"
  /\ ~Bound(table, r)
  /\ Starts([Task("remove", Absent, Command) EXCEPT !.surface = r])

\* Managed files of the identity are restored first, one by one.
RemoveSshIdentity(r) ==
  /\ r \in DOMAIN table.resources
  /\ table.resources[r].kind = "identity"
  /\ Starts([Task("release", Absent, Command) EXCEPT !.surface = r])

ReleaseSource ==
  LET managed == table.resources[command.surface].managed
  IN /\ At("release")
     /\ IF managed = {} THEN Goes("remove") /\ UNCHANGED tally /\ Untouched
        ELSE \E i \in managed :
          IF ItemPaths(i) = {}
          THEN /\ command' = [command EXCEPT !.at = "detach", !.secret = i]
               /\ UNCHANGED tally /\ Untouched
          ELSE \E p \in ItemPaths(i) :
            IF Restorable(p)
            THEN /\ Restores(p)
                 /\ command' = [command EXCEPT !.at = "detach", !.secret = i]
                 /\ UNCHANGED <<backups, serial>> /\ Unreported
            ELSE command' = Idle /\ UNCHANGED tally /\ Untouched
DetachSource ==
  /\ At("detach")
  /\ \/ /\ table' = [table EXCEPT !.resources[command.surface].managed = @ \ {command.secret}]
        /\ Goes("release")
        /\ OnlyTable
     \/ Fault /\ command' = Idle /\ Untouched

RemoveRow ==
  /\ At("remove")
  /\ table' = WithoutResources(table, {command.surface})
  /\ command' = [command EXCEPT !.at = "erase", !.aside = table.resources[command.surface]]
  /\ OnlyTable
EraseSecret ==
  /\ At("erase")
  /\ \/ /\ secrets' = Less(secrets, {command.aside.secret})
        /\ UNCHANGED <<tally, table>>
     \/ /\ Fault
        /\ table' = [table EXCEPT !.resources = With(@, command.surface, command.aside)]
        /\ UNCHANGED secrets
  /\ command' = Idle
  /\ UNCHANGED <<tree, backups, serial>> /\ Unreported

-----------------------------------------------------------------------------
(* The specification                                                       *)

CONSTANTS
  InitialContent,   \* the content of each discovered file at first
  Guarded           \* a key-value file that is protected already, with its project

ImportInit ==
  /\ tree = [p \in AllPaths |-> IF p = Guarded THEN ItemAt(1)
                                ELSE IF p \in Discovered THEN FileAt(InitialContent[p])
                                ELSE Nothing]
  /\ backups = [p \in AllPaths |-> {}]
  /\ secrets = [i \in {1} |-> InitialContent[Guarded]]
  /\ table = [projects |-> {Folder[Guarded]}, environments |-> {}, resources |-> <<>>,
              bindings |-> <<>>, surfaces |-> <<>>, items |-> [p \in {Guarded} |-> 1]]
  /\ command = Idle
  /\ serial = 1
  /\ tally = [commands |-> MaxCommands, saves |-> MaxSaves, faults |-> MaxFaults]
  /\ written = [p \in AllPaths |-> IF p \in Discovered THEN InitialContent[p] ELSE Absent]
  /\ racy = {}
  /\ owned = {}
  /\ marred = FALSE

Reviews ==
  UNION {{review \in [files -> UNION {Menu[f] : f \in files}] :
            \A f \in files : review[f] \in Menu[f] \cap Requests(f) /\ ValidImport(f, review[f])} :
           files \in {x \in SUBSET Discovered : Cardinality(x) \in 1..MaxFiles}}

Begin ==
  \/ \E review \in Reviews : ApplyDiscovery(review)
  \/ \E p \in KeyFiles, manage \in BOOLEAN : ImportSshIdentity(p, manage)
  \/ \E p \in Discovered : ConfigureManagedFile(p) \/ RestoreFile(p)
  \/ \E s \in DOMAIN table.surfaces : RestoreManagedFile(s)
  \/ \E r \in DOMAIN table.resources : RemoveSharedSecret(r) \/ RemoveSshIdentity(r)
  \/ \E t \in Tokens :
       CreateSharedSecret(t) \/ \E r \in DOMAIN table.resources : RotateSharedSecret(r, t)

Continue ==
  /\ command # Idle
  /\ \/ EnsureProject \/ NextFile \/ MaterializeToken \/ CreateToken \/ MaterializePlain
     \/ CreatePlain \/ EnsureEnvironment \/ NextOutput \/ BindResources \/ MoveAside
     \/ UpsertOutput \/ LinkOutput \/ RemoveBackup \/ DisposeSource \/ RollBack
     \/ RemoveUnusedProjects \/ ProtectInPlace \/ ScopeFile \/ AttachManagedSource
     \/ ImportIdentity \/ CreateIdentity \/ AdoptItem \/ RestoreLink \/ WriteRestored
     \/ RemoveConfiguration \/ DeleteStorage \/ ReleaseSource \/ DetachSource
     \/ RemoveRow \/ EraseSecret

ImportNext ==
  \/ Begin \/ Continue \/ EndDaemon
  \/ \E save \in Saves : SaveFile(save[1], save[2])

-----------------------------------------------------------------------------
(* Properties                                                              *)

\* Files, secrets and rows have their types, links name generated ids, and an
\* environment has its project.
ImportTypeOK ==
  /\ \A p \in AllPaths :
       CASE tree[p].is = "file" -> tree[p].of \in Contents
         [] tree[p].is = "absent" -> tree[p] = Nothing
         [] OTHER -> tree[p].of \in 1..serial
  /\ \A i \in DOMAIN secrets :
       i \in 1..serial /\ secrets[i] \in [token : Tokens \cup {Absent}, plain : BOOLEAN]
  /\ RowsOf(table) \cup owned \subseteq 1..serial
  /\ table.environments \subseteq table.projects
  /\ table.projects \subseteq Folders
  /\ DOMAIN table.items \subseteq Discovered
  /\ racy \subseteq AllPaths

\* Whatever fails and wherever the daemon ends, a resource's secret is in the
\* store and a binding's resource is in the catalog: resources are removed
\* before their secrets, a protected file's secret is not deleted while a
\* resource uses it, and rows follow what they refer to.
ReferencesResolve ==
  /\ \A r \in DOMAIN table.resources : table.resources[r].secret \in DOMAIN secrets
  /\ \A b \in DOMAIN table.bindings : table.bindings[b] \in DOMAIN table.resources
  /\ \A s \in DOMAIN table.surfaces : table.surfaces[s].bindings \subseteq DOMAIN table.bindings
  /\ \A p \in DOMAIN table.items : table.items[p] \in DOMAIN secrets

\* Between commands, unless a rollback failed or the daemon ended in a command,
\* every secret has a resource or a file and every row was reported: a file
\* that could not be imported leaves nothing behind.
NoOrphans ==
  command = Idle /\ ~marred =>
    /\ \A i \in DOMAIN secrets : ResourcesOf(i) # {} \/ ItemPaths(i) # {}
    /\ RowsOf(table) \subseteq owned

\* At every moment, also after the daemon ended, the content of a file that
\* nobody saved during a command can be read at its path, from a file moved
\* aside there or from its encrypted record.
ContentIsKept ==
  \A p \in AllPaths :
    written[p] # Absent /\ p \notin racy =>
      \/ \E node \in backups[p] \cup {tree[p]} : written[p] \in ValuesOf(node, table, secrets)
      \/ p \in DOMAIN table.items /\ secrets[table.items[p]] = written[p]

\* Between commands, unless a rollback failed or the daemon ended in one, the
\* path itself yields that content and nothing is left beside it.
PathsServeContent ==
  command = Idle /\ ~marred =>
    \A p \in AllPaths :
      /\ backups[p] = {}
      /\ written[p] # Absent /\ p \notin racy =>
           ValuesOf(tree[p], table, secrets) = {written[p]}

\* A command only reuses secrets that are in the catalog with that value: what
\* a failed file put on the reusable list leaves the list with its resources.
ReusesExist ==
  command # Idle =>
    \A e \in command.existing :
      /\ command.at # "drop" => e.resource \in DOMAIN table.resources
      /\ command.at = "file" =>
           /\ e.resource \in DOMAIN table.resources
           /\ secrets[table.resources[e.resource].secret].token = e.token

\* An import is all or nothing for each file: references resolve at every
\* moment, nothing is left of a file that failed, and its content can be read
\* throughout.
ImportsAreWhole ==
  /\ ImportTypeOK /\ ReferencesResolve /\ NoOrphans
  /\ ContentIsKept /\ PathsServeContent /\ ReusesExist

=============================================================================
