------------------------------ MODULE Catalog ------------------------------
(***************************************************************************)
(* The metadata catalog: projects, their checkouts, environments,          *)
(* resources, bindings and surfaces, as rows of an SQLite database whose   *)
(* foreign keys cascade, clear or restrict, validated as a whole at the    *)
(* end of every transaction and sealed by an authenticated sidecar before  *)
(* the transaction commits.  Each Mac has a catalog; the portable half of  *)
(* one is applied to another by apply_replicated_catalog.                  *)
(*                                                                         *)
(* A transaction is one step: SQLite and the mutation lock admit one at a  *)
(* time, and one that fails leaves nothing behind.  What a statement can   *)
(* do to the rows is the set of catalogs it can leave: empty when a        *)
(* constraint refuses it.  Names, paths, positions and metadata are left   *)
(* out; a key and the address of the entry that carries it are one value;  *)
(* a surface stands for the path it is placed at.                          *)
(***************************************************************************)
EXTENDS Integers, FiniteSets, SequencesExt

CONSTANTS
  CatalogMacs,   \* Macs that share the library
  Projects,      \* project ids; a primary checkout has its project's id
  Worktrees,     \* ids of worktree checkouts
  Environments,  \* environment ids
  EnvironmentNames, \* names of environments, numbers for their order
  ResourceRows,  \* the rows each resource id can have
  BindingRows,   \* the rows each binding id can have, ids are numbers
  SurfaceRows,   \* the rows each surface id can have
  Seed,          \* the catalogs the Macs start from
  None,          \* NULL
  MaxCatalogEdits \* local transactions

Resources == DOMAIN ResourceRows
Bindings == DOMAIN BindingRows
Surfaces == DOMAIN SurfaceRows
Portable == {"projects", "environments", "resources", "bindings", "surfaces"}

VARIABLES
  rows,          \* the tables of each Mac's database
  schema,        \* PRAGMA user_version
  seal,          \* the sidecar: the schema and tables last authenticated
  opened,        \* "down", "migrated" while enable_integrity runs, or "up"
  catalogEdits   \* bound: local transactions so far

catalogVars == <<rows, schema, seal, opened, catalogEdits>>

-----------------------------------------------------------------------------
(* Rows and the foreign keys of the schema                                 *)

Upsert(table, id, row) ==
  [x \in DOMAIN table \cup {id} |-> IF x = id THEN row ELSE table[x]]
Without(table, ids) == [x \in DOMAIN table \ ids |-> table[x]]
Over(upper, lower) ==
  [x \in DOMAIN upper \cup DOMAIN lower |->
     IF x \in DOMAIN upper THEN upper[x] ELSE lower[x]]

\* replicated_catalog_from: the half of the catalog other Macs see.
PortableOf(c) == [table \in Portable |-> c[table]]

\* Projects with a primary checkout on this Mac.
Placed(c) == DOMAIN c.checkouts \cap Projects

\* environments are referenced with CASCADE by bindings and surfaces, with
\* SET NULL by a project's default and with RESTRICT by checkouts.
DropEnvironments(c, gone) ==
  IF \E w \in DOMAIN c.checkouts : c.checkouts[w].environment \in gone THEN {}
  ELSE {[c EXCEPT
    !.environments = Without(@, gone),
    !.bindings = Without(@, {b \in DOMAIN @ : @[b].scope \in gone}),
    !.surfaces = Without(@, {s \in DOMAIN @ : @[s].environment \in gone}),
    !.projects = [p \in DOMAIN @ |-> IF @[p] \in gone THEN None ELSE @[p]]]}

\* SQLite runs the actions of the latest declared reference first, so the
\* environments of a project go before its checkouts do.
DropProjects(c, gone) ==
  LET theirs == {e \in DOMAIN c.environments : c.environments[e].project \in gone}
  IN {[d EXCEPT
         !.projects = Without(@, gone),
         !.bindings = Without(@, {b \in DOMAIN @ : @[b].project \in gone}),
         !.checkouts = Without(@, {w \in DOMAIN @ : @[w].project \in gone})]
      : d \in DropEnvironments(c, theirs)}

\* bindings reference resources with RESTRICT, endpoints with CASCADE; the
\* origin is a column of the resource's row.
DropResources(c, gone) ==
  IF \E b \in DOMAIN c.bindings : c.bindings[b].resource \in gone THEN {}
  ELSE {[c EXCEPT !.resources = Without(@, gone), !.origins = Without(@, gone),
                  !.endpoints = @ \ gone]}

-----------------------------------------------------------------------------
(* Resolution                                                              *)

\* Entries a binding takes of its resource, under the key it gives them.
Selected(c, b) ==
  LET row == c.bindings[b]
      entries == c.resources[row.resource].entries
  IN IF row.selection = {} THEN entries ELSE entries \cap row.selection
ExportedKeys(c, b) ==
  LET key == c.bindings[b].override
  IN CASE c.resources[c.bindings[b].resource].kind = "scalar" /\ key = None -> Selected(c, b)
       [] c.resources[c.bindings[b].resource].kind \in {"scalar", "line"} -> {key} \ {None}
       [] OTHER -> Selected(c, b)

AppliesTo(c, b, e) ==
  /\ c.bindings[b].project = c.environments[e].project
  /\ c.bindings[b].scope \in {None, e}

\* bindings.sort_by_key: common ones first, then by id.
Earlier(c, b, d) ==
  LET common(x) == c.bindings[x].scope = None
  IN IF common(b) = common(d) THEN b < d ELSE common(b)

\* The first binding keeps the key.
ExportBindingFirst(c, resolved, b) ==
  [resolved EXCEPT !.owners = Over(@, [k \in ExportedKeys(c, b) |-> b])]

\* The loop of resolve_exports over one binding's entries: `owners' maps each
\* key to the binding that exports it, `ok' is FALSE after a conflict.
ExportBinding(c, resolved, b) ==
  LET keys == ExportedKeys(c, b)
      taken == keys \cap DOMAIN resolved.owners
      replaces(k) ==
        /\ c.bindings[b].scope # None
        /\ c.bindings[resolved.owners[k]].scope = None
        /\ c.bindings[b].allows
  IN IF resolved.ok /\ \A k \in taken : replaces(k)
     THEN [resolved EXCEPT !.owners = Over([k \in keys |-> b], @)]
     ELSE [resolved EXCEPT !.ok = FALSE]

ResolveExports(c, e, included) ==
  LET used == {b \in included : c.bindings[b].enabled /\ AppliesTo(c, b, e)}
      order == SetToSortSeq(used, LAMBDA b, d : Earlier(c, b, d))
  IN FoldLeft(LAMBDA acc, b : ExportBinding(c, acc, b),
              [ok |-> TRUE, owners |-> <<>>], order)

ResolveSurface(c, s) ==
  ResolveExports(c, c.surfaces[s].environment, c.surfaces[s].bindings)

\* Everything a revision digests: Rebinding, a changed member or resource, or
\* a redirected endpoint changes it; a new version of a secret does not.
ReadBy(c, s) ==
  {c.bindings[b].resource : b \in c.surfaces[s].bindings}
    \cup ({c.surfaces[s].resource} \ {None})

\* Bindings are named and not digested.
RevisionUnbound(c, s) ==
  LET e == c.surfaces[s].environment
  IN <<c.surfaces[s], c.environments[e], c.projects[c.environments[e].project],
       [r \in ReadBy(c, s) |-> <<c.resources[r], c.origins[r]>>],
       c.endpoints \cap ReadBy(c, s)>>

SurfaceRevision(c, s) ==
  LET e == c.surfaces[s].environment
  IN <<c.surfaces[s], c.environments[e], c.projects[c.environments[e].project],
       [b \in c.surfaces[s].bindings |-> c.bindings[b]],
       [r \in ReadBy(c, s) |-> <<c.resources[r], c.origins[r]>>],
       c.endpoints \cap ReadBy(c, s)>>

\* Project relations and metadata of an access are presentation only.
AccessRevision(c, r) ==
  LET row == c.resources[r]
  IN <<row.identities, row.hosts,
       [i \in row.identities |-> <<c.resources[i], c.origins[i]>>],
       c.endpoints \cap row.identities>>

-----------------------------------------------------------------------------
(* Validation of a whole snapshot                                          *)

\* validate_resource: kind, shape, codec and source agree, which leaves the
\* kinds below (a "line" is a scalar without a key), and each kind bounds
\* its entries.
ValidRoute(hosts) == hosts # {}
ValidResource(row) ==
  /\ row.kind \in {"scalar", "line", "identity"} => Cardinality(row.entries) = 1
  /\ row.kind \in {"dotenv", "ini"} => row.entries # {}
  /\ IF row.kind = "access"
     THEN row.entries = {} /\ row.identities # {} /\ ValidRoute(row.hosts)
     ELSE row.identities = {} /\ row.projects = {} /\ row.hosts = {}

ValidBinding(row) == row.allows => row.scope # None

ValidSurface(row) == row.hosts # {} => row.kind = "socket" /\ ValidRoute(row.hosts)

\* validate_composed_surface_member
Feeds(kind, binding, resource) ==
  \/ kind = "environment" /\ resource.kind \in {"scalar", "dotenv", "ini"}
  \/ kind = "environment" /\ resource.kind = "line" /\ binding.override # None
  \/ kind = "ini" /\ resource.kind = "ini" /\ binding.override = None
  \/ kind = "lines" /\ resource.kind = "line" /\ binding.override = None
  \/ kind = "socket" /\ resource.kind \in {"identity", "agent"}
       /\ binding.override = None

ValidInput(c, s) ==
  LET row == c.surfaces[s]
  IN IF row.kind = "direct"
     THEN row.resource \in DOMAIN c.resources /\ c.resources[row.resource].kind = "dotenv"
     ELSE \A b \in row.bindings :
            /\ b \in DOMAIN c.bindings
            /\ AppliesTo(c, b, row.environment)
            /\ Feeds(row.kind, c.bindings[b], c.resources[c.bindings[b].resource])

DistinctAddresses(c, members) ==
  \A b, d \in members : b # d => Selected(c, b) \cap Selected(c, d) = {}

\* An SSH agent or INI surface exposes each address once; disabled bindings
\* of a socket count, those of an INI file do not.
NoConflict(c, s) ==
  LET row == c.surfaces[s]
  IN CASE row.kind = "environment" -> ResolveSurface(c, s).ok
       [] row.kind = "socket" -> DistinctAddresses(c, row.bindings)
       [] row.kind = "ini" ->
            DistinctAddresses(c, {b \in row.bindings : c.bindings[b].enabled})
       [] OTHER -> TRUE

ValidBindingSelections(c) ==
  \A b \in DOMAIN c.bindings :
    c.bindings[b].selection \subseteq c.resources[c.bindings[b].resource].entries

Accesses(c) == {r \in DOMAIN c.resources : c.resources[r].kind = "access"}

ValidAccessInputs(c) ==
  \A r \in Accesses(c) : LET used == c.resources[r].identities IN
    /\ \A i \in used :
         /\ i \in DOMAIN c.resources
         /\ c.resources[i].kind \in {"identity", "agent"}
         /\ c.resources[i].entries # {}
    /\ \A i, j \in used : i # j => c.resources[i].entries \cap c.resources[j].entries = {}

\* validate_ssh_route_conflicts: no host is routed twice.
DistinctHosts(c, surfaces) ==
  /\ \A s, t \in surfaces : s # t => c.surfaces[s].hosts \cap c.surfaces[t].hosts = {}
  /\ \A r, q \in Accesses(c) : r # q => c.resources[r].hosts \cap c.resources[q].hosts = {}
  /\ \A s \in surfaces, r \in Accesses(c) : c.surfaces[s].hosts \cap c.resources[r].hosts = {}

ValidRows(c, surfaces) ==
  /\ ValidBindingSelections(c)
  /\ ValidAccessInputs(c)
  /\ \A s \in surfaces : ValidInput(c, s)
  /\ DistinctHosts(c, surfaces)
  /\ \A s \in surfaces : NoConflict(c, s)

\* snapshot_from joins surfaces with the primary checkout of their project.
Visible(c) ==
  {s \in DOMAIN c.surfaces :
     c.environments[c.surfaces[s].environment].project \in Placed(c)}
ValidSnapshot(c) == ValidRows(c, Visible(c))

\* validate_replicated_catalog
ValidReplicatedReferences(c) ==
  /\ \A r \in DOMAIN c.resources : ValidResource(c.resources[r])
  /\ \A b \in DOMAIN c.bindings : ValidBinding(c.bindings[b])
  /\ \A s \in DOMAIN c.surfaces : ValidSurface(c.surfaces[s])
  /\ \A e \in DOMAIN c.environments : c.environments[e].project \in DOMAIN c.projects
  /\ \A p \in DOMAIN c.projects :
       c.projects[p] # None =>
         c.projects[p] \in DOMAIN c.environments /\ c.environments[c.projects[p]].project = p
  /\ \A r \in DOMAIN c.resources : c.resources[r].projects \subseteq DOMAIN c.projects
  /\ \A b \in DOMAIN c.bindings :
       /\ c.bindings[b].project \in DOMAIN c.projects
       /\ c.bindings[b].resource \in DOMAIN c.resources
       /\ c.bindings[b].scope # None =>
            /\ c.bindings[b].scope \in DOMAIN c.environments
            /\ c.environments[c.bindings[b].scope].project = c.bindings[b].project
  /\ \A s \in DOMAIN c.surfaces : c.surfaces[s].environment \in DOMAIN c.environments

ValidReplicated(c) ==
  ValidReplicatedReferences(c) /\ ValidRows(c, DOMAIN c.surfaces)

-----------------------------------------------------------------------------
(* Transactions                                                            *)

\* verify_security_snapshot: the rows are the ones last sealed.
Verified(m) == opened[m] = "up" /\ seal[m] = [schema |-> schema[m], tables |-> rows[m]]

\* with_authenticated_mutation: verify, change, validate, seal, commit.  The
\* last step can fail, or the process end before it; the sidecar then names
\* rows the database never took.
Commit(m, c) ==
  /\ Verified(m)
  /\ ValidReplicatedReferences(c)
  /\ ValidSnapshot(c)
  /\ ValidReplicated(c)
  /\ seal' = [seal EXCEPT ![m] = [schema |-> schema[m], tables |-> c]]
  /\ rows' \in {rows, [rows EXCEPT ![m] = c]}
  /\ UNCHANGED <<schema, opened>>

Edit(m, c) ==
  /\ catalogEdits < MaxCatalogEdits
  /\ c # rows[m]
  /\ Commit(m, c)
  /\ catalogEdits' = catalogEdits + 1

Primary(p) == [project |-> p, environment |-> None]

\* A project is named by a fresh id, so an update only moves its checkout.
UpsertProject(m, p) ==
  LET c == rows[m]
  IN Edit(m, [c EXCEPT
       !.projects = Upsert(@, p, IF p \in DOMAIN @ THEN @[p] ELSE None),
       !.checkouts = Upsert(@, p, Primary(p))])

SetDefaultEnvironment(m, p, e) ==
  LET c == rows[m]
  IN /\ p \in DOMAIN c.projects
     /\ e # None => e \in DOMAIN c.environments /\ c.environments[e].project = p
     /\ Edit(m, [c EXCEPT !.projects[p] = e])

\* An access stops naming the project, then the row goes.
RemoveProject(m, p) ==
  LET c == rows[m]
      detached == [c EXCEPT !.resources =
        [r \in DOMAIN @ |-> [@[r] EXCEPT !.projects = @ \ {p}]]]
  IN /\ p \in DOMAIN c.projects
     /\ \E d \in DropProjects(detached, {p}) : Edit(m, d)

\* attach_replicated_project: a folder for a project without one.
AttachProject(m, p) ==
  LET c == rows[m]
  IN /\ p \in DOMAIN c.projects \ Placed(c)
     /\ Edit(m, [c EXCEPT !.checkouts = Upsert(@, p, Primary(p))])

UpsertCheckout(m, w, e) ==
  LET c == rows[m]
      p == c.environments[e].project
  IN /\ e \in DOMAIN c.environments
     /\ w \in DOMAIN c.checkouts => c.checkouts[w].project = p
     /\ Edit(m, [c EXCEPT !.checkouts = Upsert(@, w, [project |-> p, environment |-> e])])

\* Only a worktree can be removed by itself.
RemoveCheckout(m, w) ==
  /\ w \in DOMAIN rows[m].checkouts \cap Worktrees
  /\ Edit(m, [rows[m] EXCEPT !.checkouts = Without(@, {w})])

\* UNIQUE(project_id, name); an environment keeps its project.
PutEnvironment(environments, e, row) ==
  IF \E x \in DOMAIN environments \ {e} : environments[x] = row THEN {}
  ELSE {Upsert(environments, e, row)}

UpsertEnvironment(m, e, p, n) ==
  LET c == rows[m]
  IN /\ p \in DOMAIN c.projects
     /\ e \in DOMAIN c.environments => c.environments[e].project = p
     /\ \E table \in PutEnvironment(c.environments, e, [project |-> p, name |-> n]) :
          Edit(m, [c EXCEPT !.environments = table])

RemoveEnvironment(m, e) ==
  /\ e \in DOMAIN rows[m].environments
  /\ \E d \in DropEnvironments(rows[m], {e}) : Edit(m, d)

\* upsert_resource, upsert_socket_resource and create_resource: an agent's
\* socket comes with its endpoint, every other row without one.
UpsertResource(m, r, row) ==
  LET c == rows[m]
  IN /\ ValidResource(row)
     /\ row.projects \subseteq DOMAIN c.projects
     /\ Edit(m, [c EXCEPT
          !.resources = Upsert(@, r, row),
          !.endpoints = IF row.kind = "agent" THEN @ \cup {r} ELSE @ \ {r},
          !.origins = IF r \in DOMAIN @ THEN @ ELSE Upsert(@, r, {})])

\* Discovery records the file a resource was read from.
AppendResourceOrigin(m, r, s) ==
  /\ r \in DOMAIN rows[m].resources
  /\ Edit(m, [rows[m] EXCEPT !.origins[r] = @ \cup {s}])

\* resource_usage_from_snapshot: bindings, direct surfaces that can be seen
\* and accesses that use the resource.
ResourceIsUsed(c, r) ==
  \/ \E b \in DOMAIN c.bindings : c.bindings[b].resource = r
  \/ \E s \in Visible(c) : c.surfaces[s].resource = r
  \/ \E a \in Accesses(c) : r \in c.resources[a].identities

RemoveResource(m, r) ==
  /\ r \in DOMAIN rows[m].resources
  /\ ~ResourceIsUsed(rows[m], r)
  /\ \E d \in DropResources(rows[m], {r}) : Edit(m, d)

UpsertBinding(m, b, row) ==
  LET c == rows[m]
  IN /\ ValidBinding(row)
     /\ row.project \in DOMAIN c.projects
     /\ row.resource \in DOMAIN c.resources
     /\ row.scope # None =>
          row.scope \in DOMAIN c.environments /\ c.environments[row.scope].project = row.project
     /\ row.override # None => c.resources[row.resource].kind \in {"scalar", "line"}
     /\ Edit(m, [c EXCEPT !.bindings = Upsert(@, b, row)])

\* The surfaces that can be seen lose the member.
RemoveBinding(m, b) ==
  LET c == rows[m]
  IN /\ b \in DOMAIN c.bindings
     /\ Edit(m, [c EXCEPT
          !.bindings = Without(@, {b}),
          !.surfaces = [s \in DOMAIN @ |->
            IF s \in Visible(c) THEN [@[s] EXCEPT !.bindings = @ \ {b}] ELSE @[s]]])

\* A file's path is relative to the primary checkout, so there is one.
UpsertSurface(m, s, row) ==
  LET c == rows[m]
  IN /\ ValidSurface(row)
     /\ row.environment \in DOMAIN c.environments
     /\ c.environments[row.environment].project \in Placed(c)
     /\ Edit(m, [c EXCEPT !.surfaces = Upsert(@, s, row)])

RemoveSurface(m, s) ==
  /\ s \in DOMAIN rows[m].surfaces
  /\ Edit(m, [rows[m] EXCEPT !.surfaces = Without(@, {s})])

\* The file's surface goes; its binding and resource go when they were made
\* for that file and nothing else uses them.
RemoveManagedFileConfiguration(m, s, b) ==
  LET c == rows[m]
      r == c.bindings[b].resource
      others == Visible(c) \ {s}
      bound == \E t \in others : b \in c.surfaces[t].bindings
      kept == DOMAIN c.bindings \ (IF bound THEN {} ELSE {b})
      used == \/ \E d \in kept : c.bindings[d].resource = r
              \/ \E t \in others : c.surfaces[t].resource = r
      without == [c EXCEPT !.surfaces = Without(@, {s}),
                           !.bindings = Without(@, DOMAIN @ \ kept)]
  IN /\ s \in Visible(c) /\ c.surfaces[s].kind # "socket"
     /\ b \in DOMAIN c.bindings
     /\ c.origins[r] = {s}
     /\ \E d \in IF used THEN {without} ELSE DropResources(without, {r}) : Edit(m, d)

\* A routed socket surface becomes an access of the library under its own
\* id, and bindings no other surface uses go.
AccessOf(c, s) ==
  [kind |-> "access", entries |-> {},
   identities |-> {c.bindings[b].resource :
     b \in {x \in c.surfaces[s].bindings : c.bindings[x].enabled}},
   projects |-> {c.environments[c.surfaces[s].environment].project},
   hosts |-> c.surfaces[s].hosts]
Promotable(c) ==
  {s \in Visible(c) : /\ c.surfaces[s].kind = "socket" /\ c.surfaces[s].hosts # {}
                      /\ AccessOf(c, s).identities # {}}
PromoteLegacyAccesses(m) ==
  LET c == rows[m]
      promoted == Promotable(c)
      candidates == UNION {c.surfaces[s].bindings : s \in promoted}
      retained == UNION {c.surfaces[s].bindings : s \in Visible(c) \ promoted}
  IN /\ promoted # {}
     /\ promoted \cap DOMAIN c.resources = {}
     /\ Edit(m, [c EXCEPT
          !.resources = Over([s \in promoted |-> AccessOf(c, s)], @),
          !.origins = Over([s \in promoted |-> {}], @),
          !.surfaces = Without(@, promoted),
          !.bindings = Without(@, candidates \ retained)])

\* create_project_workspace: three transactions, undone together when the
\* second or the third is refused.
CreateProjectWorkspace(m, p, e, n, s, row) ==
  LET c == rows[m]
      made == [c EXCEPT
        !.projects = Upsert(@, p, None), !.checkouts = Upsert(@, p, Primary(p)),
        !.environments = Upsert(@, e, [project |-> p, name |-> n]),
        !.surfaces = Upsert(@, s, row)]
  IN /\ p \notin DOMAIN c.projects
     /\ e \notin DOMAIN c.environments
     /\ s \notin DOMAIN c.surfaces
     /\ row.environment = e
     /\ Edit(m, made)

-----------------------------------------------------------------------------
(* apply_replicated_catalog                                                *)

\* Environments are written one at a time in the projection's order.
PutEnvironments(c, r) ==
  LET order == SetToSortSeq(DOMAIN r.environments,
                 LAMBDA e, f : r.environments[e].name < r.environments[f].name)
      put(tables, e) == UNION {PutEnvironment(t, e, r.environments[e]) : t \in tables}
  IN {[c EXCEPT !.environments = t] : t \in FoldLeft(put, {c.environments}, order)}

\* delete_rows_not_in, table after table.
DropAbsent(c, r) ==
  LET kept == [c EXCEPT
        !.projects = Over([p \in DOMAIN r.projects |-> None], @),
        !.surfaces = Without(@, DOMAIN @ \ DOMAIN r.surfaces),
        !.bindings = Without(@, DOMAIN @ \ DOMAIN r.bindings)]
      absent(d, table) == DOMAIN d[table] \ DOMAIN r[table]
      environments == DropEnvironments(kept, absent(kept, "environments"))
      projects == UNION {DropProjects(d, absent(d, "projects")) : d \in environments}
  IN UNION {DropResources(d, absent(d, "resources")) : d \in projects}

ApplyReplicated(c, r) ==
  LET written == UNION {PutEnvironments(d, r) : d \in DropAbsent(c, r)}
      fresh(d) == [x \in DOMAIN r.resources \ DOMAIN d.origins |-> {}]
  IN {[d EXCEPT !.resources = Over(r.resources, @), !.origins = Over(@, fresh(d)),
                !.bindings = Over(r.bindings, @), !.surfaces = Over(r.surfaces, @),
                !.projects = Over(r.projects, @)] : d \in written}

\* Mac m applies the portable catalog Mac n holds.
ImportCatalog(m, n) ==
  LET r == PortableOf(rows[n])
  IN /\ Verified(n)
     /\ ValidReplicated(r)
     /\ PortableOf(rows[m]) # r
     /\ \E d \in ApplyReplicated(rows[m], r) : Commit(m, d)
     /\ UNCHANGED catalogEdits

-----------------------------------------------------------------------------
(* Opening and failing                                                     *)

\* The process ends, also between the migration and its seal.
StopCatalog(m) ==
  /\ opened[m] # "down"
  /\ opened' = [opened EXCEPT ![m] = "down"]
  /\ UNCHANGED <<rows, schema, seal, catalogEdits>>

\* What enable_integrity accepts: the current seal, or a schema-13 seal of
\* the same rows, before or after the outbox table was added.
Accepts(m) ==
  /\ seal[m].tables = rows[m]
  /\ seal[m].schema \in {13, schema[m]}

OpenCatalog(m) ==
  /\ opened[m] = "down"
  /\ Accepts(m)
  /\ schema' = [schema EXCEPT ![m] = 14]
  /\ opened' = [opened EXCEPT ![m] = "migrated"]
  /\ UNCHANGED <<rows, seal, catalogEdits>>

SealCatalog(m) ==
  /\ opened[m] = "migrated"
  /\ seal' = [seal EXCEPT ![m] = [schema |-> schema[m], tables |-> rows[m]]]
  /\ opened' = [opened EXCEPT ![m] = "up"]
  /\ UNCHANGED <<rows, schema, catalogEdits>>

CatalogInit ==
  /\ rows \in Seed
  /\ schema \in [CatalogMacs -> {13, 14}]
  /\ seal = [m \in CatalogMacs |-> [schema |-> schema[m], tables |-> rows[m]]]
  /\ opened = [m \in CatalogMacs |-> IF schema[m] = 14 THEN "up" ELSE "down"]
  /\ catalogEdits = 0

EditCatalog(m) ==
  \/ \E p \in Projects :
       \/ UpsertProject(m, p) \/ RemoveProject(m, p) \/ AttachProject(m, p)
       \/ \E e \in Environments \cup {None} : SetDefaultEnvironment(m, p, e)
       \/ \E e \in Environments, n \in EnvironmentNames : UpsertEnvironment(m, e, p, n)
       \/ \E e \in Environments, n \in EnvironmentNames, s \in Surfaces :
            \E row \in SurfaceRows[s] : CreateProjectWorkspace(m, p, e, n, s, row)
  \/ \E e \in Environments :
       RemoveEnvironment(m, e) \/ \E w \in Worktrees : UpsertCheckout(m, w, e)
  \/ \E w \in Worktrees : RemoveCheckout(m, w)
  \/ \E r \in Resources :
       \/ RemoveResource(m, r)
       \/ \E row \in ResourceRows[r] : UpsertResource(m, r, row)
       \/ \E s \in Surfaces : AppendResourceOrigin(m, r, s)
  \/ \E b \in Bindings :
       \/ RemoveBinding(m, b)
       \/ \E row \in BindingRows[b] : UpsertBinding(m, b, row)
       \/ \E s \in Surfaces : RemoveManagedFileConfiguration(m, s, b)
  \/ \E s \in Surfaces :
       RemoveSurface(m, s) \/ \E row \in SurfaceRows[s] : UpsertSurface(m, s, row)
  \/ PromoteLegacyAccesses(m)

CatalogNext ==
  \E m \in CatalogMacs :
    \/ EditCatalog(m)
    \/ \E n \in CatalogMacs \ {m} : ImportCatalog(m, n)
    \/ StopCatalog(m) \/ OpenCatalog(m) \/ SealCatalog(m)

-----------------------------------------------------------------------------
(* Properties                                                              *)

\* The catalogs hold rows of their tables that reference existing rows, pass
\* the validation of all surfaces (which covers that of the visible ones), and
\* a project's primary checkout carries no environment of its own (schema.rs,
\* mod.rs).
CatalogTypeOK ==
  /\ schema \in [CatalogMacs -> {13, 14}]
  /\ opened \in [CatalogMacs -> {"down", "migrated", "up"}]
  /\ catalogEdits \in 0..MaxCatalogEdits
  /\ \A m \in CatalogMacs : LET c == rows[m] IN
       /\ ValidReplicated(c)
       /\ DOMAIN c.origins = DOMAIN c.resources
       /\ c.endpoints \subseteq DOMAIN c.resources
       /\ \A w \in DOMAIN c.checkouts :
            /\ c.checkouts[w].project \in DOMAIN c.projects
            /\ w \in Projects => c.checkouts[w] = Primary(w)
            /\ w \notin Projects => c.checkouts[w].environment \in DOMAIN c.environments

\* What resolve_exports' loop yields is what its precedence says: a key comes
\* from the environment's own binding if one exports it and from the common
\* one otherwise, whatever the order of the ids.
ExportsFollowPrecedence ==
  \A m \in CatalogMacs : \A s \in DOMAIN rows[m].surfaces :
    LET c == rows[m]
        e == c.surfaces[s].environment
        owners == ResolveSurface(c, s).owners
        exporters(k) == {b \in c.surfaces[s].bindings :
          c.bindings[b].enabled /\ k \in ExportedKeys(c, b)}
        own(k) == {b \in exporters(k) : c.bindings[b].scope = e}
    IN c.surfaces[s].kind = "environment" =>
         /\ DOMAIN owners = {k \in UNION {ExportedKeys(c, b) : b \in c.surfaces[s].bindings} :
                               exporters(k) # {}}
         /\ \A k \in DOMAIN owners :
              {owners[k]} = IF own(k) # {} THEN own(k) ELSE exporters(k)

\* A project that arrived without a folder can be given one: its surfaces,
\* which no snapshot of this Mac has shown so far, are valid beside the
\* others (attach_replicated_project, snapshot_from).
PortableProjectsAttach ==
  \A m \in CatalogMacs : \A p \in DOMAIN rows[m].projects \ Placed(rows[m]) :
    ValidSnapshot([rows[m] EXCEPT !.checkouts = Upsert(@, p, Primary(p))])

\* An applied import installs the projection exactly, and keeps the checkouts,
\* endpoints and origins of whatever the projection still has
\* (apply_replicated_catalog).
ImportsKeepLocalRows ==
  [][\A m, n \in CatalogMacs :
       m # n /\ rows'[m] # rows[m] /\ ImportCatalog(m, n) =>
         LET old == rows[m]
             new == rows'[m]
         IN /\ PortableOf(new) = PortableOf(rows[n])
            /\ new.endpoints = old.endpoints \cap DOMAIN new.resources
            /\ \A r \in DOMAIN old.origins \cap DOMAIN new.resources :
                 new.origins[r] = old.origins[r]
            /\ \A w \in DOMAIN old.checkouts :
                 old.checkouts[w].project \in DOMAIN new.projects =>
                   w \in DOMAIN new.checkouts /\ new.checkouts[w] = old.checkouts[w]]_catalogVars

\* What a reader of a surface gets, up to the versions of the secrets.
ServedContent(c, s) ==
  IF c.surfaces[s].kind = "environment"
  THEN LET owners == ResolveSurface(c, s).owners
       IN [k \in DOMAIN owners |-> c.bindings[owners[k]].resource]
  ELSE [r \in ReadBy(c, s) |->
          IF c.surfaces[s].resource = r THEN c.resources[r].entries
          ELSE UNION {Selected(c, b) : b \in {x \in c.surfaces[s].bindings :
                        c.bindings[x].enabled /\ c.bindings[x].resource = r}}]

\* A step that leaves the semantic revision of a surface alone leaves what it
\* serves alone, so an allowance pinned to the revision never covers other
\* entries or another resource (catalog_surface_semantic_revision).
RevisionsCoverContent ==
  [][\A m \in CatalogMacs : \A s \in Visible(rows[m]) \cap Visible(rows'[m]) :
       SurfaceRevision(rows[m], s) = SurfaceRevision(rows'[m], s) =>
         ServedContent(rows[m], s) = ServedContent(rows'[m], s)]_catalogVars

\* The same for an access: its revision moves with what its agent offers.
AccessRevisionsCoverKeys ==
  [][\A m \in CatalogMacs : \A r \in Accesses(rows[m]) \cap Accesses(rows'[m]) :
       AccessRevision(rows[m], r) = AccessRevision(rows'[m], r) =>
         \A i \in rows[m].resources[r].identities :
           /\ rows'[m].resources[i].entries = rows[m].resources[i].entries
           /\ (i \in rows'[m].endpoints) = (i \in rows[m].endpoints)]_catalogVars

\* A catalog whose last transaction was committed opens again, also when the
\* process ended between a schema upgrade and its seal (enable_integrity).
UpgradesReopen ==
  \A m \in CatalogMacs : seal[m].tables = rows[m] => Accepts(m)

\* Every catalog that was committed is valid and opens again, and what its
\* surfaces export is what the precedence says, on this Mac and once attached
\* on another.
CatalogsAreValid ==
  CatalogTypeOK /\ ExportsFollowPrecedence /\ PortableProjectsAttach /\ UpgradesReopen

\* Transactions change what they name: an import keeps this Mac's own rows,
\* and whatever changes what a surface or an access offers changes its
\* revision.
ChangesAreRevealed ==
  ImportsKeepLocalRows /\ RevisionsCoverContent /\ AccessRevisionsCoverKeys

=============================================================================
