--------------------------- MODULE SurfaceResolver ---------------------------
(***************************************************************************)
(* Reading and writing the file surfaces (floria-surface: resolver.rs,     *)
(* registry.rs, codec.rs, render.rs, source.rs) while the control server   *)
(* changes the catalog and the stored values (floria-control/src/server:   *)
(* resources.rs, dispatch.rs).                                             *)
(*                                                                         *)
(* A catalog is a value: resources, bindings and surfaces.  Catalogs lists *)
(* catalogs that pass the catalog's own validation (see Catalog), and an   *)
(* edit goes to one that differs in a single row.                          *)
(***************************************************************************)
EXTENDS Integers, Sequences, FiniteSets

CONSTANTS
  Secrets,          \* the ids of stored secrets
  Values,           \* what the versions of each secret may hold, subsets of Bytes
  Library,          \* named catalogs that the catalog's validation accepts
  FirstCatalogs,    \* the names of those to start with
  Readers, Writers, Editors,   \* opens for reading, for writing; control connections
  Nobody,
  MaxChanges,       \* bound: catalog edits and new versions
  MaxOpens          \* bound: opens

Catalogs == Library
Contents == Values

(* Two well-formed dotenv files, a line, two lines, a line with a NUL.     *)
Bytes == {"kv1", "kv2", "plain", "block", "nul"}

VARIABLES
  catalog,   \* the catalog, by its name in Catalogs
  secretVersions,  \* the immutable versions of each secret
  heads,     \* the current version of each secret
  registry,  \* the catalog that the file system serves from
  gate,      \* who holds the mutation gate
  task,      \* what each editor and writer is doing
  reader,    \* what each reader is doing
  budget     \* [changes, opens]

resolverVars == <<catalog, secretVersions, heads, registry, gate, task, reader, budget>>

(***************************************************************************)
(* Codecs: what the bytes of a resource decode to                          *)
(***************************************************************************)
Opaque(bytes) == [ok |-> TRUE, addresses |-> {"value"}]

(* parse_dotenv, parse_ini: an entry per key, or a parse error.            *)
ParseDotenv(bytes) ==
  [ok |-> bytes \in {"kv1", "kv2"}, addresses |-> IF bytes = "kv1" THEN {"K"} ELSE {"K", "L"}]

ParseIni(bytes) ==
  [ok |-> bytes \in {"kv1", "kv2"}, addresses |-> IF bytes = "kv1" THEN {"/K"} ELSE {"/K", "/L"}]

DecodeSource(codec, bytes) ==
  CASE codec = "opaque" -> Opaque(bytes)
    [] codec = "dotenv" -> ParseDotenv(bytes)
    [] codec = "ini" -> ParseIni(bytes)

(* The schema must be the one of the catalog.                              *)
DecodeResource(resource, bytes) ==
  LET decoded == DecodeSource(resource.codec, bytes) IN
  [decoded EXCEPT !.ok = @ /\ decoded.addresses = resource.entries]

(* The renderers.  A line has no line break and no NUL, direnv has no form *)
(* for a NUL, the others quote what they must; an INI surface only takes   *)
(* what an INI resource decodes to.                                        *)
RenderLine(bytes) == bytes \in {"kv1", "plain"}
RenderDirenv(bytes) == bytes # "nul"
RenderDotenv(bytes) == bytes \in Bytes
RenderIni(bytes) == ParseIni(bytes).ok

Members(c, f) ==
  {b \in DOMAIN c.bindings : b \in c.surfaces[f].bindings /\ c.bindings[b].enabled}

FeedsLines(c, r) ==
  \E f \in DOMAIN c.surfaces, b \in DOMAIN c.bindings :
    /\ c.surfaces[f].format = "lines"
    /\ b \in c.surfaces[f].bindings /\ c.bindings[b].resource = r

Referencing(c, s) ==
  {r \in DOMAIN c.resources : c.resources[r].source = "secret" /\ c.resources[r].secret = s}

ValidateSecretBytes(c, s, bytes) ==
  \A r \in Referencing(c, s) :
    /\ DecodeResource(c.resources[r], bytes).ok
    /\ FeedsLines(c, r) => RenderLine(bytes)

Current(s) == secretVersions[s][heads[s]]

ValidateSnapshotValues(c) ==
  \A s \in {t \in Secrets : Referencing(c, t) # {}} :
    secretVersions[s] # <<>> /\ ValidateSecretBytes(c, s, Current(s))

(***************************************************************************)
(* Mutations: validated and committed under the gate                       *)
(***************************************************************************)
Free == [at |-> "free", catalog |-> Nobody, secret |-> Nobody, bytes |-> "plain",
         plan |-> Nobody]

Changes == budget.changes < MaxChanges
Spent(field) == [budget EXCEPT ![field] = @ + 1]

(* Mutant: nobody waits for the gate.                                      *)
EntersAlways(a) == gate' = gate

Enters(a) == gate = Nobody /\ gate' = a

Goes(a, new) == task' = [task EXCEPT ![a] = new]

Kinds == {"resources", "bindings", "surfaces"}

Rows(c, d, k) ==
  {row \in DOMAIN c[k] \cap DOMAIN d[k] : c[k][row] # d[k][row]}
    \cup (DOMAIN c[k] \ DOMAIN d[k]) \cup (DOMAIN d[k] \ DOMAIN c[k])

(* The catalogs that are one row of one kind apart, with that row.         *)
Edits ==
  UNION {LET all == UNION {{<<i, k, row, j>> : row \in Rows(Catalogs[i], Catalogs[j], k)} : k \in Kinds} IN
         IF Cardinality(all) = 1 THEN all ELSE {} : i \in DOMAIN Catalogs, j \in DOMAIN Catalogs}

ResourceEdits == {edit \in Edits : edit[2] = "resources"}

Now == Catalogs[catalog]

Begin(e, new) ==
  /\ task[e].at = "free" /\ Changes
  /\ Goes(e, new) /\ budget' = Spent("changes")
  /\ UNCHANGED <<catalog, registry>>

(* ResourceUpsert, BindingUpsert, SurfaceUpsert: the catalog as it would   *)
(* be must fit the stored values.  A removal is not compared with them.    *)
EditCatalog(e) ==
  /\ Enters(e)
  /\ \E edit \in Edits :
       LET d == Catalogs[edit[4]] IN
       /\ edit[1] = catalog
       /\ edit[3] \in DOMAIN d[edit[2]] => ValidateSnapshotValues(d)
       /\ Begin(e, [Free EXCEPT !.at = "edit", !.catalog = edit[4]])
  /\ UNCHANGED <<secretVersions, heads, reader>>

SharedSecret(c, r) == c.resources[r].codec = "opaque" /\ c.resources[r].source = "secret"

(* The value first, then the row, without which the value is deleted.      *)
CreateResource(e) ==
  /\ Enters(e)
  /\ \E edit \in ResourceEdits :
       LET d == Catalogs[edit[4]]  r == edit[3]  s == d.resources[r].secret IN
       /\ edit[1] = catalog /\ r \notin DOMAIN Now.resources
       /\ d.resources[r].source = "secret" /\ secretVersions[s] = <<>>
       /\ \E bytes \in Contents[s] :
            /\ DecodeResource(d.resources[r], bytes).ok
            /\ secretVersions' = [secretVersions EXCEPT ![s] = <<bytes>>]
       /\ heads' = [heads EXCEPT ![s] = 1]
       /\ Begin(e, [Free EXCEPT !.at = "create", !.catalog = edit[4], !.secret = s])
  /\ UNCHANGED reader

CreateSecretFails(e) ==
  /\ task[e].at = "create"
  /\ secretVersions' = [secretVersions EXCEPT ![task[e].secret] = <<>>]
  /\ heads' = [heads EXCEPT ![task[e].secret] = 0]
  /\ Goes(e, Free) /\ gate' = Nobody
  /\ UNCHANGED <<catalog, registry, reader, budget>>

RotateSharedSecret(e) ==
  /\ Enters(e)
  /\ \E r \in DOMAIN Now.resources :
       LET s == Now.resources[r].secret IN
       /\ SharedSecret(Now, r)
       /\ \E bytes \in Contents[s] :
            /\ ValidateSecretBytes(Now, s, bytes)
            /\ Begin(e, [Free EXCEPT !.at = "append", !.secret = s, !.bytes = bytes,
                                     !.catalog = catalog])
  /\ UNCHANGED <<secretVersions, heads, reader>>

(* A new environment key and a new value: the catalog's row first, which   *)
(* is taken back when the store refuses the value.                         *)
UpdateSharedSecret(e) ==
  /\ Enters(e)
  /\ \E edit \in ResourceEdits :
       LET d == Catalogs[edit[4]]  r == edit[3] IN
       /\ edit[1] = catalog /\ r \in DOMAIN d.resources \cap DOMAIN Now.resources
       /\ SharedSecret(Now, r) /\ SharedSecret(d, r)
       /\ d.resources[r].secret = Now.resources[r].secret /\ ValidateSnapshotValues(d)
       /\ \E bytes \in Contents[d.resources[r].secret] :
            /\ ValidateSecretBytes(d, d.resources[r].secret, bytes)
            /\ Begin(e, [Free EXCEPT !.at = "update", !.catalog = edit[4], !.bytes = bytes,
                                     !.secret = d.resources[r].secret])
  /\ UNCHANGED <<secretVersions, heads, reader>>

(* The row first, which is put back when the value cannot be deleted.      *)
RemoveSharedSecret(e) ==
  /\ Enters(e)
  /\ \E edit \in ResourceEdits :
       LET d == Catalogs[edit[4]]  r == edit[3] IN
       /\ edit[1] = catalog
       /\ r \notin DOMAIN d.resources /\ SharedSecret(Now, r)
       /\ Begin(e, [Free EXCEPT !.at = "remove", !.catalog = edit[4],
                                !.secret = Now.resources[r].secret])
  /\ UNCHANGED <<secretVersions, heads, reader>>

(* The catalog's transaction; `catalog` of the task is what a failure of   *)
(* the next step goes back to.                                             *)
CommitCatalog(e) ==
  /\ task[e].at \in {"edit", "create", "update", "remove"}
  /\ catalog' = task[e].catalog
  /\ Goes(e, [task[e] EXCEPT !.catalog = catalog,
                !.at = CASE @ = "update" -> "append" [] @ = "remove" -> "delete"
                         [] OTHER -> "refresh"])
  /\ UNCHANGED <<secretVersions, heads, registry, gate, reader, budget>>

(* The readers that have not begun to decrypt see the new head too.        *)
Heads(s, v) ==
  /\ heads' = [heads EXCEPT ![s] = v]
  /\ reader' = [p \in Readers |-> IF reader[p].at \in {"prompt", "pin"}
                                  THEN [reader[p] EXCEPT !.live = @ \cup {<<s, v>>}]
                                  ELSE reader[p]]

AppendSecretVersion(s, bytes) ==
  /\ secretVersions' = [secretVersions EXCEPT ![s] = Append(@, bytes)]
  /\ Heads(s, Len(secretVersions[s]) + 1)

CommitValue(e) ==
  /\ task[e].at = "append"
  /\ AppendSecretVersion(task[e].secret, task[e].bytes)
  /\ Goes(e, [Free EXCEPT !.at = "refresh"])
  /\ UNCHANGED <<catalog, registry, gate, budget>>

Delete(e) ==
  /\ task[e].at = "delete"
  /\ secretVersions' = [secretVersions EXCEPT ![task[e].secret] = <<>>]
  /\ heads' = [heads EXCEPT ![task[e].secret] = 0]
  /\ Goes(e, [Free EXCEPT !.at = "refresh"])
  /\ UNCHANGED <<catalog, registry, gate, reader, budget>>

(* The store fails; putting the row back may fail too.                     *)
StoreFails(e) ==
  /\ task[e].at \in {"append", "delete"}
  /\ catalog' \in {catalog, task[e].catalog}
  /\ Goes(e, Free) /\ gate' = Nobody
  /\ UNCHANGED <<secretVersions, heads, registry, reader, budget>>

RollBackVersion(e, s, v) ==
  /\ v \in DOMAIN secretVersions[s] /\ v # heads[s]
  /\ Enters(e) /\ ValidateSecretBytes(Now, s, secretVersions[s][v])
  /\ Heads(s, v)
  /\ Begin(e, [Free EXCEPT !.at = "refresh"])
  /\ UNCHANGED secretVersions

(* SurfaceRegistry::replace, before the gate is released.                  *)
Refresh(e) ==
  /\ task[e].at = "refresh"
  /\ registry' = catalog /\ gate' = Nobody /\ Goes(e, Free)
  /\ UNCHANGED <<catalog, secretVersions, heads, reader, budget>>

(***************************************************************************)
(* Opens: the plan is the registry's catalog at the open                   *)
(***************************************************************************)
Opens == budget.opens < MaxOpens

Plan(f) == [catalog |-> registry, surface |-> f]

(* The resources that a surface reads.                                     *)
Needs(plan) ==
  LET c == Catalogs[plan.catalog]  f == plan.surface IN
  IF c.surfaces[f].format = "direct" THEN {c.surfaces[f].resource}
  ELSE {c.bindings[b].resource : b \in Members(c, f)}

(* What the prompt shows and the owner approves: the sources below a       *)
(* surface.                                                                *)
Graph(plan) == {<<r, Catalogs[plan.catalog].resources[r].secret>> : r \in Needs(plan)}

Away == [at |-> "away", plan |-> Nobody, approved |-> {}, pinned |-> {}, bytes |-> {},
         live |-> {}, quiet |-> FALSE, changes |-> 0]

Open(p, f) ==
  /\ reader[p].at = "away" /\ Opens /\ f \in DOMAIN Catalogs[registry].surfaces
  /\ reader' = [reader EXCEPT ![p] =
       [Away EXCEPT !.at = "prompt", !.plan = Plan(f), !.approved = Graph(Plan(f)),
                    !.live = {<<s, heads[s]>> : s \in Secrets},
                    !.quiet = gate = Nobody, !.changes = budget.changes]]
  /\ budget' = Spent("opens")
  /\ UNCHANGED <<catalog, secretVersions, heads, registry, gate, task>>

ReaderGoes(p, new) ==
  /\ reader' = [reader EXCEPT ![p] = new]
  /\ UNCHANGED <<catalog, secretVersions, heads, registry, gate, task, budget>>

Allow(p) == reader[p].at = "prompt" /\ ReaderGoes(p, [reader[p] EXCEPT !.at = "pin"])

Deny(p) == reader[p].at = "prompt" /\ ReaderGoes(p, Away)

AccessPlan(p) == reader[p].plan

ResourceOf(p, r) == Catalogs[AccessPlan(p).catalog].resources[r]

Unpinned(p) == {r \in Needs(AccessPlan(p)) : \A d \in reader[p].pinned : d.resource # r}
Unread(p) == {d \in reader[p].pinned : \A b \in reader[p].bytes : b.resource # d.resource}

(* Every head is frozen before anything is decrypted.                      *)
Pin(p, r) ==
  /\ reader[p].at = "pin" /\ r \in Unpinned(p)
  /\ LET source == ResourceOf(p, r) IN
     ReaderGoes(p, IF source.source = "literal"
              THEN [reader[p] EXCEPT !.pinned = @ \cup {[resource |-> r, secret |-> source.secret,
                                                         version |-> 0]}]
              ELSE IF secretVersions[source.secret] = <<>> THEN [reader[p] EXCEPT !.at = "failed"]
              ELSE [reader[p] EXCEPT !.pinned =
                      @ \cup {[resource |-> r, secret |-> source.secret,
                               version |-> heads[source.secret]]}])

Frozen(p) ==
  /\ reader[p].at = "pin" /\ Unpinned(p) = {}
  /\ ReaderGoes(p, [reader[p] EXCEPT !.at = "read"])

(* Mutant: the version that is current by now is read.                     *)
VersionNow(d) == heads[d.secret]

VersionOf(d) == d.version

Decode(p, d) ==
  /\ reader[p].at = "read" /\ d \in Unread(p)
  /\ LET resource == ResourceOf(p, d.resource)
         exists == resource.source = "literal" \/ VersionOf(d) \in DOMAIN secretVersions[d.secret]
         bytes == IF resource.source = "literal" THEN resource.literal
                  ELSE secretVersions[d.secret][VersionOf(d)] IN
     ReaderGoes(p, IF exists /\ DecodeResource(resource, bytes).ok
              THEN [reader[p] EXCEPT !.bytes = @ \cup {[resource |-> d.resource, bytes |-> bytes]}]
              ELSE [reader[p] EXCEPT !.at = "failed"])

Renders(format, bytes) ==
  CASE format = "lines" -> RenderLine(bytes)
    [] format = "direnv" -> RenderDirenv(bytes)
    [] format = "dotenv" -> RenderDotenv(bytes)
    [] format = "ini" -> RenderIni(bytes)
    [] format = "direct" -> TRUE

Render(p) ==
  /\ reader[p].at = "read" /\ Unread(p) = {}
  /\ LET plan == AccessPlan(p) IN
     ReaderGoes(p, [reader[p] EXCEPT !.at =
       IF \A b \in reader[p].bytes :
            Renders(Catalogs[plan.catalog].surfaces[plan.surface].format, b.bytes)
       THEN "served" ELSE "failed"])

Close(p) == reader[p].at \in {"served", "failed"} /\ ReaderGoes(p, Away)

(* A directly linked file opened for writing.                              *)
OpenWrite(w, f) ==
  /\ task[w].at = "free" /\ Opens
  /\ f \in DOMAIN Catalogs[registry].surfaces /\ Catalogs[registry].surfaces[f].format = "direct"
  /\ Goes(w, [Free EXCEPT !.at = "opened", !.plan = Plan(f)])
  /\ budget' = Spent("opens")
  /\ UNCHANGED <<catalog, secretVersions, heads, registry, gate, reader>>

Target(plan) == Catalogs[plan.catalog].resources[Catalogs[plan.catalog].surfaces[plan.surface].resource]

(* commit_direct_env_file_plan: against the plan, and under the gate       *)
(* against every resource that references the secret now.                  *)
Fits(w, bytes) ==
  /\ DecodeResource(Target(task[w].plan), bytes).ok
  /\ ValidateSecretBytes(Now, Target(task[w].plan).secret, bytes)

CommitDirectEnvFile(w, s, bytes) ==
  /\ task[w].at = "opened" /\ Changes
  /\ s = Target(task[w].plan).secret /\ Fits(w, bytes) /\ Enters(w)
  /\ Goes(w, [task[w] EXCEPT !.at = "write", !.secret = s, !.bytes = bytes])
  /\ budget' = Spent("changes")
  /\ UNCHANGED <<catalog, secretVersions, heads, registry, reader>>

(* The raw file of a stored secret, opened and saved.                      *)
CommitSecretVersion(w, s, bytes) ==
  /\ task[w].at = "free" /\ Changes /\ secretVersions[s] # <<>>
  /\ ValidateSecretBytes(Now, s, bytes) /\ Enters(w)
  /\ Goes(w, [Free EXCEPT !.at = "write", !.secret = s, !.bytes = bytes])
  /\ budget' = Spent("changes")
  /\ UNCHANGED <<catalog, secretVersions, heads, registry, reader>>

CommitWrite(w) ==
  /\ task[w].at = "write"
  /\ IF secretVersions[task[w].secret] = <<>> THEN UNCHANGED <<secretVersions, heads, reader>>
     ELSE AppendSecretVersion(task[w].secret, task[w].bytes)
  /\ Goes(w, Free) /\ gate' = Nobody
  /\ UNCHANGED <<catalog, registry, budget>>

(* A commit that is refused, and a close without one.                      *)
CloseWrite(w) ==
  /\ task[w].at = "opened" /\ Goes(w, Free)
  /\ UNCHANGED <<catalog, secretVersions, heads, registry, gate, reader, budget>>

ResolverInit ==
  /\ catalog \in FirstCatalogs /\ registry = catalog
  /\ secretVersions \in [Secrets -> {<<>>} \cup {<<bytes>> : bytes \in Bytes}]
  /\ \A s \in Secrets : IF Referencing(Now, s) = {} THEN secretVersions[s] = <<>>
                       ELSE secretVersions[s] \in {<<bytes>> : bytes \in Contents[s] \ {"nul"}}
  /\ heads = [s \in Secrets |-> Len(secretVersions[s])]
  /\ ValidateSnapshotValues(Now)
  /\ gate = Nobody
  /\ task = [a \in Editors \cup Writers |-> Free]
  /\ reader = [p \in Readers |-> Away]
  /\ budget = [changes |-> 0, opens |-> 0]

ResolverNext ==
  \/ \E e \in Editors :
       \/ EditCatalog(e) \/ CreateResource(e) \/ RotateSharedSecret(e)
       \/ UpdateSharedSecret(e) \/ RemoveSharedSecret(e)
       \/ \E s \in Secrets : \E v \in DOMAIN secretVersions[s] : RollBackVersion(e, s, v)
       \/ CommitCatalog(e) \/ CreateSecretFails(e) \/ CommitValue(e) \/ Delete(e) \/ StoreFails(e)
       \/ Refresh(e)
  \/ \E p \in Readers :
       \/ \E f \in DOMAIN Catalogs[registry].surfaces : Open(p, f)
       \/ Allow(p) \/ Deny(p) \/ Frozen(p) \/ Render(p) \/ Close(p)
       \/ reader[p].at = "pin" /\ \E r \in Unpinned(p) : Pin(p, r)
       \/ \E d \in reader[p].pinned : Decode(p, d)
  \/ \E w \in Writers :
       \/ \E f \in DOMAIN Catalogs[registry].surfaces : OpenWrite(w, f)
       \/ \E s \in Secrets : \E bytes \in Contents[s] :
            CommitDirectEnvFile(w, s, bytes) \/ CommitSecretVersion(w, s, bytes)
       \/ CommitWrite(w) \/ CloseWrite(w)

(***************************************************************************)
(* Properties                                                              *)
(***************************************************************************)
(* Type invariant.  The gate is never left with somebody who has finished. *)
ResolverTypeOK ==
  /\ catalog \in DOMAIN Catalogs /\ registry \in DOMAIN Catalogs
  /\ \A s \in Secrets : /\ secretVersions[s] \in Seq(Contents[s])
                        /\ heads[s] \in (IF secretVersions[s] = <<>> THEN {0} ELSE DOMAIN secretVersions[s])
  /\ gate # Nobody => task[gate].at \notin {"free", "opened"}
  /\ \A p \in Readers : reader[p].at \in {"away", "prompt", "pin", "read", "served", "failed"}

(* The current version of every stored secret decodes under the schema of  *)
(* every resource that references it, and is a single line where a lines   *)
(* surface uses it: a catalog edit and a new version never both succeed    *)
(* against each other's old state.                                         *)
HeadsDecode ==
  \A r \in DOMAIN Now.resources :
    LET resource == Now.resources[r] IN
    resource.source = "secret" =>
      /\ secretVersions[resource.secret] # <<>>
      /\ DecodeResource(resource, Current(resource.secret)).ok
      /\ FeedsLines(Now, r) => Current(resource.secret) \in {"kv1", "plain"}

(* The bytes a reader is served are those of the versions frozen for it,   *)
(* which the audit names, and each of these was the current one at some    *)
(* moment between the open and the first decryption.                       *)
FrozenBeforeDecrypt ==
  \A p \in Readers : \A d \in reader[p].pinned : d.version > 0 =>
    /\ <<d.secret, d.version>> \in reader[p].live
    /\ \A b \in reader[p].bytes :
         b.resource = d.resource /\ d.version \in DOMAIN secretVersions[d.secret] =>
           b.bytes = secretVersions[d.secret][d.version]

(* Whatever the catalog becomes while the prompt is up, what is read and   *)
(* what is written belong to the graph that was approved.                  *)
AccessFollowsThePlan ==
  /\ \A p \in Readers : {<<d.resource, d.secret>> : d \in reader[p].pinned} \subseteq reader[p].approved
  /\ \A w \in Writers : task[w].at = "write" /\ task[w].plan # Nobody =>
       <<Catalogs[task[w].plan.catalog].surfaces[task[w].plan.surface].resource, task[w].secret>>
         \in Graph(task[w].plan)

(* A read that meets no concurrent change succeeds: what was validated     *)
(* when it was stored can be rendered.                                     *)
CurrentReadsSucceed ==
  \A p \in Readers : reader[p].at = "failed" /\ reader[p].quiet /\ registry = catalog =>
    budget.changes > reader[p].changes

(* What is served is what was approved: the bytes of versions frozen for   *)
(* this open, of resources in the approved graph.                          *)
ServedIsApproved == FrozenBeforeDecrypt /\ AccessFollowsThePlan

(* What was accepted can be served: every current version decodes wherever *)
(* the catalog uses it, so that undisturbed reads do not fail.             *)
StoredCanBeServed == ResolverTypeOK /\ HeadsDecode /\ CurrentReadsSucceed
==============================================================================
