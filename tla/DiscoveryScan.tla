--------------------------- MODULE DiscoveryScan ---------------------------
(***************************************************************************)
(* The discovery library: what a scan of the selected paths finds, which   *)
(* project each file joins, and the plan the owner reviews.                *)
(*                                                                         *)
(* Source: floria-discover/src/lib.rs, discover_many_with_progress and     *)
(* plan_with_project_context.  Directories are sequences of names.  The    *)
(* two directory walks pop one directory of their stack per step; read_dir *)
(* promises no order, so any directory of the stack may be next.  A file   *)
(* is a record: its directory, its class of name (the kind), its           *)
(* environment and its place in the order of paths.                        *)
(***************************************************************************)
EXTENDS Integers, FiniteSets, Sequences, SequencesExt, FiniteSetsExt

CONSTANTS
  Disks,             \* the disks a scan may meet, see DiskFields
  Requested,         \* the sequences of distinct selected paths
  DirectoryRank,     \* the order of directory paths
  IgnoredNames,      \* directory names that are always skipped
  GeneratedNames,    \* directory names that are skipped in a Rust project
  TemporaryNames,    \* directory names that call for caution
  SecretKeys,        \* the keys classify_key takes for secrets
  KnownValues,       \* the values of existing Shared Secrets: [key, value] |-> id
  ManagedKeys,       \* per directory of a managed project: the keys it exports
  MaxScanDepth, MaxCandidates,
  NoProject

ASSUME ScanConstants ==
  /\ MaxScanDepth \in Nat \ {0} /\ MaxCandidates \in Nat \ {0}
  /\ \A paths \in Requested : Len(paths) > 0

VARIABLES
  drive,      \* the directories and files of the disk; nothing here writes it
  chosen,     \* the selected paths, without repetitions
  phase,      \* where discover_many_with_progress stands
  turn,       \* the selected path it is at
  stack,      \* the directories a walk still has to read
  inspected,  \* the directories that are searched for markers
  found,      \* the candidate files of the walk under way
  listed,     \* the candidate files of the walks before it
  projects,   \* the projects found: directory |-> its markers
  parsed,     \* the files read, each with its assignment and its action
  plan        \* the plan: files and the groups of new secrets

scanVars == <<drive, chosen, phase, turn, stack, inspected, found, listed,
              projects, parsed, plan>>

\* A selected path is a directory and the rank of the file in it, or 0 for the directory.
IsFile(path) == path.rank # 0

SelectedFile(path) == CHOOSE f \in drive.files : f.rank = path.rank

Within(dir, ancestor) == IsPrefix(ancestor, dir)

Deepest(dirs) == CHOOSE d \in dirs : \A e \in dirs : Len(e) <= Len(d)

ScanInit ==
  /\ drive \in Disks
  /\ chosen \in {paths \in Requested :
                   \A i \in DOMAIN paths :
                     IsFile(paths[i]) => \E f \in drive.files : f.rank = paths[i].rank}
  /\ phase = "directories" /\ turn = 1
  /\ stack = {[dir |-> chosen[1].dir, depth |-> 0, rust |-> FALSE]}
  /\ inspected = {} /\ found = {} /\ listed = {} /\ projects = <<>>
  /\ parsed = <<>> /\ plan = [files |-> <<>>, groups |-> <<>>, reused |-> 0, missing |-> 0]

-----------------------------------------------------------------------------
(* What both walks skip *)

IsPythonVirtualEnvironment(dir) == dir \in drive.virtual

\* A CMakeCache.txt that names another source directory.
IsCmakeBuildTree(dir) == dir \in drive.built

\* A .git starts a context of its own; the directory's own markers count after that.
EcosystemsForEntries(inherited, dir) ==
  (inherited /\ dir \notin drive.git) \/ dir \in drive.rust

IsIgnoredDirectory(dir, rust) ==
  \/ Last(dir) \in IgnoredNames
  \/ rust /\ Last(dir) \in GeneratedNames

Subdirectories(dir) == {d \in drive.dirs : d # <<>> /\ Front(d) = dir}

\* What reading one directory pushes; a pruned directory pushes nothing.
DirectoriesBelow(item) ==
  LET rust == EcosystemsForEntries(item.rust, item.dir) IN
  IF \/ item.depth >= MaxScanDepth
     \/ IsPythonVirtualEnvironment(item.dir)
     \/ item.depth > 0 /\ IsCmakeBuildTree(item.dir)
  THEN {}
  ELSE {[dir |-> d, depth |-> item.depth + 1, rust |-> rust] :
          d \in {d \in Subdirectories(item.dir) : ~IsIgnoredDirectory(d, rust)}}

-----------------------------------------------------------------------------
(* Project candidates *)

\* collect_directories: a directory that was inspected before is not read again.
CollectDirectory ==
  /\ phase = "directories"
  /\ \E item \in stack :
       /\ stack' = (stack \ {item}) \cup
                   (IF item.dir \in inspected THEN {} ELSE DirectoriesBelow(item))
       /\ inspected' = inspected \cup {item.dir}
  /\ UNCHANGED <<drive, chosen, phase, turn, found, listed, projects, parsed, plan>>

\* At most MAX_DEPTH ancestors, the first one with a .git included.
AncestorsOf(start) ==
  LET above == {SubSeq(start, 1, n) : n \in 0..(Len(start) - 1)}
      near  == {d \in above : Len(start) - Len(d) <= MaxScanDepth}
  IN {d \in near : \A e \in near : e \in drive.git => Len(e) <= Len(d)}

MarkersAt(dir) ==
  (IF dir \in drive.git THEN {"git"} ELSE {})
    \cup (IF dir \in drive.rust THEN {"cargo"} ELSE {})
    \cup (IF \E r \in drive.composed : r.dir = dir THEN {"compose"} ELSE {})

MergedIntoNothing(dirs) ==
  [r \in {d \in dirs : MarkersAt(d) # {}} |-> MarkersAt(r)]

\* A marker directory joins the deepest project above it, whatever made that project.
MergedInto(dirs) ==
  LET git   == {d \in dirs : "git" \in MarkersAt(d)}
      roots == git \cup {d \in dirs : /\ MarkersAt(d) # {}
                                      /\ ~\E e \in dirs : /\ MarkersAt(e) # {}
                                                          /\ e # d /\ Within(d, e)
                                      /\ ~\E g \in git : Within(d, g)}
      home(d) == Deepest({r \in roots : Within(d, r)})
  IN [r \in roots |->
        UNION {MarkersAt(d) : d \in {d \in dirs : MarkersAt(d) # {} /\ home(d) = r}}]

\* The walk of one selected path is over: its ancestors are inspected too.
DirectoriesDone ==
  /\ phase = "directories" /\ stack = {}
  /\ LET start == chosen[turn].dir
         seen  == inspected \cup AncestorsOf(start)
     IN /\ inspected' = seen
        /\ IF turn < Len(chosen)
           THEN /\ turn' = turn + 1
                /\ stack' = {[dir |-> chosen[turn + 1].dir, depth |-> 0, rust |-> FALSE]}
                /\ UNCHANGED <<phase, projects>>
           ELSE /\ turn' = 1 /\ phase' = "selected" /\ stack' = {}
                /\ projects' = MergedInto(seen)
  /\ UNCHANGED <<drive, chosen, found, listed, parsed, plan>>

HasProject(dir) == \E p \in DOMAIN projects : Within(dir, p)

WithMarker(dir, marker) ==
  [d \in DOMAIN projects \cup {dir} |->
     (IF d \in DOMAIN projects THEN projects[d] ELSE {})
       \cup (IF d = dir THEN {marker} ELSE {})]

LikelyNeedsProject(file) == file.kind \in {"dotenv", "reference", "direnv", "mise"}

IsCandidate(file) == file.kind # "unknown"

\* A selected folder without any project above or below it is a project itself;
\* one with a project is searched for files that no project holds.
SelectFolder ==
  /\ phase = "selected" /\ turn <= Len(chosen) /\ ~IsFile(chosen[turn])
  /\ LET input == chosen[turn].dir IN
     IF \E p \in DOMAIN projects : Within(p, input) \/ Within(input, p)
     THEN /\ phase' = "strays"
          /\ stack' = {[dir |-> input, depth |-> 0, rust |-> FALSE]}
          /\ UNCHANGED <<turn, projects>>
     ELSE /\ projects' = WithMarker(input, "folder") /\ turn' = turn + 1
          /\ UNCHANGED <<phase, stack>>
  /\ UNCHANGED <<drive, chosen, inspected, found, listed, parsed, plan>>

SkipFile ==
  /\ phase = "selected" /\ turn <= Len(chosen) /\ IsFile(chosen[turn])
  /\ turn' = turn + 1
  /\ UNCHANGED <<drive, chosen, phase, stack, inspected, found, listed, projects, parsed, plan>>

Adopted(file) ==
  IF LikelyNeedsProject(file) /\ ~HasProject(file.dir)
  THEN WithMarker(file.dir, "parent")
  ELSE projects

\* The stray files of one selected folder each suggest their directory.
AdoptStray ==
  /\ phase = "strays" /\ stack = {}
  /\ IF found = {}
     THEN /\ phase' = "selected" /\ turn' = turn + 1 /\ UNCHANGED <<found, projects>>
     ELSE /\ \E file \in found : projects' = Adopted(file) /\ found' = found \ {file}
          /\ UNCHANGED <<phase, turn>>
  /\ UNCHANGED <<drive, chosen, stack, inspected, listed, parsed, plan>>

\* A selected file that no project holds suggests its directory.
SuggestParent(known, path) ==
  IF /\ IsFile(path) /\ IsCandidate(SelectedFile(path))
     /\ ~\E p \in DOMAIN known : Within(path.dir, p)
  THEN [d \in DOMAIN known \cup {path.dir} |->
          IF d \in DOMAIN known THEN known[d] ELSE {"parent"}]
  ELSE known

\* The walk of a selected path starts; a selected file is its own list.
WalkOf(path) ==
  /\ stack' = IF IsFile(path) THEN {} ELSE {[dir |-> path.dir, depth |-> 0, rust |-> FALSE]}
  /\ found' = IF IsFile(path) THEN {SelectedFile(path)} ELSE {}

\* The files come after the folders.  Then the list of candidates starts.
SelectFiles ==
  /\ phase = "selected" /\ turn > Len(chosen)
  /\ projects' = FoldLeft(SuggestParent, projects, chosen)
  /\ phase' = "candidates" /\ turn' = 1 /\ WalkOf(chosen[1])
  /\ UNCHANGED <<drive, chosen, inspected, listed, parsed, plan>>

-----------------------------------------------------------------------------
(* Candidate files *)

\* The files a Compose file of this directory names, if they lie below the selected path.
ComposeReferences(dir, input) ==
  {r.file : r \in {r \in drive.composed : /\ r.dir = dir /\ r.file \in drive.files
                                          /\ Within(r.file.dir, input)}}

CandidatesIn(dir, input) ==
  {f \in drive.files : f.dir = dir /\ IsCandidate(f) /\ f.kind # "reference"}
    \cup ComposeReferences(dir, input)

\* collect_candidates reads one directory, for the strays and for the final list.
\* Its list is cut at MAX_CANDIDATES, in the middle of a directory.
CollectCandidates ==
  /\ phase \in {"strays", "candidates"}
  /\ \E item \in stack :
       LET pruned == \/ IsPythonVirtualEnvironment(item.dir)
                     \/ item.depth > 0 /\ IsCmakeBuildTree(item.dir)
           new == IF pruned THEN {} ELSE CandidatesIn(item.dir, chosen[turn].dir) \ found
           room == MaxCandidates - Cardinality(found)
       IN IF Cardinality(new) < room
          THEN /\ found' = found \cup new
               /\ stack' = (stack \ {item}) \cup DirectoriesBelow(item)
          ELSE /\ \E taken \in kSubset(room, new) : found' = found \cup taken
               /\ stack' = {}
  /\ UNCHANGED <<drive, chosen, phase, turn, inspected, listed, projects, parsed, plan>>

CandidatesDone ==
  /\ phase = "candidates" /\ stack = {}
  /\ listed' = listed \cup found
  /\ IF turn < Len(chosen)
     THEN turn' = turn + 1 /\ WalkOf(chosen[turn + 1]) /\ UNCHANGED phase
     ELSE phase' = "parsing" /\ found' = {} /\ UNCHANGED <<turn, stack>>
  /\ UNCHANGED <<drive, chosen, inspected, projects, parsed, plan>>

-----------------------------------------------------------------------------
(* Parsing one file *)

ContainingProjects(file) == {p \in DOMAIN projects : Within(file.dir, p)}

\* The deepest project, unless nothing but a file without a project suggested it.
AssignProject(file) ==
  LET around == ContainingProjects(file) IN
  IF around = {}
  THEN [state |-> "unassigned", project |-> NoProject, offered |-> DOMAIN projects]
  ELSE LET p == Deepest(around) IN
       IF projects[p] = {"parent"}
       THEN [state |-> "unassigned", project |-> NoProject, offered |-> around]
       ELSE [state |-> "assigned", project |-> p, offered |-> around]

AssignmentForAction(assignment, action) ==
  IF assignment.state = "unassigned" /\ action \in {"compose", "reference"}
  THEN [assignment EXCEPT !.state = "review"]
  ELSE assignment

\* The root a file's relative path starts from when it has no project.
ContainingInputRoot(file) ==
  LET roots == {chosen[i].dir : i \in {i \in DOMAIN chosen :
                  IF IsFile(chosen[i]) THEN chosen[i].rank = file.rank
                  ELSE Within(file.dir, chosen[i].dir)}}
  IN IF roots = {} THEN file.dir ELSE Deepest(roots)

Reads(action, disposition, entries) ==
  [action |-> action, disposition |-> disposition, entries |-> entries]

ProtectAsIs == Reads("protect", "protected", <<>>)

FinalizeStructuredFile(text, disposition) ==
  CASE text.dynamic -> ProtectAsIs
    [] ~text.dynamic /\ text.entries = <<>> -> Reads("review", "protected", <<>>)
    [] OTHER -> Reads("compose", disposition, text.entries)

\* A template is kept for its keys, whatever else is in it.
DiscoverDotenv(kind, text) ==
  IF kind = "reference" THEN Reads("reference", "reference", text.entries)
  ELSE FinalizeStructuredFile(text, "shared")

\* A statement with a shell expansion is a warning, so the file is kept whole.
DiscoverDirenv(text) == FinalizeStructuredFile(text, "shared")

DiscoverIni(text) == FinalizeStructuredFile(text, "file")

DiscoverMise(text) ==
  IF text.entries = <<>> THEN Reads("review", "protected", <<>>) ELSE ProtectAsIs

ClassifyPem(text) ==
  IF text.ssh THEN Reads("identity", "protected", <<>>) ELSE ProtectAsIs

\* A file of any other name is taken for dotenv only when every line is an assignment.
DiscoverUnknown(text) ==
  IF text.entries # <<>> /\ ~text.dynamic
  THEN Reads("compose", "shared", text.entries)
  ELSE ProtectAsIs

\* What a file's class of name and its text make of it.  A file that vanished or is
\* too large is left to the owner.
DiscoverFile(file) ==
  IF file.text.unread THEN Reads("review", "protected", <<>>)
  ELSE CASE file.kind \in {"dotenv", "reference"} -> DiscoverDotenv(file.kind, file.text)
         [] file.kind = "direnv" -> DiscoverDirenv(file.text)
         [] file.kind = "mise" -> DiscoverMise(file.text)
         [] file.kind = "aws" -> DiscoverIni(file.text)
         [] file.kind = "pem" -> ClassifyPem(file.text)
         [] file.kind = "unknown" -> DiscoverUnknown(file.text)
         [] file.kind = "opaque" -> ProtectAsIs

\* A component of the directories between the root and the file is a temporary name.
PlacementCaution(file, root) ==
  \E i \in (Len(root) + 1)..Len(file.dir) : file.dir[i] \in TemporaryNames

Parsed(file) ==
  LET assignment == AssignProject(file)
      root == IF assignment.project = NoProject THEN ContainingInputRoot(file)
              ELSE assignment.project
      contents == DiscoverFile(file)
  IN [file |-> file, caution |-> PlacementCaution(file, root),
      assignment |-> AssignmentForAction(assignment, contents.action),
      action |-> contents.action, disposition |-> contents.disposition,
      entries |-> contents.entries]

\* The files are sorted by project, then by path.
Sorted(files) ==
  LET rank(p) == IF p.assignment.project = NoProject THEN 0
                 ELSE DirectoryRank[p.assignment.project]
      before(a, b) == \/ rank(a) < rank(b)
                      \/ rank(a) = rank(b) /\ a.file.rank < b.file.rank
  IN SetToSortSeq(files, before)

ParseFiles ==
  /\ phase = "parsing"
  /\ parsed' = Sorted({Parsed(file) : file \in listed})
  /\ phase' = "planning" /\ listed' = {}
  /\ UNCHANGED <<drive, chosen, turn, stack, inspected, found, projects, plan>>

-----------------------------------------------------------------------------
(* The plan *)

SameEntry(a, b) == a.key = b.key /\ a.value = b.value

\* A secret value is matched with an existing secret, then with the groups so far;
\* otherwise it starts a group.
PlanSecret(made, entry) ==
  LET known == {k \in KnownValues : SameEntry(k, entry)}
      group == {g \in DOMAIN made.groups : SameEntry(made.groups[g], entry)}
      adds(action) == [made EXCEPT !.actions = Append(@, action)]
  IN IF entry.key \notin SecretKeys THEN adds([does |-> "entry", id |-> 0])
     ELSE IF known # {}
          THEN [adds([does |-> "reuse", id |-> (CHOOSE k \in known : TRUE).id])
                  EXCEPT !.reused = @ + 1]
          ELSE IF group # {}
               THEN [adds([does |-> "join", id |-> CHOOSE g \in group : TRUE])
                       EXCEPT !.reused = @ + 1]
               ELSE [adds([does |-> "create", id |-> Len(made.groups) + 1])
                       EXCEPT !.groups = Append(@, entry)]

\* The keys of every dotenv file that will be composed for an environment.
DiscoveredKeys(environment) ==
  {e.key : e \in UNION {ToSet(parsed[i].entries) : i \in {i \in DOMAIN parsed :
             /\ parsed[i].file.kind \in {"dotenv", "unknown"} /\ parsed[i].action = "compose"
             /\ parsed[i].file.environment = environment}}}

\* A template's key is matched by those, or by the surface its project already has.
ReferenceMatched(file, entry) ==
  \/ entry.key \in DiscoveredKeys(file.file.environment)
  \/ /\ file.assignment.project \in DOMAIN ManagedKeys
     /\ entry.key \in ManagedKeys[file.assignment.project]

PlanEntry(file, made, entry) ==
  CASE file.disposition = "shared" -> PlanSecret(made, entry)
    [] file.disposition = "file" ->
         [made EXCEPT !.actions = Append(@, [does |-> "entry", id |-> 0])]
    [] file.disposition = "reference" ->
         LET matched == ReferenceMatched(file, entry) IN
         [made EXCEPT !.actions = Append(@, [does |-> IF matched THEN "matched" ELSE "missing",
                                             id |-> 0]),
                      !.missing = IF matched THEN @ ELSE @ + 1]
    [] OTHER -> made

\* One file of the plan, in the order of the files.
PlanFile ==
  /\ phase = "planning" /\ Len(plan.files) < Len(parsed)
  /\ LET file == parsed[Len(plan.files) + 1]
         begun == [actions |-> <<>>, groups |-> plan.groups, reused |-> plan.reused,
                   missing |-> plan.missing]
         step(made, entry) == PlanEntry(file, made, entry)
         made == FoldLeft(step, begun, file.entries)
     IN plan' = [files |-> Append(plan.files, made.actions), groups |-> made.groups,
                 reused |-> made.reused, missing |-> made.missing]
  /\ UNCHANGED <<drive, chosen, phase, turn, stack, inspected, found, listed, projects, parsed>>

Planned ==
  /\ phase = "planning" /\ Len(plan.files) = Len(parsed)
  /\ phase' = "planned"
  /\ UNCHANGED <<drive, chosen, turn, stack, inspected, found, listed, projects, parsed, plan>>

ScanNext ==
  \/ CollectDirectory
  \/ DirectoriesDone
  \/ SelectFolder
  \/ SkipFile
  \/ AdoptStray
  \/ SelectFiles
  \/ CollectCandidates
  \/ CandidatesDone
  \/ ParseFiles
  \/ PlanFile
  \/ Planned

-----------------------------------------------------------------------------
(* Properties *)

\* The walks stay on the disk and within MAX_DEPTH, no list outgrows
\* MAX_CANDIDATES, and a plan has one action for each entry it has read.
ScanTypeOK ==
  /\ phase \in {"directories", "selected", "strays", "candidates", "parsing", "planning",
                "planned"}
  /\ turn \in 1..(Len(chosen) + 1)
  /\ \A item \in stack : item.dir \in drive.dirs /\ item.depth \in 0..MaxScanDepth
  /\ found \cup listed \subseteq drive.files
  /\ Cardinality(found) <= MaxCandidates
  /\ DOMAIN projects \subseteq drive.dirs
  /\ \A i \in DOMAIN plan.files : Len(plan.files[i]) = Len(parsed[i].entries)

Flat == \A i, j \in DOMAIN chosen :
          i # j => ~Within(chosen[i].dir, chosen[j].dir)

\* The directories between a selected path and a file of it that hide the file:
\* their own names, or the markers between the last Git root and them.
Hidden(start, dir) ==
  \E n \in Len(start)..Len(dir) :
    LET d == SubSeq(dir, 1, n)
        up == {SubSeq(dir, 1, k) : k \in Len(start)..(n - 1)}
        roots == up \cap drive.git
        context == IF roots = {} THEN up ELSE {e \in up : Len(e) >= Len(Deepest(roots))}
    IN \/ d \in drive.virtual
       \/ /\ n > Len(start)
          /\ \/ d \in drive.built
             \/ Last(d) \in IgnoredNames
             \/ Last(d) \in GeneratedNames /\ context \cap drive.rust # {}

\* Every credential file of a selected folder that no generated directory hides is
\* on the list, and a hidden one only when it was selected or a Compose file that
\* is not hidden itself names it (collect_candidates against the whole path).
VisibleFilesAreListed ==
  phase = "parsing" /\ Cardinality(drive.files) < MaxCandidates =>
    \A f \in drive.files :
      LET seen(start, dir) == /\ Within(dir, start) /\ ~Hidden(start, dir)
                              /\ Len(dir) - Len(start) <= MaxScanDepth
      IN f \in listed <=>
           \E i \in DOMAIN chosen :
             IF IsFile(chosen[i]) THEN chosen[i].rank = f.rank
             ELSE \/ seen(chosen[i].dir, f.dir) /\ IsCandidate(f) /\ f.kind # "reference"
                  \/ \E r \in drive.composed :
                       /\ r.file = f /\ seen(chosen[i].dir, r.dir)
                       /\ Within(f.dir, chosen[i].dir)

\* When the selected paths do not lie in one another, a file is never assigned past
\* a Git root it belongs to, and a project without a .git never lies in another
\* one, suggestions apart (discover_project_candidates merges its markers).
GitRootsKeepTheirFiles ==
  phase = "planned" /\ Flat =>
    /\ \A i \in DOMAIN parsed :
         LET f == parsed[i].file  p == parsed[i].assignment.project IN
         p # NoProject =>
           /\ Within(f.dir, p)
           /\ \A g \in drive.git \cap inspected : Within(f.dir, g) => Len(g) <= Len(p)
    /\ \A p, q \in DOMAIN projects :
         p # q /\ Within(p, q) /\ projects[q] # {"parent"} => "git" \in projects[p]

\* A plan never decides alone: a file joins a project only if the disk or the owner
\* made that directory a project, and a dotenv file left for review is offered a
\* directory that holds it (assign_project, assignment_for_action).
ReviewsAreOfferedAHome ==
  phase = "planned" /\ Cardinality(drive.files) < MaxCandidates =>
    \A i \in DOMAIN parsed :
      LET f == parsed[i].file  a == parsed[i].assignment IN
      /\ a.state = "assigned" =>
           \/ \E d \in drive.git \cup drive.rust \cup {r.dir : r \in drive.composed} :
                d = a.project
           \/ \E k \in DOMAIN chosen : chosen[k] = [dir |-> a.project, rank |-> 0]
      /\ a.state = "review" /\ LikelyNeedsProject(f) =>
           \E p \in a.offered : Within(f.dir, p)

\* In the whole plan, two secret entries go to the same secret exactly when key and
\* value are the same, an existing secret is never created again, and every group
\* has one entry that creates it, before those that join it.
SecretsAreGroupedOnce ==
  phase = "planned" =>
    LET secrets == {<<i, j>> \in (DOMAIN parsed) \X (0..4) :
                      /\ j \in DOMAIN parsed[i].entries /\ parsed[i].disposition = "shared"
                      /\ parsed[i].entries[j].key \in SecretKeys}
        entry(at) == parsed[at[1]].entries[at[2]]
        does(at) == plan.files[at[1]][at[2]]
        earlier(a, b) == a[1] < b[1] \/ (a[1] = b[1] /\ a[2] < b[2])
        target(at) == <<does(at).does = "reuse", does(at).id>>
    IN /\ \A a, b \in secrets :
            (target(a) = target(b)) <=> (entry(a).key = entry(b).key /\ entry(a).value = entry(b).value)
       /\ \A a \in secrets :
            /\ does(a).does = "reuse" <=>
                 \E k \in KnownValues : k.key = entry(a).key /\ k.value = entry(a).value
            /\ does(a).does = "join" =>
                 \E b \in secrets : earlier(b, a) /\ does(b) = [does |-> "create", id |-> does(a).id]
       /\ Cardinality(secrets) = Len(plan.groups) + plan.reused

\* The plan is complete and right: every visible file is listed, belongs to its
\* root or is offered a home, and every secret in it is grouped once.
PlansAreRight ==
  /\ ScanTypeOK /\ VisibleFilesAreListed
  /\ GitRootsKeepTheirFiles /\ ReviewsAreOfferedAHome
  /\ SecretsAreGroupedOnce

=============================================================================
