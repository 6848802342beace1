----------------------------- MODULE MCControl -----------------------------
(***************************************************************************)
(* Instances of ProtectedFiles, Catalog, DiscoveryImport and DiscoveryScan *)
(* for TLC, side by side: a behaviour belongs to one of them, its subject, *)
(* and leaves the variables of the others as they were.                    *)
(***************************************************************************)
EXTENDS ProtectedFiles, Catalog, DiscoveryImport, DiscoveryScan, TLC

VARIABLE subject

controlVars == <<protectedVars, catalogVars, importVars, scanVars, subject>>

-----------------------------------------------------------------------------
(* Catalog: two Macs, one that has the project's folder and a worktree, and *)
(* one that has imported the project and has no folder for it yet.          *)

\* A row of the resources table; accesses name identities, projects, hosts.
Provider(kind, entries) ==
  [kind |-> kind, entries |-> entries, identities |-> {}, projects |-> {}, hosts |-> {}]
Access(ids, within, hosts) ==
  [kind |-> "access", entries |-> {}, identities |-> ids, projects |-> within, hosts |-> hosts]
Binds(within, r, selection, override, allows, enabled) ==
  [project |-> "p", scope |-> within, resource |-> r, selection |-> selection,
   override |-> override, allows |-> allows, enabled |-> enabled]
Composed(kind, e, members, hosts) ==
  [environment |-> e, kind |-> kind, bindings |-> members, resource |-> None, hosts |-> hosts]
Direct(e, r) ==
  [environment |-> e, kind |-> "direct", bindings |-> {}, resource |-> r, hosts |-> {}]

TheResources ==
  [r \in {"file", "token", "agent", "access", "socket"} |->
     CASE r = "file" -> {Provider("dotenv", {"x", "y"}), Provider("dotenv", {"x"})}
       [] r = "token" -> {Provider("scalar", {"x"})}
       [] r = "agent" -> {Provider("agent", {"i"}), Provider("agent", {})}
       [] r = "access" -> {Access({"agent"}, {"p"}, {"h"})}
       [] OTHER -> {}]
TheBindings ==
  [b \in 1..3 |->
     CASE b = 1 -> {Binds("dev", "token", {}, None, TRUE, TRUE),
                    Binds("dev", "token", {}, "y", FALSE, TRUE)}
       [] b = 2 -> {Binds(None, "file", {}, None, FALSE, TRUE),
                    Binds(None, "file", {"y"}, None, FALSE, TRUE),
                    Binds(None, "file", {}, None, TRUE, TRUE),
                    Binds(None, "token", {}, "y", FALSE, TRUE)}
       [] OTHER -> {Binds(None, "agent", {}, None, FALSE, TRUE),
                    Binds(None, "agent", {}, None, FALSE, FALSE)}]
TheSurfaces ==
  [s \in {"env", "socket"} |->
     CASE s = "env" -> {Composed("environment", "dev", {1, 2}, {}), Direct("dev", "file")}
       [] OTHER -> {Composed("socket", "dev", {3}, {"h"})}]

Shared ==
  [projects |-> [p \in {"p"} |-> "dev"],
   environments |-> [e \in {"dev", "test"} |->
     [project |-> "p", name |-> IF e = "dev" THEN 1 ELSE 2]],
   resources |-> [r \in {"file", "token", "agent"} |->
     CHOOSE row \in TheResources[r] :
       row.entries = CASE r = "file" -> {"x", "y"} [] r = "token" -> {"x"} [] OTHER -> {"i"}],
   bindings |-> [b \in 1..3 |->
     CASE b = 1 -> Binds("dev", "token", {}, None, TRUE, TRUE)
       [] b = 2 -> Binds(None, "file", {}, None, FALSE, TRUE)
       [] OTHER -> Binds(None, "agent", {}, None, FALSE, TRUE)],
   surfaces |-> [s \in {"env", "socket"} |->
     IF s = "env" THEN Composed("environment", "dev", {1, 2}, {})
                  ELSE Composed("socket", "dev", {3}, {"h"})]]

Author ==
  [t \in Portable \cup {"checkouts", "endpoints", "origins"} |->
     CASE t = "checkouts" ->
            [w \in {"p", "w"} |-> [project |-> "p", environment |-> IF w = "w" THEN "test" ELSE None]]
       [] t = "endpoints" -> {"agent"}
       [] t = "origins" -> [r \in {"file", "token", "agent"} |-> IF r = "file" THEN {"env"} ELSE {}]
       [] OTHER -> Shared[t]]
Importer ==
  [Author EXCEPT !.checkouts = <<>>, !.endpoints = {},
                 !.origins = [r \in DOMAIN @ |-> {}]]
Fresh == [t \in DOMAIN Author |-> IF t = "endpoints" THEN {} ELSE <<>>]
TheSeed == {[m \in {"a", "b"} |-> IF m = "a" THEN Author ELSE Importer],
            [m \in {"a", "b"} |-> Fresh]}

-----------------------------------------------------------------------------
(* DiscoveryImport: two key-value files with the same token and a private   *)
(* key in one project folder, an output path in another, and a protected    *)
(* file in a third.                                                         *)

TheFolder ==
  [p \in AllPaths |-> CASE p = "o" -> "other" [] p = "g" -> "kept" [] OTHER -> "home"]
TheContent == [p \in Discovered |-> [token |-> 1, plain |-> p \in {"e", "g"}]]

Asks(to, source, outputs, as) ==
  [to |-> to, source |-> source, outputs |-> outputs, as |-> as]
TheMenu ==
  ("e" :> {Asks("file", "protect", {}, "shared"),
           Asks("output", "replace", {"e"}, "plain"),
           Asks("outputs", "replace", {"e", "o"}, "shared")})
  @@ ("f" :> {Asks("output", "replace", {"f"}, "shared"),
              Asks("library", "protect", {}, "shared")})
  @@ ("k" :> {Asks("file", "protect", {}, "shared"),
              Asks("library", "leave", {}, "shared")})
  @@ ("g" :> {})

TheSaves == {<<"e", [token |-> 2, plain |-> TRUE]>>, <<"o", [token |-> 2, plain |-> FALSE]>>}

-----------------------------------------------------------------------------
(* DiscoveryScan: a workspace, a nested package, a generated directory, a   *)
(* temporary one and a directory below MAX_DEPTH.                           *)

W == <<"w">>
A == <<"w", "a">>
B == <<"w", "a", "b">>
C == <<"w", "a", "b", "c">>
Out == <<"w", "a", "target">>
Tmp == <<"w", "tmp">>

AllDirs == {<<>>, W, A, B, C, Out, Tmp}

TheRanks == [d \in AllDirs |->
  CASE d = <<>> -> 1 [] d = W -> 2 [] d = A -> 3 [] d = B -> 4 [] d = C -> 5
    [] d = Out -> 6 [] d = Tmp -> 7]

Text(unread, dynamic, ssh, entries) ==
  [unread |-> unread, dynamic |-> dynamic, ssh |-> ssh, entries |-> entries]

Candidate(n, dir, kind, text) ==
  [rank |-> n, dir |-> dir, kind |-> kind, environment |-> "dev", text |-> text]

Entry(key, value) == [key |-> key, value |-> value]

Env(n, dir, entries) == Candidate(n, dir, "dotenv", Text(FALSE, FALSE, FALSE, entries))

Two == Env(1, A, <<Entry("s", 1), Entry("p", 1), Entry("s", 2)>>)
Inner == Env(2, B, <<Entry("s", 2), Entry("t", 2)>>)
Built == Env(3, Out, <<Entry("t", 1)>>)
Deep == Env(4, C, <<Entry("s", 1)>>)
Sample == Candidate(5, W, "reference", Text(FALSE, FALSE, FALSE, <<Entry("t", 9), Entry("q", 9)>>))
Key == Candidate(6, Tmp, "pem", Text(FALSE, FALSE, TRUE, <<>>))
Named == Candidate(7, Out, "unknown", Text(FALSE, FALSE, FALSE, <<Entry("t", 2)>>))
Loose == Env(8, Tmp, <<Entry("s", 1)>>)
Shell == Candidate(9, A, "direnv", Text(FALSE, TRUE, FALSE, <<Entry("s", 1)>>))
Aws == Candidate(10, W, "aws", Text(FALSE, FALSE, FALSE, <<Entry("s", 1)>>))
Gone == Candidate(11, W, "mise", Text(TRUE, FALSE, FALSE, <<>>))
Blob == Candidate(12, B, "opaque", Text(FALSE, FALSE, FALSE, <<>>))
Tool == Candidate(13, A, "mise", Text(FALSE, FALSE, FALSE, <<Entry("s", 1)>>))

FileSets == {{Two, Inner, Built, Sample}, {Deep, Key, Named, Two},
             {Loose, Inner, Shell}, {Aws, Gone, Blob, Tool}, {Two, Inner, Loose, Aws, Blob}}

EmptyDisk ==
  [dirs |-> {<<>>, W}, git |-> {}, rust |-> {}, virtual |-> {}, built |-> {}, composed |-> {},
   files |-> {}]
(* A is a package, a virtual environment or a build tree.                   *)
KindsOfA == {<<{}, {}>>, <<{A}, {}>>, <<{}, {A}>>}
TheDisks ==
  {EmptyDisk} \cup
  {[dirs |-> AllDirs, git |-> git, rust |-> rust, virtual |-> kind[1], built |-> kind[2],
    composed |-> composed, files |-> fs] :
     git \in SUBSET {W, B} \cup {{A}}, rust \in SUBSET {W, A} \cup {{Out}}, kind \in KindsOfA,
     composed \in {{}, {[dir |-> W, file |-> Named]}}, fs \in FileSets}

Dir(dir) == [dir |-> dir, rank |-> 0]

FileOf(file) == [dir |-> file.dir, rank |-> file.rank]

TheRequests ==
  {<<Dir(W)>>, <<Dir(A)>>, <<Dir(B)>>, <<Dir(Tmp)>>, <<Dir(A), Dir(Tmp)>>, <<Dir(B), Dir(W)>>,
   <<FileOf(Two)>>, <<FileOf(Sample), Dir(Out)>>, <<FileOf(Named), FileOf(Loose)>>}

TheKnown == {[key |-> "s", value |-> 1, id |-> 7]}

TheManaged == [d \in {W} |-> {"t"}]

-----------------------------------------------------------------------------
(* A fault of an import, or a save by another program, not both; five of   *)
(* the saves, requests and crashes of a protected file; and both Macs may  *)
(* be down before the first edit of the catalog, one at a time later.      *)
OneTrouble == tally.saves + tally.faults >= 1
FiveEvents == saves + requests + crashes <= 5
OneDown == catalogEdits = 0 \/ \E m \in CatalogMacs : opened[m] = "up"

ControlInit ==
  /\ subject \in {"protected", "catalog", "import", "scan"}
  /\ ProtectedInit /\ CatalogInit /\ ImportInit /\ ScanInit
  /\ subject = "catalog" \/ (schema = [m \in CatalogMacs |-> 14] /\ rows["a"] = Fresh)
  /\ IF subject = "scan" THEN drive # EmptyDisk ELSE drive = EmptyDisk /\ chosen = <<Dir(W)>>

ControlNext ==
  \/ /\ subject = "protected" /\ ProtectedNext
     /\ UNCHANGED <<catalogVars, importVars, scanVars, subject>>
  \/ /\ subject = "catalog" /\ CatalogNext
     /\ UNCHANGED <<protectedVars, importVars, scanVars, subject>>
  \/ /\ subject = "import" /\ ImportNext
     /\ UNCHANGED <<protectedVars, catalogVars, scanVars, subject>>
  \/ /\ subject = "scan" /\ ScanNext
     /\ UNCHANGED <<protectedVars, catalogVars, importVars, subject>>

ControlSpec == ControlInit /\ [][ControlNext]_controlVars
=============================================================================
