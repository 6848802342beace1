----------------------------- MODULE MCServing -----------------------------
(***************************************************************************)
(* Instances of ReadSessions, SurfaceResolver, SshConfig and SshKeys for   *)
(* TLC, side by side: a behaviour belongs to one of them, its subject, and *)
(* leaves the variables of the others as they were.                        *)
(***************************************************************************)
EXTENDS ReadSessions, SurfaceResolver, SshConfig, SshKeys, TLC

CONSTANTS h1, p1, p2, r1, w1, e1

VARIABLE subject

servingVars == <<readVars, resolverVars, configVars, keyVars, subject>>

(* Reads of one process through a handle that it, or another process,      *)
(* opened for writing, one more than the pool has threads.                 *)
OfOneProcess == {[fh |-> h1, pid |-> p2, n |-> i] : i \in 1 .. 4}

(* The kernel interrupts one read at most.                                 *)
OneInterrupt == Cardinality(readCut) <= 1

(***************************************************************************)
(* Catalogs for SurfaceResolver: a dotenv file and a scalar that may       *)
(* become lines, and a scalar that is created, renamed and removed.        *)
(***************************************************************************)
Stored(s, codec, entries, label) ==
  [source |-> "secret", secret |-> s, literal |-> "plain", codec |-> codec,
   entries |-> entries, label |-> label]

Literal == [source |-> "literal", secret |-> "none", literal |-> "plain", codec |-> "opaque",
            entries |-> {"value"}, label |-> 1]

FileResource(a) == CASE a = "K" -> Stored("s1", "dotenv", {"K"}, 1)
                     [] a = "ini" -> Stored("s1", "ini", {"/K", "/L"}, 1)
                     [] OTHER -> Stored("s1", "opaque", {"value"}, 1)

BindingNamed(b, on) ==
  [resource |-> CASE b = "ba" -> "a" [] b = "bt" -> "t" [] OTHER -> "l", enabled |-> b = "bt" => on]

Composed(format, bs) == [format |-> format, bindings |-> bs, resource |-> "none"]
Direct == [format |-> "direct", bindings |-> {}, resource |-> "a"]

SurfaceOf(f) == CASE f = "env" -> Composed("dotenv", {"ba", "bt", "bl"})
                  [] f = "cfg" -> Composed("ini", {"ba"})
                  [] f = "net" -> Composed("lines", {"bt", "bl"})
                  [] OTHER -> Direct

(* The name of a catalog: the file's schema, the label of the third        *)
(* resource (0 without it), the surfaces, and whether one binding is       *)
(* enabled.                                                                *)
Names == {n \in {"K", "ini", "opaque"} \X (0..2) \X (SUBSET {"net", "file", "cfg"}) \X BOOLEAN :
            /\ ("file" \in n[3] => n[1] = "K") /\ ("cfg" \in n[3] => n[1] = "ini")
            /\ ~n[4] => n[1] = "K" /\ n[2] = 0 /\ n[3] = {"file"}}

CatalogNamed(n, fs) ==
  [resources |-> [r \in {"a", "t", "l"} \cup (IF n[2] = 0 THEN {} ELSE {"n"}) |->
                    CASE r = "a" -> FileResource(n[1])
                      [] r = "t" -> Stored("s2", "opaque", {"value"}, 1)
                      [] r = "l" -> Literal
                      [] OTHER -> Stored("s3", "opaque", {"value"}, n[2])] @@ <<>>,
   bindings |-> [b \in {"ba", "bt", "bl"} |-> BindingNamed(b, n[4])] @@ <<>>,
   surfaces |-> [f \in fs |-> SurfaceOf(f)] @@ <<>>]

(* TLC tabulates a function that @@ returns.                               *)
TheCatalogs == [n \in Names |-> CatalogNamed(n, {"env"} \cup n[3])] @@ <<>>

Begun == {<<"K", 0, {"net", "file"}, TRUE>>, <<"K", 0, {"file"}, FALSE>>,
          <<"opaque", 1, {}, TRUE>>, <<"ini", 0, {"cfg"}, TRUE>>}
AtRest == <<"K", 0, {"file"}, FALSE>>

TheContents == [s \in Secrets |-> CASE s = "s1" -> {"kv1", "kv2", "plain"}
                                   [] s = "s2" -> {"plain", "block"} [] OTHER -> {"plain"}]

---------------------------------------------------------------------------
ServingInit ==
  /\ subject \in {"reads", "resolver", "config", "keys"}
  /\ ReadInit /\ ResolverInit /\ ConfigInit /\ KeysInit
  /\ subject # "resolver" =>
       catalog = AtRest /\ secretVersions = [s \in Secrets |-> CASE s = "s1" -> <<"kv1">>
                                                                [] s = "s2" -> <<"plain">>
                                                                [] OTHER -> <<>>]
  /\ subject # "config" => config.kind = "none"

ServingNext ==
  \/ /\ subject = "reads" /\ ReadNext
     /\ UNCHANGED <<resolverVars, configVars, keyVars, subject>>
  \/ /\ subject = "resolver" /\ ResolverNext
     /\ UNCHANGED <<readVars, configVars, keyVars, subject>>
  \/ /\ subject = "config" /\ ConfigNext
     /\ UNCHANGED <<readVars, resolverVars, keyVars, subject>>
  \/ /\ subject = "keys" /\ KeysNext
     /\ UNCHANGED <<readVars, resolverVars, configVars, subject>>

ServingSpec == ServingInit /\ [][ServingNext]_servingVars
=============================================================================
