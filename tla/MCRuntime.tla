----------------------------- MODULE MCRuntime -----------------------------
(***************************************************************************)
(* Instances of SocketServer, Namespace and DaemonLifecycle for TLC, side  *)
(* by side: a behaviour belongs to one of them, its subject, and leaves    *)
(* the variables of the others as they were.                               *)
(***************************************************************************)
EXTENDS SocketServer, Namespace, DaemonLifecycle, TLC

CONSTANTS q1, q2, c1, c2, allow

VARIABLE subject

runtimeVars == <<socketVars, namespaceVars, lifecycleVars, subject>>

Symmetry == Permutations(Prompts) \cup Permutations(Conns)

(* The components that are not the subject start in one state. *)
RuntimeInit ==
  /\ subject \in {"server", "namespace", "lifecycle"}
  /\ Init /\ NamespaceInit /\ LifecycleInit
  /\ subject # "namespace" =>
       store = [s \in Secrets |-> Absent] /\ registry = [f \in Surfaces |-> Absent]
  /\ subject # "lifecycle" => mnt = None /\ task = Idle

(* Two inodes, or an inode and a change of the store or of the registry.   *)
TwoEvents == changes + (nextIno - FirstIno) <= 2

RuntimeNext ==
  \/ subject = "server" /\ Next /\ UNCHANGED <<namespaceVars, lifecycleVars, subject>>
  \/ subject = "namespace" /\ NamespaceNext /\ UNCHANGED <<socketVars, lifecycleVars, subject>>
  \/ subject = "lifecycle" /\ LifecycleNext /\ UNCHANGED <<socketVars, namespaceVars, subject>>

RuntimeSpec == RuntimeInit /\ [][RuntimeNext]_runtimeVars
=============================================================================
