----------------------------- MODULE MCServices -----------------------------
(***************************************************************************)
(* Instances of AuditLog, Activation and SshAgent for TLC, side by side: a *)
(* behaviour belongs to one of them, its subject, and leaves the variables *)
(* of the others as they were.                                             *)
(***************************************************************************)
EXTENDS AuditLog, Activation, SshAgent, TLC

VARIABLE subject

servicesVars == <<auditVars, activationVars, sshVars, subject>>

(* Two data sets of one Vault and one of another.                          *)
TheVaults == <<>> @@ (0 :> "home") @@ (1 :> "home") @@ (2 :> "other")

(* A surface with an identity of the Store and one with an agent, which    *)
(* later snapshots change and remove.                                      *)
Identity(k) == [kind |-> "identity", endpoint |-> "none", keys |-> <<k>>]
Agent(e, ks) == [kind |-> "agent", endpoint |-> e, keys |-> ks]
Surface(r, selections, route) == [revision |-> r, selections |-> selections, route |-> route]
TheSnapshots ==
  { ("s" :> Surface(1, <<Identity("k")>>, TRUE)) @@ ("t" :> Surface(1, <<Agent("up", <<"l", "m">>)>>, FALSE)),
    ("s" :> Surface(2, <<Identity("l")>>, TRUE)),
    ("t" :> Surface(1, <<Agent("none", <<"l", "m">>)>>, FALSE)) }
Payload(k, session, host) == [key |-> k, session |-> session, host |-> host]
ThePayloads == {Payload("k", 1, "none"), Payload("l", 1, "h"), Payload("l", 2, "none")}
Binding(session, host, forwarded) == [session |-> session, host |-> host, forwarded |-> forwarded]
TheBindings == {Binding(1, "h", FALSE), Binding(2, "g", TRUE), Binding(2, "g", FALSE)}

ServicesInit ==
  /\ subject \in {"audit", "activation", "ssh"}
  /\ AuditInit /\ ActivationInit /\ SshInit
  /\ subject # "audit" => log = <<>>

ServicesNext ==
  \/ subject = "audit" /\ AuditNext /\ UNCHANGED <<activationVars, sshVars, subject>>
  \/ subject = "activation" /\ ActivationNext /\ UNCHANGED <<auditVars, sshVars, subject>>
  \/ subject = "ssh" /\ SshNext /\ UNCHANGED <<auditVars, activationVars, subject>>

(* Requests, replacements and failures of a behaviour come to four.        *)
FourEvents == sshTally.requests + sshTally.replaces + sshTally.faults <= 4

(* The fairness of the three components, each in its own behaviours.  Some *)
(* listener that was told to stop does, which is enough because there are  *)
(* finitely many.                                                          *)
ServicesFairness ==
  /\ WF_auditVars(subject = "audit" /\ WorkerStep)
  /\ WF_activationVars(subject = "activation" /\ ActivationProcess)
  /\ WF_sshVars(subject = "ssh" /\ Updates)
  /\ WF_sshVars(subject = "ssh" /\ \E i \in DOMAIN listeners : StopAccepting(i))
  /\ \A p \in SshPeers :
       /\ WF_sshVars(subject = "ssh" /\ Handles(p))
       /\ WF_sshVars(subject = "ssh" /\ peers[p].at # "out" /\ Stopped(p) /\ Close(p))

ServicesSpec == ServicesInit /\ [][ServicesNext]_servicesVars /\ ServicesFairness

(* Unless a state file of the activation itself was torn or the intent     *)
(* cannot be carried out, the daemon gets to serve again.                  *)
DaemonServesAgain == subject = "activation" => ServesAgain

(* The activation of a backup is one step that ends: the two swaps are one *)
(* and in the journal, no live data are lost, and the daemon serves again. *)
ActivationsAreWhole ==
  /\ [](ActivationTypeOK /\ ActivationIsAtomic /\ LiveDataAreKept)
  /\ SwapsAreJournalled
  /\ DaemonServesAgain
=============================================================================
