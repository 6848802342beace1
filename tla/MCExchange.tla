----------------------------- MODULE MCExchange -----------------------------
(***************************************************************************)
(* Instances of Store, ReplicationLog and Coordination for TLC, side by    *)
(* side: a behaviour belongs to one of them, its subject, and leaves the   *)
(* variables of the others as they were.                                   *)
(***************************************************************************)
EXTENDS Store, ReplicationLog, Coordination, TLC

VARIABLE subject

exchangeVars == <<storeVars, replicationVars, coordinationVars, subject>>

(* A merge of two branches, or a kill or a failure of the log, not both; a *)
(* file that the sync tool takes back, or a second edit, not both; a       *)
(* failed call of the daemon, or a second request, not both.               *)
RolledBack == \E d \in Devices : "rollback" \in marks[d]
OneTrouble ==
  /\ merges + mishaps <= 1 /\ (RolledBack => edits <= 1)
  /\ requests + faults <= 2

(* Control connections differ in their names alone.                        *)
AnyConnections == Permutations(Connections)

ExchangeInit ==
  /\ subject \in {"store", "log", "gate"}
  /\ StoreInit /\ ReplicationInit /\ CoordinationInit
  /\ subject # "store" => ~others
  /\ subject # "gate" => engineMode = "off"

ExchangeNext ==
  \/ subject = "store" /\ StoreNext /\ UNCHANGED <<replicationVars, coordinationVars, subject>>
  \/ subject = "log" /\ ReplicationNext /\ UNCHANGED <<storeVars, coordinationVars, subject>>
  \/ subject = "gate" /\ CoordinationNext /\ UNCHANGED <<storeVars, replicationVars, subject>>

ExchangeSpec == ExchangeInit /\ [][ExchangeNext]_exchangeVars

(* The threads of the daemon alone, which get their locks in the end.      *)
GateSpec ==
  /\ ExchangeInit /\ subject = "gate"
  /\ [][ExchangeNext]_exchangeVars
  /\ \A t \in Threads : SF_coordinationVars(ThreadSteps(t))
=============================================================================
