----------------------------- MODULE MCDevices -----------------------------
(***************************************************************************)
(* Instances of RecordSync and VaultMembership for TLC, side by side: a    *)
(* behaviour belongs to one of them, its subject, and leaves the variables *)
(* of the other as they were.                                              *)
(***************************************************************************)
EXTENDS RecordSync, VaultMembership, TLC

CONSTANTS d1, d2, s1, k1

VARIABLE subject

deviceVars == <<syncVars, membershipVars, subject>>

Both == [entities |-> {s1, k1}, delete |-> FALSE]
NoSecret == [entities |-> {s1}, delete |-> TRUE]
MCMutations == {Both, NoSecret}

(* The steps of an operation after its delivery use only their device's    *)
(* state: it is enough to run the operations of two devices one after the  *)
(* other.                                                                  *)
OneBusy == \A d, b \in Devices : pc[d] # "idle" /\ pc[b] # "idle" => d = b

(* Any two of a crash, a partial delivery and a resolution, not all three; *)
(* a crash and a partial delivery together with at most one edit.          *)
TwoTroubles ==
  crashes + resolves + partials <= 2 /\ (crashes + partials = 2 => edits <= 1)

Symmetry == Permutations(Devices)

DevicesInit == subject \in {"records", "members"} /\ Init /\ MembershipInit

DevicesNext ==
  \/ subject = "records" /\ Next /\ UNCHANGED <<membershipVars, subject>>
  \/ subject = "members" /\ MembershipNext /\ UNCHANGED <<syncVars, subject>>

DevicesSpec == DevicesInit /\ [][DevicesNext]_deviceVars
=============================================================================
