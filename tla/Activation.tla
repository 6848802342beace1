----------------------------- MODULE Activation -----------------------------
(***************************************************************************)
(* Restoring a backup over the live data (floria-backup/src/activation.rs, *)
(* lib.rs), by the command line while the daemon is down or, for a move to *)
(* another Vault, by the daemon at its next start (floria/src/main.rs).    *)
(*                                                                         *)
(* The live data are two paths, the catalog and the Store, and each of     *)
(* them is swapped with a staged copy of the restored data by one rename.  *)
(* A journal of both swaps is written first; it, the scheduled intent and  *)
(* the security states of the catalog and of the Store are authenticated   *)
(* files whose checkpoints are in the Keychain, so that each is written in *)
(* two steps.  The process can be killed before every step and each step   *)
(* can fail, before or after its effect.                                   *)
(*                                                                         *)
(* A process is the sequence of the steps it has left.  A file identity    *)
(* (device and inode) is the data set that lives there.                    *)
(***************************************************************************)
EXTENDS Integers, Sequences

CONSTANTS
  Data,            \* the data sets; 0 is live at first
  VaultOf,         \* the Vault of each data set
  MaxActivations,  \* bound on the activations that are asked for
  MaxBreaks,       \* bound on kills and failures
  None

ASSUME ActivationAssumption ==
  /\ 0 \in Data
  /\ DOMAIN VaultOf = Data
  /\ {MaxActivations, MaxBreaks} \subseteq Nat

VARIABLES
  active,     \* what is at the configured paths
  staged,     \* what is at the staging paths
  restored,   \* the restored trees on the disk
  safety,     \* the safety backups
  states,     \* the authenticated files outside the Store
  storeSeals, \* local/.integrity.json of each Store, which is swapped with it
  trusted,    \* the Keychain checkpoints
  todo,       \* the steps that the process has left
  swapPhase,      \* what they are part of
  txn,        \* the ActivationJournal in memory
  caller,     \* who carries it out
  outcome,    \* history: what the last activation reported
  lived,      \* history: the data sets that were served
  asked, breaks

activationDisk == <<active, staged, restored, safety, states, storeSeals, trusted>>
activationVars == <<activationDisk, todo, swapPhase, txn, caller, outcome, lived, asked, breaks>>

Parts == {"catalog", "store"}
Envelope(g, value) == [generation |-> g, value |-> value]
Transaction(d, path) == [old |-> active, new |-> [p \in Parts |-> d], safety |-> path]
Outcomes == {"none", "activated", "rolled back", "failed"}
Phases == {"down", "prepare", "finish", "finalize", "rollback", "undo", "schedule", "clear",
           "serve"}
Callers == {"command", "recovery", "intent"}

ActivationInit ==
  /\ active = [p \in Parts |-> 0]
  /\ staged = [p \in Parts |-> None]
  /\ restored = Data \ {0}
  /\ safety = {}
  /\ states = [journal |-> None, intent |-> None, catalog |-> Envelope(1, 0)]
  /\ storeSeals = [d \in Data |-> IF d = 0 THEN Envelope(1, 0) ELSE None]
  /\ trusted = [journal |-> None, intent |-> None, catalog |-> Envelope(1, 0),
                store |-> Envelope(1, 0)]
  /\ todo = <<>>
  /\ swapPhase = "down"
  /\ txn = None
  /\ caller = "command"
  /\ outcome = "none"
  /\ lived = {0}
  /\ asked = 0
  /\ breaks = 0

(***************************************************************************)
(* Authenticated state.                                                    *)
(***************************************************************************)
SidecarOf(domain) == IF domain = "store" THEN storeSeals[active["store"]] ELSE states[domain]
CheckpointedGeneration(domain) == IF trusted[domain] = None THEN 0 ELSE trusted[domain].generation

\* StateAuthenticator::load accepts the file; load_restore_state() and
\* load_scheduled_activation() take a missing one for empty at generation zero.
LoadsState(domain) ==
  \/ SidecarOf(domain) # None /\ SidecarOf(domain) = trusted[domain]
  \/ SidecarOf(domain) = None /\ trusted[domain] = None

ValueOf(domain) == IF SidecarOf(domain) = None THEN None ELSE SidecarOf(domain).value

\* Catalog::open_authenticated and AgeDirStore::authenticate also compare what is there.
OpensAuthenticated(p) == LoadsState(p) /\ ValueOf(p) = active[p]

\* The two halves of StateAuthenticator::persist after the generation of the checkpoint.
WriteState(domain, value) ==
  LET envelope == Envelope(CheckpointedGeneration(domain) + 1, value) IN
  IF domain = "store"
  THEN storeSeals' = [storeSeals EXCEPT ![active["store"]] = envelope] /\ UNCHANGED states
  ELSE states' = [states EXCEPT ![domain] = envelope] /\ UNCHANGED storeSeals

TrustState(domain) == trusted' = [trusted EXCEPT ![domain] = SidecarOf(domain)]

(***************************************************************************)
(* The steps.                                                              *)
(***************************************************************************)
Persisting(domain) == <<<<"write", domain>>, <<"trust", domain>>>>
Sealing == Persisting("catalog") \o Persisting("store")

\* activate_restored_data() up to the first swap.
Preparing == <<<<"backup">>, <<"stage">>>> \o Persisting("journal")

\* finish_activation(), finalize_activation() and rollback_activation().
Swapping == <<<<"swap", "catalog">>, <<"swap", "store">>, <<"verify">>>> \o Sealing
Finalizing == <<<<"clean">>>> \o Persisting("journal")

\* A plausible bug: the Store is not swapped back.
UnswappingCatalog == <<<<"unswap", "catalog">>>> \o Sealing \o <<<<"clean">>>>

Unswapping ==
  <<<<"unswap", "catalog">>, <<"unswap", "store">>, <<"verify">>>> \o Sealing \o <<<<"clean">>>>

At(kind) == todo # <<>> /\ Head(todo)[1] = kind
Target == Head(todo)[2]
Proceed(next, steps) == swapPhase' = next /\ todo' = steps
Exit == Proceed("down", <<>>)
Done == Proceed(swapPhase, Tail(todo)) /\ UNCHANGED breaks

\* An error ends the process, but finish_activation() is rolled back and a running daemon
\* reports it.
Error ==
  CASE swapPhase = "finish" -> Proceed("rollback", Unswapping)
    [] swapPhase = "serve" -> Proceed("serve", <<>>)
    [] OTHER -> Exit

Break == breaks < MaxBreaks /\ breaks' = breaks + 1
Failed == Break /\ Error
stepUnchanged == <<txn, caller, outcome, lived, asked>>

\* rename_swap() of a path with its staging path.
Rename(p) == /\ active' = [active EXCEPT ![p] = staged[p]]
             /\ staged' = [staged EXCEPT ![p] = active[p]]

\* ensure_restored_at_active_path() and ensure_old_at_active_path(); the directory may fail to
\* synchronize after the rename.
Swap(kind, wanted, other) ==
  /\ At(kind)
  /\ LET p == Target
         swappable == active[p] = other[p] /\ staged[p] = wanted[p]
     IN \/ active[p] = wanted[p] /\ Done /\ UNCHANGED <<active, staged>>
        \/ swappable /\ Rename(p) /\ (Done \/ Failed)
        \/ swappable /\ Failed /\ UNCHANGED <<active, staged>>
        \/ /\ active[p] # wanted[p] /\ ~swappable
           /\ Error
           /\ UNCHANGED <<active, staged, breaks>>
  /\ UNCHANGED <<restored, safety, states, storeSeals, trusted, stepUnchanged>>

\* verify_components(): the Secrets that the catalog refers to are in the Store.
ReferencesResolve == active["catalog"] = active["store"]

Verify ==
  /\ At("verify")
  /\ \/ ReferencesResolve /\ Done
     \/ ~ReferencesResolve /\ Error /\ UNCHANGED breaks
     \/ Failed
  /\ UNCHANGED <<activationDisk, stepUnchanged>>

\* verify() finds the backup complete.
HasSafetyBackup(transaction) == \E s \in safety : s.path = transaction.safety

\* create_with_locked_store() of the safety backup, whose destination is never overwritten.
SafetyBackup ==
  /\ At("backup")
  /\ \/ /\ ~HasSafetyBackup(txn)
        /\ safety' = safety \cup {[path |-> txn.safety, data |-> active]}
        /\ Done
     \/ HasSafetyBackup(txn) /\ Error /\ UNCHANGED <<safety, breaks>>
     \/ Failed /\ UNCHANGED safety
  /\ UNCHANGED <<active, staged, restored, states, storeSeals, trusted, stepUnchanged>>

Nothing == [p \in Parts |-> None]

\* StagedActivation and the copies of the restored data.
Stage ==
  /\ At("stage")
  /\ \/ staged' = txn.new /\ Done
     \/ Failed /\ staged' = Nothing
  /\ UNCHANGED <<active, restored, safety, states, storeSeals, trusted, stepUnchanged>>

\* What each persist() of this process writes.
DocumentFor(domain) ==
  CASE domain \in Parts -> active[domain]
    [] domain = "journal" /\ swapPhase = "prepare" -> txn
    [] OTHER -> None

\* StagedActivation::drop, unless the journal is in place.
Unstage == staged' = IF swapPhase = "prepare" THEN Nothing ELSE staged

\* StateAuthenticator::persist: the file ...
Write ==
  LET domain == Target IN
  /\ At("write")
  /\ domain = "journal" => LoadsState("journal")
  /\ \/ WriteState(domain, DocumentFor(domain)) /\ Done /\ UNCHANGED staged
     \/ /\ WriteState(domain, DocumentFor(domain)) \/ UNCHANGED <<states, storeSeals>>
        /\ Failed /\ Unstage
  /\ UNCHANGED <<active, restored, safety, trusted, stepUnchanged>>

\* ... and the checkpoint.  The daemon removes the tree of an intent it could not record.
Trust ==
  /\ At("trust")
  /\ \/ TrustState(Target) /\ Done /\ UNCHANGED <<staged, restored>>
     \/ /\ TrustState(Target) \/ UNCHANGED trusted
        /\ Failed /\ Unstage
        /\ restored' = IF swapPhase = "serve" THEN restored \ {states.intent.value.new["store"]}
                       ELSE restored
  /\ UNCHANGED <<active, safety, states, storeSeals, stepUnchanged>>

\* remove_old_staged_data() and remove_restored_staged_data().
Clean ==
  /\ At("clean")
  /\ \/ staged' = Nothing /\ Done
     \/ Failed /\ \E p \in Parts : staged' \in {staged, [staged EXCEPT ![p] = None]}
  /\ UNCHANGED <<active, restored, safety, states, storeSeals, trusted, stepUnchanged>>

(***************************************************************************)
(* What follows when the steps are done.                                   *)
(***************************************************************************)
phaseUnchanged == <<activationDisk, lived, asked>>
After(ph) == swapPhase = ph /\ todo = <<>>

Prepared ==
  /\ After("prepare")
  /\ Proceed("finish", Swapping)
  /\ UNCHANGED <<phaseUnchanged, txn, caller, outcome, breaks>>

\* Recovery verifies the safety backup before it finalizes.
Finished ==
  /\ After("finish")
  /\ \/ /\ caller = "recovery" => HasSafetyBackup(txn)
        /\ Proceed("finalize", Finalizing) /\ UNCHANGED breaks
     \/ caller = "recovery" /\ Break /\ Exit
  /\ UNCHANGED <<phaseUnchanged, txn, caller, outcome>>

RolledBack ==
  /\ After("rollback")
  /\ Proceed("undo", Persisting("journal"))
  /\ UNCHANGED <<phaseUnchanged, txn, caller, outcome, breaks>>

\* activate_restored_data() or recover_interrupted_activation() returns to its caller.
Activated ==
  /\ After("finalize")
  /\ outcome' = "activated"
  /\ CASE caller = "command" -> Exit
       [] caller = "recovery" -> Proceed("schedule", <<>>)
       [] caller = "intent" -> Proceed("clear", Persisting("intent"))
  /\ UNCHANGED <<phaseUnchanged, txn, caller, breaks>>

Undone ==
  /\ After("undo")
  /\ outcome' = "rolled back"
  /\ Exit
  /\ UNCHANGED <<phaseUnchanged, txn, caller, breaks>>

\* The intent is cleared, and its tree removed if that succeeds.
Cleared ==
  /\ After("clear")
  /\ restored' \in {restored, restored \ {active["store"]}}
  /\ Proceed("schedule", <<>>)
  /\ UNCHANGED <<active, staged, safety, states, storeSeals, trusted, stepUnchanged, breaks>>

(***************************************************************************)
(* The command and the start of the daemon.                                *)
(***************************************************************************)
Begin(who, d, path) ==
  /\ txn' = Transaction(d, path)
  /\ caller' = who
  /\ outcome' = "none"
  /\ Proceed("prepare", Preparing)

JournalIsEmpty == LoadsState("journal") /\ ValueOf("journal") = None

\* cmd_backup_activate().
ActivateCommand(d) ==
  /\ swapPhase = "down" /\ asked < MaxActivations
  /\ d \in restored
  /\ \A p \in Parts : OpensAuthenticated(p)
  /\ JournalIsEmpty
  /\ Begin("command", d, <<"pre-restore", asked>>)
  /\ asked' = asked + 1
  /\ UNCHANGED <<activationDisk, lived, breaks>>

\* cmd_mount() first recovers an interrupted activation.
StartMount ==
  /\ swapPhase = "down"
  /\ LoadsState("journal")
  /\ outcome' = "none"
  /\ IF ValueOf("journal") = None
     THEN Proceed("schedule", <<>>) /\ UNCHANGED <<txn, caller>>
     ELSE Proceed("finish", Swapping) /\ txn' = ValueOf("journal") /\ caller' = "recovery"
  /\ UNCHANGED <<phaseUnchanged, breaks>>

Intent == IF LoadsState("intent") THEN ValueOf("intent") ELSE None
InVaultOf(data) == VaultOf[active["store"]] = VaultOf[data["store"]]

\* activate_scheduled_data() in the source Vault of the intent, and in its target Vault.
ScheduledPending ==
  /\ Intent # None /\ Intent.new["store"] \in restored
  /\ InVaultOf(Intent.old)
  /\ OpensAuthenticated("catalog") /\ JournalIsEmpty

ScheduledDone ==
  /\ Intent # None /\ Intent.new["store"] \in restored
  /\ InVaultOf(Intent.new)
  /\ \A p \in Parts : OpensAuthenticated(p)
  /\ active = Intent.new
  /\ HasSafetyBackup(Intent)

ActivateScheduled ==
  /\ After("schedule")
  /\ ScheduledPending
  /\ Begin("intent", Intent.new["store"], Intent.safety)
  /\ UNCHANGED <<phaseUnchanged, breaks>>

ClearScheduled ==
  /\ After("schedule")
  /\ ScheduledDone
  /\ Proceed("clear", Persisting("intent"))
  /\ UNCHANGED <<phaseUnchanged, txn, caller, outcome, breaks>>

\* AgeDirStore::authenticate and Catalog::open_authenticated accept the live data.
Ready ==
  /\ LoadsState("intent") /\ ValueOf("intent") = None
  /\ \A p \in Parts : OpensAuthenticated(p)

Serve ==
  /\ After("schedule")
  /\ Ready
  /\ Proceed("serve", <<>>)
  /\ lived' = lived \cup {active[p] : p \in Parts}
  /\ UNCHANGED <<activationDisk, txn, caller, outcome, asked, breaks>>

\* A state file or the live data refuse the start.
StartRefused ==
  /\ \/ swapPhase = "down" /\ ~LoadsState("journal")
     \/ After("schedule") /\ ~ScheduledPending /\ ~ScheduledDone /\ ~Ready
     \/ At("write") /\ Target = "journal" /\ ~LoadsState("journal")
  /\ Exit
  /\ outcome' = "failed"
  /\ UNCHANGED <<phaseUnchanged, txn, caller, breaks>>

(***************************************************************************)
(* The running daemon, and kills.                                          *)
(***************************************************************************)
\* schedule_cross_vault_activation() up to the checkpoint.
SchedulePending(d) ==
  /\ d \in restored /\ VaultOf[d] # VaultOf[active["store"]]
  /\ LoadsState("intent") /\ ValueOf("intent") = None
  /\ WriteState("intent", Transaction(d, <<"vault-safety", asked>>))

\* schedule_populated_vault_merge().
Schedule(d) ==
  /\ After("serve") /\ asked < MaxActivations
  /\ SchedulePending(d)
  /\ Proceed("serve", <<<<"trust", "intent">>>>)
  /\ asked' = asked + 1
  /\ UNCHANGED <<active, staged, restored, safety, trusted, txn, caller, outcome, lived, breaks>>

StopDaemon ==
  /\ After("serve")
  /\ Exit
  /\ UNCHANGED <<phaseUnchanged, txn, caller, outcome, breaks>>

KillProcess ==
  /\ swapPhase # "down"
  /\ Break
  /\ Exit
  /\ outcome' = "none"
  /\ UNCHANGED <<phaseUnchanged, txn, caller>>

ActivationProcess ==
  \/ Swap("swap", txn.new, txn.old) \/ Swap("unswap", txn.old, txn.new)
  \/ Verify \/ SafetyBackup \/ Stage \/ Write \/ Trust \/ Clean
  \/ Prepared \/ Finished \/ RolledBack \/ Activated \/ Undone \/ Cleared
  \/ StartMount \/ ActivateScheduled \/ ClearScheduled \/ Serve \/ StartRefused

ActivationNext ==
  \/ ActivationProcess
  \/ \E d \in Data : ActivateCommand(d) \/ Schedule(d)
  \/ StopDaemon \/ KillProcess

\* The daemon is started again, and a process takes its steps.
ActivationFairness == WF_activationVars(ActivationProcess)

(***************************************************************************)
(* Properties.                                                             *)
(***************************************************************************)
Envelopes(values) == {None} \cup [generation : Nat, value : values]
Pairs == [Parts -> Data]
Paths == {"pre-restore", "vault-safety"} \X (0 .. MaxActivations)
Transactions == [old : Pairs, new : Pairs, safety : Paths]

\* The state has its type: only whole data sets are at the paths, and the transaction in memory
\* is there while its steps are run.
ActivationTypeOK ==
  /\ active \in Pairs
  /\ staged \in [Parts -> Data \cup {None}]
  /\ restored \subseteq Data
  /\ safety \subseteq [path : Paths, data : Pairs]
  /\ states.journal \in Envelopes(Transactions \cup {None})
  /\ states.intent \in Envelopes(Transactions \cup {None})
  /\ states.catalog \in Envelopes(Data)
  /\ storeSeals \in [Data -> Envelopes(Data)]
  /\ \A domain \in DOMAIN states : trusted[domain] # None => trusted[domain].generation \in Nat
  /\ swapPhase \in Phases
  /\ swapPhase \in {"prepare", "finish", "finalize", "rollback", "undo"} => txn \in Transactions
  /\ caller \in Callers
  /\ outcome \in Outcomes
  /\ lived \subseteq Data
  /\ asked \in 0 .. MaxActivations /\ breaks \in 0 .. MaxBreaks

\* The two swaps are one: the daemon never serves the catalog of one data set with the Store of
\* another, both paths hold the requested data when an activation reported success, and both hold
\* the previous data, and open, when it said that they were restored (activation.rs:422, :281).
ActivationIsAtomic ==
  /\ swapPhase = "serve" => active["catalog"] = active["store"]
  /\ outcome = "activated" /\ swapPhase = "down" => active = txn.new
  /\ outcome = "rolled back" => active = txn.old
  /\ outcome \in {"activated", "rolled back"} => \A p \in Parts : OpensAuthenticated(p)

\* Data that were live once are never lost: each part is live, staged or in a safety backup
\* (activation.rs:236, the safety backup is made before the swap).
LiveDataAreKept ==
  \A d \in lived, p \in Parts :
    d \in {active[p], staged[p]} \/ \E s \in safety : s.data[p] = d

\* Recorded(d, e): the trusted journal is a transaction between these two data sets.
Recorded(p, d, e) ==
  /\ trusted.journal # None /\ states.journal = trusted.journal
  /\ trusted.journal.value # None
  /\ {d, e} \subseteq {trusted.journal.value.old[p], trusted.journal.value.new[p]}

\* A live path is replaced only in a transaction that the trusted journal records, so that the
\* next start can finish or undo it (activation.rs:271 and :422).
SwapsAreJournalled ==
  [][\A p \in Parts : active'[p] # active[p] => Recorded(p, active[p], active'[p])]_activationVars

\* A state file is ahead of its checkpoint, or the intent can no longer be carried out: its tree
\* is gone, or there is a safety backup where it has to be made or none where it was made.
Stuck ==
  \/ ~LoadsState("journal") \/ ~LoadsState("intent")
  \/ /\ Intent # None
     /\ \/ Intent.new["store"] \notin restored
        \/ InVaultOf(Intent.old) <=> HasSafetyBackup(Intent)

\* Unless a state file of the activation itself was torn or the intent cannot be carried out, the
\* daemon gets to serve again, whatever was interrupted (main.rs:972-1002).
ServesAgain == []<>(swapPhase = "serve" \/ (swapPhase = "down" /\ Stuck))
=============================================================================
