---------------------------- MODULE ProtectedFiles ----------------------------
(***************************************************************************)
(* A file under protection: its bytes live in the encrypted store and the  *)
(* paths it is wanted at (its source path and the worktrees of its project *)
(* that show one of its Environments) are symbolic links to the mount.     *)
(*                                                                         *)
(* The daemon runs one operation at a time under the mutation gate, but    *)
(* editors and shells change the paths between any two of its file system  *)
(* calls.  A path is therefore exchanged with a temporary one and what was *)
(* displaced is looked at afterwards.                                      *)
(***************************************************************************)
EXTENDS Integers, FiniteSets

CONSTANTS
  Source,        \* the path the file was protected at
  FileWorktrees,     \* its paths in the worktrees of the project
  FileEnvironments,  \* the project's environments
  Data,          \* file contents
  MaxFileSaves,      \* saves by other programs
  MaxRequests,   \* control commands and catalog changes
  MaxCrashes     \* times the daemon stops

ASSUME ProtectedAssumption ==
  /\ Source \notin FileWorktrees /\ 0 \notin Data \cup FileEnvironments
  /\ MaxFileSaves \in Nat /\ MaxRequests \in Nat /\ MaxCrashes \in Nat

Paths == {Source} \cup FileWorktrees
NoFile == [kind |-> "absent", data |-> 0, stamp |-> 0]
FloriaLink == [kind |-> "link", data |-> 0, stamp |-> 0]
ForeignLink == [kind |-> "foreign", data |-> 0, stamp |-> 0]
\* The stamp stands for the inode, size, mode and times of a file.
File(data, stamp) == [kind |-> "file", data |-> data, stamp |-> stamp]

VARIABLES
  disk,      \* what lstat finds at each path
  temp,      \* what the temporary path of the running exchange holds
  stranded,  \* files left at the temporary paths of earlier exchanges
  versions,  \* contents the store keeps for the file; {} when it has no record
  head,      \* the current version
  shows,     \* the environment each managed worktree shows, or Nowhere
  scope,     \* the record's Environment Scope
  active,    \* linked_protected_files, the plan the daemon last installed
  task,      \* the operation the daemon is running
  latest,    \* history: the bytes a path's user last put there
  raced,     \* history: saves at a path during one exchange of it
  blind,     \* history: paths where an unverified step met a change
  narrowed,  \* history: paths left by a narrowed scope since they last showed
  plain,     \* history: paths at which the daemon wrote plaintext
  requests, saves, crashes  \* bounds

files == <<disk, temp, stranded>>
record == <<versions, head, scope>>
histories == <<latest, raced, blind, narrowed, plain>>
counts == <<requests, saves, crashes>>
protectedVars == <<disk, temp, stranded, versions, head, shows, scope, active, task, latest,
                   raced, blind, narrowed, plain, requests, saves, crashes>>

Nowhere == 0
NoContent == 0   \* no content

\* protected_checkout_links: the source path, and every managed worktree whose
\* environment the record's placement names.
VisibleIn(scopes) == {w \in FileWorktrees : shows[w] # Nowhere /\ shows[w] \in scopes}
Wanted == IF versions = {} THEN {} ELSE {Source} \cup VisibleIn(scope)
\* A planned link also carries the version it was planned for.
Plan == {<<p, head>> : p \in Wanted}
PathsOf(links) == {link[1] : link \in links}

NoTask == [op |-> "none", step |-> "none", path |-> Source, queue |-> {}, data |-> NoContent,
           stamp |-> 0, created |-> FALSE, previous |-> NoContent, scope |-> {},
           start |-> FALSE]

ProtectedInit ==
  /\ disk = [p \in Paths |-> IF p = Source THEN File(CHOOSE d \in Data : TRUE, 1) ELSE NoFile]
  /\ temp = [p \in Paths |-> NoFile]
  /\ stranded = {}
  /\ versions = {} /\ head = NoContent
  /\ shows = [w \in FileWorktrees |-> Nowhere]
  /\ scope = FileEnvironments
  /\ active = {}
  /\ task = NoTask
  /\ latest = [p \in Paths |-> disk[p].data]
  /\ raced = [p \in Paths |-> 0]
  /\ blind = {} /\ narrowed = {} /\ plain = {}
  /\ requests = 0 /\ saves = 0 /\ crashes = 0

NoTaskRuns == task.op = "none"
Now(op, step) == task.op = op /\ task.step = step
TaskGoes(step) == task' = [task EXCEPT !.step = step]
NewRequest == requests < MaxRequests /\ requests' = requests + 1

\* Every command that succeeds ends with the runtime refresh of the links.
Refreshes == task' = [NoTask EXCEPT !.op = "refresh", !.step = "begin"]
RefreshStarts == task' = [NoTask EXCEPT !.op = "refresh", !.step = "begin", !.start = TRUE]

-----------------------------------------------------------------------------
(* Other programs.                                                         *)

Races(p) == IF ~NoTaskRuns /\ task.path = p /\ task.step \in {"check", "swap", "verify", "undo", "unswap"}
            THEN raced' = [raced EXCEPT ![p] = @ + 1] ELSE UNCHANGED raced

\* A save that creates the path or renames a new file over it.
Save(p, data) ==
  /\ saves < MaxFileSaves /\ saves' = saves + 1
  /\ disk' = [disk EXCEPT ![p] = File(data, saves + 2)]
  /\ latest' = [latest EXCEPT ![p] = data]
  /\ Races(p)
  /\ UNCHANGED <<temp, stranded, record, shows, active, task, blind, narrowed, plain,
                 requests, crashes>>

\* A save through the link: the mount appends a version under the same gate.
SaveThrough(data) ==
  /\ NoTaskRuns /\ versions # {}
  /\ saves < MaxFileSaves /\ saves' = saves + 1
  /\ \E p \in Paths : disk[p] = FloriaLink
  /\ versions' = versions \cup {data} /\ head' = data
  /\ latest' = [p \in Paths |-> IF disk[p] = FloriaLink THEN NoContent ELSE latest[p]]
  /\ UNCHANGED <<files, scope, shows, active, task, raced, blind, narrowed, plain,
                 requests, crashes>>

\* The path is deleted, or made a link to somewhere else.
Replace(p, node) ==
  /\ saves < MaxFileSaves /\ saves' = saves + 1
  /\ disk[p] # node
  /\ disk' = [disk EXCEPT ![p] = node]
  /\ latest' = [latest EXCEPT ![p] = NoContent]
  /\ Races(p)
  /\ UNCHANGED <<temp, stranded, record, shows, active, task, blind, narrowed, plain,
                 requests, crashes>>

-----------------------------------------------------------------------------
(* The exchange of a path: replace_regular_file_with_symlink_if_matches_   *)
(* snapshot towards a link, replace_symlink_with_file_if_target towards a  *)
(* file.                                                                   *)

Restoring == task.op \in {"restore", "withdraw"}
Installed == IF Restoring THEN File(task.data, 0) ELSE FloriaLink

\* same_file_snapshot and the bytes, or the exact link.
Matches(node) ==
  IF Restoring THEN node = FloriaLink
  ELSE node.kind = "file" /\ node.data = task.data /\ (task.stamp = 0 \/ node.stamp = task.stamp)

Begins(p) == raced' = [raced EXCEPT ![p] = IF @ >= 2 THEN @ ELSE 0]

\* Nothing comes back to a temporary path of an exchange that failed.
Strands ==
  /\ temp' = [p \in Paths |-> NoFile]
  /\ stranded' = stranded \cup {<<p, temp[p].data>> : p \in {p \in Paths : temp[p].kind = "file"}}

Check ==
  /\ task.step = "check"
  /\ TaskGoes(IF Matches(disk[task.path]) THEN "swap" ELSE "refused")
  /\ UNCHANGED <<files, record, shows, active, histories, counts>>

\* renameatx_np(RENAME_SWAP) needs both paths.
Swap ==
  LET p == task.path
  IN /\ task.step = "swap"
     /\ IF disk[p] = NoFile
        THEN /\ TaskGoes("failed")
             /\ UNCHANGED <<files, latest, plain>>
        ELSE /\ disk' = [disk EXCEPT ![p] = Installed]
             /\ temp' = [temp EXCEPT ![p] = disk[p]]
             /\ latest' = IF Restoring /\ disk[p] = FloriaLink
                          THEN [latest EXCEPT ![p] = task.data] ELSE latest
             /\ plain' = IF Restoring THEN plain \cup {p} ELSE plain
             /\ TaskGoes("verify")
             /\ UNCHANGED stranded
     /\ UNCHANGED <<record, shows, active, raced, blind, narrowed, counts>>

\* A displaced path that is thrown away unseen.
VerifyNothing ==
  /\ task.step = "verify"
  /\ temp' = [temp EXCEPT ![task.path] = NoFile]
  /\ TaskGoes("swapped")
  /\ UNCHANGED <<disk, stranded, record, shows, active, histories, counts>>

\* What was displaced is removed only when it is what had been expected.
Verify ==
  /\ task.step = "verify"
  /\ IF Matches(temp[task.path])
     THEN temp' = [temp EXCEPT ![task.path] = NoFile] /\ TaskGoes("swapped")
     ELSE TaskGoes("undo") /\ UNCHANGED temp
  /\ UNCHANGED <<disk, stranded, record, shows, active, histories, counts>>

\* rollback_swap, rollback_file_swap: the displaced content stays at the
\* temporary path when the path has changed once more.
Undo ==
  /\ task.step = "undo"
  /\ TaskGoes(IF disk[task.path] = Installed THEN "unswap" ELSE "failed")
  /\ UNCHANGED <<files, record, shows, active, histories, counts>>

\* The paths are exchanged again and the temporary one is removed.
Unswap ==
  LET p == task.path
  IN /\ task.step = "unswap"
     /\ IF disk[p] = NoFile
        THEN TaskGoes("failed") /\ UNCHANGED files
        ELSE /\ disk' = [disk EXCEPT ![p] = temp[p]]
             /\ temp' = [temp EXCEPT ![p] = NoFile]
             /\ TaskGoes("refused")
             /\ UNCHANGED stranded
     /\ UNCHANGED <<record, shows, active, histories, counts>>

-----------------------------------------------------------------------------
(* Protecting the source path.                                             *)

\* read_protection_snapshot: bytes and metadata of one unchanged file.
ProtectFile ==
  /\ NoTaskRuns /\ NewRequest
  /\ disk[Source].kind = "file"
  /\ task' = [NoTask EXCEPT !.op = "protect", !.step = "store",
                            !.data = disk[Source].data, !.stamp = disk[Source].stamp]
  /\ Begins(Source)
  /\ UNCHANGED <<files, record, shows, active, latest, blind, narrowed, plain,
                 saves, crashes>>

\* put for a new record, append_version when the head differs.
ProtectStore ==
  /\ Now("protect", "store")
  /\ versions' = versions \cup {task.data}
  /\ head' = task.data
  /\ task' = [task EXCEPT !.step = "check", !.created = (versions = {}), !.previous = head]
  /\ UNCHANGED <<files, scope, shows, active, histories, counts>>

ProtectDone ==
  /\ Now("protect", "swapped")
  /\ Refreshes
  /\ UNCHANGED <<files, record, shows, active, histories, counts>>

\* rollback_provisional_protection.
ProtectRollback ==
  /\ task.op = "protect" /\ task.step \in {"refused", "failed"}
  /\ versions' = IF task.created THEN {} ELSE versions
  /\ head' = IF task.created THEN NoContent ELSE task.previous
  /\ Strands
  /\ task' = NoTask
  /\ UNCHANGED <<disk, scope, shows, active, histories, counts>>

-----------------------------------------------------------------------------
(* Ending the protection.                                                  *)

\* restore_file: the source path must still be the managed link.
RestoreProtected ==
  /\ NoTaskRuns /\ NewRequest
  /\ versions # {} /\ disk[Source] = FloriaLink
  /\ task' = [NoTask EXCEPT !.op = "restore", !.step = "check", !.data = head,
                            !.queue = Wanted \ {Source}]
  /\ Begins(Source)
  /\ UNCHANGED <<files, record, shows, active, latest, blind, narrowed, plain,
                 saves, crashes>>

\* restore_protected_checkout_links: every other link of the plan.
RestoreNext ==
  /\ task.op = "restore"
  /\ task.step \in (IF task.path = Source THEN {"swapped"} ELSE {"swapped", "refused"})
  /\ task.queue # {}
  /\ \E p \in task.queue :
       /\ task' = [task EXCEPT !.path = p, !.queue = @ \ {p}, !.step = "check"]
       /\ Begins(p)
  /\ UNCHANGED <<files, record, shows, active, latest, blind, narrowed, plain, counts>>

\* The encrypted history goes last; a link outside the plan goes dangling.
RestoreDelete ==
  /\ task.op = "restore"
  /\ task.step \in (IF task.path = Source THEN {"swapped"} ELSE {"swapped", "refused"})
  /\ task.queue = {}
  /\ versions' = {} /\ head' = NoContent
  /\ latest' = [p \in Paths |-> IF p \notin Wanted /\ disk[p] = FloriaLink THEN NoContent ELSE latest[p]]
  /\ Refreshes
  /\ UNCHANGED <<files, scope, shows, active, raced, blind, narrowed, plain, counts>>

RestoreFails ==
  /\ task.op = "restore"
  /\ task.step \in (IF task.path = Source THEN {"refused", "failed"} ELSE {"failed"})
  /\ Strands
  /\ task' = NoTask
  /\ UNCHANGED <<disk, record, shows, active, histories, counts>>

\* update_protected_file_contents: a new version from another file.
UpdateContents(data) ==
  /\ NoTaskRuns /\ NewRequest
  /\ versions # {} /\ data # head
  /\ versions' = versions \cup {data} /\ head' = data
  /\ Refreshes
  /\ UNCHANGED <<files, scope, shows, active, histories, saves, crashes>>

\* rollback_protected_file: an earlier version is the head again.
RollbackVersion(data) ==
  /\ NoTaskRuns /\ NewRequest
  /\ data \in versions
  /\ head' = data
  /\ Refreshes
  /\ UNCHANGED <<files, versions, scope, shows, active, histories, saves, crashes>>

\* External: an import removes the record (remove_replicated_heads).
RemoteDelete ==
  /\ NoTaskRuns /\ NewRequest
  /\ versions # {}
  /\ versions' = {} /\ head' = NoContent
  /\ latest' = [p \in Paths |-> IF disk[p] = FloriaLink THEN NoContent ELSE latest[p]]
  /\ Refreshes
  /\ UNCHANGED <<files, scope, shows, active, raced, blind, narrowed, plain, saves, crashes>>

-----------------------------------------------------------------------------
(* The catalog: worktrees and Environment Scopes.                          *)

\* A worktree is managed, shows another environment, or is forgotten.
SetCheckout(w, environment) ==
  /\ NoTaskRuns /\ NewRequest
  /\ shows[w] # environment
  /\ shows' = [shows EXCEPT ![w] = environment]
  /\ narrowed' = IF environment \in scope THEN narrowed \ {w} ELSE narrowed
  /\ plain' = plain \ {w}
  /\ Refreshes
  /\ UNCHANGED <<files, record, active, latest, raced, blind, saves, crashes>>

\* update_protected_file_metadata: the links that fall out of the scope first.
UpdateScope(environments) ==
  /\ NoTaskRuns /\ NewRequest
  /\ versions # {} /\ environments # {} /\ environments # scope
  /\ task' = [NoTask EXCEPT !.op = "narrow", !.step = "next", !.scope = environments,
                            !.queue = VisibleIn(scope) \ VisibleIn(environments)]
  /\ UNCHANGED <<files, record, shows, active, histories, saves, crashes>>

\* remove_excluded_protected_checkout_links: read_link, then unlink.
NarrowNext ==
  /\ Now("narrow", "next") /\ task.queue # {}
  /\ \E p \in task.queue :
       task' = [task EXCEPT !.path = p, !.queue = @ \ {p},
                            !.step = IF disk[p] = FloriaLink THEN "unlink" ELSE "next"]
  /\ UNCHANGED <<files, record, shows, active, histories, counts>>

NarrowUnlink ==
  /\ Now("narrow", "unlink")
  /\ disk' = [disk EXCEPT ![task.path] = NoFile]
  /\ blind' = IF disk[task.path] = FloriaLink THEN blind ELSE blind \cup {task.path}
  /\ latest' = IF disk[task.path] = FloriaLink THEN [latest EXCEPT ![task.path] = NoContent] ELSE latest
  /\ TaskGoes("next")
  /\ UNCHANGED <<temp, stranded, record, shows, active, raced, narrowed, plain, counts>>

\* update_settings, once every excluded link is gone.
NarrowSettings ==
  /\ Now("narrow", "next") /\ task.queue = {}
  /\ scope' = task.scope
  /\ narrowed' = (narrowed \ VisibleIn(task.scope)) \cup (VisibleIn(scope) \ VisibleIn(task.scope))
  /\ plain' = plain \ (VisibleIn(scope) \ VisibleIn(task.scope))
  /\ Refreshes
  /\ UNCHANGED <<files, versions, head, shows, active, latest, raced, blind, counts>>

-----------------------------------------------------------------------------
(* The runtime refresh: refresh_protected_checkout_links.                  *)

\* Links that left the plan are made files again, if they are still ours.
RefreshBegin ==
  LET gone == {p \in PathsOf(active) \ Wanted : disk[p] = FloriaLink}
  IN /\ Now("refresh", "begin")
     /\ task' = IF active = Plan THEN NoTask
                ELSE IF gone # {} /\ versions = {} THEN NoTask   \* store.get fails
                ELSE [task EXCEPT !.op = "withdraw", !.step = "swapped", !.queue = gone,
                                  !.data = head]
     /\ UNCHANGED <<files, record, shows, active, histories, counts>>

WithdrawNext ==
  /\ task.op = "withdraw" /\ task.step \in {"swapped", "refused"} /\ task.queue # {}
  /\ \E p \in task.queue :
       /\ task' = [task EXCEPT !.path = p, !.queue = @ \ {p}, !.step = "check"]
       /\ Begins(p)
  /\ UNCHANGED <<files, record, shows, active, latest, blind, narrowed, plain, counts>>

\* reconcile_protected_links: the new links and those of a new version.
WithdrawDone ==
  /\ task.op = "withdraw" /\ task.step \in {"swapped", "refused"} /\ task.queue = {}
  /\ task' = [task EXCEPT !.op = "reconcile", !.queue = PathsOf(Plan \ active)]
  /\ UNCHANGED <<files, record, shows, active, histories, counts>>

\* link_protected_copy: create what is missing, leave links alone, exchange a
\* file that still has the head's bytes.
ReconcileNext ==
  /\ task.op = "reconcile" /\ task.step \in {"swapped", "refused"} /\ task.queue # {}
  /\ \E p \in task.queue :
       /\ task' = [task EXCEPT !.path = p, !.queue = @ \ {p},
                     !.step = IF disk[p].kind = "file" THEN "check" ELSE "swapped"]
       /\ disk' = IF disk[p] = NoFile THEN [disk EXCEPT ![p] = FloriaLink] ELSE disk
       /\ Begins(p)
  /\ UNCHANGED <<temp, stranded, record, shows, active, latest, blind, narrowed, plain, counts>>

\* The plan is remembered only when every step of it succeeded.
ReconcileDone ==
  /\ task.op = "reconcile" /\ task.step \in {"swapped", "refused"} /\ task.queue = {}
  /\ active' = Plan
  /\ task' = NoTask
  /\ UNCHANGED <<files, record, shows, histories, counts>>

\* A failure leaves the old plan in memory; at the start it ends the daemon,
\* which is started again.
RefreshFails ==
  /\ task.op \in {"withdraw", "reconcile"} /\ task.step = "failed"
  /\ Strands
  /\ IF task.start THEN RefreshStarts ELSE task' = NoTask
  /\ UNCHANGED <<disk, record, shows, active, latest, raced, blind, narrowed, plain, counts>>

\* ManagedSymlink::repair, for one link of the plan: an exact link is ready,
\* a missing one is created, another link is replaced.
RepairLink(p) ==
  /\ NoTaskRuns /\ NewRequest
  /\ p \in Wanted
  /\ CASE disk[p] = NoFile -> /\ disk' = [disk EXCEPT ![p] = FloriaLink]
                              /\ Refreshes
       [] disk[p] = ForeignLink -> /\ task' = [NoTask EXCEPT !.op = "repair", !.path = p]
                                   /\ UNCHANGED disk
       [] OTHER -> UNCHANGED <<disk, task>>
  /\ UNCHANGED <<temp, stranded, record, shows, active, histories, saves, crashes>>

\* replace_file_with_symlink: an unconditional rename.
RepairReplace ==
  /\ task.op = "repair"
  /\ disk' = [disk EXCEPT ![task.path] = FloriaLink]
  /\ blind' = IF disk[task.path] = ForeignLink THEN blind ELSE blind \cup {task.path}
  /\ Refreshes
  /\ UNCHANGED <<temp, stranded, record, shows, active, latest, raced, narrowed, plain, counts>>

\* The daemon stops; at the next start it plans from nothing.
CrashAndStart ==
  /\ crashes < MaxCrashes /\ crashes' = crashes + 1
  /\ active' = {}
  /\ Strands
  /\ RefreshStarts
  /\ UNCHANGED <<disk, record, shows, histories, requests, saves>>

DaemonStep ==
  \/ Check \/ Swap \/ Verify \/ Undo \/ Unswap
  \/ ProtectStore \/ ProtectDone \/ ProtectRollback
  \/ RestoreNext \/ RestoreDelete \/ RestoreFails
  \/ NarrowNext \/ NarrowUnlink \/ NarrowSettings
  \/ RefreshBegin \/ WithdrawNext \/ WithdrawDone \/ ReconcileNext \/ ReconcileDone
  \/ RefreshFails \/ RepairReplace

ProtectedNext ==
  \/ \E p \in Paths :
       \/ \E data \in Data : Save(p, data)
       \/ \E node \in {NoFile, ForeignLink} : Replace(p, node)
       \/ RepairLink(p)
  \/ \E data \in Data : SaveThrough(data) \/ UpdateContents(data) \/ RollbackVersion(data)
  \/ ProtectFile \/ RestoreProtected \/ RemoteDelete
  \/ \E w \in FileWorktrees, e \in FileEnvironments \cup {Nowhere} : SetCheckout(w, e)
  \/ \E es \in SUBSET FileEnvironments : UpdateScope(es)
  \/ DaemonStep \/ CrashAndStart

-----------------------------------------------------------------------------
(* Properties.                                                             *)

\* Type invariant; the head is one of the versions.
ProtectedTypeOK ==
  /\ \A p \in Paths : disk[p].kind \in {"absent", "link", "foreign", "file"}
  /\ versions \subseteq Data /\ (head \in versions \/ (versions = {} /\ head = NoContent))
  /\ shows \in [FileWorktrees -> FileEnvironments \cup {Nowhere}]
  /\ scope \subseteq FileEnvironments
  /\ PathsOf(active) \subseteq Paths

\* Where the bytes a user last put at a path can be: there, at the temporary
\* path beside it, or in the store.
Kept(p) ==
  \/ latest[p] = NoContent
  \/ \E node \in {disk[p], temp[p]} : node.kind = "file" /\ node.data = latest[p]
  \/ <<p, latest[p]>> \in stranded
  \/ latest[p] \in versions

\* A save that races an exchange of its path is never lost, whichever system
\* call it falls between and wherever the daemon stops; a second save during
\* the same exchange and the unverified steps are left out.
RacingSaveIsKept == \A p \in Paths : Kept(p) \/ raced[p] >= 2 \/ p \in blind

\* When the record goes, no path of the plan is still a link to it: restoring
\* a file makes every one a file again first.
LinksResolve ==
  [][task.op = "restore" /\ versions # {} /\ versions' = {} =>
       \A p \in Wanted : disk'[p] # FloriaLink]_protectedVars

\* A checkout that falls out of the Environment Scope is never given a
\* plaintext copy by the refresh that follows.
NarrowingLeavesNoPlaintext == narrowed \cap plain = {}

\* Content is neither lost nor spread: a racing save is kept, no link outlives
\* the record, and no checkout out of scope is given a plaintext copy.
FilesAreProtected ==
  /\ [](ProtectedTypeOK /\ RacingSaveIsKept /\ NarrowingLeavesNoPlaintext)
  /\ LinksResolve
=============================================================================
