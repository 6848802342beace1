--------------------------- MODULE CheckoutMonitor ---------------------------
(***************************************************************************)
(* The monitor of the Git checkouts of the projects                        *)
(* (floria-discover/src/watch.rs, git.rs) and the answer that the control  *)
(* server gives the app from its inventory                                 *)
(* (floria-control/src/server/checkouts.rs).                               *)
(*                                                                         *)
(* Two threads work on the inventory.  The monitor takes commands from a   *)
(* queue, and rebuilds the inventory from Git's files when a deadline      *)
(* passes; the watcher registers the common directories with the           *)
(* operating system, which may block.  Git and the owner change the        *)
(* directories at any time, between a scan and the registration that       *)
(* follows it included.                                                    *)
(*                                                                         *)
(* A path stands for a directory.  A repository is named by its primary    *)
(* checkout, whose .git is the repository's common directory.              *)
(***************************************************************************)
EXTENDS Integers, Sequences, FiniteSets, SequencesExt

CONSTANTS
  Dirs,          \* the directories that hold checkouts
  Monitored,     \* identifiers of projects
  RootOf,        \* identifier -> the directory of the project
  NoRepo,        \* what .git names when there is none, or none that is valid
  MaxGitChanges, \* bound: changes of directories and of the set of projects
  MaxMail,       \* bound: commands that wait for the watcher
  MaxUnwatched   \* bound: registrations that fail, notices that are lost

ASSUME MonitorConstants ==
  /\ RootOf \in [Monitored -> Dirs] /\ NoRepo \notin Dirs
  /\ MaxGitChanges \in Nat /\ MaxUnwatched \in Nat /\ MaxMail \in Nat \ {0}

VARIABLES
  git,       \* [marker, entries, standing]: Git's files
  watched,   \* the directories that the watcher believes registered
  native,    \* the directories that are registered
  mailbox,   \* commands for the monitor, and for the watcher
  monitor,   \* the monitor's thread
  watching,  \* the watcher's thread
  inventory, \* the shared inventory
  app,       \* what the app shows, and the revision it knows
  unseen,    \* projects whose last change no notice could tell of
  spent      \* [changes, unwatched]

monitorVars ==
  <<git, watched, native, mailbox, monitor, watching, inventory, app, unseen, spent>>

(***************************************************************************)
(* discover_git_checkouts                                                  *)
(***************************************************************************)
Unavailable == [common |-> NoRepo, checkouts |-> {}]

(* The .git of a directory is the repository's own directory, or a file    *)
(* that leads to a directory of the repository's worktrees.                *)
ResolveGitDir(g, root) == IF root \in g.standing THEN g.marker[root] ELSE NoRepo

(* The common directory lies in the primary checkout.                      *)
ResolveCommonDir(g, repo) ==
  IF repo # NoRepo /\ repo \in g.standing /\ g.marker[repo] = repo THEN repo ELSE NoRepo

LiveWorktrees(g, repo) == g.entries[repo] \cap g.standing

DiscoverGitCheckouts(g, root) ==
  LET repo == ResolveCommonDir(g, ResolveGitDir(g, root)) IN
  IF repo = NoRepo THEN Unavailable
  ELSE [common |-> repo, checkouts |-> {root, repo} \cup LiveWorktrees(g, repo)]

Scan(ids) == [p \in ids |-> DiscoverGitCheckouts(git, RootOf[p])]

WatchRoots(found) == {found[p].common : p \in DOMAIN found} \ {NoRepo}

(***************************************************************************)
(* Initial state: every directory is a checkout of its own or none, the    *)
(* monitor has just started.                                               *)
(***************************************************************************)
MonitorInit ==
  /\ \E r \in Dirs :
       git = [marker |-> [d \in Dirs |-> IF d = r THEN r ELSE NoRepo],
              entries |-> [d \in Dirs |-> {}], standing |-> {r}]
  /\ watched = {} /\ native = {}
  /\ mailbox = [monitor |-> <<>>, watcher |-> <<>>]
  /\ monitor = [at |-> "waits", ids |-> Monitored, dirty |-> TRUE, next |-> <<>>]
  /\ watching = [at |-> "waits", desired |-> {}]
  /\ inventory = [revision |-> 0, projects |-> <<>>]
  /\ app = [at |-> "idle", known |-> -1, shown |-> <<>>, read |-> [revision |-> 0, projects |-> <<>>]]
  /\ unseen = {}
  /\ spent = [changes |-> 0, unwatched |-> 0]

(***************************************************************************)
(* Git and the owner.  A change below a registered common directory is     *)
(* notified, unless the system loses the notice; one elsewhere is not.     *)
(***************************************************************************)
Notice(repo, place) == [kind |-> "Filesystem", repo |-> repo, place |-> place]

ToMonitor(command) == mailbox' = [mailbox EXCEPT !.monitor = Append(@, command)]

Affected(g) ==
  {p \in Monitored : DiscoverGitCheckouts(g, RootOf[p]) # DiscoverGitCheckouts(git, RootOf[p])}

GitBound == spent.changes < MaxGitChanges
GitRests == UNCHANGED <<watched, native, monitor, watching, inventory, app>>

Below(repo, place, g) ==
  /\ git' = g
  /\ IF repo \notin native
     THEN /\ spent' = [spent EXCEPT !.changes = @ + 1]
          /\ UNCHANGED <<mailbox, unseen>>
     ELSE \/ /\ ToMonitor(Notice(repo, place))
             /\ spent' = [spent EXCEPT !.changes = @ + 1]
             /\ UNCHANGED unseen
          \/ /\ spent.unwatched < MaxUnwatched
             /\ spent' = [changes |-> spent.changes + 1, unwatched |-> spent.unwatched + 1]
             /\ unseen' = unseen \cup Affected(g)
             /\ UNCHANGED mailbox

Elsewhere(g) ==
  /\ git' = g
  /\ unseen' = unseen \cup Affected(g)
  /\ spent' = [spent EXCEPT !.changes = @ + 1]
  /\ UNCHANGED mailbox

Repositories == {r \in git.standing : git.marker[r] = r}

(* git worktree add                                                        *)
AddWorktree(r, d) ==
  /\ GitBound /\ r \in Repositories /\ d \notin git.standing
  /\ Below(r, "worktrees", [marker |-> [git.marker EXCEPT ![d] = r],
                            entries |-> [git.entries EXCEPT ![r] = @ \cup {d}],
                            standing |-> git.standing \cup {d}])
  /\ GitRests

(* git worktree remove, or git worktree prune after the directory went     *)
RemoveWorktree(r, d) ==
  /\ GitBound /\ r \in Repositories /\ d \in git.entries[r]
  /\ Below(r, "worktrees", [git EXCEPT !.entries[r] = @ \ {d}, !.standing = @ \ {d},
                                       !.marker[d] = NoRepo])
  /\ GitRests

(* The directory of a worktree is deleted without telling Git.             *)
DeleteWorktree(d) ==
  /\ GitBound /\ d \in git.standing /\ git.marker[d] \in Dirs \ {d}
  /\ Elsewhere([git EXCEPT !.standing = @ \ {d}, !.marker[d] = NoRepo])
  /\ GitRests

(* The .git of a repository is deleted, and initialised again.             *)
DeleteRepository(r) ==
  /\ GitBound /\ r \in Repositories
  /\ Below(r, "root", [git EXCEPT !.marker[r] = NoRepo, !.entries[r] = {}])
  /\ GitRests

InitRepository(r) ==
  /\ GitBound /\ r \in git.standing /\ git.marker[r] = NoRepo
  /\ Below(r, "root", [git EXCEPT !.marker[r] = r])
  /\ GitRests

(* Everything else that Git writes below the common directory.             *)
WriteObjects(r) ==
  /\ GitBound /\ r \in Repositories /\ r \in native
  /\ Below(r, "objects", git)
  /\ GitRests

(***************************************************************************)
(* The monitor                                                             *)
(***************************************************************************)
MonitorRests == UNCHANGED <<git, watched, native, watching, app, spent>>

(* The directory of a project that the inventory does not show as ready is *)
(* taken for its own repository.                                           *)
FilesystemEventIsRelevant(notice) ==
  \E p \in monitor.ids :
    IF p \in DOMAIN inventory.projects /\ inventory.projects[p] # Unavailable
    THEN /\ notice.repo = inventory.projects[p].common
         /\ notice.place \in {"root", "worktrees"}
    ELSE notice.repo = RootOf[p]

Dirties(command) ==
  command.kind = "Filesystem" => FilesystemEventIsRelevant(command)

MonitorReceive ==
  /\ monitor.at = "waits" /\ mailbox.monitor # <<>>
  /\ LET command == Head(mailbox.monitor) IN
     /\ monitor' =
          IF command.kind = "Replace"
          THEN [monitor EXCEPT !.ids = command.ids, !.dirty = TRUE]
          ELSE IF command.kind = "Shutdown" THEN [monitor EXCEPT !.at = "stopped"]
          ELSE [monitor EXCEPT !.dirty = @ \/ Dirties(command)]
     /\ mailbox' = [monitor |-> Tail(mailbox.monitor),
                    watcher |-> IF command.kind = "Shutdown"
                                THEN Append(mailbox.watcher, [kind |-> "Shutdown", roots |-> {}])
                                ELSE mailbox.watcher]
  /\ UNCHANGED <<inventory, unseen>> /\ MonitorRests

MailBound == Len(mailbox.watcher) < MaxMail

(* The earlier of the two deadlines passes with no command waiting: the    *)
(* debounce of a change, or the safety rescan, which is always set.  The   *)
(* scan reads Git's files without the lock of the inventory.               *)
MonitorTimeoutOfChanges ==
  /\ monitor.at = "waits" /\ mailbox.monitor = <<>> /\ MailBound /\ monitor.dirty
  /\ monitor' = [monitor EXCEPT !.at = "scanned", !.next = Scan(monitor.ids)]
  /\ unseen' = unseen \ monitor.ids
  /\ UNCHANGED <<mailbox, inventory>> /\ MonitorRests

MonitorTimeout ==
  /\ monitor.at = "waits" /\ mailbox.monitor = <<>> /\ MailBound
  /\ monitor' = [monitor EXCEPT !.at = "scanned", !.next = Scan(monitor.ids)]
  /\ unseen' = unseen \ monitor.ids
  /\ UNCHANGED <<mailbox, inventory>> /\ MonitorRests

(* The inventory and its revision change together, when the scan differs.  *)
Reconciled(found) ==
  IF found = inventory.projects THEN inventory
  ELSE [revision |-> inventory.revision + 1, projects |-> found]

MonitorReconcile ==
  /\ monitor.at = "scanned"
  /\ inventory' = Reconciled(monitor.next)
  /\ mailbox' = [mailbox EXCEPT !.watcher =
                   Append(@, [kind |-> "Replace", roots |-> WatchRoots(monitor.next)])]
  /\ monitor' = [monitor EXCEPT !.at = "waits", !.dirty = FALSE, !.next = <<>>]
  /\ UNCHANGED unseen /\ MonitorRests

(***************************************************************************)
(* The watcher                                                             *)
(***************************************************************************)
WatcherRests == UNCHANGED <<git, monitor, inventory, app, unseen>>

WatcherTake ==
  /\ watching.at = "waits" /\ mailbox.watcher # <<>>
  /\ LET command == Head(mailbox.watcher) IN
     /\ watching' =
          IF command.kind = "Shutdown" THEN [watching EXCEPT !.at = "stopped"]
          ELSE IF command.roots = watched THEN watching
          ELSE [at |-> "registers", desired |-> command.roots]
     /\ native' = IF command.kind = "Replace" THEN native \cap command.roots ELSE native
     /\ mailbox' = [mailbox EXCEPT !.watcher = Tail(@)]
  /\ UNCHANGED <<watched, spent>> /\ WatcherRests

(* The registration of a directory may fail, or block while Git goes on;   *)
(* the set is recorded either way, and the monitor told to scan again.     *)
Registers(failed) ==
  /\ watching.at = "registers"
  /\ Cardinality(failed) <= MaxUnwatched - spent.unwatched
  /\ spent' = [spent EXCEPT !.unwatched = @ + Cardinality(failed)]
  /\ native' = native \cup ((watching.desired \ watched) \ failed)
  /\ watched' = watching.desired
  /\ watching' = [at |-> "waits", desired |-> {}]
  /\ WatcherRests

WatcherRegisterOnly ==
  /\ \E failed \in SUBSET (watching.desired \ watched) : Registers(failed)
  /\ UNCHANGED mailbox

WatcherRegister ==
  /\ \E failed \in SUBSET (watching.desired \ watched) : Registers(failed)
  /\ ToMonitor([kind |-> "Refresh"])

(***************************************************************************)
(* What the daemon asks of the monitor                                     *)
(***************************************************************************)
Asks(command) ==
  /\ GitBound
  /\ spent' = [spent EXCEPT !.changes = @ + 1]
  /\ ToMonitor(command)
  /\ UNCHANGED <<git, watched, native, monitor, watching, inventory, app, unseen>>

ReplaceProjects == \E ids \in SUBSET Monitored : Asks([kind |-> "Replace", ids |-> ids])

(* A refresh is also what an error of the operating system's watcher asks. *)
RefreshInventory == Asks([kind |-> "Refresh"])

DropMonitor == Asks([kind |-> "Shutdown"])

(***************************************************************************)
(* The answer to the app.  The revision that the app knows is compared     *)
(* with the inventory's; when they differ the answer is made from a copy   *)
(* of the inventory, which holds a revision of its own.                    *)
(***************************************************************************)
ReadyIn(found) == {p \in DOMAIN found : found[p] # Unavailable}

AppRests ==
  UNCHANGED <<git, watched, native, mailbox, monitor, watching, inventory, unseen, spent>>

AppReads ==
  /\ app.at = "idle" /\ app.known # inventory.revision
  /\ app' = [app EXCEPT !.at = "read", !.read = inventory]
  /\ AppRests

ProjectCheckoutInventory(read) ==
  [p \in ReadyIn(read.projects) |-> read.projects[p].checkouts]

Shows(revision) ==
  /\ app.at = "read"
  /\ app' = [at |-> "idle", known |-> revision,
             shown |-> ProjectCheckoutInventory(app.read),
             read |-> [revision |-> 0, projects |-> <<>>]]
  /\ AppRests

AppShows == Shows(app.read.revision)

MonitorWorks == MonitorReceive \/ MonitorTimeout \/ MonitorReconcile
WatcherWorks == WatcherTake \/ WatcherRegister

MonitorNext ==
  \/ \E r, d \in Dirs : AddWorktree(r, d) \/ RemoveWorktree(r, d)
  \/ \E d \in Dirs :
       DeleteWorktree(d) \/ DeleteRepository(d) \/ InitRepository(d) \/ WriteObjects(d)
  \/ MonitorWorks \/ WatcherWorks
  \/ ReplaceProjects \/ RefreshInventory \/ DropMonitor
  \/ AppReads \/ AppShows

(* The two threads are scheduled, and both deadlines pass in time.         *)
MonitorFairness == WF_monitorVars(MonitorWorks) /\ WF_monitorVars(WatcherWorks)

(***************************************************************************)
(* Properties                                                              *)
(***************************************************************************)
Found == {Unavailable} \cup [common : Dirs, checkouts : SUBSET Dirs]

(* The inventory holds what scans found, the set that the watcher records  *)
(* holds every directory that is registered, and the revision never falls  *)
(* behind what the app knows.                                              *)
MonitorTypeOK ==
  /\ \A p \in DOMAIN inventory.projects : inventory.projects[p] \in Found
  /\ native \subseteq watched
  /\ app.known <= inventory.revision
  /\ unseen \subseteq Monitored

AtRest ==
  /\ monitor.at = "waits" /\ ~monitor.dirty /\ watching.at = "waits"
  /\ mailbox.monitor = <<>> /\ mailbox.watcher = <<>>

Current(p) ==
  p \in DOMAIN inventory.projects /\ inventory.projects[p] = DiscoverGitCheckouts(git, RootOf[p])

(* When nothing is pending, the inventory tells the checkouts that Git's   *)
(* files tell, for every project that was ready at the last scan, whose    *)
(* common directory the system accepted to watch and whose last change was *)
(* notified: a change made between a scan and the registration after it is *)
(* never left to the safety rescan.                                        *)
ChangesAreNoticed ==
  AtRest =>
    \A p \in monitor.ids \ unseen :
      \/ Current(p)
      \/ inventory.projects[p] = Unavailable
      \/ inventory.projects[p].common \in watched \ native

(* What the app shows under the revision that the monitor has now is what  *)
(* the inventory holds now, so that the answer "unchanged" is right.       *)
AppIsUpToDate ==
  app.known = inventory.revision => app.shown = ProjectCheckoutInventory(inventory)

(* The checkouts that the app shows are those that Git has, from the files *)
(* over the inventory to the app, whenever nothing is pending.             *)
InventoryIsCurrent == MonitorTypeOK /\ ChangesAreNoticed /\ AppIsUpToDate

(* The inventory becomes and stays current once directories and projects   *)
(* stop changing, whatever notices were lost and registrations failed: the *)
(* safety rescan repairs them.  A monitor that was dropped stops both      *)
(* threads instead.                                                        *)
InventoryCatchesUp ==
  <>[](\/ \A p \in monitor.ids : Current(p)
       \/ monitor.at = "stopped" /\ watching.at = "stopped")
==============================================================================
