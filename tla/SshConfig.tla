------------------------------ MODULE SshConfig ------------------------------
(***************************************************************************)
(* The marked block that Floria keeps in ~/.ssh/config                     *)
(* (floria-control/src/ssh_config.rs), next to an owner who edits the file.*)
(*                                                                         *)
(* A file is a sequence of lines, and a line one of a few kinds: the two   *)
(* markers, the Include of the generated configuration, a line that opens  *)
(* a Host or Match section, any other line, and an empty one.              *)
(***************************************************************************)
EXTENDS Integers, Sequences, SequencesExt

CONSTANTS
  MaxOwnerEdits,  \* bound: edits by the owner
  MaxCommands     \* bound: installs and removals

Lines == {"begin", "include", "end", "host", "text", "blank"}

VARIABLES
  config,     \* the file: [kind, lines], kind is "none", "file" or "link"
  configTask,       \* the command in progress, between its read and its rename
  outside,    \* the lines that the owner left outside Floria's block
  pristine,   \* [known, lines]: the lines that one install, and no edit, has changed
  raced,      \* the owner edited between a read and a rename
  edits       \* [owner, commands]

configVars == <<config, configTask, outside, pristine, raced, edits>>

(***************************************************************************)
(* Reading the file                                                        *)
(***************************************************************************)
Places(lines, kind) == {i \in DOMAIN lines : lines[i] = kind}

(* One begin before one end: anything else is an error.                    *)
ManagedRange(lines) ==
  LET begins == Places(lines, "begin")
      ends == Places(lines, "end")
  IN IF begins = {} /\ ends = {} THEN "none"
     ELSE IF \E b, e \in DOMAIN lines : begins = {b} /\ ends = {e} /\ b < e THEN "range"
     ELSE "error"

BeginMarker(lines) == CHOOSE i \in DOMAIN lines : lines[i] = "begin"
End(lines) == CHOOSE i \in DOMAIN lines : lines[i] = "end"

NonBlank(lines) == SelectSeq(lines, LAMBDA line : line # "blank")

Block == <<"begin", "include", "end">>

ManagedBlockIsOwned(lines) == NonBlank(SubSeq(lines, BeginMarker(lines), End(lines))) = Block

WithoutBlock(lines) ==
  SubSeq(lines, 1, BeginMarker(lines) - 1) \o SubSeq(lines, End(lines) + 1, Len(lines))

FirstHostOrMatch(lines) ==
  LET k == SelectInSeq(lines, LAMBDA line : line = "host") IN
  IF k = 0 THEN Len(lines) + 1 ELSE k

HasTopLevelInclude(lines) ==
  \E i \in 1 .. FirstHostOrMatch(lines) - 1 :
    /\ lines[i] = "include"
    /\ ManagedRange(lines) = "range" => i \notin BeginMarker(lines) .. End(lines)

Inspect(file) ==
  LET lines == file.lines
      found == ManagedRange(lines)
  IN IF file.kind = "none" THEN [state |-> "Disabled", writable |-> TRUE]
     ELSE IF found = "error" \/ (found = "range" /\ ~ManagedBlockIsOwned(lines))
     THEN [state |-> "NeedsRepair", writable |-> FALSE]
     ELSE [state |-> IF found = "range" /\ BeginMarker(lines) < FirstHostOrMatch(lines) THEN "Managed"
                     ELSE IF HasTopLevelInclude(lines) THEN "External"
                     ELSE IF found = "range" THEN "NeedsRepair" ELSE "Disabled",
           writable |-> file.kind = "file"]

(***************************************************************************)
(* install and remove: the file is read and inspected, then a new one is   *)
(* renamed over it                                                         *)
(***************************************************************************)
(* Mutant: a block that is there is left where it is.                      *)
InstalledInPlace(lines) ==
  IF ManagedRange(lines) = "range" THEN lines
  ELSE IF lines = <<>> THEN Block ELSE Block \o <<"blank">> \o lines

Installed(lines) ==
  LET kept == IF ManagedRange(lines) = "range" THEN WithoutBlock(lines) ELSE lines
  IN IF kept = <<>> THEN Block ELSE Block \o <<"blank">> \o kept

Removed(lines) ==
  LET kept == WithoutBlock(lines) IN
  IF kept # <<>> /\ Head(kept) = "blank" THEN Tail(kept) ELSE kept

Idle == [at |-> "idle", lines |-> <<>>]

ConfigInit ==
  /\ config \in {[kind |-> k, lines |-> <<>>] : k \in {"none", "file", "link"}}
  /\ configTask = Idle /\ outside = <<>> /\ raced = FALSE
  /\ pristine = [known |-> FALSE, lines |-> <<>>]
  /\ edits = [owner |-> 0, commands |-> 0]

Commands(at, lines) ==
  /\ configTask.at = "idle" /\ edits.commands < MaxCommands
  /\ edits' = [edits EXCEPT !.commands = @ + 1]
  /\ configTask' = [at |-> at, lines |-> lines]
  /\ UNCHANGED <<config, outside, raced>>

Install ==
  LET status == Inspect(config) IN
  /\ status.state # "External" /\ status.writable
  /\ Commands("install", Installed(config.lines))
  /\ pristine' = [known |-> status.state = "Disabled", lines |-> config.lines]

RemoveBlock ==
  LET status == Inspect(config) IN
  /\ config.kind # "none" /\ status.writable /\ ManagedRange(config.lines) = "range"
  /\ Commands("remove", Removed(config.lines))
  /\ UNCHANGED pristine

(* The rename; a write that fails leaves the file as it was.               *)
RenameOver ==
  /\ configTask.at # "idle"
  /\ \/ config' = [kind |-> "file", lines |-> configTask.lines]
     \/ UNCHANGED config
  /\ configTask' = Idle
  /\ UNCHANGED <<outside, pristine, raced, edits>>

(* The owner inserts or deletes a line, in an editor that replaces the     *)
(* file or makes it.                                                       *)
Edited(lines) ==
  {InsertAt(lines, i, line) : i \in 1 .. Len(lines) + 1, line \in Lines}
    \cup {RemoveAt(lines, i) : i \in DOMAIN lines}

Outside(lines) ==
  IF /\ ManagedRange(lines) = "range"
     /\ NonBlank(SubSeq(lines, BeginMarker(lines), End(lines))) = Block
  THEN WithoutBlock(lines) ELSE lines

OwnerEdits ==
  /\ edits.owner < MaxOwnerEdits
  /\ \E lines \in Edited(config.lines) :
       /\ config' = [kind |-> IF config.kind = "none" THEN "file" ELSE config.kind,
                     lines |-> lines]
       /\ outside' = NonBlank(Outside(lines))
  /\ pristine' = [pristine EXCEPT !.known = FALSE]
  /\ raced' = (raced \/ configTask.at # "idle")
  /\ edits' = [edits EXCEPT !.owner = @ + 1]
  /\ UNCHANGED configTask

ConfigNext == Install \/ RemoveBlock \/ RenameOver \/ OwnerEdits

(***************************************************************************)
(* Properties                                                              *)
(***************************************************************************)
(* The file holds lines, and a file that is a symbolic link stays one.     *)
ConfigTypeOK ==
  /\ config.kind \in {"none", "file", "link"} /\ config.lines \in Seq(Lines)
  /\ config.kind = "link" => configTask.at = "idle"

(* Whatever the owner wrote outside the block is still there, in order,    *)
(* after any number of installs, repairs and removals, unless an edit fell *)
(* between a command's read and its rename.                                *)
OwnersLinesSurvive ==
  raced \/ NonBlank(Outside(config.lines)) = outside

(* An installed block is one block, and OpenSSH reads it for every host:   *)
(* it stands before the first section.                                     *)
InstallsTakeEffect ==
  [][(configTask.at = "install" /\ configTask'.at = "idle" /\ config' # config) => Inspect(config').state = "Managed"]_configVars

(* The mutation is reversible: when one install is all that happened to    *)
(* the file, the removal brings back its lines exactly.                    *)
RemovalsReverseInstalls ==
  [][(configTask.at = "remove" /\ configTask'.at = "idle" /\ config' # config /\ pristine.known)
       => config'.lines = pristine.lines]_configVars

(* The managed block is a guest in the file: the owner's lines survive, an *)
(* install takes effect, and a removal undoes it exactly.                  *)
BlockIsAGuest ==
  /\ [](ConfigTypeOK /\ OwnersLinesSurvive)
  /\ InstallsTakeEffect
  /\ RemovalsReverseInstalls
==============================================================================
