--------------------------- MODULE DataDirectory ---------------------------
(* The data directory of a local installation and the operator's lifecycle  *)
(* commands on it (lifecycle/archive.py, lifecycle/__main__.py): an online  *)
(* backup of one book beside the running service, the rotating archives,    *)
(* and the restore that replaces the whole directory. The service holds the *)
(* directory's lock while it is up, a restore takes it, a backup does not.  *)
EXTENDS Integers, Sequences, SequencesExt, FiniteSets

CONSTANTS
  Books,
  Chapters,       \* chapters of a book
  Keep,           \* archives kept of a book by backup-all
  MaxCommands,    \* bound on the operator's commands
  MaxCrashes,     \* bound on commands cut short
  NotThere        \* no book, no directory, no archive

(* What there is of a book: its row, its row with its memory, a directory.  *)
Rows        == [costs : Nat, reserved : BOOLEAN]
Copies      == [row : Rows \union {NotThere}, memory : Nat]
Directories == [Books -> Copies \union {NotThere}]

ASSUME KeepAssumption == Keep \in Nat \ {0}
ASSUME NotThereAssumption == NotThere \notin Rows \union Copies \union Directories

VARIABLES
  target,      \* DATA_DIR: what it holds of each book, or NotThere
  asides,      \* the directories that restores moved aside
  up,          \* the service is up
  archives,    \* of each book, its published archives, oldest first
  backup,      \* the backup command in progress
  restore,     \* the restore command in progress
  paid,        \* history: the most chapters ever paid for, per book
  commands, crashes

local == <<target, asides, up, archives, backup, restore, paid>>

(* A book is its catalog row, or none, and the chapters its memory file     *)
(* holds with their receipts. The row counts the chapters whose cost is in  *)
(* the ledger; ingest_progress moves in the same transaction. Title, place  *)
(* and pass travel with the row and are not compared with the memory.       *)
NewRow == [costs |-> 0, reserved |-> FALSE]
NoBackup  == [pc |-> "idle", book |-> NotThere, row |-> NotThere, memory |-> 0, at |-> NotThere]
NoRestore == [pc |-> "idle", book |-> NotThere, copy |-> NotThere, moved |-> NotThere, replace |-> FALSE]

Empty == [b \in Books |-> NotThere]
Present(lib) == {b \in Books : lib[b] # NotThere}
OnShelf(b) == up /\ target[b] # NotThere /\ target[b].row # NotThere

LocalInit ==
  /\ target = Empty /\ asides = {} /\ up = TRUE
  /\ archives = [b \in Books |-> <<>>]
  /\ backup = NoBackup /\ restore = NoRestore
  /\ paid = [b \in Books |-> 0]
  /\ commands = 0 /\ crashes = 0

Commanded == commands < MaxCommands /\ commands' = commands + 1 /\ UNCHANGED crashes
Quiet     == UNCHANGED <<commands, crashes>>

-----------------------------------------------------------------------------
(* The service.                                                             *)

(* DataDirLock: beside the directory, released when its holder dies.        *)
LockFree_forgetsService == restore.pc = "idle"
LockFree == ~up /\ restore.pc = "idle"

StartService ==
  /\ LockFree
  /\ up' = TRUE
  /\ target' = IF target = NotThere THEN Empty ELSE target
  /\ UNCHANGED <<asides, archives, backup, restore, paid>> /\ Quiet

StopService ==
  /\ up /\ up' = FALSE
  /\ UNCHANGED <<target, asides, archives, backup, restore, paid>> /\ Quiet

Service == UNCHANGED <<asides, up, archives, backup, restore>> /\ Quiet

Import(b) ==
  /\ up /\ ~OnShelf(b)
  /\ target' = [target EXCEPT ![b] = [row    |-> NewRow,
                                      memory |-> IF @ = NotThere THEN 0 ELSE @.memory]]
  /\ UNCHANGED paid /\ Service

(* delete_book removes the catalog row and keeps the files.                 *)
Delete(b) ==
  /\ OnShelf(b)
  /\ target' = [target EXCEPT ![b].row = NotThere]
  /\ UNCHANGED paid /\ Service

(* The worker reserves the cost of the next chapter once the receipts it    *)
(* finds are in the ledger, commits the chapter with its receipt, and       *)
(* settles; a call that was not made gives its reservation back.            *)
Reserve(b) ==
  /\ OnShelf(b) /\ ~target[b].row.reserved
  /\ target[b].row.costs = target[b].memory /\ target[b].memory < Chapters
  /\ target' = [target EXCEPT ![b].row.reserved = TRUE]
  /\ UNCHANGED paid /\ Service

Commit(b) ==
  /\ OnShelf(b) /\ target[b].row.reserved /\ target[b].row.costs = target[b].memory
  /\ target' = [target EXCEPT ![b].memory = @ + 1]
  /\ paid' = [paid EXCEPT ![b] = IF @ > target[b].memory THEN @ ELSE target[b].memory + 1]
  /\ Service

Settle(b) ==
  /\ OnShelf(b) /\ target[b].row.costs < target[b].memory
  /\ target' = [target EXCEPT ![b].row.costs = @ + 1, ![b].row.reserved = FALSE]
  /\ UNCHANGED paid /\ Service

GiveBack(b) ==
  /\ OnShelf(b) /\ target[b].row.reserved /\ target[b].row.costs = target[b].memory
  /\ target' = [target EXCEPT ![b].row.reserved = FALSE]
  /\ UNCHANGED paid /\ Service

-----------------------------------------------------------------------------
(* backup_book: the catalog first, then the memory, then the checks.        *)

Here(b) == target # NotThere /\ target[b] # NotThere
Backing == UNCHANGED <<target, asides, up, restore, paid>>

MayBackup(b) == Here(b) /\ target[b].row # NotThere /\ ~target[b].row.reserved

SnapshotCatalog(b) ==
  /\ backup.pc = "idle" /\ MayBackup(b)
  /\ backup' = [pc |-> "catalog", book |-> b, row |-> target[b].row, memory |-> 0, at |-> target[b]]
  /\ UNCHANGED archives /\ Backing /\ Commanded

SnapshotMemory ==
  /\ backup.pc = "catalog"
  /\ backup' = IF Here(backup.book)
               THEN [backup EXCEPT !.pc = "memory", !.memory = target[backup.book].memory]
               ELSE NoBackup
  /\ UNCHANGED archives /\ Backing /\ Quiet

(* _validate_data_tree: progress within the receipts, and a ledger entry    *)
(* for exactly the receipts.                                                *)
Agree_progressOnly(row, memory) == row.costs <= memory
Agree(row, memory) == row.costs = memory

Published == [book |-> backup.book, row |-> backup.row, memory |-> backup.memory, at |-> backup.at]

(* os.replace publishes the verified archive; backup-all then drops the     *)
(* oldest ones.                                                             *)
Rotated(kept) == SubSeq(kept, IF Len(kept) > Keep THEN Len(kept) - Keep + 1 ELSE 1, Len(kept))

Publish ==
  /\ backup.pc = "memory"
  /\ archives' = IF Agree(backup.row, backup.memory)
                 THEN [archives EXCEPT ![backup.book] = Rotated(Append(@, Published))]
                 ELSE archives
  /\ backup' = NoBackup
  /\ Backing /\ Quiet

-----------------------------------------------------------------------------
(* restore_book.                                                            *)

Restoring == UNCHANGED <<up, archives, paid>>
Give      == restore' = NoRestore

(* Verify, take the lock, stage the archive beside the target.              *)
Stage(b, i, replace) ==
  /\ LockFree
  /\ restore' = [pc |-> "staged", book |-> b, replace |-> replace, moved |-> NotThere,
                 copy |-> [Empty EXCEPT ![b] = [row    |-> archives[b][i].row,
                                                memory |-> archives[b][i].memory]]]
  /\ UNCHANGED <<target, asides, backup>> /\ Restoring /\ Commanded

MayReplace_anyBook == target = NotThere \/ restore.replace
MayReplace == target = NotThere \/ (restore.replace /\ Present(target) \subseteq {restore.book})

CheckTarget ==
  /\ restore.pc = "staged"
  /\ IF MayReplace THEN restore' = [restore EXCEPT !.pc = "checked"] ELSE Give
  /\ UNCHANGED <<target, asides, backup>> /\ Restoring /\ Quiet

(* A backup that is reading meanwhile goes on in another directory, if any. *)
MoveAside ==
  /\ restore.pc = "checked"
  /\ restore' = [restore EXCEPT !.pc = "moved", !.moved = target]
  /\ asides' = IF target = NotThere THEN asides ELSE asides \union {target}
  /\ target' = NotThere
  /\ backup' = [backup EXCEPT !.at = NotThere]
  /\ Restoring /\ Quiet

(* What the finished command leaves of the directory it replaced: all.      *)
AfterPublish_tidied(dirs) == {}
AfterPublish(dirs) == dirs

PutInPlace ==
  /\ restore.pc = "moved"
  /\ target' = restore.copy
  /\ asides' = AfterPublish(asides)
  /\ UNCHANGED backup /\ Give /\ Restoring /\ Quiet

PutBack ==
  /\ restore.pc = "moved"
  /\ target' = restore.moved
  /\ asides' = asides \ {restore.moved}
  /\ UNCHANGED backup /\ Give /\ Restoring /\ Quiet

Cut == crashes < MaxCrashes /\ crashes' = crashes + 1 /\ UNCHANGED commands

BackupDies ==
  /\ backup.pc # "idle" /\ backup' = NoBackup
  /\ UNCHANGED archives /\ Backing /\ Cut

RestoreDies ==
  /\ restore.pc # "idle" /\ Give
  /\ UNCHANGED <<target, asides, backup>> /\ Restoring /\ Cut

LocalNext ==
  \/ StartService \/ StopService
  \/ \E b \in Books : Import(b) \/ Delete(b) \/ Reserve(b) \/ Commit(b) \/ Settle(b) \/ GiveBack(b)
  \/ \E b \in Books : SnapshotCatalog(b)
  \/ SnapshotMemory \/ Publish \/ BackupDies
  \/ \E b \in Books : \E i \in DOMAIN archives[b] : \E replace \in BOOLEAN : Stage(b, i, replace)
  \/ CheckTarget \/ MoveAside \/ PutInPlace \/ PutBack \/ RestoreDies

-----------------------------------------------------------------------------
(* An archive is the book as it was at one moment, although its catalog and *)
(* its memory are read one after the other while the worker may be writing: *)
(* its spend, its place and its chapters belong together (backup_book). The *)
(* moment is not known when a restore replaced the directory meanwhile.     *)
BackupIsAMoment ==
  \A b \in Books : \A i \in DOMAIN archives[b] :
    LET a == archives[b][i]
    IN  a.at # NotThere => a.at = [row |-> a.row, memory |-> a.memory]

(* Whatever a restore does and wherever it dies, every chapter ever paid    *)
(* for is still on disk: in the data directory, or in one moved aside.      *)
PaidChaptersKept ==
  \A b \in Books : paid[b] > 0 =>
    \E dir \in asides \union {target} :
      dir # NotThere /\ dir[b] # NotThere /\ dir[b].memory = paid[b]

(* A restore never takes the directory from a running service, and never    *)
(* one that holds another book, even one imported while it was checking.    *)
TakesOnlyItsBook ==
  target # NotThere /\ target' = NotThere =>
    ~up /\ Present(target) \subseteq {restore.book}

(* A restore is safe for the books that are there and for the service that  *)
(* reads them (restore_book).                                               *)
RestoreIsSafe == [][PaidChaptersKept' /\ TakesOnlyItsBook]_local
=============================================================================
