----------------------------- MODULE LocalProofs -----------------------------
(***************************************************************************)
(* Proofs about a local installation, for any number of books, chapters,   *)
(* archives kept and operators at once: the backup and restore of          *)
(* DataDirectory, the move to a hosted account of LocalMigration, and the  *)
(* passage index of SourceIndex for any book and any batch sizes.          *)
(***************************************************************************)
EXTENDS LocalMigration, SourceIndex, SequenceTheorems, FiniteSetTheorems, TLAPS

-----------------------------------------------------------------------------
(* The data directory                                                       *)

Archives == [book : Books, row : Rows, memory : Nat, at : Copies \union {NotThere}]
Backups  == [pc : {"catalog", "memory"}, book : Books, row : Rows, memory : Nat,
             at : Copies \union {NotThere}]
Restores == [pc : {"staged", "checked", "moved"}, book : Books, copy : Directories,
             moved : Directories \union {NotThere}, replace : BOOLEAN]

LocalTyped ==
    /\ target \in Directories \union {NotThere}
    /\ asides \subseteq Directories
    /\ up \in BOOLEAN
    /\ archives \in [Books -> Seq(Archives)]
    /\ backup \in Backups \union {NoBackup}
    /\ restore \in Restores \union {NoRestore}
    /\ paid \in [Books -> Nat]

\* The service and a restore exclude each other, and what a restore has found
\* stays so: only a service would change it.
LockHolds ==
    /\ up => target # NotThere /\ restore.pc = "idle"
    /\ restore.pc = "checked" => MayReplace
    /\ restore.pc = "moved" => target = NotThere

\* The ledger of a copy counts no chapter its memory does not hold.
Sound(c) == c.row # NotThere => c.row.costs <= c.memory
SoundDirectory(dir) ==
    dir # NotThere => \A b \in Books : dir[b] # NotThere => Sound(dir[b])

CostsInMemory ==
    /\ SoundDirectory(target)
    /\ restore.pc # "idle" => SoundDirectory(restore.copy) /\ SoundDirectory(restore.moved)
    /\ \A b \in Books : \A i \in DOMAIN archives[b] : Sound(archives[b][i])

\* A backup that knows the moment of its catalog reads, from the same directory,
\* a memory that has only grown since.
SinceItsMoment ==
    backup.at # NotThere =>
        /\ backup.at.row = backup.row /\ Sound(backup.at)
        /\ Here(backup.book) /\ backup.at.memory <= target[backup.book].memory
        /\ backup.pc = "memory" => backup.at.memory <= backup.memory

LocalInv ==
    /\ LocalTyped /\ LockHolds /\ CostsInMemory /\ SinceItsMoment
    /\ BackupIsAMoment /\ PaidChaptersKept

\* What a step of the data directory has to show.
LocalStep == LocalInv' /\ TakesOnlyItsBook

\* Nothing is there at first, or an empty directory.
LEMMA LocalInitHolds == LocalInit => LocalInv
<1> SUFFICES ASSUME LocalInit PROVE LocalInv
  OBVIOUS
<1> USE NotThereAssumption DEF LocalInit
<1>1. Empty \in Directories /\ \A b \in Books : Empty[b] = NotThere
  BY DEF Empty, Directories
<1>2. LocalTyped
  <2>1. archives \in [Books -> Seq(Archives)] /\ paid \in [Books -> Nat]
    OBVIOUS
  <2> QED
    BY <1>1, <2>1 DEF LocalTyped
<1>3. LockHolds /\ CostsInMemory /\ SinceItsMoment
  BY <1>1 DEF LockHolds, CostsInMemory, SoundDirectory, SinceItsMoment, NoRestore, NoBackup
<1>4. BackupIsAMoment /\ PaidChaptersKept
  BY DEF BackupIsAMoment, PaidChaptersKept
<1> QED
  BY <1>2, <1>3, <1>4 DEF LocalInv

-----------------------------------------------------------------------------
(* The service writes the book b: its copy is c from now on, with the       *)
(* memory it had, or with one more chapter and the payment for it.          *)

LEMMA Served ==
    ASSUME LocalInv, up, UNCHANGED <<asides, up, archives, backup, restore>>,
           NEW b \in Books, NEW c \in Copies, Sound(c),
           target' = [target EXCEPT ![b] = c],
           \/ UNCHANGED paid /\ (target[b] # NotThere => c.memory = target[b].memory)
           \/ /\ target[b] # NotThere /\ c.memory = target[b].memory + 1
              /\ paid' = [paid EXCEPT ![b] = IF @ > target[b].memory THEN @ ELSE target[b].memory + 1]
    PROVE  LocalStep
<1> USE NotThereAssumption
<1>1. LocalTyped /\ LockHolds /\ CostsInMemory /\ SinceItsMoment /\ BackupIsAMoment /\ PaidChaptersKept
  BY DEF LocalInv
<1>2. target \in Directories /\ restore = NoRestore
  BY <1>1 DEF LocalTyped, LockHolds, Restores
<1>3. /\ target' \in Directories /\ target' # NotThere /\ target # NotThere
      /\ target'[b] = c /\ c # NotThere
      /\ \A d \in Books : d # b => target'[d] = target[d]
  BY <1>2 DEF Directories
<1>4. /\ c.memory \in Nat
      /\ target[b] # NotThere => target[b].memory \in Nat /\ target[b].memory <= c.memory
  BY <1>2 DEF Directories, Copies
<1>5. paid' \in [Books -> Nat]
  BY <1>1, <1>4 DEF LocalTyped
<1>6. LocalTyped' /\ LockHolds'
  BY <1>1, <1>2, <1>3, <1>5 DEF LocalTyped, LockHolds, NoRestore
<1>7. CostsInMemory'
  BY <1>1, <1>2, <1>3 DEF CostsInMemory, SoundDirectory, NoRestore
<1>8. SinceItsMoment'
  <2> SUFFICES ASSUME backup.at # NotThere
               PROVE  /\ Here(backup.book)' /\ backup.at.memory <= target'[backup.book].memory
    BY <1>1 DEF SinceItsMoment
  <2>1. backup \in Backups /\ backup.at \in Copies
    BY <1>1 DEF LocalTyped, NoBackup, Backups
  <2>2. target[backup.book] # NotThere /\ backup.at.memory <= target[backup.book].memory
    BY <1>1 DEF SinceItsMoment, Here
  <2>3. backup.book \in Books /\ backup.at.memory \in Nat
    BY <2>1 DEF Backups, Copies
  <2>4. CASE backup.book = b
    BY <1>3, <1>4, <2>2, <2>3, <2>4 DEF Here
  <2>5. CASE backup.book # b
    BY <1>3, <2>2, <2>3, <2>5 DEF Here
  <2> QED
    BY <2>4, <2>5
<1>9. BackupIsAMoment'
  BY <1>1 DEF BackupIsAMoment
<1>10. PaidChaptersKept'
  <2> SUFFICES ASSUME NEW d \in Books, paid'[d] > 0
               PROVE  \E dir \in asides \union {target'} :
                          dir # NotThere /\ dir[d] # NotThere /\ dir[d].memory = paid'[d]
    BY DEF PaidChaptersKept
  <2>1. ASSUME paid'[d] = paid[d], target[d] # NotThere => target'[d] # NotThere /\
                                       (paid[d] # target[d].memory \/ target'[d].memory = target[d].memory)
        PROVE  \E dir \in asides \union {target'} :
                   dir # NotThere /\ dir[d] # NotThere /\ dir[d].memory = paid'[d]
    <3>1. PICK dir \in asides \union {target} :
                   dir # NotThere /\ dir[d] # NotThere /\ dir[d].memory = paid[d]
      BY <1>1, <2>1 DEF PaidChaptersKept
    <3>2. CASE dir \in asides
      BY <2>1, <3>1, <3>2
    <3>3. CASE dir = target
      BY <1>3, <2>1, <3>1, <3>3
    <3> QED
      BY <3>1, <3>2, <3>3
  <2>2. CASE d # b
    BY <1>1, <1>3, <2>1, <2>2 DEF LocalTyped
  <2>3. CASE d = b /\ UNCHANGED paid /\ (target[b] # NotThere => c.memory = target[b].memory)
    BY <1>3, <2>1, <2>3
  <2>4. CASE /\ d = b /\ target[b] # NotThere /\ c.memory = target[b].memory + 1
             /\ paid' = [paid EXCEPT ![b] = IF @ > target[b].memory THEN @ ELSE target[b].memory + 1]
    <3>1. /\ target[b] # NotThere /\ c.memory = target[b].memory + 1 /\ paid[b] \in Nat
          /\ paid'[b] = IF paid[b] > target[b].memory THEN paid[b] ELSE target[b].memory + 1
      BY <1>1, <2>4 DEF LocalTyped
    <3>2. CASE paid[b] > target[b].memory
      BY <1>3, <1>4, <2>1, <2>4, <3>1, <3>2
    <3>3. CASE ~(paid[b] > target[b].memory)
      <4>1. target'[d] # NotThere /\ target'[d].memory = paid'[d]
        BY <1>3, <2>4, <3>1, <3>3
      <4> QED
        BY <1>3, <4>1
    <3> QED
      BY <3>2, <3>3
  <2> QED
    BY <2>2, <2>3, <2>4
<1>11. TakesOnlyItsBook
  BY <1>3 DEF TakesOnlyItsBook
<1> QED
  BY <1>6, <1>7, <1>8, <1>9, <1>10, <1>11 DEF LocalStep, LocalInv

\* What the service writes of a book: its ledger never counts what memory does not hold,
\* and a backup of the book sees its memory only grow, or loses its moment.
LEMMA ServiceStep ==
    ASSUME LocalInv, NEW b \in Books,
           Import(b) \/ Delete(b) \/ Reserve(b) \/ Commit(b) \/ Settle(b) \/ GiveBack(b)
    PROVE  LocalStep
<1> USE NotThereAssumption
<1>1. up /\ UNCHANGED <<asides, up, archives, backup, restore>>
  BY DEF Import, Delete, Reserve, Commit, Settle, GiveBack, Service, OnShelf
<1>2. target \in Directories /\ SoundDirectory(target)
  BY <1>1 DEF LocalInv, LocalTyped, LockHolds, CostsInMemory
<1>3. ASSUME target[b] # NotThere
      PROVE  target[b] \in Copies /\ Sound(target[b]) /\ target[b].memory \in Nat
  BY <1>2, <1>3 DEF Directories, Copies, SoundDirectory
<1>4. ASSUME OnShelf(b)
      PROVE  target[b] # NotThere /\ target[b].row \in Rows /\ target[b].row.costs <= target[b].memory
  BY <1>3, <1>4 DEF OnShelf, Copies, Sound
<1>5. CASE Import(b)
  <2> DEFINE c == [row |-> NewRow, memory |-> IF target[b] = NotThere THEN 0 ELSE target[b].memory]
  <2>1. c \in Copies /\ Sound(c)
    BY <1>3 DEF Copies, Rows, Sound, NewRow
  <2>2. target' = [target EXCEPT ![b] = c] /\ UNCHANGED paid
    BY <1>5 DEF Import
  <2>3. target[b] # NotThere => c.memory = target[b].memory
    OBVIOUS
  <2> HIDE DEF c
  <2> QED
    BY <1>1, <2>1, <2>2, <2>3, Served
<1>6. CASE Delete(b)
  <2> DEFINE c == [target[b] EXCEPT !.row = NotThere]
  <2>1. OnShelf(b) /\ target' = [target EXCEPT ![b] = c] /\ UNCHANGED paid
    BY <1>6 DEF Delete
  <2>2. c \in Copies /\ Sound(c) /\ c.memory = target[b].memory
    BY <1>3, <1>4, <2>1 DEF Copies, Sound
  <2> HIDE DEF c
  <2> QED
    BY <1>1, <2>1, <2>2, Served
<1>7. CASE Reserve(b)
  <2> DEFINE c == [target[b] EXCEPT !.row.reserved = TRUE]
  <2>1. OnShelf(b) /\ target' = [target EXCEPT ![b] = c] /\ UNCHANGED paid
    BY <1>7 DEF Reserve
  <2>2. c \in Copies /\ Sound(c) /\ c.memory = target[b].memory
    BY <1>3, <1>4, <2>1 DEF Copies, Rows, Sound
  <2> HIDE DEF c
  <2> QED
    BY <1>1, <2>1, <2>2, Served
<1>8. CASE Commit(b)
  <2> DEFINE c == [target[b] EXCEPT !.memory = @ + 1]
  <2>1. /\ OnShelf(b) /\ target' = [target EXCEPT ![b] = c]
        /\ paid' = [paid EXCEPT ![b] = IF @ > target[b].memory THEN @ ELSE target[b].memory + 1]
    BY <1>8 DEF Commit
  <2>2. c \in Copies /\ c.memory = target[b].memory + 1
    BY <1>3, <1>4, <2>1 DEF Copies
  <2>3. Sound(c)
    BY <1>3, <1>4, <2>1 DEF Copies, Rows, Sound
  <2> HIDE DEF c
  <2> QED
    BY <1>1, <1>4, <2>1, <2>2, <2>3, Served
<1>9. CASE Settle(b)
  <2> DEFINE c == [target[b] EXCEPT !.row.costs = @ + 1, !.row.reserved = FALSE]
  <2>1. /\ OnShelf(b) /\ target' = [target EXCEPT ![b] = c] /\ UNCHANGED paid
        /\ target[b].row.costs < target[b].memory
    BY <1>2, <1>9 DEF Settle, Directories
  <2> DEFINE paying == [target[b] EXCEPT !.row.costs = @ + 1]
  <2>2. /\ paying \in Copies /\ paying.row \in Rows /\ paying.memory = target[b].memory
        /\ paying.row.costs = target[b].row.costs + 1
    BY <1>3, <1>4, <2>1 DEF Copies, Rows
  <2>3. c = [paying EXCEPT !.row.reserved = FALSE]
    OBVIOUS
  <2> HIDE DEF c, paying
  <2>4. c \in Copies /\ c.row.costs = paying.row.costs /\ c.memory = target[b].memory
    BY <2>2, <2>3 DEF Copies, Rows
  <2>5. Sound(c)
    BY <1>3, <1>4, <2>1, <2>2, <2>4 DEF Sound, Rows
  <2> QED
    BY <1>1, <2>1, <2>4, <2>5, Served
<1>10. CASE GiveBack(b)
  <2> DEFINE c == [target[b] EXCEPT !.row.reserved = FALSE]
  <2>1. OnShelf(b) /\ target' = [target EXCEPT ![b] = c] /\ UNCHANGED paid
    BY <1>10 DEF GiveBack
  <2>2. c \in Copies /\ Sound(c) /\ c.memory = target[b].memory
    BY <1>3, <1>4, <2>1 DEF Copies, Rows, Sound
  <2> HIDE DEF c
  <2> QED
    BY <1>1, <2>1, <2>2, Served
<1> QED
  BY <1>5, <1>6, <1>7, <1>8, <1>9, <1>10

-----------------------------------------------------------------------------
(* The service starts and stops; a backup reads; a restore replaces.        *)

\* The properties of the archives and of the payments do not depend on the rest.
LEMMA Untouched ==
    ASSUME LocalInv, UNCHANGED <<target, asides, archives, paid>>
    PROVE  BackupIsAMoment' /\ PaidChaptersKept' /\ TakesOnlyItsBook
BY DEF LocalInv, BackupIsAMoment, PaidChaptersKept, TakesOnlyItsBook

\* A service starts only beside no restore.
LEMMA SwitchStep == ASSUME LocalInv, StartService \/ StopService PROVE LocalStep
<1> USE NotThereAssumption
<1>1. LocalTyped /\ LockHolds /\ CostsInMemory /\ SinceItsMoment /\ BackupIsAMoment /\ PaidChaptersKept
  BY DEF LocalInv
<1>2. CASE StopService
  <2>1. UNCHANGED <<target, asides, archives, backup, restore, paid>> /\ up' = FALSE
    BY <1>2 DEF StopService
  <2>2. LocalTyped' /\ LockHolds' /\ CostsInMemory' /\ SinceItsMoment'
    BY <1>1, <2>1
       DEF LocalTyped, LockHolds, MayReplace, CostsInMemory, SinceItsMoment, Here
  <2> QED
    BY <2>1, <2>2, Untouched DEF LocalStep, LocalInv
<1>3. CASE StartService
  <2>1. /\ restore.pc = "idle" /\ up' = TRUE
        /\ UNCHANGED <<asides, archives, backup, restore, paid>>
        /\ target' = IF target = NotThere THEN Empty ELSE target
    BY <1>3 DEF StartService, LockFree
  <2>2. Empty \in Directories /\ \A b \in Books : Empty[b] = NotThere
    BY DEF Empty, Directories
  <2>3. LocalTyped' /\ LockHolds' /\ CostsInMemory' /\ target' # NotThere
    BY <1>1, <2>1, <2>2 DEF LocalTyped, LockHolds, CostsInMemory, SoundDirectory
  <2>4. SinceItsMoment'
    BY <1>1, <2>1 DEF SinceItsMoment, Here
  <2>5. BackupIsAMoment' /\ PaidChaptersKept'
    BY <1>1, <2>1 DEF BackupIsAMoment, PaidChaptersKept
  <2> QED
    BY <2>3, <2>4, <2>5 DEF LocalStep, LocalInv, TakesOnlyItsBook
<1> QED
  BY <1>2, <1>3

\* The two readings of a backup: the catalog's is its moment, the memory's may be later.
LEMMA SnapshotStep ==
    ASSUME LocalInv, (\E b \in Books : SnapshotCatalog(b)) \/ SnapshotMemory \/ BackupDies
    PROVE  LocalStep
<1> USE NotThereAssumption
<1>1. LocalTyped /\ LockHolds /\ CostsInMemory /\ SinceItsMoment
  BY DEF LocalInv
<1>2. UNCHANGED <<target, asides, archives, up, restore, paid>>
  BY DEF SnapshotCatalog, SnapshotMemory, BackupDies, Backing
<1>3. ASSUME backup' \in Backups \union {NoBackup}, SinceItsMoment' PROVE LocalStep
  <2>1. LocalTyped' /\ LockHolds' /\ CostsInMemory'
    BY <1>1, <1>2, <1>3 DEF LocalTyped, LockHolds, MayReplace, CostsInMemory
  <2> QED
    BY <1>2, <1>3, <2>1, Untouched DEF LocalStep, LocalInv
<1>4. ASSUME NEW b \in Books, SnapshotCatalog(b) PROVE LocalStep
  <2>1. /\ target # NotThere /\ target[b] # NotThere /\ target[b].row # NotThere
        /\ backup' = [pc |-> "catalog", book |-> b, row |-> target[b].row, memory |-> 0, at |-> target[b]]
    BY <1>4 DEF SnapshotCatalog, MayBackup, Here
  <2>2. target[b] \in Copies /\ target[b].row \in Rows /\ target[b].memory \in Nat
    BY <1>1, <2>1 DEF LocalTyped, Directories, Copies
  <2>3. backup' \in Backups
    BY <2>1, <2>2 DEF Backups
  <2>4. SinceItsMoment'
    BY <1>1, <1>2, <2>1, <2>2 DEF SinceItsMoment, Here, CostsInMemory, SoundDirectory
  <2> QED
    BY <1>3, <2>3, <2>4
<1>5. NoBackup.at = NotThere
  BY DEF NoBackup
<1>6. CASE BackupDies
  BY <1>3, <1>5, <1>6 DEF BackupDies, SinceItsMoment
<1>7. CASE SnapshotMemory /\ ~Here(backup.book)
  BY <1>3, <1>5, <1>7 DEF SnapshotMemory, SinceItsMoment
<1>8. CASE SnapshotMemory /\ Here(backup.book)
  <2>1. /\ backup.pc = "catalog" /\ target # NotThere /\ target[backup.book] # NotThere
        /\ backup' = [backup EXCEPT !.pc = "memory", !.memory = target[backup.book].memory]
    BY <1>8 DEF SnapshotMemory, Here
  <2>2. backup \in Backups /\ target \in Directories
    BY <1>1, <2>1 DEF LocalTyped, NoBackup
  <2>3. target[backup.book].memory \in Nat
    BY <2>1, <2>2 DEF Backups, Directories, Copies
  <2>4. backup' \in Backups
    BY <2>1, <2>2, <2>3 DEF Backups
  <2>5. /\ backup'.at = backup.at /\ backup'.row = backup.row /\ backup'.book = backup.book
        /\ backup'.memory = target[backup.book].memory
    BY <2>1, <2>2 DEF Backups
  <2>6. SinceItsMoment'
    BY <1>1, <1>2, <2>5 DEF SinceItsMoment, Here
  <2> QED
    BY <1>3, <2>4, <2>6
<1> QED
  BY <1>4, <1>6, <1>7, <1>8

\* Rotation drops archives and changes none.
LEMMA Rotates ==
    ASSUME NEW T, NEW kept \in Seq(T)
    PROVE  /\ Rotated(kept) \in Seq(T)
           /\ \A i \in DOMAIN Rotated(kept) : \E j \in DOMAIN kept : Rotated(kept)[i] = kept[j]
<1> DEFINE m == IF Len(kept) > Keep THEN Len(kept) - Keep + 1 ELSE 1
           n == Len(kept)
<1>1. n \in Nat /\ m \in Nat \ {0} /\ m <= n + 1
  BY KeepAssumption
<1>2. Rotated(kept) = SubSeq(kept, m, n)
  BY DEF Rotated
<1> HIDE DEF m
<1>3. /\ SubSeq(kept, m, n) \in Seq(T)
      /\ Len(SubSeq(kept, m, n)) = n - m + 1
      /\ \A i \in 1..(n - m + 1) : SubSeq(kept, m, n)[i] = kept[m + i - 1]
  BY <1>1, SubSeqProperties
<1>4. ASSUME NEW i \in DOMAIN SubSeq(kept, m, n)
      PROVE  \E j \in DOMAIN kept : SubSeq(kept, m, n)[i] = kept[j]
  <2>1. i \in 1..(n - m + 1)
    BY <1>3
  <2>2. m + i - 1 \in DOMAIN kept
    BY <1>1, <2>1
  <2> QED
    BY <1>3, <2>1, <2>2
<1> QED
  BY <1>2, <1>3, <1>4

\* A published archive passed the validation that its two parts agree; the oldest is removed.
LEMMA PublishStep == ASSUME LocalInv, Publish PROVE LocalStep
<1> USE NotThereAssumption
<1>1. LocalTyped /\ LockHolds /\ CostsInMemory /\ SinceItsMoment /\ BackupIsAMoment /\ PaidChaptersKept
  BY DEF LocalInv
<1>2. backup.pc = "memory" /\ backup' = NoBackup /\ UNCHANGED <<target, asides, up, restore, paid>>
  BY DEF Publish, Backing
<1>3. backup \in Backups
  BY <1>1, <1>2 DEF LocalTyped, NoBackup
<1>4. LockHolds' /\ SinceItsMoment'
  BY <1>1, <1>2 DEF LockHolds, MayReplace, SinceItsMoment, NoBackup
<1>5. PaidChaptersKept' /\ TakesOnlyItsBook
  BY <1>1, <1>2 DEF PaidChaptersKept, TakesOnlyItsBook
<1> DEFINE Told(a) == Sound(a) /\ (a.at # NotThere => a.at = [row |-> a.row, memory |-> a.memory])
<1>6. ASSUME archives' \in [Books -> Seq(Archives)],
             \A b \in Books : \A i \in DOMAIN archives'[b] : Told(archives'[b][i])
      PROVE  LocalStep
  <2>1. LocalTyped'
    BY <1>1, <1>2, <1>6 DEF LocalTyped
  <2>2. CostsInMemory' /\ BackupIsAMoment'
    BY <1>1, <1>2, <1>6 DEF CostsInMemory, BackupIsAMoment
  <2> QED
    BY <1>1, <1>4, <1>5, <2>1, <2>2 DEF LocalStep, LocalInv
<1>7. /\ archives \in [Books -> Seq(Archives)]
      /\ \A b \in Books : \A i \in DOMAIN archives[b] : Told(archives[b][i])
  BY <1>1 DEF LocalTyped, CostsInMemory, BackupIsAMoment
<1>8. CASE ~Agree(backup.row, backup.memory)
  <2>1. archives' = archives
    BY <1>8 DEF Publish
  <2> QED
    BY <1>6, <1>7, <2>1
<1>9. CASE Agree(backup.row, backup.memory)
  <2> DEFINE book == backup.book
             longer == Append(archives[book], Published)
  <2>1. archives' = [archives EXCEPT ![book] = Rotated(longer)] /\ book \in Books
    BY <1>3, <1>9 DEF Publish, Backups
  <2>2. Published \in Archives
    BY <1>3 DEF Published, Archives, Backups
  <2>3. Told(Published)
    <3>1. backup.row \in Rows /\ backup.memory \in Nat /\ backup.row.costs = backup.memory
      BY <1>3, <1>9 DEF Backups, Agree
    <3>2. ASSUME backup.at # NotThere
          PROVE  backup.at = [row |-> backup.row, memory |-> backup.memory]
      <4>1. backup.at \in Copies /\ backup.at.memory \in Nat
        BY <1>3, <3>2 DEF Backups, Copies
      <4>2. backup.at.row = backup.row /\ backup.at.memory = backup.memory
        BY <1>1, <1>2, <3>1, <3>2, <4>1 DEF SinceItsMoment, Sound
      <4> QED
        BY <4>1, <4>2 DEF Copies
    <3> QED
      BY <3>1, <3>2 DEF Published, Sound
  <2>4. archives[book] \in Seq(Archives)
    BY <1>7, <2>1
  <2> HIDE DEF Told, book
  <2>5. longer \in Seq(Archives) /\ \A j \in DOMAIN longer : Told(longer[j])
    <3>1. /\ longer \in Seq(Archives) /\ Len(longer) = Len(archives[book]) + 1
          /\ \A j \in 1..Len(archives[book]) : longer[j] = archives[book][j]
          /\ longer[Len(archives[book]) + 1] = Published
      BY <2>2, <2>4, AppendProperties
    <3>2. ASSUME NEW j \in DOMAIN longer PROVE Told(longer[j])
      <4>1. j \in 1..Len(archives[book]) \/ j = Len(archives[book]) + 1
        BY <2>4, <3>1
      <4>2. CASE j \in 1..Len(archives[book])
        BY <1>7, <2>1, <2>4, <3>1, <4>2
      <4>3. CASE j = Len(archives[book]) + 1
        BY <2>3, <3>1, <4>3
      <4> QED
        BY <4>1, <4>2, <4>3
    <3> QED
      BY <3>1, <3>2
  <2> HIDE DEF longer
  <2>6. /\ Rotated(longer) \in Seq(Archives)
        /\ \A i \in DOMAIN Rotated(longer) : Told(Rotated(longer)[i])
    BY <2>5, Rotates
  <2>7. /\ archives' \in [Books -> Seq(Archives)]
        /\ \A b \in Books : \A i \in DOMAIN archives'[b] : Told(archives'[b][i])
    BY <1>7, <2>1, <2>6
  <2> QED
    BY <1>6, <2>7
<1> QED
  BY <1>8, <1>9

\* What the steps of a restore have in common: no archive changes, and what they
\* keep or take is as sound as it was.
LEMMA RestoreStep ==
    ASSUME LocalInv, ~up, UNCHANGED <<up, archives, paid>>,
           restore' \in Restores \union {NoRestore},
           target' \in Directories \union {NotThere}, asides' \subseteq Directories,
           asides \union {target} \subseteq asides' \union {target', NotThere},
           SoundDirectory(target'),
           restore'.pc # "idle" => SoundDirectory(restore'.copy) /\ SoundDirectory(restore'.moved),
           restore'.pc = "checked" => MayReplace',
           restore'.pc = "moved" => target' = NotThere,
           \/ UNCHANGED <<target, backup>>
           \/ target = NotThere /\ UNCHANGED backup
           \/ backup' = [backup EXCEPT !.at = NotThere]
    PROVE  LocalInv'
<1> USE NotThereAssumption
<1>1. LocalTyped /\ LockHolds /\ CostsInMemory /\ SinceItsMoment /\ BackupIsAMoment /\ PaidChaptersKept
  BY DEF LocalInv
<1>2. backup' \in Backups \union {NoBackup}
  <2>1. backup \in Backups \union {NoBackup}
    BY <1>1 DEF LocalTyped
  <2>2. backup \in Backups => [backup EXCEPT !.at = NotThere] \in Backups
    BY DEF Backups
  <2>3. [NoBackup EXCEPT !.at = NotThere] = NoBackup
    BY DEF NoBackup
  <2> QED
    BY <2>1, <2>2, <2>3
<1>3. LocalTyped'
  BY <1>1, <1>2 DEF LocalTyped
<1>4. LockHolds' /\ CostsInMemory'
  BY <1>1 DEF LockHolds, CostsInMemory
<1>5. SinceItsMoment'
  <2>1. CASE UNCHANGED <<target, backup>>
    BY <1>1, <2>1 DEF SinceItsMoment, Here
  <2>2. CASE target = NotThere /\ UNCHANGED backup
    BY <1>1, <2>2 DEF SinceItsMoment, Here
  <2>3. CASE backup' = [backup EXCEPT !.at = NotThere]
    <3>1. backup'.at = NotThere
      BY <1>1, <2>3 DEF LocalTyped, Backups, NoBackup
    <3> QED
      BY <3>1 DEF SinceItsMoment
  <2> QED
    BY <2>1, <2>2, <2>3
<1>6. BackupIsAMoment'
  BY <1>1 DEF BackupIsAMoment
<1>7. PaidChaptersKept'
  BY <1>1 DEF PaidChaptersKept
<1> QED
  BY <1>3, <1>4, <1>5, <1>6, <1>7 DEF LocalInv

\* A restore stages an archive's book beside every other book of the directory.
LEMMA StageStep ==
    ASSUME LocalInv, NEW b \in Books, NEW i \in DOMAIN archives[b], NEW replace \in BOOLEAN,
           Stage(b, i, replace)
    PROVE  LocalStep
<1> USE NotThereAssumption
<1>1. LocalTyped /\ LockHolds /\ CostsInMemory
  BY DEF LocalInv
<1>2. ~up /\ UNCHANGED <<target, asides, backup, up, archives, paid>>
  BY DEF Stage, LockFree, Restoring
<1> DEFINE a    == archives[b][i]
           c    == [row |-> a.row, memory |-> a.memory]
           copy == [Empty EXCEPT ![b] = c]
<1>3. restore' = [pc |-> "staged", book |-> b, replace |-> replace, moved |-> NotThere, copy |-> copy]
  BY DEF Stage
<1>4. c \in Copies /\ Sound(c)
  <2>1. a \in Archives /\ Sound(a)
    BY <1>1 DEF LocalTyped, CostsInMemory
  <2> QED
    BY <2>1 DEF Archives, Copies, Sound
<1> HIDE DEF c
<1>5. copy \in Directories /\ SoundDirectory(copy)
  BY <1>4 DEF Empty, Directories, SoundDirectory
<1> HIDE DEF copy
<1>6. restore' \in Restores
  BY <1>3, <1>5 DEF Restores
<1>7. restore'.copy = copy /\ restore'.moved = NotThere /\ restore'.pc = "staged"
  BY <1>3
<1>8. LocalInv'
  BY <1>1, <1>2, <1>5, <1>6, <1>7, RestoreStep DEF LocalTyped, CostsInMemory, SoundDirectory
<1> QED
  BY <1>2, <1>8 DEF LocalStep, TakesOnlyItsBook

\* Each rename of a restore leaves the paid chapters somewhere on disk, and a death changes no file.
LEMMA ReplaceStep ==
    ASSUME LocalInv, CheckTarget \/ MoveAside \/ PutInPlace \/ PutBack \/ RestoreDies
    PROVE  LocalStep
<1> USE NotThereAssumption
<1>1. LocalTyped /\ LockHolds /\ CostsInMemory
  BY DEF LocalInv
<1>2. restore.pc # "idle" /\ UNCHANGED <<up, archives, paid>>
  BY DEF CheckTarget, MoveAside, PutInPlace, PutBack, RestoreDies, Restoring
<1>3. ~up /\ restore \in Restores
  BY <1>1, <1>2 DEF LocalTyped, LockHolds, NoRestore
<1>4. restore.copy \in Directories /\ restore.moved \in Directories \union {NotThere}
  BY <1>3 DEF Restores
<1>5. SoundDirectory(restore.copy) /\ SoundDirectory(restore.moved) /\ SoundDirectory(target)
  BY <1>1, <1>2 DEF CostsInMemory
<1>6. NoRestore.pc = "idle"
  BY DEF NoRestore
<1>7. ASSUME restore' = NoRestore, UNCHANGED <<target, asides, backup>> PROVE LocalStep
  <2>1. LocalInv'
    BY <1>1, <1>2, <1>3, <1>5, <1>6, <1>7, RestoreStep DEF LocalTyped
  <2> QED
    BY <1>7, <2>1 DEF LocalStep, TakesOnlyItsBook
<1>8. CASE RestoreDies
  BY <1>7, <1>8 DEF RestoreDies, Give
<1>9. CASE CheckTarget
  <2>1. CASE ~MayReplace
    BY <1>7, <1>9, <2>1 DEF CheckTarget, Give
  <2>2. CASE MayReplace
    <3>1. /\ restore' = [restore EXCEPT !.pc = "checked"]
          /\ UNCHANGED <<target, asides, backup>>
      BY <1>9, <2>2 DEF CheckTarget
    <3>2. /\ restore' \in Restores /\ restore'.pc = "checked"
          /\ \A f \in {"book", "copy", "moved", "replace"} : restore'[f] = restore[f]
      BY <1>3, <3>1 DEF Restores
    <3>3. MayReplace'
      BY <2>2, <3>1, <3>2 DEF MayReplace, Present
    <3>4. LocalInv'
      BY <1>1, <1>2, <1>3, <1>5, <3>1, <3>2, <3>3, RestoreStep DEF LocalTyped
    <3> QED
      BY <3>1, <3>4 DEF LocalStep, TakesOnlyItsBook
  <2> QED
    BY <2>1, <2>2
<1>10. CASE MoveAside
  <2>1. /\ restore.pc = "checked"
        /\ restore' = [restore EXCEPT !.pc = "moved", !.moved = target]
        /\ asides' = IF target = NotThere THEN asides ELSE asides \union {target}
        /\ target' = NotThere /\ backup' = [backup EXCEPT !.at = NotThere]
    BY <1>10 DEF MoveAside
  <2>2. /\ restore' \in Restores /\ restore'.pc = "moved"
        /\ restore'.moved = target /\ restore'.copy = restore.copy
    BY <1>1, <1>3, <2>1 DEF LocalTyped, Restores
  <2>3. asides' \subseteq Directories
    BY <1>1, <2>1 DEF LocalTyped
  <2>4. LocalInv'
    BY <1>1, <1>2, <1>3, <1>5, <2>1, <2>2, <2>3, RestoreStep DEF SoundDirectory
  <2>5. TakesOnlyItsBook
    BY <1>1, <1>3, <2>1 DEF LockHolds, MayReplace, TakesOnlyItsBook
  <2> QED
    BY <2>4, <2>5 DEF LocalStep
<1>11. CASE PutInPlace \/ PutBack
  <2>1. target = NotThere /\ restore' = NoRestore /\ UNCHANGED backup
    BY <1>1, <1>11 DEF PutInPlace, PutBack, LockHolds, Give
  <2>2. \/ target' = restore.copy /\ asides' = asides
        \/ target' = restore.moved /\ asides' = asides \ {restore.moved}
    BY <1>11 DEF PutInPlace, PutBack, AfterPublish
  <2>3. LocalInv'
    BY <1>1, <1>2, <1>3, <1>4, <1>5, <1>6, <2>1, <2>2, RestoreStep DEF LocalTyped
  <2> QED
    BY <2>1, <2>3 DEF LocalStep, TakesOnlyItsBook
<1> QED
  BY <1>8, <1>9, <1>10, <1>11

\* A step of the data directory, or one of its surroundings.
LEMMA LocalKeeps == ASSUME LocalInv, LocalNext \/ UNCHANGED local PROVE LocalStep
<1>1. CASE LocalNext
  BY <1>1, SwitchStep, ServiceStep, SnapshotStep, PublishStep, StageStep, ReplaceStep DEF LocalNext
<1>2. CASE UNCHANGED local
  <2>1. UNCHANGED <<target, asides, up, archives, backup, restore, paid>>
    BY <1>2 DEF local
  <2>2. LocalTyped' /\ LockHolds' /\ CostsInMemory' /\ SinceItsMoment'
    BY <2>1 DEF LocalInv, LocalTyped, LockHolds, MayReplace, CostsInMemory, SinceItsMoment, Here
  <2> QED
    BY <2>1, <2>2, Untouched DEF LocalStep, LocalInv
<1> QED
  BY <1>1, <1>2

-----------------------------------------------------------------------------
(* The move to a hosted account                                             *)

Imports == [pc : {"put", "write", "done"}, book : Books, content : Copies]
Undoing == [pc : {"rows", "object"}, book : Books, content : {NotThere}]

RemoteTyped ==
    /\ record \in [Books -> Records \union {NotThere}]
    /\ hosted \in [Books -> Copies \union {NotThere}]
    /\ object \in [Books -> BOOLEAN]
    /\ importing \in [Operators -> Imports \union {Idle}]
    /\ undoing \in Undoing \union {Idle}

\* An import that has stored the source finds it there when it writes the rows.
SourceIsStored ==
    \A o \in Operators : importing[o].pc = "write" => object[importing[o].book]

\* A rollback works on a record of its own kind, and on a book nobody imports.
UndoIsAlone ==
    undoing.pc # "idle" =>
        /\ NoImportOf(undoing.book)
        /\ record[undoing.book] # NotThere /\ record[undoing.book].status = "rolling_back"

RemoteInv == RemoteTyped /\ SourceIsStored /\ UndoIsAlone /\ ImportIsWhole

\* What a step of the migration has to show.
RemoteStep == RemoteInv' /\ ReportIsTrue

\* Nothing is hosted at first.
LEMMA RemoteInitHolds == Init => RemoteInv
<1> SUFFICES ASSUME Init PROVE RemoteInv
  OBVIOUS
<1> USE DEF Init
<1>1. RemoteTyped
  BY DEF RemoteTyped
<1>2. SourceIsStored /\ UndoIsAlone /\ ImportIsWhole
  BY DEF SourceIsStored, UndoIsAlone, ImportIsWhole, Idle
<1> QED
  BY <1>1, <1>2 DEF RemoteInv

\* An operator goes on to i, or gives up.
LEMMA ImportMoves ==
    ASSUME RemoteTyped, NEW o \in Operators, NEW i, importing' = [importing EXCEPT ![o] = i]
    PROVE  importing'[o] = i /\ \A p \in Operators : p # o => importing'[p] = importing[p]
BY DEF RemoteTyped

\* An import that finds its book complete, and its source stored, reports what is hosted.
LEMMA LookStep ==
    ASSUME RemoteInv, NEW o \in Operators, NEW b \in Books, NEW a, Content(a) \in Copies, Look(o, b, a)
    PROVE  RemoteStep
<1> USE NotThereAssumption, RecordAssumption
<1>1. RemoteTyped /\ SourceIsStored /\ UndoIsAlone /\ ImportIsWhole
  BY DEF RemoteInv
<1> DEFINE call == [pc |-> "put", book |-> b, content |-> Content(a)]
           told == [pc |-> "done", book |-> b, content |-> Content(a)]
           i == IF record[b] = NotThere THEN call
                ELSE IF Complete(b, Content(a)) /\ object[b] THEN told ELSE Idle
<1>2. /\ undoing.book # b /\ UNCHANGED <<record, hosted, object, undoing>>
      /\ importing' = [importing EXCEPT ![o] = i]
  <2>1. [call EXCEPT !.pc = "done"] = told
    OBVIOUS
  <2> HIDE DEF told
  <2> QED
    BY <2>1 DEF Look
<1>3. /\ i \in Imports \union {Idle} /\ i.pc # "write"
      /\ i.pc = "idle" \/ i.book = b
      /\ i.pc = "done" => Complete(b, Content(a)) /\ object[b] /\ i = told
  BY DEF Imports, Idle
<1> HIDE DEF i
<1>4. importing'[o] = i /\ \A p \in Operators : p # o => importing'[p] = importing[p]
  BY <1>1, <1>2, ImportMoves
<1>5. RemoteTyped' /\ SourceIsStored' /\ ImportIsWhole'
  BY <1>1, <1>2, <1>3, <1>4 DEF RemoteTyped, SourceIsStored, ImportIsWhole
<1>6. UndoIsAlone'
  BY <1>1, <1>2, <1>3, <1>4 DEF UndoIsAlone, NoImportOf
<1>7. ReportIsTrue
  BY <1>2, <1>3, <1>4 DEF ReportIsTrue, Complete, Verified
<1> QED
  BY <1>5, <1>6, <1>7 DEF RemoteStep, RemoteInv

\* An upload adds an object; no rollback may be deleting the object of that book.
LEMMA PutStep == ASSUME RemoteInv, NEW o \in Operators, Put(o) PROVE RemoteStep
<1> USE NotThereAssumption, RecordAssumption
<1>1. RemoteTyped /\ SourceIsStored /\ UndoIsAlone /\ ImportIsWhole
  BY DEF RemoteInv
<1> DEFINE b == importing[o].book
           i == [importing[o] EXCEPT !.pc = "write"]
<1>2. /\ importing[o].pc = "put" /\ UNCHANGED <<record, hosted, undoing>>
      /\ importing' = [importing EXCEPT ![o] = i]
      /\ object' = [object EXCEPT ![b] = TRUE]
  BY <1>1 DEF Put, Goes, RemoteTyped
<1>3. importing[o] \in Imports
  BY <1>1, <1>2 DEF RemoteTyped, Idle
<1>4. i \in Imports /\ i.pc = "write" /\ i.book = b /\ b \in Books
  BY <1>3 DEF Imports
<1> HIDE DEF i
<1>5. importing'[o] = i /\ \A p \in Operators : p # o => importing'[p] = importing[p]
  BY <1>1, <1>2, ImportMoves
<1>6. object' \in [Books -> BOOLEAN] /\ object'[b] /\ \A d \in Books : object[d] => object'[d]
  BY <1>1, <1>2, <1>4 DEF RemoteTyped
<1> HIDE DEF b
<1>7. RemoteTyped'
  BY <1>1, <1>2, <1>4, <1>6 DEF RemoteTyped
<1>8. SourceIsStored'
  <2> SUFFICES ASSUME NEW p \in Operators, importing'[p].pc = "write"
               PROVE  object'[importing'[p].book]
    BY DEF SourceIsStored
  <2>1. CASE p = o
    BY <1>4, <1>5, <1>6, <2>1
  <2>2. CASE p # o
    <3>1. importing[p].pc = "write" /\ importing'[p] = importing[p]
      BY <1>5, <2>2
    <3>2. importing[p].book \in Books /\ object[importing[p].book]
      BY <1>1, <3>1 DEF RemoteTyped, Imports, Idle, SourceIsStored
    <3> QED
      BY <1>6, <3>1, <3>2
  <2> QED
    BY <2>1, <2>2
<1>9. UndoIsAlone'
  BY <1>1, <1>2, <1>4, <1>5 DEF UndoIsAlone, NoImportOf, b
<1>10. ImportIsWhole'
  BY <1>1, <1>2, <1>6 DEF ImportIsWhole
<1>11. ReportIsTrue
  BY <1>4, <1>5 DEF ReportIsTrue
<1> QED
  BY <1>7, <1>8, <1>9, <1>10, <1>11 DEF RemoteStep, RemoteInv

\* The transaction inserts the rows of one archive, or finds those of another operator.
LEMMA WriteStep == ASSUME RemoteInv, NEW o \in Operators, Write(o) PROVE RemoteStep
<1> USE NotThereAssumption, RecordAssumption
<1>1. RemoteTyped /\ SourceIsStored /\ UndoIsAlone /\ ImportIsWhole
  BY DEF RemoteInv
<1> DEFINE b == importing[o].book
           content == importing[o].content
           told == [importing[o] EXCEPT !.pc = "done"]
<1>2. importing[o].pc = "write" /\ UNCHANGED <<object, undoing>>
  BY DEF Write
<1>3. importing[o] \in Imports
  BY <1>1, <1>2 DEF RemoteTyped, Idle
<1>4. /\ b \in Books /\ content \in Copies /\ object[b]
      /\ told \in Imports /\ told.pc = "done" /\ told.book = b /\ told.content = content
      /\ Idle.pc = "idle"
  BY <1>1, <1>2, <1>3 DEF Imports, SourceIsStored, Idle
<1>5. undoing.pc # "idle" => undoing.book # b
  BY <1>1, <1>2 DEF UndoIsAlone, NoImportOf
<1>6. ASSUME NEW i \in {told, Idle}, importing' = [importing EXCEPT ![o] = i]
      PROVE  /\ importing'[o] = i /\ \A p \in Operators : p # o => importing'[p] = importing[p]
             /\ importing' \in [Operators -> Imports \union {Idle}]
             /\ SourceIsStored'
             /\ undoing'.pc # "idle" => NoImportOf(undoing.book)'
  <2> HIDE DEF told
  <2>1. importing'[o] = i /\ \A p \in Operators : p # o => importing'[p] = importing[p]
    BY <1>1, <1>6, ImportMoves
  <2>2. importing' \in [Operators -> Imports \union {Idle}]
    BY <1>1, <1>4, <1>6 DEF RemoteTyped
  <2>3. SourceIsStored'
    BY <1>1, <1>2, <1>4, <2>1 DEF SourceIsStored
  <2>4. undoing'.pc # "idle" => NoImportOf(undoing.book)'
    BY <1>1, <1>2, <1>4, <2>1 DEF UndoIsAlone, NoImportOf
  <2> QED
    BY <2>1, <2>2, <2>3, <2>4
<1>7. CASE record[b] # NotThere
  <2> DEFINE i == IF Complete(b, content) THEN told ELSE Idle
  <2>1. importing' = [importing EXCEPT ![o] = i] /\ UNCHANGED <<record, hosted>>
    BY <1>1, <1>7 DEF Write, Goes, Ends, RemoteTyped
  <2>2. i \in {told, Idle}
    OBVIOUS
  <2>3. RemoteInv'
    BY <1>1, <1>2, <1>6, <2>1, <2>2 DEF RemoteInv, RemoteTyped, UndoIsAlone, ImportIsWhole
  <2>4. ReportIsTrue
    BY <1>2, <1>4, <1>6, <2>1, <2>2 DEF ReportIsTrue, Complete, Verified
  <2> QED
    BY <2>3, <2>4 DEF RemoteStep
<1>8. CASE record[b] = NotThere
  <2> DEFINE r == [content |-> content, status |-> "complete"]
  <2>1. /\ record' = [record EXCEPT ![b] = r] /\ hosted' = [hosted EXCEPT ![b] = content]
        /\ importing' = [importing EXCEPT ![o] = told]
    BY <1>1, <1>8 DEF Write, Goes, Inserted, RemoteTyped
  <2>2. r \in Records /\ r # NotThere /\ content # NotThere
    BY <1>4 DEF Records
  <2>3. /\ record'[b] = r /\ hosted'[b] = content
        /\ \A d \in Books : d # b => record'[d] = record[d] /\ hosted'[d] = hosted[d]
        /\ record' \in [Books -> Records \union {NotThere}]
        /\ hosted' \in [Books -> Copies \union {NotThere}]
    BY <1>1, <1>4, <2>1, <2>2 DEF RemoteTyped
  <2> HIDE DEF told
  <2>4. RemoteTyped' /\ SourceIsStored'
    BY <1>1, <1>2, <1>6, <2>1, <2>3 DEF RemoteTyped
  <2>5. UndoIsAlone'
    BY <1>1, <1>2, <1>5, <1>6, <2>1, <2>3 DEF UndoIsAlone, RemoteTyped, Undoing, Idle
  <2>6. ImportIsWhole'
    BY <1>1, <1>2, <1>4, <2>2, <2>3 DEF ImportIsWhole
  <2>7. ReportIsTrue
    BY <1>2, <1>4, <1>6, <2>1, <2>3 DEF ReportIsTrue
  <2> QED
    BY <2>4, <2>5, <2>6, <2>7 DEF RemoteStep, RemoteInv
<1> QED
  BY <1>7, <1>8

\* The first transaction of a rollback takes rows and record's completion together.
LEMMA UndoStep ==
    ASSUME RemoteInv, NEW b \in Books, NEW a, Undo(b, a)
    PROVE  RemoteStep
<1> USE NotThereAssumption, RecordAssumption
<1>1. RemoteTyped /\ SourceIsStored /\ UndoIsAlone /\ ImportIsWhole
  BY DEF RemoteInv
<1> DEFINE r == [record[b] EXCEPT !.status = "rolling_back"]
<1>2. /\ NoImportOf(b) /\ record[b] # NotThere /\ UNCHANGED <<object, importing>>
      /\ record' = [record EXCEPT ![b] = r] /\ hosted' = [hosted EXCEPT ![b] = NotThere]
      /\ undoing' = [Idle EXCEPT !.pc = "rows", !.book = b]
  BY <1>1 DEF Undo, Undone, RemoteTyped
<1>3. r \in Records /\ r.status = "rolling_back" /\ r # NotThere
  BY <1>1, <1>2 DEF RemoteTyped, Records
<1> HIDE DEF r
<1>4. /\ record'[b] = r /\ hosted'[b] = NotThere
      /\ \A d \in Books : d # b => record'[d] = record[d] /\ hosted'[d] = hosted[d]
      /\ record' \in [Books -> Records \union {NotThere}]
      /\ hosted' \in [Books -> Copies \union {NotThere}]
  BY <1>1, <1>2, <1>3 DEF RemoteTyped
<1>5. undoing' \in Undoing /\ undoing'.pc = "rows" /\ undoing'.book = b
  BY <1>2 DEF Undoing, Idle
<1>6. RemoteTyped' /\ SourceIsStored'
  BY <1>1, <1>2, <1>4, <1>5 DEF RemoteTyped, SourceIsStored
<1>7. UndoIsAlone'
  BY <1>2, <1>3, <1>4, <1>5 DEF UndoIsAlone, NoImportOf
<1>8. ImportIsWhole'
  BY <1>1, <1>2, <1>3, <1>4 DEF ImportIsWhole
<1>9. ReportIsTrue
  BY <1>2 DEF ReportIsTrue
<1> QED
  BY <1>6, <1>7, <1>8, <1>9 DEF RemoteStep, RemoteInv

\* The rest of a rollback concerns no book that is complete.
LEMMA RollbackStep == ASSUME RemoteInv, DeleteObject \/ Forget \/ UndoDies PROVE RemoteStep
<1> USE NotThereAssumption, RecordAssumption
<1>1. RemoteTyped /\ SourceIsStored /\ UndoIsAlone /\ ImportIsWhole
  BY DEF RemoteInv
<1> DEFINE b == undoing.book
<1>2. undoing.pc # "idle" /\ UNCHANGED <<hosted, importing>>
  BY DEF DeleteObject, Forget, UndoDies
<1>3. undoing \in Undoing
  BY <1>1, <1>2 DEF RemoteTyped, Idle
<1>4. /\ b \in Books /\ NoImportOf(b)
      /\ record[b] # NotThere /\ record[b].status = "rolling_back" /\ hosted[b] = NotThere
  BY <1>1, <1>2, <1>3 DEF Undoing, UndoIsAlone, ImportIsWhole
<1>5. ReportIsTrue
  BY <1>2 DEF ReportIsTrue
<1>6. CASE DeleteObject
  <2>1. /\ object' = [object EXCEPT ![b] = FALSE] /\ undoing' = [undoing EXCEPT !.pc = "object"]
        /\ UNCHANGED record
    BY <1>6 DEF DeleteObject
  <2>2. /\ object' \in [Books -> BOOLEAN] /\ \A d \in Books : d # b => object'[d] = object[d]
    BY <1>1, <2>1 DEF RemoteTyped
  <2>3. undoing' \in Undoing /\ undoing'.book = b
    BY <1>3, <2>1 DEF Undoing
  <2> HIDE DEF b
  <2>4. RemoteTyped'
    BY <1>1, <1>2, <2>1, <2>2, <2>3 DEF RemoteTyped
  <2>5. SourceIsStored'
    <3> SUFFICES ASSUME NEW o \in Operators, importing[o].pc = "write"
                 PROVE  object'[importing[o].book]
      BY <1>2 DEF SourceIsStored
    <3>1. importing[o].book \in Books /\ importing[o].book # b
      BY <1>1, <1>4 DEF RemoteTyped, Imports, Idle, NoImportOf
    <3> QED
      BY <1>1, <2>2, <3>1 DEF SourceIsStored
  <2>6. UndoIsAlone'
    BY <1>2, <1>4, <2>1, <2>3 DEF UndoIsAlone, NoImportOf
  <2>7. ImportIsWhole'
    BY <1>1, <1>2, <1>4, <2>1, <2>2 DEF ImportIsWhole
  <2> QED
    BY <1>5, <2>4, <2>5, <2>6, <2>7 DEF RemoteStep, RemoteInv
<1>7. CASE Forget
  <2>1. record' = [record EXCEPT ![b] = NotThere] /\ undoing' = Idle /\ UNCHANGED object
    BY <1>7 DEF Forget
  <2>2. /\ record' \in [Books -> Records \union {NotThere}] /\ record'[b] = NotThere
        /\ \A d \in Books : d # b => record'[d] = record[d]
    BY <1>1, <1>4, <2>1 DEF RemoteTyped
  <2> HIDE DEF b
  <2>3. RemoteTyped' /\ SourceIsStored' /\ UndoIsAlone'
    BY <1>1, <1>2, <2>1, <2>2 DEF RemoteTyped, SourceIsStored, UndoIsAlone, Idle
  <2>4. ImportIsWhole'
    BY <1>1, <1>2, <1>4, <2>1, <2>2 DEF ImportIsWhole
  <2> QED
    BY <1>5, <2>3, <2>4 DEF RemoteStep, RemoteInv
<1>8. CASE UndoDies
  <2>1. undoing' = Idle /\ UNCHANGED <<record, object>>
    BY <1>8 DEF UndoDies
  <2>2. RemoteTyped' /\ SourceIsStored' /\ UndoIsAlone' /\ ImportIsWhole'
    BY <1>1, <1>2, <2>1 DEF RemoteTyped, SourceIsStored, UndoIsAlone, ImportIsWhole, Idle
  <2> QED
    BY <1>5, <2>2 DEF RemoteStep, RemoteInv
<1> QED
  BY <1>6, <1>7, <1>8

\* An import that dies leaves at most its uploaded source.
LEMMA ImportDiesStep == ASSUME RemoteInv, NEW o \in Operators, ImportDies(o) PROVE RemoteStep
<1>1. RemoteTyped /\ SourceIsStored /\ UndoIsAlone /\ ImportIsWhole
  BY DEF RemoteInv
<1>2. /\ importing' = [importing EXCEPT ![o] = Idle] /\ Idle.pc = "idle"
      /\ UNCHANGED <<record, hosted, object, undoing>>
  BY DEF ImportDies, Ends, Idle
<1>3. importing'[o] = Idle /\ \A p \in Operators : p # o => importing'[p] = importing[p]
  BY <1>1, <1>2, ImportMoves
<1>4. RemoteTyped' /\ SourceIsStored' /\ ImportIsWhole'
  BY <1>1, <1>2, <1>3 DEF RemoteTyped, SourceIsStored, ImportIsWhole
<1>5. UndoIsAlone' /\ ReportIsTrue
  BY <1>1, <1>2, <1>3 DEF UndoIsAlone, NoImportOf, ReportIsTrue
<1> QED
  BY <1>4, <1>5 DEF RemoteStep, RemoteInv

-----------------------------------------------------------------------------
(* The whole                                                                *)

IInv == LocalInv /\ RemoteInv

\* Every step of the operator's commands keeps both invariants.
LEMMA StepKeeps == ASSUME IInv, [Next]_vars PROVE LocalStep /\ RemoteStep
<1>1. LocalInv /\ RemoteInv
  BY DEF IInv
<1>2. ASSUME UNCHANGED remote PROVE RemoteStep
  <2>1. UNCHANGED <<record, hosted, object, importing, undoing>>
    BY <1>2 DEF remote
  <2>2. RemoteTyped' /\ SourceIsStored' /\ UndoIsAlone' /\ ImportIsWhole' /\ ReportIsTrue
    BY <1>1, <2>1 DEF RemoteInv, RemoteTyped, SourceIsStored, UndoIsAlone, NoImportOf,
                      ImportIsWhole, ReportIsTrue
  <2> QED
    BY <2>2 DEF RemoteStep, RemoteInv
<1>3. CASE LocalNext /\ UNCHANGED remote
  BY <1>1, <1>2, <1>3, LocalKeeps
<1>4. CASE UNCHANGED vars
  BY <1>1, <1>2, <1>4, LocalKeeps DEF vars
<1>5. ASSUME NEW b \in Books, NEW i \in DOMAIN archives[b], NEW o \in Operators, Look(o, b, archives[b][i])
      PROVE  LocalStep /\ RemoteStep
  <2>1. archives[b][i] \in Archives
    BY <1>1 DEF LocalInv, LocalTyped
  <2>2. Content(archives[b][i]) \in Copies
    BY <2>1 DEF Content, Archives, Copies
  <2>3. UNCHANGED local
    BY <1>5 DEF Look
  <2> QED
    BY <1>1, <1>5, <2>2, <2>3, LookStep, LocalKeeps
<1>6. ASSUME NEW b \in Books, NEW i \in DOMAIN archives[b], Undo(b, archives[b][i])
      PROVE  LocalStep /\ RemoteStep
  <2>1. UNCHANGED local
    BY <1>6 DEF Undo
  <2> QED
    BY <1>1, <1>6, <2>1, UndoStep, LocalKeeps
<1>7. ASSUME NEW o \in Operators, Put(o) \/ Write(o) \/ ImportDies(o)
      PROVE  LocalStep /\ RemoteStep
  <2>1. UNCHANGED local
    BY <1>7 DEF Put, Write, ImportDies
  <2> QED
    BY <1>1, <1>7, <2>1, PutStep, WriteStep, ImportDiesStep, LocalKeeps
<1>8. CASE DeleteObject \/ Forget \/ UndoDies
  <2>1. UNCHANGED local
    BY <1>8 DEF DeleteObject, Forget, UndoDies
  <2> QED
    BY <1>1, <1>8, <2>1, RollbackStep, LocalKeeps
<1> QED
  BY <1>3, <1>4, <1>5, <1>6, <1>7, <1>8 DEF Next

\* The two invariants together are inductive.
THEOREM LocalInductive == Spec => []IInv
<1>1. Init => IInv
  BY LocalInitHolds, RemoteInitHolds DEF Init, IInv
<1>2. IInv /\ [Next]_vars => IInv'
  BY StepKeeps DEF LocalStep, RemoteStep, IInv
<1> QED
  BY <1>1, <1>2, PTL DEF Spec

\* An archive is the book as it was at one moment, whatever the worker wrote between the
\* reading of its catalog and of its memory.
THEOREM BackupMoments == Spec => []BackupIsAMoment
<1>1. IInv => BackupIsAMoment
  BY DEF IInv, LocalInv
<1> QED
  BY <1>1, LocalInductive, PTL

\* A restore loses no chapter that was paid for, wherever it dies, and takes the directory
\* from no running service and from no other book.
THEOREM SafeRestores == Spec => RestoreIsSafe
<1>1. ASSUME IInv, [Next]_vars PROVE [PaidChaptersKept' /\ TakesOnlyItsBook]_local
  BY <1>1, StepKeeps DEF LocalStep, LocalInv
<1> QED
  BY <1>1, LocalInductive, PTL DEF Spec, RestoreIsSafe

\* What is hosted of a book is one whole archive with its source, through crashes, rollbacks
\* and two operators at once, and an import that reports success is the one that is hosted.
THEOREM TrueImports == Spec => ImportIsTrue
<1>1. ASSUME IInv, [Next]_vars PROVE [ImportIsWhole' /\ ReportIsTrue]_vars
  BY <1>1, StepKeeps DEF RemoteStep, RemoteInv
<1> QED
  BY <1>1, LocalInductive, PTL DEF Spec, ImportIsTrue

-----------------------------------------------------------------------------
(* The passage index                                                        *)

Spaces     == {"pinned", "drifted"}
IndexRows  == [ch : IndexChapters, p : Nat, space : Spaces, live : BOOLEAN]
Calls      == [ch : IndexChapters, ps : SUBSET Nat, failed : BOOLEAN]
Batches    == [ch : IndexChapters, ps : SUBSET Nat, space : {"pinned"}]
Processes  == [kind : {"service", "backfill"}, open : BOOLEAN]
Paying     == {"calling", "answered", "settled"}
Runs       == [pc : {"chapter", "batch"} \cup Paying, limit : Nat, size : Nat, checked : BOOLEAN,
               ch : Nat, todo : SUBSET Nat]

\* Every staged batch is in the book's own space.
IndexTyped ==
    /\ chunks \in Seq(IndexRows)
    /\ marked \in SUBSET IndexChapters /\ staged \in SUBSET Batches
    /\ durable \in 0..Len(Windows)
    /\ pending \in SUBSET Calls /\ costs \in SUBSET Calls
    /\ config \in [backend : {"vec0", "bruteforce"}, space : Spaces]
    /\ proc \in Processes \cup {Nobody}
    /\ run \in Runs \cup {NoRun}
    /\ \A ch \in IndexChapters : bought[ch] \in [1..Windows[ch] -> {0, 1}]
    /\ bought = [ch \in IndexChapters |-> bought[ch]]

\* The live rows of a chapter: its windows in order, one after the other, once it is
\* published; until then its prefix, if it has prose.
Windowed(ch) ==
    \E n \in Nat :
        /\ LiveRows(ch) = {n + p : p \in 1..Windows[ch]}
        /\ \A p \in 1..Windows[ch] : chunks[n + p] = Row(ch, p, "pinned")
Prefixed(ch) ==
    IF Windows[ch] = 0 THEN LiveRows(ch) = {}
    ELSE \E i \in DOMAIN chunks : LiveRows(ch) = {i} /\ chunks[i] = Row(ch, 0, "pinned")

Shape(ch) ==
    IF ch \in marked THEN ch <= durable /\ Windowed(ch)
    ELSE IF ch <= durable THEN Prefixed(ch)
    ELSE LiveRows(ch) = {}

\* A process that has the book open under vec0 has the rows' own mirror.
MirrorHolds == proc.open /\ config.backend = "vec0" => mirror = Canonical(chunks)

\* Whatever was billed is reserved or in the ledger.
OnTheBooks ==
    \A ch \in IndexChapters : \A p \in 1..Windows[ch] :
        bought[ch][p] = 1 => \E c \in pending \cup costs : c.ch = ch /\ p \in c.ps

\* The backfill works on a chapter it may index, buys in the pinned space windows that
\* no batch is staged for, and has paid for none that it still has to buy.
Toward(S) == \A p \in S : bought[run.ch][p] = 0

RunHolds ==
    /\ proc.kind # "backfill" => run = NoRun
    /\ proc.kind = "backfill" => run \in Runs /\ run.limit <= durable /\ run.ch >= 1
    /\ run.checked => Pinned
    /\ run.pc \in {"batch"} \cup Paying =>
         /\ run.ch <= run.limit
         /\ run.todo \subseteq 1..Windows[run.ch] /\ run.todo \cap StagedWindows(run.ch) = {}
         /\ Toward(IF run.pc \in {"batch", "calling"} THEN run.todo ELSE run.todo \ Batch)
    /\ run.pc \in Paying => run.checked
    /\ run.pc \in {"calling", "answered"} => Paid(FALSE) \in pending
    /\ run.pc = "settled" => Paid(FALSE) \in costs

IndexInv ==
    /\ IndexTyped /\ (\A ch \in IndexChapters : Shape(ch))
    /\ MirrorHolds /\ OnTheBooks /\ RunHolds

\* No process has no run.
LEMMA NoRunFacts == NoRun.pc = "idle" /\ NoRun.checked = FALSE /\ Nobody.open = FALSE /\ Nobody.kind = "none"
BY DEF NoRun, Nobody

\* The rows of a chapter depend on memory.db alone.
LEMMA ShapesStay ==
    ASSUME \A ch \in IndexChapters : Shape(ch), UNCHANGED <<chunks, marked, durable>>
    PROVE  \A ch \in IndexChapters : Shape(ch)'
BY DEF Shape, Windowed, Prefixed, LiveRows

\* A new row is a live row of its chapter.
LEMMA RowTyped ==
    ASSUME NEW ch \in IndexChapters, NEW p \in Nat, NEW space \in Spaces
    PROVE  /\ Row(ch, p, space) \in IndexRows
           /\ Row(ch, p, space).ch = ch /\ Row(ch, p, space).live
BY DEF Row, IndexRows

\* A book of before the index has the prefix of each chapter with prose.
LEMMA IndexInitHolds == IndexInit => IndexInv
<1> SUFFICES ASSUME IndexInit PROVE IndexInv
  OBVIOUS
<1>1. PICK order \in [1..Cardinality(Prose) -> Prose] :
        /\ {order[i] : i \in DOMAIN order} = Prose
        /\ \A i, j \in DOMAIN order : i < j => order[i] < order[j]
        /\ chunks = [i \in DOMAIN order |-> Row(order[i], 0, "pinned")]
  BY DEF IndexInit
<1>2. /\ mirror = NoTable /\ marked = {} /\ staged = {} /\ durable = Legacy
      /\ pending = {} /\ costs = {} /\ config = [backend |-> "bruteforce", space |-> "pinned"]
      /\ proc = Nobody /\ run = NoRun
      /\ bought = [ch \in IndexChapters |-> [p \in 1..Windows[ch] |-> 0]]
  BY DEF IndexInit
<1>3. /\ Windows \in Seq(Nat) /\ Legacy \in 0..Len(Windows) /\ Len(Windows) \in Nat
      /\ \A ch \in IndexChapters : Windows[ch] \in Nat
      /\ Prose \subseteq IndexChapters /\ IsFiniteSet(Prose)
  <2>1. Windows \in Seq(Nat) /\ Legacy \in 0..Len(Windows) /\ Len(Windows) \in Nat
    BY WindowsAssumption
  <2>2. Prose \subseteq 1..Legacy /\ IsFiniteSet(1..Legacy)
    BY <2>1, FS_Interval DEF Prose
  <2>3. IsFiniteSet(Prose)
    BY <2>2, FS_Subset
  <2> QED
    BY <2>1, <2>2, <2>3 DEF IndexChapters
<1>4. Cardinality(Prose) \in Nat
  BY <1>3, FS_CardinalityType
<1> DEFINE n == Cardinality(Prose)
<1> HIDE DEF n
<1>5. /\ DOMAIN chunks = 1..n /\ DOMAIN order = 1..n
      /\ \A i \in 1..n : chunks[i] = Row(order[i], 0, "pinned") /\ order[i] \in Prose
  BY <1>1 DEF n
<1>6. chunks \in Seq(IndexRows)
  <2>1. \A i \in 1..n : chunks[i] \in IndexRows
    BY <1>3, <1>5, RowTyped DEF Spaces
  <2>2. chunks = [i \in 1..n |-> chunks[i]]
    BY <1>1 DEF n
  <2>3. chunks \in [1..n -> IndexRows]
    BY <2>1, <2>2
  <2> QED
    BY <1>4, <2>3 DEF n
<1>7. IndexTyped
  <2>1. bought = [ch \in IndexChapters |-> bought[ch]]
    BY <1>2
  <2>2. \A ch \in IndexChapters : bought[ch] \in [1..Windows[ch] -> {0, 1}]
    BY <1>2
  <2>3. config \in [backend : {"vec0", "bruteforce"}, space : Spaces]
    BY <1>2 DEF Spaces
  <2> QED
    BY <1>2, <1>3, <1>6, <2>1, <2>2, <2>3 DEF IndexTyped
<1>8. ASSUME NEW ch \in IndexChapters PROVE Shape(ch)
  <2>1. LiveRows(ch) = {i \in 1..n : order[i] = ch}
    BY <1>5 DEF LiveRows, Row
  <2>2. CASE ch \in Prose
    <3>1. PICK i \in 1..n : order[i] = ch
      BY <1>1, <1>5, <2>2
    <3>2. ASSUME NEW j \in 1..n, order[j] = ch PROVE j = i
      <4>1. j < i \/ i < j \/ i = j
        BY <1>4 DEF n
      <4>2. ch \in Nat
        BY DEF IndexChapters
      <4> QED
        BY <1>1, <1>5, <3>1, <3>2, <4>1, <4>2
    <3>3. LiveRows(ch) = {i} /\ chunks[i] = Row(ch, 0, "pinned")
      BY <1>5, <2>1, <3>1, <3>2
    <3>4. ch <= durable /\ Windows[ch] # 0
      BY <1>2, <1>3, <2>2 DEF Prose
    <3> QED
      BY <1>2, <1>5, <3>1, <3>3, <3>4 DEF Shape, Prefixed
  <2>3. CASE ch \notin Prose
    <3>1. LiveRows(ch) = {}
      BY <1>5, <2>1, <2>3
    <3>2. ch <= durable => Windows[ch] = 0
      BY <1>2, <1>3, <2>3 DEF Prose, IndexChapters
    <3> QED
      BY <1>2, <3>1, <3>2 DEF Shape, Prefixed
  <2> QED
    BY <2>2, <2>3
<1>9. MirrorHolds /\ RunHolds
  BY <1>2, NoRunFacts DEF MirrorHolds, RunHolds, Paying
<1>10. OnTheBooks
  BY <1>2 DEF OnTheBooks
<1> QED
  BY <1>7, <1>8, <1>9, <1>10 DEF IndexInv

\* What a publication of ch leaves: the windows of ch live at the end, every other
\* chapter as it was, and under vec0 the rows' own mirror.
LEMMA Publication ==
    ASSUME IndexTyped, \A d \in IndexChapters : Shape(d), MirrorHolds, proc.open,
           NEW ch \in IndexChapters, NEW spaces \in [1..Windows[ch] -> {"pinned"}],
           PublishIndex(ch, spaces), ch <= durable',
           \A d \in IndexChapters : d # ch => (d <= durable' <=> d <= durable)
    PROVE  /\ chunks' \in Seq(IndexRows)
           /\ \A d \in IndexChapters : Shape(d)'
           /\ config.backend = "vec0" => mirror' = Canonical(chunks)'
           /\ marked' \in SUBSET IndexChapters /\ staged' \in SUBSET Batches
<1> DEFINE n == Len(chunks)
           w == Windows[ch]
           R == RetractedRows(ch)
           W == [p \in 1..w |-> Row(ch, p, spaces[p])]
<1>1. /\ chunks' = R \o W
      /\ mirror' = IF config.backend = "vec0" THEN PublishedMirror(ch, spaces) ELSE mirror
      /\ marked' = marked \cup {ch} /\ staged' = {s \in staged : s.ch # ch}
  BY DEF PublishIndex, PublishedRows
<1>2. /\ chunks \in Seq(IndexRows) /\ n \in Nat /\ DOMAIN chunks = 1..n
      /\ \A i \in 1..n : chunks[i] \in IndexRows
  BY DEF IndexTyped
<1>3. w \in Nat
  BY WindowsAssumption DEF IndexChapters
<1>4. ASSUME NEW i \in 1..n
      PROVE  /\ R[i] = IF chunks[i].ch = ch THEN [chunks[i] EXCEPT !.live = FALSE] ELSE chunks[i]
             /\ R[i] \in IndexRows
             /\ R[i].ch = chunks[i].ch
             /\ R[i].live <=> chunks[i].live /\ chunks[i].ch # ch
  <2>1. R[i] = IF chunks[i].ch = ch THEN [chunks[i] EXCEPT !.live = FALSE] ELSE chunks[i]
    BY <1>2 DEF RetractedRows
  <2>2. chunks[i] \in IndexRows
    BY <1>2
  <2> HIDE DEF R
  <2>3. CASE chunks[i].ch = ch
    <3>1. R[i] = [chunks[i] EXCEPT !.live = FALSE]
      BY <2>1, <2>3
    <3>2. R[i] \in IndexRows
      BY <2>2, <3>1 DEF IndexRows
    <3>3. R[i].ch = chunks[i].ch /\ R[i].live = FALSE
      BY <2>2, <3>1 DEF IndexRows
    <3> QED
      BY <2>1, <2>3, <3>2, <3>3
  <2>4. CASE chunks[i].ch # ch
    BY <2>1, <2>2, <2>4
  <2> QED
    BY <2>3, <2>4
<1>5. R \in Seq(IndexRows) /\ Len(R) = n
  <2>1. R \in [1..n -> IndexRows]
    <3>1. DOMAIN R = 1..n /\ R = [i \in 1..n |-> R[i]]
      BY <1>2 DEF RetractedRows
    <3> HIDE DEF R
    <3> QED
      BY <1>4, <3>1
  <2> HIDE DEF R
  <2> QED
    BY <1>2, <2>1
<1>6. ASSUME NEW p \in 1..w
      PROVE  W[p] = Row(ch, p, "pinned") /\ W[p] \in IndexRows /\ W[p].ch = ch /\ W[p].live
  <2>1. p \in Nat /\ W[p] = Row(ch, p, "pinned")
    BY <1>3
  <2> HIDE DEF W
  <2> QED
    BY <2>1, RowTyped DEF Spaces
<1>7. W \in Seq(IndexRows) /\ Len(W) = w
  <2>1. W \in [1..w -> IndexRows]
    BY <1>6
  <2> HIDE DEF W
  <2> QED
    BY <1>3, <2>1
<1> HIDE DEF R, W
<1>8. /\ chunks' \in Seq(IndexRows) /\ Len(chunks') = n + w
      /\ \A i \in 1..(n + w) : chunks'[i] = IF i <= n THEN R[i] ELSE W[i - n]
  BY <1>1, <1>5, <1>7, ConcatProperties
<1> HIDE DEF n, w
<1>9. /\ DOMAIN chunks' = 1..(n + w)
      /\ \A i \in 1..n : chunks'[i] = R[i]
      /\ \A p \in 1..w : n + p \in 1..(n + w) /\ chunks'[n + p] = W[p]
  <2>1. DOMAIN chunks' = 1..(n + w)
    BY <1>8
  <2>2. ASSUME NEW i \in 1..n PROVE chunks'[i] = R[i]
    <3>1. i \in 1..(n + w) /\ i <= n
      BY <1>2, <1>3
    <3> QED
      BY <1>8, <3>1
  <2>3. ASSUME NEW p \in 1..w PROVE n + p \in 1..(n + w) /\ chunks'[n + p] = W[p]
    <3>1. n + p \in 1..(n + w) /\ ~(n + p <= n) /\ (n + p) - n = p
      BY <1>2, <1>3
    <3> QED
      BY <1>8, <3>1
  <2> QED
    BY <2>1, <2>2, <2>3
<1>10. ASSUME NEW i \in 1..(n + w)
       PROVE  i \in 1..n \/ \E p \in 1..w : i = n + p
  <2>1. CASE i <= n
    BY <1>2, <1>3, <2>1
  <2>2. CASE ~(i <= n)
    <3>1. i - n \in 1..w /\ i = n + (i - n)
      BY <1>2, <1>3, <2>2
    <3> QED
      BY <3>1
  <2> QED
    BY <2>1, <2>2
<1>11. LiveRows(ch)' = {n + p : p \in 1..w}
  <2>1. ASSUME NEW i \in 1..n PROVE i \notin LiveRows(ch)'
    <3>1. ~(chunks'[i].ch = ch /\ chunks'[i].live)
      <4>1. ~(R[i].ch = ch /\ R[i].live)
        BY <1>4
      <4> QED
        BY <1>9, <4>1
    <3> QED
      BY <3>1 DEF LiveRows
  <2>2. \A p \in 1..w : n + p \in LiveRows(ch)'
    BY <1>6, <1>9 DEF LiveRows
  <2>3. LiveRows(ch)' \subseteq 1..(n + w)
    BY <1>9 DEF LiveRows
  <2> QED
    BY <1>10, <2>1, <2>2, <2>3
<1>12. ASSUME NEW d \in IndexChapters, d # ch
       PROVE  LiveRows(d)' = LiveRows(d) /\ \A i \in LiveRows(d) : chunks'[i] = chunks[i]
  <2>1. \A i \in 1..n : i \in LiveRows(d)' <=> i \in LiveRows(d)
    <3> SUFFICES ASSUME NEW i \in 1..n PROVE i \in LiveRows(d)' <=> i \in LiveRows(d)
      OBVIOUS
    <3>1. /\ chunks'[i].ch = chunks[i].ch
          /\ chunks'[i].live <=> chunks[i].live /\ chunks[i].ch # ch
          /\ i \in DOMAIN chunks' /\ i \in DOMAIN chunks
      <4>1. chunks'[i] = R[i] /\ i \in DOMAIN chunks' /\ i \in DOMAIN chunks
        BY <1>2, <1>3, <1>9
      <4> QED
        BY <1>4, <4>1
    <3> QED
      BY <1>12, <3>1 DEF LiveRows
  <2>2. \A p \in 1..w : n + p \notin LiveRows(d)'
    BY <1>6, <1>9, <1>12 DEF LiveRows
  <2>3. LiveRows(d)' \subseteq 1..(n + w) /\ LiveRows(d) \subseteq 1..n
    BY <1>2, <1>9 DEF LiveRows
  <2>4. LiveRows(d)' = LiveRows(d)
    BY <1>10, <2>1, <2>2, <2>3
  <2>5. ASSUME NEW i \in LiveRows(d) PROVE chunks'[i] = chunks[i]
    <3>1. i \in 1..n /\ chunks[i].ch # ch
      BY <1>2, <1>12 DEF LiveRows
    <3> QED
      BY <1>4, <1>9, <3>1
  <2> QED
    BY <2>4, <2>5
<1>13. ASSUME NEW d \in IndexChapters PROVE Shape(d)'
  <2>1. CASE d = ch
    <3>1. Windowed(ch)'
      <4>1. \A p \in 1..w : chunks'[n + p] = Row(ch, p, "pinned")
        BY <1>6, <1>9
      <4>2. n \in Nat /\ w = Windows[ch]
        BY <1>2 DEF w
      <4> QED
        BY <1>11, <4>1, <4>2 DEF Windowed
    <3> QED
      BY <1>1, <2>1, <3>1 DEF Shape
  <2>2. CASE d # ch
    <3>1. (d \in marked' <=> d \in marked) /\ (d <= durable' <=> d <= durable)
      BY <1>1, <2>2
    <3>2. LiveRows(d)' = LiveRows(d) /\ \A i \in LiveRows(d) : chunks'[i] = chunks[i]
      BY <1>12, <2>2
    <3>3. Windowed(d) => Windowed(d)'
      <4> SUFFICES ASSUME Windowed(d) PROVE Windowed(d)'
        OBVIOUS
      <4>1. PICK m \in Nat : /\ LiveRows(d) = {m + p : p \in 1..Windows[d]}
                             /\ \A p \in 1..Windows[d] : chunks[m + p] = Row(d, p, "pinned")
        BY DEF Windowed
      <4>2. \A p \in 1..Windows[d] : chunks'[m + p] = Row(d, p, "pinned")
        BY <3>2, <4>1
      <4> QED
        BY <3>2, <4>1, <4>2 DEF Windowed
    <3>4. Prefixed(d) => Prefixed(d)'
      <4> SUFFICES ASSUME Prefixed(d) PROVE Prefixed(d)'
        OBVIOUS
      <4>1. CASE Windows[d] = 0
        BY <3>2, <4>1 DEF Prefixed
      <4>2. CASE Windows[d] # 0
        <5>1. PICK i \in DOMAIN chunks : LiveRows(d) = {i} /\ chunks[i] = Row(d, 0, "pinned")
          BY <4>2 DEF Prefixed
        <5>2. i \in DOMAIN chunks' /\ LiveRows(d)' = {i} /\ chunks'[i] = Row(d, 0, "pinned")
          BY <3>2, <5>1 DEF LiveRows
        <5> QED
          BY <4>2, <5>2 DEF Prefixed
      <4> QED
        BY <4>1, <4>2
    <3> QED
      BY <3>1, <3>2, <3>3, <3>4 DEF Shape
  <2> QED
    BY <2>1, <2>2
<1>14. ASSUME config.backend = "vec0" PROVE mirror' = Canonical(chunks)'
  <2>1. mirror = {[id |-> i, row |-> chunks[i]] : i \in 1..n}
    BY <1>2, <1>14 DEF MirrorHolds, Canonical
  <2>2. RetractedMirror(ch) = {[id |-> i, row |-> R[i]] : i \in 1..n}
    <3> DEFINE M(m) == [m EXCEPT !.row.live = @ /\ m.id \notin LiveRows(ch)]
    <3>1. RetractedMirror(ch) = {M(m) : m \in mirror}
      BY DEF RetractedMirror
    <3>2. ASSUME NEW i \in 1..n PROVE M([id |-> i, row |-> chunks[i]]) = [id |-> i, row |-> R[i]]
      <4>1. M([id |-> i, row |-> chunks[i]])
              = [id |-> i, row |-> [chunks[i] EXCEPT !.live = @ /\ i \notin LiveRows(ch)]]
        OBVIOUS
      <4>2. [chunks[i] EXCEPT !.live = @ /\ i \notin LiveRows(ch)] = R[i]
        <5>1. CASE chunks[i].ch = ch
          <6>1. (chunks[i].live /\ i \notin LiveRows(ch)) = FALSE
            BY <1>2, <5>1 DEF LiveRows
          <6> QED
            BY <1>4, <5>1, <6>1
        <5>2. CASE chunks[i].ch # ch
          <6>1. chunks[i] \in IndexRows
            BY <1>2
          <6>2. i \notin LiveRows(ch)
            BY <5>2 DEF LiveRows
          <6>3. chunks[i].live \in BOOLEAN
            BY <6>1 DEF IndexRows
          <6>4. (chunks[i].live /\ i \notin LiveRows(ch)) = chunks[i].live
            BY <6>2, <6>3
          <6>5. [chunks[i] EXCEPT !.live = chunks[i].live] = chunks[i]
            BY <6>1 DEF IndexRows
          <6> QED
            BY <1>4, <5>2, <6>4, <6>5
        <5> QED
          BY <5>1, <5>2
      <4> QED
        BY <4>1, <4>2
    <3> HIDE DEF M
    <3> QED
      <4>1. ASSUME NEW m \in RetractedMirror(ch) PROVE \E i \in 1..n : m = [id |-> i, row |-> R[i]]
        <5>1. PICK o \in mirror : m = M(o)
          BY <3>1
        <5>2. PICK i \in 1..n : o = [id |-> i, row |-> chunks[i]]
          BY <2>1, <5>1
        <5> QED
          BY <3>2, <5>1, <5>2
      <4>2. ASSUME NEW i \in 1..n PROVE [id |-> i, row |-> R[i]] \in RetractedMirror(ch)
        <5>1. [id |-> i, row |-> chunks[i]] \in mirror
          BY <2>1
        <5>2. M([id |-> i, row |-> chunks[i]]) \in RetractedMirror(ch)
          BY <3>1, <5>1
        <5> QED
          BY <3>2, <5>2
      <4> QED
        BY <4>1, <4>2
  <2>3. mirror' = {[id |-> i, row |-> R[i]] : i \in 1..n}
                    \cup {[id |-> n + p, row |-> W[p]] : p \in 1..w}
    BY <1>1, <1>14, <2>2 DEF PublishedMirror, W, n, w
  <2>4. Canonical(chunks)' = {[id |-> i, row |-> chunks'[i]] : i \in 1..(n + w)}
    BY <1>9 DEF Canonical
  <2>5. \A i \in 1..n : i \in 1..(n + w)
    BY <1>2, <1>3
  <2>6. mirror' \subseteq Canonical(chunks)'
    BY <1>9, <2>3, <2>4, <2>5
  <2>7. Canonical(chunks)' \subseteq mirror'
    <3> SUFFICES ASSUME NEW i \in 1..(n + w) PROVE [id |-> i, row |-> chunks'[i]] \in mirror'
      BY <2>4
    <3> QED
      BY <1>9, <1>10, <2>3
  <2> QED
    BY <2>6, <2>7
<1> QED
  BY <1>1, <1>8, <1>13, <1>14 DEF IndexTyped

-----------------------------------------------------------------------------
(* The steps of the index                                                   *)

\* Without a backfill there is nothing to say of its run.
LEMMA NoBackfill ==
    ASSUME run' = NoRun, proc'.kind # "backfill"
    PROVE  RunHolds'
BY NoRunFacts DEF RunHolds, Paying

\* What a run relies on does not change while the books only gain.
LEMMA RunStays ==
    ASSUME RunHolds, UNCHANGED <<run, bought, config, staged, durable>>, proc'.kind = proc.kind,
           pending \subseteq pending', costs \subseteq costs'
    PROVE  RunHolds'
BY DEF RunHolds, Pinned, StagedWindows, Toward, Batch, Paid, Paying

\* What is on the books stays when the books only grow.
LEMMA BooksStay ==
    ASSUME OnTheBooks, UNCHANGED bought, pending \cup costs \subseteq pending' \cup costs'
    PROVE  OnTheBooks'
BY DEF OnTheBooks

\* The backfill is the one process that has a run.
LEMMA ProcessFacts ==
    ASSUME IndexTyped, RunHolds
    PROVE  /\ proc # Nobody => proc \in Processes
           /\ proc.kind # "backfill" => run = NoRun
           /\ proc.kind = "backfill" => run \in Runs
           /\ run # NoRun => proc.kind = "backfill"
           /\ run.checked => proc # Nobody
           /\ proc.open => proc # Nobody
BY NoRunFacts DEF IndexTyped, RunHolds

\* Whoever opens the book under vec0 makes the mirror anew unless it is the rows' own.
LEMMA ProcessStep ==
    ASSUME IndexInv, Reconfigure \/ Serve \/ Exit \/ OpenBook
    PROVE  IndexInv'
<1>1. IndexTyped /\ (\A ch \in IndexChapters : Shape(ch)) /\ MirrorHolds /\ OnTheBooks /\ RunHolds
  BY DEF IndexInv
<1>2. UNCHANGED <<chunks, marked, staged, durable, pending, costs, bought>>
  BY DEF Reconfigure, Serve, Exit, OpenBook, memoryVars, catalogVars
<1>3. (\A ch \in IndexChapters : Shape(ch)') /\ OnTheBooks'
  BY <1>1, <1>2, ShapesStay, BooksStay
<1>4. CASE Reconfigure
  <2>1. proc = Nobody /\ proc' = Nobody /\ run' = run /\ config' \in [backend : {"vec0", "bruteforce"}, space : Spaces]
    BY <1>4 DEF Reconfigure, Spaces
  <2>2. run = NoRun
    BY <1>1, <2>1, NoRunFacts DEF RunHolds
  <2>3. IndexTyped'
    BY <1>1, <1>2, <2>1 DEF IndexTyped
  <2>4. MirrorHolds' /\ RunHolds'
    BY <2>1, <2>2, NoRunFacts, NoBackfill DEF MirrorHolds
  <2> QED
    BY <1>3, <2>3, <2>4 DEF IndexInv
<1>5. CASE Serve \/ Exit
  <2>1. /\ proc' \in Processes \cup {Nobody} /\ proc'.kind # "backfill" /\ ~proc'.open
        /\ run' = NoRun /\ UNCHANGED config
    <3>1. CASE Exit
      BY <3>1, NoRunFacts DEF Exit
    <3>2. CASE Serve
      <4>1. run = NoRun
        BY <1>1, <3>2, ProcessFacts, NoRunFacts DEF Serve
      <4> QED
        BY <3>2, <4>1 DEF Serve, Processes
    <3> QED
      BY <1>5, <3>1, <3>2
  <2>2. IndexTyped'
    BY <1>1, <1>2, <2>1 DEF IndexTyped
  <2>3. MirrorHolds' /\ RunHolds'
    BY <2>1, NoBackfill DEF MirrorHolds
  <2> QED
    BY <1>3, <2>2, <2>3 DEF IndexInv
<1>6. CASE OpenBook
  <2>1. /\ proc # Nobody /\ UNCHANGED <<run, config>> /\ proc' = [proc EXCEPT !.open = TRUE]
        /\ config.backend = "vec0" => mirror' = Canonical(chunks)
    BY <1>6 DEF OpenBook, Mirrored
  <2>2. proc' \in Processes /\ proc'.kind = proc.kind
    BY <1>1, <2>1, ProcessFacts DEF Processes
  <2>3. IndexTyped'
    BY <1>1, <1>2, <2>1, <2>2 DEF IndexTyped
  <2>4. MirrorHolds' /\ RunHolds'
    BY <1>1, <1>2, <2>1, <2>2, RunStays DEF MirrorHolds, Canonical
  <2> QED
    BY <1>3, <2>3, <2>4 DEF IndexInv
<1> QED
  BY <1>4, <1>5, <1>6

\* What others write to the catalog meets no backfill but a failed call that is reconciled.
LEMMA CatalogStep ==
    ASSUME IndexInv,
           \/ \E b \in 0..Len(Windows) : MoveBookmark(b)
           \/ Reimport
           \/ \E call \in pending : ReconcileCall(call)
    PROVE  IndexInv'
<1>1. IndexTyped /\ (\A ch \in IndexChapters : Shape(ch)) /\ MirrorHolds /\ OnTheBooks /\ RunHolds
  BY DEF IndexInv
<1>2. UNCHANGED <<chunks, mirror, marked, staged, durable, config, proc, run>>
  BY DEF MoveBookmark, Reimport, ReconcileCall, memoryVars
<1>3. proc.kind # "backfill" /\ run = NoRun
  BY <1>1, NoRunFacts DEF MoveBookmark, Reimport, ReconcileCall, RunHolds
<1>4. (\A ch \in IndexChapters : Shape(ch)') /\ MirrorHolds' /\ RunHolds'
  BY <1>1, <1>2, <1>3, ShapesStay, NoBackfill DEF MirrorHolds, Canonical
<1>5. CASE Reimport
  <2>1. /\ pending' = {} /\ costs' = {}
        /\ bought' = [ch \in IndexChapters |-> [p \in 1..Windows[ch] |-> 0]]
    BY <1>5 DEF Reimport
  <2>2. /\ \A ch \in IndexChapters : bought'[ch] \in [1..Windows[ch] -> {0, 1}]
        /\ bought' = [ch \in IndexChapters |-> bought'[ch]]
    BY <2>1
  <2>3. OnTheBooks'
    BY <2>1 DEF OnTheBooks
  <2>4. IndexTyped'
    BY <1>1, <1>2, <2>1, <2>2 DEF IndexTyped
  <2> QED
    BY <1>4, <2>3, <2>4 DEF IndexInv
<1>6. CASE ~Reimport
  <2>1. /\ UNCHANGED bought /\ pending' \cup costs' = pending \cup costs
    BY <1>6 DEF MoveBookmark, ReconcileCall
  <2>2. OnTheBooks'
    BY <1>1, <2>1, BooksStay
  <2>3. pending' \in SUBSET Calls /\ costs' \in SUBSET Calls
    BY <1>1, <2>1 DEF IndexTyped
  <2>4. IndexTyped'
    BY <1>1, <1>2, <2>1, <2>3 DEF IndexTyped
  <2> QED
    BY <1>4, <2>2, <2>4 DEF IndexInv
<1> QED
  BY <1>5, <1>6

\* The next chapter is published with all its windows, or refused.
LEMMA IngestStep == ASSUME IndexInv, IngestChapter PROVE IndexInv'
<1>1. IndexTyped /\ (\A ch \in IndexChapters : Shape(ch)) /\ MirrorHolds /\ OnTheBooks /\ RunHolds
  BY DEF IndexInv
<1> DEFINE ch == durable + 1
           spaces == [p \in 1..Windows[ch] |-> config.space]
<1>2. /\ proc.kind = "service" /\ proc.open /\ Pinned /\ durable < Len(Windows)
      /\ PublishIndex(ch, spaces) /\ durable' = ch
      /\ UNCHANGED <<pending, costs, bought, config, proc, run>>
  BY DEF IngestChapter, catalogVars
<1>3. Len(Windows) \in Nat /\ durable \in Nat
  BY <1>1, WindowsAssumption DEF IndexTyped
<1>4. ch \in IndexChapters /\ durable' \in 0..Len(Windows)
  BY <1>2, <1>3 DEF IndexChapters
<1>5. spaces \in [1..Windows[ch] -> {"pinned"}]
  BY <1>2 DEF Pinned
<1>6. \A d \in IndexChapters : d # ch => (d <= durable' <=> d <= durable)
  BY <1>2, <1>3 DEF IndexChapters
<1>7. ch <= durable'
  BY <1>2, <1>3
<1> HIDE DEF ch, spaces
<1>8. /\ chunks' \in Seq(IndexRows) /\ \A d \in IndexChapters : Shape(d)'
      /\ config.backend = "vec0" => mirror' = Canonical(chunks)'
      /\ marked' \in SUBSET IndexChapters /\ staged' \in SUBSET Batches
  BY <1>1, <1>2, <1>4, <1>5, <1>6, <1>7, Publication
<1>9. IndexTyped'
  BY <1>1, <1>2, <1>4, <1>8 DEF IndexTyped
<1>10. MirrorHolds' /\ OnTheBooks'
  BY <1>1, <1>2, <1>8, BooksStay DEF MirrorHolds
<1>11. RunHolds'
  BY <1>1, <1>2, NoBackfill DEF RunHolds
<1> QED
  BY <1>8, <1>9, <1>10, <1>11 DEF IndexInv

\* A backfill begins at the first chapter and reaches no further than memory.
LEMMA StartStep == ASSUME IndexInv, StartBackfill PROVE IndexInv'
<1>1. IndexTyped /\ (\A ch \in IndexChapters : Shape(ch)) /\ MirrorHolds /\ OnTheBooks /\ RunHolds
  BY DEF IndexInv
<1>2. /\ UNCHANGED <<chunks, mirror, marked, staged, durable, pending, costs, config, bought>>
      /\ proc' = [kind |-> "backfill", open |-> FALSE]
  BY DEF StartBackfill, memoryVars, catalogVars
<1>3. PICK size \in Sizes, limit \in 0..durable :
        run' = [NoRun EXCEPT !.pc = "chapter", !.limit = limit, !.size = size, !.ch = 1]
  BY DEF StartBackfill
<1>4. run' = [pc |-> "chapter", limit |-> limit, size |-> size, checked |-> FALSE, ch |-> 1, todo |-> {}]
  BY <1>3 DEF NoRun
<1>5. durable \in Nat /\ size \in Nat /\ limit \in Nat /\ limit <= durable
  BY <1>1, SizesAssumption, WindowsAssumption DEF IndexTyped
<1>6. run' \in Runs /\ proc' \in Processes
  BY <1>2, <1>4, <1>5 DEF Runs, Processes
<1>7. IndexTyped'
  BY <1>1, <1>2, <1>6 DEF IndexTyped
<1>8. RunHolds'
  BY <1>2, <1>4, <1>5, <1>6 DEF RunHolds, Paying
<1>9. (\A ch \in IndexChapters : Shape(ch)') /\ MirrorHolds' /\ OnTheBooks'
  BY <1>1, <1>2, ShapesStay, BooksStay DEF MirrorHolds
<1> QED
  BY <1>7, <1>8, <1>9 DEF IndexInv

\* A step of an open backfill that leaves the rows, their mirror and the process alone.
LEMMA BackfillKeeps ==
    ASSUME IndexInv, UNCHANGED <<chunks, mirror, marked, durable, config>>,
           proc' \in {proc, Nobody}, run' \in Runs \cup {NoRun},
           staged' \in SUBSET Batches, pending' \in SUBSET Calls, costs' \in SUBSET Calls,
           \A ch \in IndexChapters : bought'[ch] \in [1..Windows[ch] -> {0, 1}],
           bought' = [ch \in IndexChapters |-> bought'[ch]],
           OnTheBooks', RunHolds'
    PROVE  IndexInv'
<1>1. IndexTyped /\ (\A ch \in IndexChapters : Shape(ch)) /\ MirrorHolds
  BY DEF IndexInv
<1>2. IndexTyped'
  BY <1>1 DEF IndexTyped
<1>3. (\A ch \in IndexChapters : Shape(ch)') /\ MirrorHolds'
  BY <1>1, ShapesStay, NoRunFacts DEF MirrorHolds, Canonical
<1> QED
  BY <1>2, <1>3 DEF IndexInv

\* A backfill at work on a chapter.
LEMMA AtWork ==
    ASSUME IndexInv, proc.kind = "backfill"
    PROVE  /\ run \in Runs /\ run.limit <= durable /\ run.ch >= 1
           /\ run.ch \in Nat /\ run.limit \in Nat /\ durable \in Nat
           /\ run.ch <= run.limit => run.ch \in IndexChapters
           /\ run.pc \in {"batch"} \cup Paying =>
                /\ run.ch <= run.limit
                /\ run.todo \subseteq 1..Windows[run.ch] /\ run.todo \cap StagedWindows(run.ch) = {}
                /\ run.todo \subseteq Nat
                /\ Batch \subseteq run.todo
                /\ Paid(FALSE) \in Calls /\ Paid(TRUE) \in Calls
           /\ run.pc \in Paying => run.checked
           /\ run.checked => Pinned
<1>1. IndexTyped /\ RunHolds
  BY DEF IndexInv
<1>2. run \in Runs /\ run.limit <= durable /\ run.ch >= 1
  BY <1>1 DEF RunHolds
<1>3. run.ch \in Nat /\ run.limit \in Nat /\ durable \in Nat /\ durable <= Len(Windows) /\ Len(Windows) \in Nat
  BY <1>1, <1>2, WindowsAssumption DEF Runs, IndexTyped
<1>4. run.ch <= run.limit => run.ch \in IndexChapters
  BY <1>2, <1>3 DEF IndexChapters
<1>5. ASSUME run.pc \in {"batch"} \cup Paying
      PROVE  /\ run.ch <= run.limit
             /\ run.todo \subseteq 1..Windows[run.ch] /\ run.todo \cap StagedWindows(run.ch) = {}
             /\ run.todo \subseteq Nat
             /\ Batch \subseteq run.todo
             /\ Paid(FALSE) \in Calls /\ Paid(TRUE) \in Calls
  <2>1. /\ run.ch <= run.limit
        /\ run.todo \subseteq 1..Windows[run.ch] /\ run.todo \cap StagedWindows(run.ch) = {}
    BY <1>1, <1>5 DEF RunHolds
  <2>2. Batch \subseteq run.todo /\ run.todo \subseteq Nat
    BY <1>2 DEF Batch, Runs
  <2>3. Paid(FALSE) \in Calls /\ Paid(TRUE) \in Calls
    BY <1>4, <2>1, <2>2 DEF Paid, Calls
  <2> QED
    BY <2>1, <2>2, <2>3
<1>6. (run.pc \in Paying => run.checked) /\ (run.checked => Pinned)
  BY <1>1 DEF RunHolds
<1> QED
  BY <1>2, <1>3, <1>4, <1>5, <1>6

\* A chapter is worked on if no call of it is unrecovered: what is not staged was not billed.
LEMMA LookAtStep == ASSUME IndexInv, LookAt PROVE IndexInv'
<1>1. IndexTyped /\ OnTheBooks /\ RunHolds
  BY DEF IndexInv
<1>2. /\ proc.kind = "backfill" /\ run.pc = "chapter" /\ run.ch <= run.limit
      /\ UNCHANGED <<chunks, mirror, marked, staged, durable, pending, costs, config, proc, bought>>
  BY DEF LookAt, Backfilling, memoryVars, catalogVars
<1>3. /\ run \in Runs /\ run.limit <= durable /\ run.ch >= 1 /\ run.ch \in Nat /\ run.limit \in Nat
      /\ run.ch \in IndexChapters /\ (run.checked => Pinned)
  BY <1>2, AtWork
<1>4. OnTheBooks'
  BY <1>1, <1>2, BooksStay
<1>5. ASSUME run' \in Runs, RunHolds' PROVE IndexInv'
  BY <1>1, <1>2, <1>4, <1>5, BackfillKeeps DEF IndexTyped
<1>6. CASE run' = [run EXCEPT !.ch = @ + 1]
  <2>1. /\ run' \in Runs /\ run'.pc = "chapter" /\ run'.limit = run.limit /\ run'.ch >= 1
        /\ run'.checked = run.checked
    BY <1>2, <1>3, <1>6 DEF Runs
  <2>2. RunHolds'
    BY <1>2, <1>3, <2>1 DEF RunHolds, Paying, Pinned
  <2> QED
    BY <1>5, <2>1, <2>2
<1>7. CASE /\ ~Unrecovered(run.ch)
           /\ run' = [run EXCEPT !.pc = "batch", !.todo = (1..Windows[run.ch]) \ StagedWindows(run.ch)]
  <2> DEFINE todo == (1..Windows[run.ch]) \ StagedWindows(run.ch)
  <2>1. todo \subseteq Nat /\ todo \subseteq 1..Windows[run.ch] /\ todo \cap StagedWindows(run.ch) = {}
    OBVIOUS
  <2>2. \A p \in todo : bought[run.ch][p] = 0
    <3> SUFFICES ASSUME NEW p \in todo, bought[run.ch][p] # 0 PROVE FALSE
      OBVIOUS
    <3>1. bought[run.ch][p] = 1
      BY <1>1, <1>3 DEF IndexTyped
    <3>2. PICK c \in pending \cup costs : c.ch = run.ch /\ p \in c.ps
      BY <1>1, <1>3, <3>1 DEF OnTheBooks
    <3>3. PICK s \in staged : s.ch = run.ch /\ s.ps = c.ps
      BY <1>7, <3>2 DEF Unrecovered
    <3> QED
      BY <3>2, <3>3 DEF StagedWindows
  <2> HIDE DEF todo
  <2>3. run' = [run EXCEPT !.pc = "batch", !.todo = todo]
    BY <1>7 DEF todo
  <2>4. /\ run' \in Runs /\ run'.pc = "batch" /\ run'.todo = todo
        /\ run'.limit = run.limit /\ run'.ch = run.ch /\ run'.checked = run.checked
    BY <1>3, <2>1, <2>3 DEF Runs
  <2>5. StagedWindows(run.ch)' = StagedWindows(run.ch)
    BY <1>2, <2>4 DEF StagedWindows
  <2>6. RunHolds'
    BY <1>2, <1>3, <2>1, <2>2, <2>4, <2>5 DEF RunHolds, Paying, Pinned, Toward, StagedWindows
  <2> QED
    BY <1>5, <2>4, <2>6
<1> QED
  BY <1>6, <1>7 DEF LookAt

\* The canary passes only in the pinned space.
LEMMA CanaryStep == ASSUME IndexInv, CheckCanary PROVE IndexInv'
<1>1. IndexTyped /\ OnTheBooks /\ RunHolds
  BY DEF IndexInv
<1>2. /\ proc.kind = "backfill" /\ run.pc = "batch" /\ Pinned /\ run' = [run EXCEPT !.checked = TRUE]
      /\ UNCHANGED <<chunks, mirror, marked, staged, durable, pending, costs, config, proc, bought>>
  BY DEF CheckCanary, Backfilling, memoryVars, catalogVars
<1>3. run \in Runs
  BY <1>2, AtWork
<1>4. /\ run' \in Runs /\ run'.pc = run.pc /\ run'.limit = run.limit /\ run'.ch = run.ch
      /\ run'.todo = run.todo
  BY <1>2, <1>3 DEF Runs
<1>5. RunHolds'
  BY <1>1, <1>2, <1>4 DEF RunHolds, Paying, Pinned, Toward, StagedWindows
<1>6. OnTheBooks'
  BY <1>1, <1>2, BooksStay
<1> QED
  BY <1>1, <1>2, <1>4, <1>5, <1>6, BackfillKeeps DEF IndexTyped

\* The next step of a payment, with nothing else changed in the run.
LEMMA Advances ==
    ASSUME run \in Runs, NEW pc \in {"batch"} \cup Paying, run' = [run EXCEPT !.pc = pc]
    PROVE  /\ run' \in Runs /\ run'.pc = pc /\ run'.limit = run.limit /\ run'.ch = run.ch
           /\ run'.todo = run.todo /\ run'.size = run.size /\ run'.checked = run.checked
           /\ Batch' = Batch /\ Paid(FALSE)' = Paid(FALSE)
<1>1. /\ run' \in Runs /\ run'.pc = pc /\ run'.limit = run.limit /\ run'.ch = run.ch
      /\ run'.todo = run.todo /\ run'.size = run.size /\ run'.checked = run.checked
  BY DEF Runs
<1>2. Batch' = Batch
  BY <1>1 DEF Batch
<1> QED
  BY <1>1, <1>2 DEF Paid

\* A batch is reserved before it is billed.
LEMMA ReserveStep == ASSUME IndexInv, ReserveBatch PROVE IndexInv'
<1>1. IndexTyped /\ OnTheBooks /\ RunHolds
  BY DEF IndexInv
<1>2. /\ proc.kind = "backfill" /\ run.pc = "batch" /\ run.checked
      /\ pending' = pending \cup {Paid(FALSE)} /\ run' = [run EXCEPT !.pc = "calling"]
      /\ UNCHANGED <<chunks, mirror, marked, staged, durable, costs, config, proc, bought>>
  BY DEF ReserveBatch, Backfilling, memoryVars
<1>3. run \in Runs /\ Paid(FALSE) \in Calls
  BY <1>2, AtWork
<1>4. /\ run' \in Runs /\ run'.pc = "calling" /\ run'.limit = run.limit /\ run'.ch = run.ch
      /\ run'.todo = run.todo /\ run'.checked = run.checked /\ Paid(FALSE)' = Paid(FALSE)
  BY <1>2, <1>3, Advances DEF Paying
<1>5. RunHolds'
  <2>1. Pinned' = Pinned /\ StagedWindows(run.ch)' = StagedWindows(run.ch)
    BY <1>2, <1>4 DEF Pinned, StagedWindows
  <2>2. Toward(run.todo)' /\ Toward(run.todo)
    BY <1>1, <1>2, <1>4 DEF RunHolds, Toward
  <2> QED
    BY <1>1, <1>2, <1>4, <2>1, <2>2 DEF RunHolds, Paying
<1>6. OnTheBooks'
  BY <1>1, <1>2, BooksStay
<1>7. pending' \in SUBSET Calls
  BY <1>1, <1>2, <1>3 DEF IndexTyped
<1> QED
  BY <1>1, <1>2, <1>4, <1>5, <1>6, <1>7, BackfillKeeps DEF IndexTyped

\* A call bills windows of its batch, none of which was billed before.
LEMMA EmbedStep == ASSUME IndexInv, Embed PROVE IndexInv'
<1>1. IndexTyped /\ OnTheBooks /\ RunHolds
  BY DEF IndexInv
<1> DEFINE ch == run.ch
           w == Windows[ch]
           bill == [p \in 1..w |-> bought[ch][p] + (IF p \in Batch THEN 1 ELSE 0)]
<1>2. /\ proc.kind = "backfill" /\ run.pc = "calling" /\ run' = [run EXCEPT !.pc = "answered"]
      /\ UNCHANGED <<chunks, mirror, marked, staged, durable, pending, costs, config, proc>>
  BY DEF Embed, Backfilling, memoryVars, catalogVars
<1>3. /\ run \in Runs /\ ch \in IndexChapters /\ Batch \subseteq run.todo /\ run.todo \subseteq 1..w
  BY <1>2, AtWork DEF Paying
<1>4. bought[ch] \in [1..w -> {0, 1}] /\ \A p \in Batch : bought[ch][p] = 0
  BY <1>1, <1>2, <1>3 DEF IndexTyped, RunHolds, Toward, Paying
<1>5. bought' = [bought EXCEPT ![ch] = bill]
  <2>1. DOMAIN bought[ch] = 1..w
    BY <1>4
  <2> QED
    BY <2>1 DEF Embed
<1>6. ASSUME NEW p \in 1..w PROVE bill[p] = IF p \in Batch THEN 1 ELSE bought[ch][p]
  <2>1. bill[p] = bought[ch][p] + (IF p \in Batch THEN 1 ELSE 0)
    OBVIOUS
  <2>2. bought[ch][p] \in {0, 1} /\ (p \in Batch => bought[ch][p] = 0)
    BY <1>4
  <2> HIDE DEF bill
  <2> QED
    BY <2>1, <2>2
<1>7. bill \in [1..w -> {0, 1}]
  <2>1. bill = [p \in 1..w |-> bill[p]]
    OBVIOUS
  <2>2. \A p \in 1..w : bill[p] \in {0, 1}
    BY <1>4, <1>6
  <2> HIDE DEF bill
  <2> QED
    BY <2>1, <2>2
<1> HIDE DEF bill, ch, w
<1>8. /\ bought'[ch] = bill /\ \A d \in IndexChapters : d # ch => bought'[d] = bought[d]
      /\ bought' = [d \in IndexChapters |-> bought'[d]]
  BY <1>1, <1>3, <1>5 DEF IndexTyped
<1>9. \A d \in IndexChapters : bought'[d] \in [1..Windows[d] -> {0, 1}]
  BY <1>1, <1>7, <1>8 DEF IndexTyped, w
<1>10. /\ run' \in Runs /\ run'.pc = "answered" /\ run'.limit = run.limit /\ run'.ch = run.ch
       /\ run'.todo = run.todo /\ run'.checked = run.checked
       /\ Batch' = Batch /\ Paid(FALSE)' = Paid(FALSE)
  BY <1>2, <1>3, Advances DEF Paying
<1>11. Paid(FALSE) \in pending /\ Paid(FALSE).ch = ch /\ Paid(FALSE).ps = Batch
  BY <1>1, <1>2 DEF RunHolds, Paid, ch
<1>12. OnTheBooks'
  <2> SUFFICES ASSUME NEW d \in IndexChapters, NEW p \in 1..Windows[d], bought'[d][p] = 1
               PROVE  \E c \in pending \cup costs : c.ch = d /\ p \in c.ps
    BY <1>2 DEF OnTheBooks
  <2>1. CASE d = ch /\ p \in Batch
    BY <1>11, <2>1
  <2>2. CASE ~(d = ch /\ p \in Batch)
    <3>1. bought[d][p] = 1
      BY <1>6, <1>8, <2>2 DEF w
    <3> QED
      BY <1>1, <3>1 DEF OnTheBooks
  <2> QED
    BY <2>1, <2>2
<1>13. RunHolds'
  <2>1. \A p \in run.todo \ Batch : bought'[ch][p] = 0
    <3>1. \A p \in run.todo : bought[ch][p] = 0
      BY <1>1, <1>2 DEF RunHolds, Toward, Paying, ch
    <3> QED
      BY <1>3, <1>6, <1>8, <3>1
  <2>2. Toward(run.todo \ Batch)'
    BY <1>10, <2>1 DEF Toward, ch
  <2> QED
    BY <1>1, <1>2, <1>10, <2>2 DEF RunHolds, Paying, Pinned, StagedWindows
<1> QED
  BY <1>1, <1>2, <1>8, <1>9, <1>10, <1>12, <1>13, BackfillKeeps DEF IndexTyped

\* However a reservation is settled, the windows it paid for stay on the books.
LEMMA Settles ==
    ASSUME IndexInv, proc.kind = "backfill", run.pc \in Paying, NEW failed \in BOOLEAN,
           SettleAs(failed), UNCHANGED bought
    PROVE  pending' \in SUBSET Calls /\ costs' \in SUBSET Calls /\ OnTheBooks'
<1>1. IndexTyped /\ OnTheBooks
  BY DEF IndexInv
<1>2. pending' = pending \ {Paid(FALSE)} /\ costs' = costs \cup {Paid(failed)}
  BY DEF SettleAs
<1>3. Paid(failed) \in Calls /\ Paid(failed).ch = Paid(FALSE).ch /\ Paid(failed).ps = Paid(FALSE).ps
  BY AtWork DEF Paid
<1>4. ASSUME NEW ch \in IndexChapters, NEW p \in 1..Windows[ch], bought[ch][p] = 1
      PROVE  \E c \in pending' \cup costs' : c.ch = ch /\ p \in c.ps
  <2>1. PICK c \in pending \cup costs : c.ch = ch /\ p \in c.ps
    BY <1>1, <1>4 DEF OnTheBooks
  <2>2. CASE c = Paid(FALSE)
    BY <1>2, <1>3, <2>1, <2>2
  <2>3. CASE c # Paid(FALSE)
    BY <1>2, <2>1, <2>3
  <2> QED
    BY <2>2, <2>3
<1>5. OnTheBooks'
  BY <1>4 DEF OnTheBooks
<1> QED
  BY <1>1, <1>2, <1>3, <1>5 DEF IndexTyped

\* A settlement, or a failure on record, keeps the call on the books.
LEMMA SettleStep == ASSUME IndexInv, CallRaises \/ SettleBatch PROVE IndexInv'
<1>1. IndexTyped /\ OnTheBooks /\ RunHolds
  BY DEF IndexInv
<1>2. /\ proc.kind = "backfill" /\ run.pc \in {"calling", "answered"} /\ run.pc \in Paying
      /\ UNCHANGED <<chunks, mirror, marked, staged, durable, config, bought>>
  BY DEF CallRaises, SettleBatch, Backfilling, memoryVars, Paying
<1>3. CASE CallRaises
  <2>1. SettleAs(TRUE) /\ proc' = Nobody /\ run' = NoRun
    BY <1>3 DEF CallRaises
  <2>2. pending' \in SUBSET Calls /\ costs' \in SUBSET Calls /\ OnTheBooks'
    BY <1>2, <2>1, Settles
  <2>3. RunHolds'
    BY <2>1, NoBackfill, NoRunFacts
  <2> QED
    BY <1>1, <1>2, <2>1, <2>2, <2>3, BackfillKeeps DEF IndexTyped
<1>4. CASE SettleBatch
  <2>1. SettleAs(FALSE) /\ run.pc = "answered" /\ run' = [run EXCEPT !.pc = "settled"] /\ UNCHANGED proc
    BY <1>4 DEF SettleBatch, Backfilling
  <2>2. pending' \in SUBSET Calls /\ costs' \in SUBSET Calls /\ OnTheBooks'
    BY <1>2, <2>1, Settles
  <2>3. run \in Runs
    BY <1>2, AtWork
  <2>4. /\ run' \in Runs /\ run'.pc = "settled" /\ run'.limit = run.limit /\ run'.ch = run.ch
        /\ run'.todo = run.todo /\ run'.checked = run.checked
        /\ Batch' = Batch /\ Paid(FALSE)' = Paid(FALSE)
    BY <2>1, <2>3, Advances DEF Paying
  <2>5. Paid(FALSE) \in costs'
    BY <2>1 DEF SettleAs
  <2>6. RunHolds'
    BY <1>1, <1>2, <2>1, <2>4, <2>5 DEF RunHolds, Paying, Pinned, Toward, StagedWindows
  <2> QED
    BY <1>1, <1>2, <2>1, <2>2, <2>4, <2>6, BackfillKeeps DEF IndexTyped
<1> QED
  BY <1>3, <1>4

\* A batch is staged before the next is bought.
LEMMA StageBatchStep == ASSUME IndexInv, StageBatch PROVE IndexInv'
<1>1. IndexTyped /\ OnTheBooks /\ RunHolds
  BY DEF IndexInv
<1> DEFINE batch == [ch |-> run.ch, ps |-> Batch, space |-> config.space]
<1>2. /\ proc.kind = "backfill" /\ run.pc = "settled" /\ staged' = staged \cup {batch}
      /\ run' = [run EXCEPT !.pc = "batch", !.todo = run.todo \ Batch]
      /\ UNCHANGED <<chunks, mirror, marked, durable, pending, costs, config, proc, bought>>
  BY DEF StageBatch, Backfilling, catalogVars
<1>3. /\ run \in Runs /\ run.ch \in IndexChapters /\ Batch \subseteq run.todo /\ run.todo \subseteq Nat
      /\ run.todo \subseteq 1..Windows[run.ch]
      /\ run.todo \cap StagedWindows(run.ch) = {} /\ run.checked /\ Pinned
  BY <1>2, AtWork DEF Paying
<1>4. batch \in Batches
  BY <1>3 DEF Batches, Pinned
<1>5. staged' \in SUBSET Batches
  BY <1>1, <1>2, <1>4 DEF IndexTyped
<1> DEFINE todo == run.todo \ Batch
<1> HIDE DEF todo
<1>6. /\ run' \in Runs /\ run'.pc = "batch" /\ run'.limit = run.limit /\ run'.ch = run.ch
      /\ run'.todo = todo /\ run'.checked = run.checked
  <2>1. todo \subseteq Nat /\ run' = [run EXCEPT !.pc = "batch", !.todo = todo]
    BY <1>2, <1>3 DEF todo
  <2> QED
    BY <1>3, <2>1 DEF Runs
<1>7. StagedWindows(run.ch)' = StagedWindows(run.ch) \cup Batch
  <2>1. StagedWindows(run.ch)' = UNION {s.ps : s \in {t \in staged' : t.ch = run.ch}}
    BY <1>6 DEF StagedWindows
  <2>2. batch.ch = run.ch /\ batch.ps = Batch
    OBVIOUS
  <2> HIDE DEF batch
  <2> QED
    BY <1>2, <2>1, <2>2 DEF StagedWindows
<1>8. todo \subseteq 1..Windows[run.ch] /\ todo \cap StagedWindows(run.ch)' = {}
  BY <1>3, <1>7 DEF todo
<1>9. \A p \in todo : bought'[run'.ch][p] = 0
  <2>1. \A p \in todo : bought[run.ch][p] = 0
    BY <1>1, <1>2 DEF RunHolds, Paying, Toward, todo
  <2> QED
    BY <1>2, <1>6, <2>1
<1>10. RunHolds'
  BY <1>1, <1>2, <1>6, <1>8, <1>9 DEF RunHolds, Paying, Pinned, Toward
<1>11. OnTheBooks'
  BY <1>1, <1>2, BooksStay
<1> QED
  BY <1>1, <1>2, <1>5, <1>6, <1>10, <1>11, BackfillKeeps DEF IndexTyped

\* A chapter is published when every window is staged: the prefix is retracted, the windows
\* follow one another, and the mirror with them.
LEMMA PublishChapterStep == ASSUME IndexInv, PublishChapter PROVE IndexInv'
<1>1. IndexTyped /\ (\A ch \in IndexChapters : Shape(ch)) /\ MirrorHolds /\ OnTheBooks /\ RunHolds
  BY DEF IndexInv
<1> DEFINE ch == run.ch
<1>2. /\ proc.kind = "backfill" /\ proc.open /\ run.pc = "batch"
      /\ run' = [run EXCEPT !.pc = "chapter", !.ch = @ + 1]
      /\ UNCHANGED <<durable, pending, costs, config, proc, bought>>
  BY DEF PublishChapter, Backfilling, catalogVars
<1>3. PICK spaces \in [1..Windows[ch] -> {"pinned", "drifted"}] :
        /\ \A p \in DOMAIN spaces : \E s \in staged : s.ch = ch /\ p \in s.ps /\ s.space = spaces[p]
        /\ PublishIndex(ch, spaces)
  BY DEF PublishChapter
<1>4. spaces \in [1..Windows[ch] -> {"pinned"}]
  BY <1>1, <1>3 DEF IndexTyped, Batches
<1>5. /\ run \in Runs /\ run.limit <= durable /\ ch >= 1 /\ ch \in Nat /\ run.limit \in Nat
      /\ durable \in Nat /\ ch <= run.limit /\ ch \in IndexChapters /\ (run.checked => Pinned)
  BY <1>2, AtWork
<1>6. ch <= durable' /\ \A d \in IndexChapters : d # ch => (d <= durable' <=> d <= durable)
  BY <1>2, <1>5
<1>7. /\ run' \in Runs /\ run'.pc = "chapter" /\ run'.limit = run.limit /\ run'.ch >= 1
      /\ run'.checked = run.checked
  <2> DEFINE done == [run EXCEPT !.pc = "chapter"]
  <2>1. run' = [done EXCEPT !.ch = ch + 1]
    BY <1>2
  <2>2. /\ done \in Runs /\ done.pc = "chapter" /\ done.limit = run.limit
        /\ done.checked = run.checked
    BY <1>5 DEF Runs
  <2> HIDE DEF done, ch
  <2>3. ch + 1 \in Nat /\ ch + 1 >= 1
    BY <1>5
  <2> QED
    BY <2>1, <2>2, <2>3 DEF Runs
<1> HIDE DEF ch
<1>8. /\ chunks' \in Seq(IndexRows) /\ \A d \in IndexChapters : Shape(d)'
      /\ config.backend = "vec0" => mirror' = Canonical(chunks)'
      /\ marked' \in SUBSET IndexChapters /\ staged' \in SUBSET Batches
  BY <1>1, <1>2, <1>3, <1>4, <1>5, <1>6, Publication
<1>9. IndexTyped'
  BY <1>1, <1>2, <1>7, <1>8 DEF IndexTyped
<1>10. MirrorHolds' /\ OnTheBooks'
  BY <1>1, <1>2, <1>8, BooksStay DEF MirrorHolds
<1>11. RunHolds'
  BY <1>2, <1>5, <1>7 DEF RunHolds, Paying, Pinned
<1> QED
  BY <1>8, <1>9, <1>10, <1>11 DEF IndexInv

\* Every step of the index keeps its invariant.
LEMMA IndexStepKeeps == ASSUME IndexInv, [IndexNext]_indexVars PROVE IndexInv'
<1>1. CASE IndexNext
  BY <1>1, ProcessStep, CatalogStep, IngestStep, StartStep, LookAtStep, CanaryStep, ReserveStep,
     EmbedStep, SettleStep, StageBatchStep, PublishChapterStep DEF IndexNext
<1>2. CASE UNCHANGED indexVars
  <2>1. UNCHANGED <<chunks, mirror, marked, staged, durable, pending, costs, config, proc, run, bought>>
    BY <1>2 DEF indexVars, memoryVars, catalogVars
  <2>2. IndexTyped /\ (\A ch \in IndexChapters : Shape(ch)) /\ MirrorHolds /\ OnTheBooks /\ RunHolds
    BY DEF IndexInv
  <2>3. IndexTyped' /\ (\A ch \in IndexChapters : Shape(ch)') /\ MirrorHolds' /\ OnTheBooks' /\ RunHolds'
    BY <2>1, <2>2, ShapesStay, BooksStay, RunStays DEF IndexTyped, MirrorHolds, Canonical
  <2> QED
    BY <2>3 DEF IndexInv
<1> QED
  BY <1>1, <1>2

\* The invariant of the index is inductive.
THEOREM IndexInductive == IndexSpec => []IndexInv
BY IndexInitHolds, IndexStepKeeps, PTL DEF IndexSpec

\* No window is billed twice in one shelf lifetime, and what was billed is staged or
\* published, or the next run refuses the chapter.
THEOREM PaidWindows == IndexSpec => []IndexPaidOnce
<1>1. IndexInv => IndexPaidOnce
  <2> SUFFICES ASSUME IndexInv, NEW ch \in IndexChapters, NEW p \in 1..Windows[ch]
               PROVE  /\ bought[ch][p] <= 1
                      /\ bought[ch][p] = 1 => p \in StagedWindows(ch) \/ Unrecovered(ch)
    BY DEF IndexPaidOnce
  <2>1. bought[ch][p] \in {0, 1}
    BY DEF IndexInv, IndexTyped
  <2>2. ASSUME bought[ch][p] = 1, ~Unrecovered(ch) PROVE p \in StagedWindows(ch)
    <3>1. PICK c \in pending \cup costs : c.ch = ch /\ p \in c.ps
      BY <2>2 DEF IndexInv, OnTheBooks
    <3>2. PICK s \in staged : s.ch = ch /\ s.ps = c.ps
      BY <2>2, <3>1 DEF Unrecovered
    <3> QED
      BY <3>1, <3>2 DEF StagedWindows
  <2> QED
    BY <2>1, <2>2
<1> QED
  BY <1>1, IndexInductive, PTL

\* What is live of an ingested chapter is what may be found of it.
LEMMA LiveIsFindable ==
    ASSUME IndexInv, NEW ch \in IndexChapters, ch <= durable
    PROVE  {chunks[i] : i \in LiveRows(ch)} = Findable(ch)
<1>1. Shape(ch)
  BY DEF IndexInv
<1>2. Windows[ch] \in Nat
  BY WindowsAssumption DEF IndexChapters
<1> DEFINE w == Windows[ch]
<1>3. CASE ch \in marked
  <2>1. PICK n \in Nat : /\ LiveRows(ch) = {n + p : p \in 1..w}
                         /\ \A p \in 1..w : chunks[n + p] = Row(ch, p, "pinned")
    BY <1>1, <1>3 DEF Shape, Windowed
  <2>2. LiveRows(ch) = (n + 1)..(n + w)
    <3>1. ASSUME NEW i \in (n + 1)..(n + w) PROVE \E p \in 1..w : i = n + p
      <4>1. i - n \in 1..w /\ i = n + (i - n)
        BY <1>2
      <4> QED
        BY <4>1
    <3>2. \A p \in 1..w : n + p \in (n + 1)..(n + w)
      BY <1>2
    <3> QED
      BY <2>1, <3>1, <3>2
  <2>3. Cardinality(LiveRows(ch)) = w
    BY <1>2, <2>2, FS_Interval
  <2>4. {chunks[i].p : i \in LiveRows(ch)} = 1..w
    <3>1. ASSUME NEW p \in 1..w PROVE chunks[n + p].p = p
      <4>1. chunks[n + p] = Row(ch, p, "pinned")
        BY <2>1
      <4> QED
        BY <4>1 DEF Row
    <3> QED
      BY <2>1, <3>1
  <2>5. Indexed(ch)
    BY <1>3, <2>3, <2>4 DEF Indexed
  <2>6. {chunks[i] : i \in LiveRows(ch)} = {Row(ch, p, "pinned") : p \in 1..w}
    BY <2>1
  <2> QED
    BY <2>5, <2>6 DEF Findable
<1>4. CASE ch \notin marked /\ w = 0
  <2>1. LiveRows(ch) = {} /\ ~Indexed(ch)
    BY <1>1, <1>4 DEF Shape, Prefixed, Indexed
  <2> QED
    BY <1>4, <2>1 DEF Findable
<1>5. CASE ch \notin marked /\ w # 0
  <2>1. PICK i \in DOMAIN chunks : LiveRows(ch) = {i} /\ chunks[i] = Row(ch, 0, "pinned")
    BY <1>1, <1>5 DEF Shape, Prefixed
  <2>2. {chunks[j].p : j \in LiveRows(ch)} = {0}
    BY <2>1 DEF Row
  <2>3. ~Indexed(ch)
    BY <1>2, <2>2 DEF Indexed
  <2>4. w > 0
    BY <1>2, <1>5
  <2>5. Findable(ch) = {Row(ch, 0, "pinned")}
    BY <2>3, <2>4 DEF Findable
  <2> QED
    BY <2>1, <2>5
<1> QED
  BY <1>3, <1>4, <1>5

\* Every process that has the book open finds of each ingested chapter up to the reader's
\* place its windows, or its prefix, and nothing beyond, with either backend.
THEOREM TrueFinds == IndexSpec => []FoundIsTrue
<1>1. ASSUME IndexInv, proc.open, NEW b \in 0..Len(Windows)
      PROVE  Found(b) = UNION {Findable(ch) : ch \in {c \in 1..b : c <= durable}}
  <2> DEFINE chs == {c \in 1..b : c <= durable}
  <2>1. /\ chunks \in Seq(IndexRows) /\ MirrorHolds /\ Len(Windows) \in Nat
        /\ \A ch \in IndexChapters : Shape(ch)
    BY <1>1, WindowsAssumption DEF IndexInv, IndexTyped
  <2>2. chs \subseteq IndexChapters
    BY <2>1 DEF IndexChapters
  <2>3. Found(b) = {chunks[i] : i \in RowsFind(b)}
    <3>1. CASE config.backend = "vec0"
      <4>1. mirror = {[id |-> i, row |-> chunks[i]] : i \in DOMAIN chunks}
        BY <1>1, <2>1, <3>1 DEF MirrorHolds, Canonical
      <4>2. MirrorFinds(b) = RowsFind(b)
        <5>1. ASSUME NEW i \in MirrorFinds(b) PROVE i \in RowsFind(b)
          <6>1. PICK m \in mirror : m.row.live /\ m.row.ch <= b /\ i = m.id
            BY <5>1 DEF MirrorFinds
          <6>2. PICK j \in DOMAIN chunks : m = [id |-> j, row |-> chunks[j]]
            BY <4>1, <6>1
          <6> QED
            BY <6>1, <6>2 DEF RowsFind
        <5>2. ASSUME NEW i \in RowsFind(b) PROVE i \in MirrorFinds(b)
          <6> DEFINE m == [id |-> i, row |-> chunks[i]]
          <6>1. m \in mirror /\ m.row.live /\ m.row.ch <= b /\ m.id = i
            BY <4>1, <5>2 DEF RowsFind
          <6> HIDE DEF m
          <6> QED
            BY <6>1 DEF MirrorFinds
        <5> QED
          BY <5>1, <5>2
      <4> QED
        BY <3>1, <4>2 DEF Found
    <3>2. CASE config.backend # "vec0"
      BY <3>2 DEF Found
    <3> QED
      BY <3>1, <3>2
  <2>4. ASSUME NEW i \in RowsFind(b) PROVE \E ch \in chs : i \in LiveRows(ch)
    <3>1. i \in DOMAIN chunks /\ chunks[i].live /\ chunks[i].ch <= b
      BY DEF RowsFind
    <3>2. chunks[i] \in IndexRows
      BY <2>1, <3>1
    <3>3. chunks[i].ch \in IndexChapters /\ i \in LiveRows(chunks[i].ch)
      BY <3>1, <3>2 DEF IndexRows, LiveRows
    <3>4. chunks[i].ch <= durable
      BY <2>1, <3>3 DEF Shape
    <3>5. chunks[i].ch \in chs
      BY <3>1, <3>3, <3>4 DEF IndexChapters
    <3> QED
      BY <3>3, <3>5
  <2>5. ASSUME NEW ch \in chs, NEW i \in LiveRows(ch) PROVE i \in RowsFind(b)
    <3>1. i \in DOMAIN chunks /\ chunks[i].ch = ch /\ chunks[i].live
      BY <2>5 DEF LiveRows
    <3>2. ch <= b
      BY <2>1
    <3> QED
      BY <3>1, <3>2 DEF RowsFind
  <2>6. ASSUME NEW ch \in chs PROVE {chunks[i] : i \in LiveRows(ch)} = Findable(ch)
    BY <1>1, <2>2, LiveIsFindable
  <2> HIDE DEF chs
  <2>7. Found(b) \subseteq UNION {Findable(ch) : ch \in chs}
    <3> SUFFICES ASSUME NEW i \in RowsFind(b) PROVE \E ch \in chs : chunks[i] \in Findable(ch)
      BY <2>3
    <3>1. PICK ch \in chs : i \in LiveRows(ch)
      BY <2>4
    <3> QED
      BY <2>6, <3>1
  <2>8. ASSUME NEW ch \in chs, NEW row \in Findable(ch) PROVE row \in Found(b)
    <3>1. PICK i \in LiveRows(ch) : row = chunks[i]
      BY <2>6, <2>8
    <3> QED
      BY <2>3, <2>5, <3>1
  <2> QED
    BY <2>7, <2>8 DEF chs
<1>2. IndexInv => FoundIsTrue
  BY <1>1 DEF FoundIsTrue
<1> QED
  BY <1>2, IndexInductive, PTL

=============================================================================
