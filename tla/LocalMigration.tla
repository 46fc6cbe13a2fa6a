--------------------------- MODULE LocalMigration ---------------------------
(* Moving a local library to a hosted account (hosted/local_migration.py):  *)
(* the archives of the data directory are imported, again after a crash or  *)
(* by two operators at once, and an import may be rolled back. As the       *)
(* runbook asks, a rollback runs while nothing imports the same book.       *)
EXTENDS DataDirectory

CONSTANT Operators     \* import commands that may run at once

(* The rows of local_library_migrations, with the content they name.        *)
Records == [content : Copies, status : {"complete", "rolling_back"}]

ASSUME RecordAssumption == NotThere \notin Records

VARIABLES
  record,      \* local_library_migrations: [content, status] or NotThere
  hosted,      \* the content of the owner's rows of the book, or NotThere
  object,      \* the book's source is in object storage
  importing,   \* [pc, book, content] of each operator
  undoing      \* [pc, book] of the rollback

remote == <<record, hosted, object, importing, undoing>>
vars == <<local, commands, crashes, remote>>

Idle == [pc |-> "idle", book |-> NotThere, content |-> NotThere]

(* The checksum of a plan covers the portable export.                       *)
Content(a) == [row |-> a.row, memory |-> a.memory]

Init ==
  /\ LocalInit
  /\ record = [b \in Books |-> NotThere] /\ hosted = [b \in Books |-> NotThere]
  /\ object = [b \in Books |-> FALSE]
  /\ importing = [o \in Operators |-> Idle] /\ undoing = Idle

-----------------------------------------------------------------------------
(* import_archive.                                                          *)

NoImportOf(b) == \A o \in Operators : importing[o].pc \in {"idle", "done"} \/ importing[o].book # b
Goes(o, pc) == importing' = [importing EXCEPT ![o].pc = pc]
Ends(o)     == importing' = [importing EXCEPT ![o] = Idle]

(* _verify_import: what is hosted is what the archive holds.                *)
Verified(b, content) == hosted[b] = content

(* The record is of this archive, and complete; its source can be read.     *)
Complete_ofTheBook(b, content) == record[b] # NotThere /\ record[b].status = "complete"
Complete(b, content) ==
  /\ record[b] = [content |-> content, status |-> "complete"]
  /\ Verified(b, content)

(* A complete import is reported again; another archive's, or one being     *)
(* rolled back, refuses the command.                                        *)
Look(o, b, a) ==
  LET call == [pc |-> "put", book |-> b, content |-> Content(a)] IN
  /\ importing[o].pc \in {"idle", "done"} /\ undoing.book # b
  /\ importing' = [importing EXCEPT ![o] =
       IF record[b] = NotThere THEN call
       ELSE IF Complete(b, Content(a)) /\ object[b] THEN [call EXCEPT !.pc = "done"] ELSE Idle]
  /\ UNCHANGED <<local, record, hosted, object, undoing>> /\ Commanded

Put(o) ==
  /\ importing[o].pc = "put"
  /\ object' = [object EXCEPT ![importing[o].book] = TRUE]
  /\ Goes(o, "write")
  /\ UNCHANGED <<local, record, hosted, undoing>> /\ Quiet

(* _insert_all: the owner's rows of the book, all in the transaction.       *)
Inserted(o) == [hosted EXCEPT ![importing[o].book] = importing[o].content]

(* One transaction under the owner's and the book's advisory lock.          *)
Write(o) ==
  LET b == importing[o].book IN
  /\ importing[o].pc = "write"
  /\ IF record[b] # NotThere
     THEN /\ IF Complete(b, importing[o].content) THEN Goes(o, "done") ELSE Ends(o)
          /\ UNCHANGED <<record, hosted>>
     ELSE /\ record' = [record EXCEPT ![b] = [content |-> importing[o].content, status |-> "complete"]]
          /\ hosted' = Inserted(o)
          /\ Goes(o, "done")
  /\ UNCHANGED <<local, object, undoing>> /\ Quiet

-----------------------------------------------------------------------------
(* rollback_archive: the rows, then the object, then the record.            *)

Undone_stillComplete(r) == r
Undone(r) == [r EXCEPT !.status = "rolling_back"]

Undo(b, a) ==
  /\ undoing.pc = "idle" /\ NoImportOf(b)
  /\ record[b] # NotThere /\ record[b].content = Content(a)
  /\ record' = [record EXCEPT ![b] = Undone(@)]
  /\ hosted' = [hosted EXCEPT ![b] = NotThere]
  /\ undoing' = [Idle EXCEPT !.pc = "rows", !.book = b]
  /\ UNCHANGED <<local, object, importing>> /\ Commanded

DeleteObject ==
  /\ undoing.pc = "rows"
  /\ object' = [object EXCEPT ![undoing.book] = FALSE]
  /\ undoing' = [undoing EXCEPT !.pc = "object"]
  /\ UNCHANGED <<local, record, hosted, importing>> /\ Quiet

Forget ==
  /\ undoing.pc = "object"
  /\ record' = [record EXCEPT ![undoing.book] = NotThere]
  /\ undoing' = Idle
  /\ UNCHANGED <<local, hosted, object, importing>> /\ Quiet

ImportDies(o) ==
  /\ importing[o].pc \in {"put", "write"} /\ Ends(o)
  /\ UNCHANGED <<local, record, hosted, object, undoing>> /\ Cut

UndoDies ==
  /\ undoing.pc # "idle" /\ undoing' = Idle
  /\ UNCHANGED <<local, record, hosted, object, importing>> /\ Cut

Next ==
  \/ LocalNext /\ UNCHANGED remote
  \/ \E b \in Books : \E i \in DOMAIN archives[b] :
       \/ \E o \in Operators : Look(o, b, archives[b][i])
       \/ Undo(b, archives[b][i])
  \/ \E o \in Operators : Put(o) \/ Write(o) \/ ImportDies(o)
  \/ DeleteObject \/ Forget \/ UndoDies

Spec == Init /\ [][Next]_vars

(* Books, and operators, differ by name only.                               *)
Alike == Permutations(Books) \union Permutations(Operators)

-----------------------------------------------------------------------------
(* A hosted book is there exactly while its import is recorded as complete, *)
(* with the content the record names, and its source can then be read: an   *)
(* import or a rollback cut short anywhere, and run again, leaves no book   *)
(* without its source and none that a rollback would not find.              *)
ImportIsWhole ==
  \A b \in Books :
    /\ hosted[b] # NotThere <=> record[b] # NotThere /\ record[b].status = "complete"
    /\ hosted[b] # NotThere => object[b] /\ hosted[b] = record[b].content

(* An import that reports success tells the truth about its own archive:    *)
(* that archive's content is what is hosted, with its source, even when the *)
(* other operator was first with another archive of the same book.          *)
ReportIsTrue ==
  \A o \in Operators : importing'[o].pc = "done" /\ importing[o].pc # "done" =>
    LET b == importing'[o].book IN hosted'[b] = importing'[o].content /\ object'[b]

(* What is hosted of a book is its whole archive, and what an operator was  *)
(* told of it is true (import_archive).                                     *)
ImportIsTrue == [][ImportIsWhole' /\ ReportIsTrue]_vars
=============================================================================
