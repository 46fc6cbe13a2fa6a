---------------------------- MODULE IngestPromise ----------------------------
(***************************************************************************)
(* What chapter ingestion promises a reader, apart from how the worker     *)
(* keeps the promise.  A book's derived memory only ever grows by the next *)
(* chapter; the shelf's `ingest_progress` follows it one chapter at a time *)
(* and never runs ahead of it; a chapter that counts as progress has its   *)
(* extraction cost on the ledger.  Removing the book from the shelf drops  *)
(* progress and ledger and keeps the memory (app/api/books.py, delete_book)*)
(***************************************************************************)
EXTENDS Naturals

CONSTANTS NumChapters     \* chapters (atoms) of the one book

VARIABLES published,      \* chapters whose memory is durable
          shelved,        \* the book is in the catalog
          progress,       \* reading_state.ingest_progress
          charged         \* chapters whose extraction cost is on the ledger

promiseVars == <<published, shelved, progress, charged>>

PromiseInit ==
    /\ published = {}
    /\ shelved = FALSE
    /\ progress = 0
    /\ charged = {}

\* The next chapter's memory becomes durable, for a book that is shelved.
Publish ==
    /\ shelved
    /\ \E k \in 1..NumChapters : /\ published = 1..(k - 1)
                                /\ published' = 1..k
    /\ UNCHANGED <<shelved, progress, charged>>

\* A durable chapter is reconciled into the catalog: its cost and the progress
\* mark together; replaying one that already counts changes nothing.
Reconcile ==
    /\ shelved
    /\ progress + 1 \in published
    /\ progress' = progress + 1
    /\ charged' = charged \cup {progress + 1}
    /\ UNCHANGED <<published, shelved>>

Shelve ==
    /\ ~shelved
    /\ shelved' = TRUE
    /\ progress' = 0
    /\ charged' = {}
    /\ UNCHANGED published

Unshelve ==
    /\ shelved
    /\ shelved' = FALSE
    /\ progress' = 0
    /\ charged' = {}
    /\ UNCHANGED published

PromiseNext == Publish \/ Reconcile \/ Shelve \/ Unshelve

PromiseSpec == PromiseInit /\ [][PromiseNext]_promiseVars
=============================================================================
