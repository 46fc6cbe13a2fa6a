---------------------------- MODULE SourceIndex ----------------------------
(***************************************************************************)
(* The derived passage index of one local book: the chunks of its          *)
(* memory.db and their vec0 mirror (memory/dal.py), the staged batches     *)
(* (memory/source_index.py), and the operator's backfill that buys the     *)
(* missing vectors (retrieval_index/).  The service and the backfill both  *)
(* take the data directory's lock, so one process at a time is there.      *)
(***************************************************************************)
EXTENDS Naturals, Sequences, FiniteSets

CONSTANTS
    Windows,        \* source windows of each chapter; 0 for one without prose
    Legacy,         \* chapters ingested before the index existed
    Sizes,          \* windows an embedding batch may hold, by configuration
    MaxTurns        \* bound: processes started

ASSUME WindowsAssumption == Windows \in Seq(Nat) /\ Legacy \in 0..Len(Windows)
ASSUME SizesAssumption == Sizes \subseteq Nat \ {0} /\ MaxTurns \in Nat

VARIABLES
    chunks,     \* chunks: the rows in the order of chunk_id
    mirror,     \* chunks_vec: {[id, row]}, or NoTable
    marked,     \* retrieval_index_chapters
    staged,     \* retrieval_index_batches
    durable,    \* completion_frontier
    bookmark,
    pending,    \* cost_reservations of the source-index phases
    costs,      \* cost_ledger rows of those phases
    config,     \* vector_backend, and the space the provider embeds into
    proc,       \* the process that holds the lock, and whether it has the book open
    run,        \* the backfill's locals
    bought,     \* history: how often a window was billed in this shelf lifetime
    turns

memoryVars  == <<chunks, mirror, marked, staged, durable>>
catalogVars == <<bookmark, pending, costs>>
indexVars   == <<memoryVars, catalogVars, config, proc, run, bought, turns>>

IndexChapters == 1..Len(Windows)

\* A row embeds window p of chapter ch, or its prefix (p = 0), the one row a
\* chapter with prose had before its windows were indexed.
Row(ch, p, space) == [ch |-> ch, p |-> p, space |-> space, live |-> TRUE]

NoTable == {[id |-> 0, row |-> Row(0, 0, "none")]}

Nobody == [kind |-> "none", open |-> FALSE]
NoRun  == [pc |-> "idle", limit |-> 0, size |-> 0, checked |-> FALSE, ch |-> 0, todo |-> {}]

Canonical(rows) == {[id |-> i, row |-> rows[i]] : i \in DOMAIN rows}

\* The legacy chapters that have a prefix, ingested in the order of the book.
Prose == {ch \in 1..Legacy : Windows[ch] > 0}

IndexInit ==
    /\ \E order \in [1..Cardinality(Prose) -> Prose] :
         /\ {order[i] : i \in DOMAIN order} = Prose
         /\ \A i, j \in DOMAIN order : i < j => order[i] < order[j]
         /\ chunks = [i \in DOMAIN order |-> Row(order[i], 0, "pinned")]
    /\ mirror = NoTable
    /\ marked = {} /\ staged = {}
    /\ durable = Legacy /\ bookmark = Legacy
    /\ pending = {} /\ costs = {}
    /\ config = [backend |-> "bruteforce", space |-> "pinned"]
    /\ proc = Nobody /\ run = NoRun
    /\ bought = [ch \in IndexChapters |-> [p \in 1..Windows[ch] |-> 0]]
    /\ turns = 0

-----------------------------------------------------------------------------
(* memory.db *)

\* Faulty variants, named <definition>_<what is wrong>, stand before the
\* definitions they would replace; no specification uses them.

LiveRows(ch) == {i \in DOMAIN chunks : chunks[i].ch = ch /\ chunks[i].live}

\* source_index.snapshot: the live rows are the chapter's windows, one each.
Indexed(ch) ==
    /\ LiveRows(ch) # {} \/ ch \in marked
    /\ Cardinality(LiveRows(ch)) = Windows[ch]
    /\ {chunks[i].p : i \in LiveRows(ch)} = 1..Windows[ch]

\* The mirror agrees with the rows; opening the book, and every publication,
\* refuses one that does not.
Mirrored_unchecked == TRUE
Mirrored == mirror = NoTable \/ mirror = Canonical(chunks)

\* _retract of the chapter's rows, then add_chunk of its windows in order.
RetractedRows_kept(ch) == chunks
RetractedRows(ch) ==
    [i \in DOMAIN chunks |-> IF chunks[i].ch = ch THEN [chunks[i] EXCEPT !.live = FALSE]
                             ELSE chunks[i]]
PublishedRows(ch, spaces) ==
    RetractedRows(ch) \o [p \in 1..Windows[ch] |-> Row(ch, p, spaces[p])]

\* Under vec0 both write the mirror as well, row by row.
RetractedMirror(ch) ==
    {[m EXCEPT !.row.live = @ /\ m.id \notin LiveRows(ch)] : m \in mirror}
PublishedMirror(ch, spaces) ==
    RetractedMirror(ch) \cup
        {[id |-> Len(chunks) + p, row |-> Row(ch, p, spaces[p])] : p \in 1..Windows[ch]}

\* publish: rows, mirror, marker, and the staged batches dropped, in one
\* transaction; brute force leaves a table it finds alone.
PublishIndex(ch, spaces) ==
    /\ config.backend = "vec0" => Mirrored
    /\ chunks' = PublishedRows(ch, spaces)
    /\ mirror' = IF config.backend = "vec0" THEN PublishedMirror(ch, spaces) ELSE mirror
    /\ marked' = marked \cup {ch}
    /\ staged' = {s \in staged : s.ch # ch}

\* What search returns to a reader at chapter b: the nearest of these rows.
MirrorFinds(b) == {m.id : m \in {n \in mirror : n.row.live /\ n.row.ch <= b}}
RowsFind(b) == {i \in DOMAIN chunks : chunks[i].live /\ chunks[i].ch <= b}
Found(b) == {chunks[i] : i \in IF config.backend = "vec0" THEN MirrorFinds(b) ELSE RowsFind(b)}

\* The provider embeds into the space the book was pinned to; its canary shows
\* it, and whatever is prepared with another is refused.
Pinned == config.space = "pinned"

-----------------------------------------------------------------------------
(* Processes *)

Turn == turns < MaxTurns /\ turns' = turns + 1

\* The operator picks another backend, or the provider serves another space
\* under the same model name; not while a process runs.
Reconfigure ==
    /\ proc = Nobody
    /\ \E backend \in {"vec0", "bruteforce"}, space \in {"pinned", "drifted"} :
         config' = [backend |-> backend, space |-> space]
    /\ config' # config
    /\ UNCHANGED <<memoryVars, catalogVars, proc, run, bought, turns>>

Serve ==
    /\ proc = Nobody
    /\ proc' = [kind |-> "service", open |-> FALSE]
    /\ Turn
    /\ UNCHANGED <<memoryVars, catalogVars, config, run, bought>>

\* The process ends, orderly or not; memory.db and catalog keep what was committed.
Exit ==
    /\ proc # Nobody
    /\ proc' = Nobody /\ run' = NoRun
    /\ UNCHANGED <<memoryVars, catalogVars, config, bought, turns>>

\* MemoryDB.__init__ under vec0: the mirror is made from the rows, or must be
\* theirs; otherwise the book cannot be opened.
OpenBook ==
    /\ proc # Nobody /\ ~proc.open
    /\ config.backend = "vec0" => Mirrored
    /\ mirror' = IF config.backend = "vec0" /\ mirror = NoTable THEN Canonical(chunks) ELSE mirror
    /\ proc' = [proc EXCEPT !.open = TRUE]
    /\ UNCHANGED <<chunks, marked, staged, durable, catalogVars, config, run, bought, turns>>

-----------------------------------------------------------------------------
(* The service *)

MoveBookmark(b) ==
    /\ proc.kind = "service" /\ b # bookmark
    /\ bookmark' = b
    /\ UNCHANGED <<memoryVars, pending, costs, config, proc, run, bought, turns>>

\* The worker commits the next chapter with its index; its vectors were
\* prepared before, and fenced by the book's pin.
IngestChapter ==
    /\ proc.kind = "service" /\ proc.open
    /\ durable < Len(Windows) /\ Pinned
    /\ PublishIndex(durable + 1, [p \in 1..Windows[durable + 1] |-> config.space])
    /\ durable' = durable + 1
    /\ UNCHANGED <<catalogVars, config, proc, run, bought, turns>>

\* The book is deleted and imported again: the catalog's rows go, memory.db stays.
Reimport ==
    /\ proc.kind = "service"
    /\ pending' = {} /\ costs' = {} /\ bookmark' = 0
    /\ bought' = [ch \in IndexChapters |-> [p \in 1..Windows[ch] |-> 0]]
    /\ UNCHANGED <<memoryVars, config, proc, run, turns>>

\* `python -m app.cost reconcile` settles a reservation under its own phase.
ReconcileCall(call) ==
    /\ proc = Nobody /\ call \in pending
    /\ pending' = pending \ {call} /\ costs' = costs \cup {call}
    /\ UNCHANGED <<memoryVars, bookmark, config, proc, run, bought, turns>>

-----------------------------------------------------------------------------
(* The backfill.  Any refusal, exception or crash ends the process (Exit).   *)

Backfilling(pc) == proc.kind = "backfill" /\ proc.open /\ run.pc = pc

\* The chapters up to `--through`, as far as bookmark and receipts go.
StartBackfill ==
    /\ proc = Nobody
    /\ proc' = [kind |-> "backfill", open |-> FALSE]
    /\ \E size \in Sizes, limit \in 0..durable :
         /\ limit <= bookmark
         /\ run' = [NoRun EXCEPT !.pc = "chapter", !.limit = limit, !.size = size, !.ch = 1]
    /\ Turn
    /\ UNCHANGED <<memoryVars, catalogVars, config, bought>>

StagedWindows(ch) == UNION {s.ps : s \in {t \in staged : t.ch = ch}}

\* A call of an earlier run has no staged result: it was not settled, or it
\* was, under its own phase or that of a failure, without being staged.
Unrecovered_settledOnly(ch) ==
    \E c \in costs : c.ch = ch /\ (c.failed \/ ~\E s \in staged : s.ch = ch /\ s.ps = c.ps)
Unrecovered(ch) ==
    \/ \E c \in pending : c.ch = ch
    \/ \E c \in costs : c.ch = ch /\ (c.failed \/ ~\E s \in staged : s.ch = ch /\ s.ps = c.ps)

\* One chapter: nothing to do, or the windows no staged batch covers.
LookAt ==
    /\ Backfilling("chapter") /\ run.ch <= run.limit
    /\ \/ Indexed(run.ch) /\ run' = [run EXCEPT !.ch = @ + 1]
       \/ /\ ~Indexed(run.ch) /\ ~Unrecovered(run.ch)
          /\ run' = [run EXCEPT !.pc = "batch", !.todo = (1..Windows[run.ch]) \ StagedWindows(run.ch)]
    /\ UNCHANGED <<memoryVars, catalogVars, config, proc, bought, turns>>

\* Before the first paid batch of a run, the provider embeds the canary.
CheckCanary_skipped ==
    /\ Backfilling("batch") /\ run.todo # {} /\ ~run.checked
    /\ run' = [run EXCEPT !.checked = TRUE]
    /\ UNCHANGED <<memoryVars, catalogVars, config, proc, bought, turns>>
CheckCanary ==
    /\ Backfilling("batch") /\ run.todo # {} /\ ~run.checked
    /\ Pinned
    /\ run' = [run EXCEPT !.checked = TRUE]
    /\ UNCHANGED <<memoryVars, catalogVars, config, proc, bought, turns>>

\* embedding_batches: the first windows that fit together.
Batch == {p \in run.todo : Cardinality({q \in run.todo : q <= p}) <= run.size}
Paid(failed) == [ch |-> run.ch, ps |-> Batch, failed |-> failed]

ReserveBatch ==
    /\ Backfilling("batch") /\ run.todo # {} /\ run.checked
    /\ pending' = pending \cup {Paid(FALSE)}
    /\ run' = [run EXCEPT !.pc = "calling"]
    /\ UNCHANGED <<memoryVars, bookmark, costs, config, proc, bought, turns>>

\* The provider has embedded the batch and bills it.
Embed ==
    /\ Backfilling("calling")
    /\ bought' = [bought EXCEPT ![run.ch] = [p \in DOMAIN @ |-> @[p] + (IF p \in Batch THEN 1 ELSE 0)]]
    /\ run' = [run EXCEPT !.pc = "answered"]
    /\ UNCHANGED <<memoryVars, catalogVars, config, proc, turns>>

SettleAs_dropped(failed) == pending' = pending \ {Paid(FALSE)} /\ UNCHANGED costs
SettleAs(failed) == pending' = pending \ {Paid(FALSE)} /\ costs' = costs \cup {Paid(failed)}

\* The call raises, billed or not, or its usage broke the limit: settled under
\* a phase of its own that nothing is ever staged for.
CallRaises ==
    /\ Backfilling("calling") \/ Backfilling("answered")
    /\ SettleAs(TRUE)
    /\ proc' = Nobody /\ run' = NoRun
    /\ UNCHANGED <<memoryVars, bookmark, config, bought, turns>>

SettleBatch ==
    /\ Backfilling("answered")
    /\ SettleAs(FALSE)
    /\ run' = [run EXCEPT !.pc = "settled"]
    /\ UNCHANGED <<memoryVars, bookmark, config, proc, bought, turns>>

StageBatch ==
    /\ Backfilling("settled")
    /\ staged' = staged \cup {[ch |-> run.ch, ps |-> Batch, space |-> config.space]}
    /\ run' = [run EXCEPT !.pc = "batch", !.todo = @ \ Batch]
    /\ UNCHANGED <<chunks, mirror, marked, durable, catalogVars, config, proc, bought, turns>>

PublishChapter ==
    /\ Backfilling("batch") /\ run.todo = {}
    /\ \E spaces \in [1..Windows[run.ch] -> {"pinned", "drifted"}] :
         /\ \A p \in DOMAIN spaces :
              \E s \in staged : s.ch = run.ch /\ p \in s.ps /\ s.space = spaces[p]
         /\ PublishIndex(run.ch, spaces)
    /\ run' = [run EXCEPT !.pc = "chapter", !.ch = @ + 1]
    /\ UNCHANGED <<durable, catalogVars, config, proc, bought, turns>>

IndexNext ==
    \/ Reconfigure \/ Serve \/ Exit \/ OpenBook
    \/ \E b \in 0..Len(Windows) : MoveBookmark(b)
    \/ IngestChapter \/ Reimport
    \/ \E call \in pending : ReconcileCall(call)
    \/ StartBackfill \/ LookAt \/ CheckCanary \/ ReserveBatch \/ Embed \/ CallRaises \/ SettleBatch
    \/ StageBatch \/ PublishChapter

IndexSpec == IndexInit /\ [][IndexNext]_indexVars

-----------------------------------------------------------------------------
(* Properties *)

\* Over any crashes, failures, reconciles and runs with other batch sizes, no
\* window is billed twice in one shelf lifetime, and the vector of one that was
\* billed is staged or published, unless the next run refuses the chapter
\* (IndexRecoveryRequired).
IndexPaidOnce ==
    \A ch \in IndexChapters : \A p \in 1..Windows[ch] :
        /\ bought[ch][p] <= 1
        /\ bought[ch][p] = 1 => p \in StagedWindows(ch) \/ Indexed(ch) \/ Unrecovered(ch)

\* What a reader may find of a chapter: its windows once they are indexed,
\* until then its prefix; always in the book's own embedding space.
Findable(ch) == {Row(ch, p, "pinned") : p \in IF Indexed(ch) THEN 1..Windows[ch]
                                             ELSE {q \in {0} : Windows[ch] > 0}}

\* Every process that gets the book open, with either backend and whatever it
\* was written with before, finds of each chapter up to the reader's place just
\* that, and nothing beyond (MemoryView.search, _vec0_search).
FoundIsTrue ==
    proc.open =>
        \A b \in 0..Len(Windows) :
            Found(b) = UNION {Findable(ch) : ch \in {c \in 1..b : c <= durable}}

=============================================================================
