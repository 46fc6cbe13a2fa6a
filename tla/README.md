# Litlet (reading-companion): TLA+ models and proofs

Litlet is a spoiler-safe reading companion. A reader imports an EPUB; a background worker turns
each chapter into derived memory (`memory.db`); everything the reader is shown is clamped to the
chapters that are both read and validated. Provider calls cost money, so every call is reserved
against a ceiling before it is made. The same product runs as a local single-process application
(FastAPI, SQLite) and as a hosted multi-tenant service (PostgreSQL, worker processes).

This directory holds TLA+ modules translated from that code, TLC configurations that check them,
and TLAPS proofs. Paths below are relative to `src/backend/app` unless they start with `src/`.

## 1. Inventory

| Component | State it keeps | Operations | Talks to | What makes it hard | What makes it correct |
|---|---|---|---|---|---|
| Ingest worker `ingest/worker.py` | `_state`, `_running`, `_verified`, lifecycle locks, executor | `enqueue`, `_run`, `_ingest_upto`, `_after_failure`, `shutdown` | catalog, store, pipeline, cost | request threads, pool threads, delete and re-import during a pass, crash between two databases | one driver per book, no lost wake-up, no stale commit, progress never ahead of markers |
| Pipeline, memory `ingest/extraction/pipeline.py`, `memory/dal.py` | `memory.db`: derived rows, completion markers | `prepare_chapter`, `ingest_chapter`, reads as of a bookmark | store | one long transaction per chapter | all or nothing per chapter, in order |
| Catalog `catalog/catalog.py` | `catalog.db`: books, reading state, cost ledger, reservations | `add_book`, `remove_book`, `set_position`, `reset_position`, `finalize_ingest`, `reserve_cost`, `settle_cost` | everyone | idempotent replay, epochs, ceilings checked by many threads | monotonic high water, exactly-once cost |
| Cost limits `cost/limits.py`, `cost/__main__.py` | none of its own | `budgeted_completion`, `budgeted_embedding`, `reconcile` | catalog, provider | a crash or an exception between bill and settlement | ceiling holds, spend is always covered |
| Request gate `deps.py` | per-book readers/writer entries | `book_lifecycle` | every route | coroutine cancellation, entry removal, writer preference | exclusion, one entry per book, nobody starves |
| Memory store `memory/store.py` | handle LRU, lock registry | `book`, `evict`, `close` | worker, routes | eviction against waiters and openers | one connection and one session per book |
| Hosted jobs `hosted/jobs.py`, `hosted/worker.py` | `jobs`, `job_attempts`, `cost_*`, receipts | `claim_next`, `start`, `heartbeat`, `reserve_spend`, `commit_chapter`, `succeed`, `fail` | PostgreSQL, external handler | leases that lapse under live workers, stragglers, cancellation, several processes | one open attempt, limits, paid once |
| Hosted tenant API `hosted/tenant/*`, `hosted/provider_runtime.py` | tenant rows under row security | upload, delete, cancel, positions, marks, credentials, provider calls | jobs, storage | versions and idempotency keys under retries | owner isolation, limits |
| Position API `reader/frontier.py`, `api/reading.py`, `api/books.py` | none of their own | PUT position, reset, import, delete | catalog, worker | delayed reports of an earlier pass | a bookmark only grows within an epoch |
| Views `api/views.py` | none | graph, timeline, search, recap | memory, worker, request gate | which bookmark applies at read time | nothing beyond the bookmark is shown |
| Recaps and answers `lifecycle_cache.py`, `answer_bank.py`, `ask.py` | stored recaps, failures, flights, slots, banked answers | `flight`, `get`, `set`, `run_once`, ask, recap | routes, provider, cost | slots, last-leaver clean-up, a book that changes during the call | paid once, no slot lost, nobody stands still |
| Preparation `recap_warm.py`, `reader_prepare.py` | focus, queue, pending, completed and active keys, checkpoints | `notify`, `focus`, `prepare`, `close` | routes, worker, bank | notifications late or doubled, re-scheduling of an active key, cancellation, restart | nothing lost, nothing bought twice |
| Reader client `src/frontend/src/reader/reporter.ts`, `pwa/offline.ts` | pending report, outbox in local storage | schedule, deliver, retry, queue, flush | position API | offline, reload, duplicate and late PUTs | the server ends at the reader's position |
| TTS, navigation `src/frontend/src/reader/tts.ts` | speaking state | play, pause, stop | browser | late callbacks | callbacks of a stopped utterance do nothing |
| Archive `lifecycle/archive.py` | archives, staging and rollback directories | backup, verify, restore | file system, service lock | a service that writes meanwhile, a crash between two renames | an archive is one moment, no paid chapter is lost |
| Corrections `memory/corrections.py` | identity rows with validity ranges | replace, split, merge | memory | what earlier bookmarks see, a second correction of the same identity | earlier views never change, nothing of a later chapter moves forward |
| Hosted runtime `hosted/runtime.py`, `hosted/provider_runtime.py` | locks and caches with leases | lease, release, evict, close | tenant API | eviction while waiting, shutdown | one request of a book at a time, answers of the book as it is |
| Migration `hosted/local_migration.py` | migration record, object, tenant rows | plan, import, rollback | archive, storage, PostgreSQL | three stores, a crash between any two, two operators | the hosted book is whole and the archive's, or is not there |
| Settings `hosted/credentials.py`, `hosted/provider_settings.py` | sealed secrets, settings per capability | create, replace, delete, validate, rewrap | jobs, provider | the secret or the key changes during a validation | ready means proven with this secret, every secret stays readable |
| Sign-in `hosted/auth/*` | login transactions, identities, sessions | begin, callback, logout, suspend | identity provider | a callback repeated, first sign-ins that race | one account per person, a state used once |
| Marks offline `src/frontend/src/pwa/offline.ts` | outbox, pages, identity of the browser's owner | queue, replay, purge | tenant API | lost answers, a page older than the outbox, change of owner | no change forgotten, none sent as somebody else |
| Source index `memory/source_index.py`, `memory/vectors.py`, `retrieval_index/backfill.py` | chunk rows, their vec0 mirror, staged batches, index marks | publish with a chapter, backfill (reserve, embed, settle, stage, publish), search | memory, cost, directory lock | a paid batch lost between settlement and staging, a mirror that disagrees, another embedding space | no window is bought twice, search finds what is indexed and nothing beyond |
| Ask, LLM clients, extraction, segmentation, evaluation | mostly none | text in, text out | provider | text processing | grounding (not a question for TLC) |

How they interact: routes pass the **request gate**, then take the **catalog**'s transactions and
the worker's **lifecycle lock**; `PUT /position` ends in `enqueue`; the **worker** reads the book
through the **store**, buys extraction through **cost limits**, commits a chapter to `memory.db`
under the lifecycle lock and then reconciles the catalog; only then does it publish the validated
frontier that **views** clamp to. On completion it notifies the **prewarmer**. In hosted mode the
database is the only shared state: the web process and the workers meet in `jobs`,
`job_attempts`, `cost_reservations` and `owner_limits`. The operator's commands (backup, restore,
import, reconcile, key rotation) work on the same files and rows, beside the service or instead of it.

## 2. Plan

Order: what can corrupt or leak a book first, what can lose money next, then what can stop, then the
rest of the hosted service and the operator's commands.

| Step | Modules | Composition |
|---|---|---|
| 1 | `IngestWorker`, `IngestWorkerProofs` | refines `IngestPromise`; the proofs of step 7 stand in the same module |
| 2 | `RequestGate` | gives `IngestWorker` one mutating request at a time |
| 3 | `CostLedger`, `HostedJobs`, `CostLedgerProofs`, `HostedJobsProofs`, `SumTheorems` | the inside of a chapter's extraction, locally and hosted |
| 4 | `Store` | proved about in `StoryMemoryProofs`, beside the memory it opens |
| 5 | `PositionSync` | the reading position from the page to the server, hosted and local; proved about in `OfflineMarksProofs` |
| 6 | `StoryMemory`, `HostedMemory`, `StoryMemoryProofs` | the second extends the first: the book moves to the service and is corrected there |
| 7 | `Shelf`, `ReaderAnswers`, `Preparation` | both extend `Shelf`: requests at the gate, and the preparation ahead of them |
| 8 | `DataDirectory`, `LocalMigration`, `SourceIndex`, `LocalProofs` | the second imports the archives the first writes; `MCLocal` checks them beside the index |
| 9 | `ProviderSettings`, `HostedAccounts`, `OfflineMarks`, `OfflineMarksProofs` | a chain: settings, in front of them sign-in, and the marks of the browser that signs in |
| 10 | `HostedRequests`, `HostedRequestsProofs` | extends `RequestGate`: the gate of either mode of the program, and the proofs of both |

All ten steps are done, and every invariant and action property of the runs is proved; section 6 says
which one only in part, and what stays with TLC.

Modules are written to be proved about: constants with named assumptions, one action per operation or
critical section, no recursive operator.

## 3. Conventions

* An action is what the code does between two points where another thread, coroutine, process or
  transaction can get in: a section under a lock, a database transaction, the code between two awaits.
* A definition called `X_whatIsWrong` directly above `X` is a faulty variant of `X`. No specification
  uses it; it exists so that a property can be seen to fail when the code is broken that way.
* Data is reduced to what the properties tell apart: a chapter is its ordinal, three alike-limited
  amounts (input tokens, output tokens, USD) are one, a provider's text does not appear.
* A property that is a conjunction (`ShelfIsTrue`, `HandlesAreSafe`, ...) has named parts, each with its
  own comment; a faulty variant is kept for each part.
* `MC*` modules add symmetry sets and constant operators, nothing else. Where none are needed, a run
  checks the component's module itself, under the configuration of the same name.

## 4. Modules and the code

**IngestPromise** is the abstract specification of ingestion for one book: memory grows by the next
chapter and only while the book is shelved; progress follows one chapter at a time and never leads;
a chapter that counts as progress has its cost on the ledger exactly once; removing the book drops
progress and ledger and keeps the memory.

**IngestWorker** is one book under `IngestWorker.enqueue/_submit/_run/_ingest_upto/_after_failure/
shutdown`, `api/books.py` import and delete, and `Catalog.finalize_ingest`. `row` is the catalog's row
(incarnation, progress, ledger, reservations) or `NoBook`; `durable` are the completion markers of
`memory.db`, which survive delete and crash; `st`, `running`, `verified` are `_state`, `_running`,
`_verified`; `lifecycle` is the per-book lifecycle lock; `req` is the request in `enqueue`; `task[t]`
is a call of `_run`, its `pc` naming the place between two critical sections. The segmentation gate is
a choice (open, blocked, raises); extraction, review and preparation are one interval with no lock,
whose inside is `CostLedger`. A process is `up`, `stopping`, `joined` or `down`; a crash loses all but
`row` and `durable`.

**RequestGate** is `book_lifecycle` with its registry. asyncio's `Lock` and `Event` are external and
modelled as documented by their behaviour in the standard library: a lock is FIFO and is taken at once
only if it is free and nobody waits; an event wakes whoever awaits it, and the woken coroutine runs
later. Any request may be cancelled while it waits. `ahead` is a history variable for `NoOvertaking`.

**HostedRequests** is the program in either mode (`main.create_app`): local, it behaves as
`RequestGate`; hosted, as `HostedRuntimeRegistry` with the routes of one book and of everything else
("other"). `locks` is the LRU of lock entries with their leases, `n` the identity of a lock object, which is named
by the request that made it;
`call[r]` is a request from its lease to its release. A reading help (ask, selection, chapter close)
reads its context in one transaction, then pays for at most two drafts and their reviews, each reserved
against the setting its context read (`updated_at`). The provider is called on a thread of its own
(`asyncio.to_thread`): `calling` are the requests it is at work for, `open` those whose reservation is in
the table, and `Returns` hands its answer to the request, if that is still there, to settle (`CallEnds`).
Position, reset and delete of the book run under the same lock, changes of settings under another.
`CutOff` ends a request at any await inside: it is cancelled, or the transaction it awaits raises, which
may have been committed all the same. `budgeted_hosted_completion` settles under `except Exception` only and
never again, so the row stays (`RowsAfter`) while the thread goes on; `delete_book` leaves the cache as it
is; `cut` remembers both. One process is
modelled, as ADR 0022 promises coordination within a process only. Left out: the object deleted before
the row; the other reads, which only hold the lock. A reservation an earlier process left open is in the
initial states.

**CostLedger** is the money of one book: `reserve_cost`, `note_reservation_actual`, `settle_cost`,
`finalize_ingest`, the calls of readers and of answer preparation, and the pieces, attempts, repair
pass and settlement loop of one chapter's extraction (`_complete_extraction`,
`_complete_extraction_once`, `_ingest_upto`), with delete and re-import at any moment, a crash, and
`python -m app.cost reconcile` by the operator while the service is down. `FitsX` and `SettleX` are
the catalog's transactions. That there is one job per book is `SingleFlight`. `orphaned` is a history
variable: the reservations that crashes of this shelf lifetime left open.

**HostedJobs** is `DurableJobRepository` with `DurableWorker.run_once`, and the tenant requests that
touch jobs. PostgreSQL fixes `now()` when a transaction begins and waits for row locks afterwards, so
each fenced method is two steps: `Begin` (the clock, and with it whether the lease is live) and the body
(locks granted, attempt still open). `lease[j]` says whether the open attempt's lease has not run out;
`Lapse` makes it run out at any time. `SKIP LOCKED` is the choice of which expired rows a recovery
passes over. The job handler is not part of the repository: it may reserve, commit, heartbeat, return
or raise in any order. Left out: `run_after` (a delay), the priority order of claimable jobs (any is
picked), events written for the audit. The ceiling is always set. `ReserveCall`, `SettleCall` and
`LoseCall` are the interactive provider calls of the web process; a lost one keeps its reservation, as
`except Exception` does not see a cancelled request.

**Store** is `Store.book/evict/close`: every section under `_registry_lock` is an action; `opened`
counts connections, so that a second connection of a book would show. `close()` walks a snapshot.

**PositionSync** is one book of one owner with several devices. `srv` is the row of `reading_state`
(`hosted` which service, `mark` the bookmark, `cur` and `high` the current and high-water offset, `by` and `seq` the last
writer); under `update_position` it has a version and merge rules, under the local `set_position`
neither. `page[d]` is the effect of `ReaderPage.tsx` with its `PositionReporter`; `line[d]` the
tracked PUTs of `trackPositionDelivery`, of which the first is on its way; `clock[d]` the
acknowledgments later writes inherit; `box[d]` the one position mutation of the outbox; `flushes[d]`
where `flushOfflineMutations` is. JavaScript runs to completion, so an action is what happens between
two awaits or callbacks. A call can be lost before or after the server saw it, refused, or outlive its
closed tab; a page can be hidden, left, closed and reopened; another device can reset the pass.
Simplifications: a page of the view is a chapter, so offset, completed chapter and CFI are one number;
a reset is one step with its answer (or the answer is lost); a read of the canonical position is one
step with its use, and none is applied while the reset dialog is open; one tab per device; the reader
does not leave from the reset dialog but may close the tab; the service worker's cached copy of
`GET position` is not used; client errors other than 409 are left out; marks in the outbox and changes of
owner are `OfflineMarks`'. The run has one device, and several when `Devices` is given more. `label`, `read`, `affirmed` and `excused` are history variables. `excused` marks a device
whose page has dropped its reports on purpose, to load the book again in another pass.

**StoryMemory** is the derived memory of one book. Rows (`entity`, `aliases`, `edges`, `states`, `parts`)
hold from a chapter on and may end at one; `told[k]` is what chapter k names, `corrections` the audit
rows. `View(b)` is what `MemoryDB._select` and its callers give at bookmark b. A chapter is prepared
(its roster read) and committed in two steps, and prepared again when the roster changed in between. A
chapter may call a person of `Nicknamed` by a second form too; it links a name to the one identity that
bears it or is known by one of its forms, and notes the forms nobody is known by as aliases.
`Replace`, `Split` and `Merge` close, copy (`Copied*`) and carry (`Carried*`) the rows as
`memory/corrections.py` does, from the frontier the correction is dated at. A reader who starts again may correct at an earlier frontier than
before. `ch`, the chapter that first said what a row says, is a history field. Left out: themes, quotes,
summaries and embeddings, confidence, and the wording of what a row says.

**HostedMemory** adds the move to the service. `Move` writes each kind of row with new identifiers,
whose order is lost (here reversed); afterwards `Snapshot` and `ToldCorrections` are the service's SQL
reads and `HostedReplace` its SQL correction, one transaction that holds `reading_state`. Nothing
commits further chapters to a migrated book. The service refuses a name that an identity visible at the
frontier bears; the local program does not look. Corrections give names no chapter uses: with a
chapter's own name the reader merges two people by naming.

**Shelf** is the books as answers see them: pass, life, frontier, corrections. **ReaderAnswers** adds the
request threads and the background thread over `RecapRegistry` (`flights`, `slots`, `recaps`, `failed`)
and `AnswerBank` (entries in flight and banked answers), with the request gate, a reset, correction,
deletion, import and restart at any moment. An answer is drafted, checked and judged, at most twice. The
provider is a choice among the outcomes the code tells apart. `MayGo` is where a thread waits for nobody;
`GuardsAreTrue` compares it with what the actions allow.

**Preparation** is `RecapPrewarmer` (`loop`: focus, queue, pending and completed tokens, the active key)
and the one runner of `reader_prepare.prepare`, with its checkpoints in the bank, its cancellation when
the focus moves, and a restart. Notifications come from the routes and from the ingest worker and may
arrive late. After a correction while the focus is elsewhere the notification is dropped and the
reader's return finds the completed token unchanged: an optimisation lost, no more.

**DataDirectory** is the operator's commands beside the service: `target` is the data directory (a
catalog row and a memory per book), `asides` the directories moved out of the way, `archives[b]` the
backups of a book. The service holds the directory lock while it is up, a restore takes it, a backup
copies row, memory and source one after another without it. Any command may die between two steps.

**LocalMigration** imports those archives: `record[b]` is the migration row, `object[b]` the stored
source, `hosted[b]` the rows of the transaction. Two operators may import at once. As the runbook asks,
a rollback runs while nothing imports the same book; that is a guard of `Undo`.

**SourceIndex** is the passage index of one local book: `chunks` and `mirror` (the vec0 table), `marked`
and `staged` of `memory/source_index.py`, and `run`, the backfill's place between two transactions: it
looks at a chapter, checks the canary, reserves a batch, embeds, settles, stages and publishes. `proc` is
the process that holds the directory's lock, the service or a backfill, and may end at any point; the
operator may choose another backend or batch size in between, and the provider may serve another
embedding space. Left out: the ranking of what a search finds, `repin_embedding`, `retract_chapter` and
`reextract_*` (no caller in the service), a space that drifts under a running process. **MCLocal** puts
it side by side with the library: the two share nothing but the lock, so each is explored without the
other moving.

**ProviderSettings** is an owner's credentials (`cred`: the secret, the master key that seals it),
the settings of two capabilities, the jobs and the question that use them, and the rotation of the
master key (`ring`: the keys the running processes know). A validation is two transactions with the
provider between them. `updated_at` stamps are distinct; several web processes may serve the owner.
`DropKey` waits until no envelope of the old key is left, as ADR 0025 asks of the operator, and all
processes change their keys together. `RotationKeepsAll` therefore says that the rewrap and what is stored
meanwhile keep every secret readable under that procedure; processes that restart one by one, or an
operator who does not follow it, are not modelled. A job is looked at when its worker opens the secret:
`reserve_spend` (`jobs.py:400`) asks nothing of the setting, so a call it reserves after a credential was
replaced goes with the old one. A question's reservation does look again, and `CallsAreProven` covers it.

**HostedAccounts** is sign-in: login transactions used once, identity resolution, session replacement,
logout and suspension, for persons who share a browser. **OfflineMarks** is the outbox of marks: intents
of the reader (`fate` of each edit is a history variable), their replay under the account that made
them, lost answers, pages loaded anew and a browser that changes hands. The three are checked in one
run, whose initial states choose one of three worlds: first sign-ins, the settings of a signed-in owner,
or marks with a second person signing in; the budgets of the other two are used up. Left out: that an
anchor lies beyond the frontier is a choice of the service; `updateReaderMark` is exported by `api.ts`
and no page calls it yet.

## 5. Runs

| Run | cfg | What it shows | Bounds, and why they are enough |
|---|---|---|---|
| `ingest_worker` | `IngestWorker` | `ShelfIsTrue` (`TypeOK`, `DoneMeansValidated`, `VerifiedIsReconciled`, `NoLeakedReservation`), `SingleFlight`, `NoWedge`, `CommitsBelongToTheShelf`, `KeepsPromise` (refinement of `IngestPromise`), `EveryPassEnds`, `ShutdownDrains` | 2 chapters (one replayed and one extracted, or one not asked for), 2 incarnations (a stale one), 3 generations (an enqueue during a pass, and one during the retry), 2 tasks (any second driver), 1 crash |
| `request_gate` | `HostedRequests` | `OrderlyBook` (`TypeOK`, `Compatible`, `OneEntry`, `NoOvertaking`), `AnswersAreCurrent` (`AnswerIsCurrent`, `DeletedIsForgotten`, `ClosedIsIdle`), `CallsAccounted` (`CallsCovered`, `CallsSettled`), `Served`, `Drains` | local: 4 requests, a mutation inside, one waiting and one of each shared kind, each of which may come again for ever, and 2 entry objects (an old and a new one); hosted: 3 requests, 1 chapter, 1 lock kept, 1 concurrent call, 1 change of the judge's setting: a holder, one whose entry evicts the holder's, and one who asks for the evicted lock; a request cut off whose thread goes on, and another that would call |
| `cost_ledger` | `MCCostLedger` | `LedgerHolds` (`TypeOK`, `SpendIsCovered`, `CountedOnce`, `CeilingsHold`) | 3 calls, 2 pieces, 2 attempts, 2 imports, 2 crashes (the second meets what the first left); ceiling 4 and worst case 2, so that two calls fit, a third only when one was cheaper; a bill may exceed the worst case by one |
| `hosted_queue` | `MCHostedJobs` | `LeasesHold` (`OneOpenLease`, `LimitsHold`), `EndsHold` (`CancelledEndsCancelled`, `FinishedStays`), `EveryJobEnds` | 2 jobs of one owner, 2 workers, 2 attempts, concurrency 1, 2 active jobs; no chapters: a crash, a lapse, a straggler and a retry |
| `hosted_spend` | `MCHostedSpend` | `SpendHolds` (`TypeOK`, `CeilingHolds`, `PaidOnce`), `NothingAfterCancel` | 1 job of 2 chapters, 3 interactive calls, 2 owners, 2 workers, 2 attempts |
| `store` | `Store` | `HandlesAreSafe` (`StoreTypeOK`, `OneSession`, `SoleConnection`, `CacheBounded`), `Returns` | 3 threads (an evictor, a holder and a waiter), 2 books, cache of 1 |
| `position_sync` | `PositionSync` | `PassesApart` (`TypeOK`, `OnlyItsPass`), `FinishKept`, `FinishArrives` | 1 device, either service, 2 chapters, 1 reset, 1 fault, page turns while fewer than 3 sequence numbers are used: a report in flight, one pending and one in the outbox, of two passes |
| `story_memory` | `HostedMemory` | `ViewsAreSafe` (`TypeOK`, `NoSpoiler`), `MentionsKept`, `CorrectionIsLocal` (`EarlierViewsKept`, `CorrectionRenames`), `MigrationKeepsTheStory`, `SameCorrection` | 2 people, one with a nickname that is also a name corrections give, 2 new names, 3 chapters (before, at and after a correction), 4 identities, 2 corrections of any kind, 1 start again |
| `reader_answers` | `ReaderAnswers` | `PaidOnce`, `AnswersGoOn` (`SlotsAccounted`, `NoStandstill`, `GuardsAreTrue`) | 2 request threads and the background one, 1 book of 2 chapters, 2 flights, 1 question in flight, 1 stored recap, 4 events |
| `preparation` | `Preparation` | `PreparedOnce` (`BoughtOnce`, `NothingLost`), `FocusPrepared` | 2 books (one in focus, one not), 1 chapter, a queue of 1, 1 restart, 3 events, 2 notifications under way |
| `local_migration` | `MCLocal` | `BackupIsAMoment`, `RestoreIsSafe` (`PaidChaptersKept`, `TakesOnlyItsBook`), `ImportIsTrue` (`ImportIsWhole`, `ReportIsTrue`), `IndexPaidOnce`, `FoundIsTrue` | 2 books of 1 chapter, 1 archive kept, 4 commands, 1 crash, 2 operators (with 2 chapters the run is eight times as large and shows the same); an index of 3 chapters of 3, 0 and 1 windows, 2 of them from before there was an index, batches of 1 or 2, 5 processes one after another |
| `hosted_accounts` | `OfflineMarks` | `AccountsHold` (`ReadyIsProven`, `RotationKeepsAll`, `OneAccount`, `FailedSignInKeepsSession`), `CallsAreProven`, `EditsKept` | 2 credentials, 3 secrets, 1 job, 6 events; 2 persons, 2 logins; 1 tab, 2 marks' intents, 3 pages, 1 lost answer |

Symmetry is used for jobs, workers, chapters, credentials, logins and operators, of which the
specification names none in particular, in runs of safety properties only. `CHECK_DEADLOCK FALSE` stands
where bounded identifiers, events or faults run out: then nothing is left to do. The other runs check
for deadlock.

Bounds named in the modules: `MaxIncarnations`, `MaxGeneration`, `MaxCrashes` (IngestWorker),
`MaxEntries` (RequestGate), `MaxCalls`, `MaxChanges`, `Reconfigured` (HostedRequests), `MaxCalls`, `MaxIncarnations`,
`MaxCrashes` (CostLedger), `MaxEpoch`, `MaxSequence`, `MaxFailures` (PositionSync), `MaxEntities`,
`MaxCorrections`, `MaxPasses` (StoryMemory), `MaxEvents` (ReaderAnswers, Preparation, ProviderSettings),
`MaxRestarts`, `MaxCalls` (Preparation), `MaxCommands`, `MaxCrashes` (DataDirectory), `MaxTurns`
(SourceIndex), `MaxSecrets`
(ProviderSettings), `MaxIntents`, `MaxLoads`, `MaxFaults` (OfflineMarks). `MaxAttempts`,
`MaxConcurrency`, `MaxActiveJobs`, `MaxHandles`, `MaxLocks`, `MaxFlights`, `MaxInflight`, `MaxRecaps`,
`QueueSize`, `Keep`, `Ceiling` and `PrepareCeiling` are parameters of the code itself.

### Fairness

* IngestWorker: weak fairness of each task, of a request that is already in `enqueue`, of the shutdown
  thread. Threads of the operating system run; provider calls have timeouts, so extraction ends.
  Nobody has to import, delete, read on, crash or restart.
* RequestGate: weak fairness of every coroutine that is ready. The event loop's ready queue is FIFO, and
  handlers return. Nobody has to call or to disconnect.
* HostedRequests: the same for the hosted loop, for all its requests together: each is made once and has
  finitely many steps, so that is enough for all of them, and for the thread of a call, which its timeout
  ends. Nobody has to shut down, to give up or to be cut off.
* Preparation: weak fairness of the loop that hears notifications, of the runner, whose provider calls
  end, and of the ingest worker's notification. The reader owes nothing.
* HostedJobs: weak fairness of polling (`run_forever`) and of a begun transaction; strong fairness of
  "the handler returns or raises", as a handler may heartbeat any number of times in between; weak
  fairness of the lapse of a lease nobody renews. Owners owe nothing.
* Store: weak fairness of threads that can run, and strong fairness of a thread that waits for a book's
  lock. The second is an assumption on `threading.Lock`, which promises no order: without it a waiter
  could be passed over for ever by other threads, which the code does nothing against.
* PositionSync: weak fairness of the reporter's timer, of requests and their answers, of the flush that
  waits for the line, of the teardown's flush, and of React running a cleanup it was asked for (`Runs`).
  `Reconnects` adds that an offline device comes online again and a closed application is started
  again; `FinishArrives` needs it, since nothing else sends what a closed tab left in the outbox. Faults
  are bounded, so the network is not lossy for ever.

### Findings

These are statements of the repository's text that the code does not keep. Each is stated in its module
and no run checks it: adding its name to the cfg named shows the behaviour.

| Statement | Add to | Who says it | What the code does |
|---|---|---|---|
| `FailedPassSettles` | `MCCostLedger.cfg` | `ingest/worker.py:388`, each failed pass settles its own reservations | after a delete and re-import between two pieces of a chapter, the settlement loop (`worker.py:528`) stops at the first reservation, which went with the old row, and leaves the later one, booked on the new incarnation; the chapter is refused until an operator reconciles. `NoLeakedReservation`, where a chapter has one reservation, is the part that holds |
| `FinalUnitOnce` | `MCHostedSpend.cfg` | `src/docs/DECISIONS.md:142`, web and worker cannot each consume the final unit of concurrency | `reserve_provider_call` counts open reservations, `claim_next` leased and running jobs, `reserve_spend` nothing: both processes can take it |
| `OnlyWhatWasRead` | `PositionSync.cfg` | `src/docs/DECISIONS.md:106`, old tabs fail with 409 | on a 409 and on a sync event `ReaderPage.tsx` (393, 449) takes the new epoch for its labels while the old view lives on until its cleanup; what it reports in between counts in the new pass. `OnlyItsPass`, which holds a report against the epoch it was labelled with, holds |
| `FinishSurvives` | `PositionSync.cfg` | `reporter.ts:59` | the 409 of an old pass's report cancels the reporter although the page is in the new pass already, and an affirmed end goes with it (`ReaderPage.tsx:387`). `FinishKept` excepts exactly this |
| `FailedReportsRetry` | `PositionSync.cfg`, as a property under `FairSpec` | `reporter.ts:19`, retry with bounded backoff | a failed connection resolves as "queued" (`api.ts:429`), so the backoff is not run for it; the report waits for the `online` event, a launch, or for the page to be left |
| `CursorKeepsOrder` | `PositionSync.cfg`, as a property with `MaxFailures = 2` | `offline.ts:428`, "Rebase only a successor" | `acknowledgePosition` (`offline.ts:455`) rebases an older queued item too; its replay then puts the cursor back |
| `OneIdentity` | `HostedMemory.cfg` | `src/docs/adr/0039` (15, 22), one person, corrected once | the reader corrects somebody at chapter 3, starts again and corrects the same identity at chapter 2: the second correction moves the end of the source from 3 to 2 (`memory/corrections.py:56-66`, `282-289`), and both replacements are shown from 3 on |
| `CacheIsCurrent` | `HostedRequests.cfg` | ADR 0022, no mutable reading state is cached | the cached book metadata has the bookmark and the completed chapters (`tenant/repository.py:262-279`, `tenant/api.py:677-686`), and only deletion invalidates them (`773`). Deletion itself is hidden by the cache only where it was cut off (`DeletedIsForgotten`) |
| `DeletionForgets` | `HostedRequests.cfg` | ADR 0023 (85-88), a deletion invalidates the cached metadata | a deletion that is cancelled between its commit and `cache_invalidate_resource` (`tenant/api.py:771-773`) leaves it: a second deletion is refused with 404 before it gets there, and `get_book`, which asks the cache first, goes on serving the deleted book until the entry is evicted. `DeletedIsForgotten` excepts exactly this |
| `OnlyCrashesLeaveCalls` | `HostedRequests.cfg` | ADR 0037 (37-38, 56), failures settle and a crash can leave a reservation | `CancelledError` passes `except Exception` (`provider_runtime.py:97`), and a `settle_provider_call` that raises is not tried again (98, 113, 121): the row stays reserved in a living process, and counts against the owner's concurrent calls until an operator steps in. `CallsSettled` excepts exactly this, and `CallsCovered` holds then too |
| `KeepsOnlyCurrent` | `ReaderAnswers.cfg` | `reader_prepare.py:129-132`, never publish across reset, deletion or correction | the looks at the book come before the write, and the book may change between them. The entry is keyed by what it was prepared from, and so is not served to the changed book |
| `ProgressNotBlocked` | `ReaderAnswers.cfg` | `deps.py:100`, provider calls do not block reading or progress | a mutation that waits behind an answer under way blocks every later request of that book until the provider answers, by writer preference |

Seen while modelling, without a definition of their own:

* `restore --replace` refuses a data directory that holds the caches the application itself writes there
  (reviewed recaps and answers), which ADR 0009 does not mention. A crash between its two renames leaves
  no directory; the next start serves an empty library, while the aside and the stage hold both versions
  (`PaidChaptersKept` is about them). A restore also rewinds `position_epoch`, so a report of a later
  pass of another tab can match again.
* `rewrap` passes over rows that are locked and does not look for what is left. ADR 0025 lets the operator
  remove a key only when none of its envelopes remains, which `DropKey` takes as its guard.
* The migration plan knows fewer provider phases than the local ledger writes, so an archive with one of
  the others is refused.
* A job may be left waiting for its configuration although the setting is ready: only a validation
  releases waiting jobs, so it stays until the next one.
* A mark whose answer was lost, or that was edited while its creation was on its way, is created twice;
  one deleted then reappears; an older queued change replaces a later direct one; a direct call that fails
  after the browser changed hands is queued under the new owner and dropped with a 404. `EditsKept` is
  what the outbox does promise.

## 6. Proofs

Eight modules hold what TLAPS proves. Every theorem is about the specification the runs check, for every
value of its constants under the named assumptions; each names the property TLC checks on the instance.

| Module | Theorems (property) | Inductive invariant |
|---|---|---|
| `IngestWorkerProofs` | `TypeCorrect`, `OneDriver` (`SingleFlight`), `NeverWedged` (`NoWedge`), `NoStaleCommit` (`CommitsBelongToTheShelf`), `TrueShelf` (`ShelfIsTrue`), `Refines` (`KeepsPromise`); `NobodyPaysTwice` (`PaidOnce`), `NoSlotLeaks` and `NobodyStandsStill` (`SlotsAccounted` and `NoStandstill`, two parts of `AnswersGoOn`); `PreparesOnce` (`PreparedOnce`) | `TypeInv /\ DriverInv /\ LockInv /\ NoWedge /\ PassesInv /\ NoLeakedReservation` for ingestion; `AnswersInv`, and with `WaitsInv` for `NoStandstill`; `PreparationInv` |
| `HostedRequestsProofs` | `GateOrder` (`OrderlyBook`) of the gate alone; `Answers` (`AnswersAreCurrent`), `AccountsForCalls` (`CallsAccounted`), `LocalGate` (`OrderlyBook`) | `TypeOK /\ GateInv`; `HostedTyped /\ LocksInv /\ BookInv`, and with it `RowsInv` |
| `HostedJobsProofs` | `Leases` (`LeasesHold`), `Ends` (`EndsHold`), `SpentBeforeCancel` (`NothingAfterCancel`), `Spend` (`SpendHolds`) | `Typing /\ RowsInv /\ ClaimsInv /\ DeletedInv /\ LimitsHold /\ PaidOnce`, and for the ceiling the sums of what is and may be billed |
| `CostLedgerProofs` | `Ledger` (`LedgerHolds`) | `TypeOK`, `ShelfInv`, `RowsInv`, `CallsInv`, `JobInv`, `ReceiptInv`, `CostInv`, `CeilingInv` |
| `OfflineMarksProofs` | `Accounts` (`AccountsHold`), `ProvenCalls` (`CallsAreProven`), `KeptEdits` (`EditsKept`); `PassesStayApart` (`PassesApart`), `FinishIsKept` (`FinishKept`) | `SettingsInv /\ AccountsInv /\ OutboxInv`; `SyncInv` for the position |
| `StoryMemoryProofs` | `SafeViews` (`ViewsAreSafe`), `MentionsHold` (`MentionsKept`), `LocalCorrections` (`CorrectionIsLocal`), `MigrationTellsTheSame` (`MigrationKeepsTheStory`), `SameOnTheService` (`SameCorrection`); `SafeHandles` (`HandlesAreSafe`) | `RowsInv /\ BookInv`, for the second also `AllMentions`; `StoreTypeOK /\ LeasesInv /\ HoldersInv /\ ConnectionsInv /\ CacheBounded` |
| `LocalProofs` | `BackupMoments` (`BackupIsAMoment`), `SafeRestores` (`RestoreIsSafe`), `TrueImports` (`ImportIsTrue`), `PaidWindows` (`IndexPaidOnce`), `TrueFinds` (`FoundIsTrue`) | `LocalInv /\ RemoteInv` for the directory and the move; `IndexInv` for the index |
| `SumTheorems` | facts on `SumFunctionOnSet` that the ledger and the jobs need | |

Each proof has the same shape: the initial state satisfies the invariant, every action preserves it (one
step or lemma per disjunct of the next-state relation, one conjunct at a time where it is touched), the
invariant implies the property, and PTL combines the three. An action property follows from the
invariant and one step. The invariants were checked by TLC as invariants of a run before they were proved.

Why the properties need more than themselves:

* **Ingest worker.** `SingleFlight` needs that a book with an active task or a submitter is in `_running`
  and that a book that is not has neither; `NoWedge` is the converse. `CommitsBelongToTheShelf` needs
  `LockInv`: a task at its transaction holds the lifecycle lock, so the shelf still has its incarnation.
  `ShelfIsTrue` needs `PassesInv`: the order of catalog row, markers and validated frontier, and for each
  call what it has already done at its place in the code. `Refines` maps `row`, `durable` to the abstract
  variables step by step; every action is one abstract step or none.
* **Gate.** `GateInv` says what each request's place means for the entry's lock, event and counters
  (`Match`), that everybody active is at the one registered entry, and that whoever was `ahead` still is,
  in the queue or at the lock. Queues are sequences in which each waiter stands once (`Lines`).
* **Hosted requests.** Leases of an entry are as many as the requests that refer to it, and a lock object
  admits one request; so an eviction never takes a lock somebody holds or waits for. What a request
  cites (`Current`) stays true because whoever could change it needs the same lock. `RowsInv` adds that
  whoever settles has no thread at work: a row that goes therefore takes no running call's with it, and a
  row that stays is of one who calls or settles, or is on record as cut off.
* **Hosted jobs.** A row and its attempts tell one story (`RowOK`); a worker's belief is one of the
  attempts there are (`ClaimsInv`). `Advance`, what any step may do to a job, is shown for every action and
  carries `EndsHold`. The ceiling is a sum over jobs, chapters and calls: `SumTheorems` says what one
  changed value does to it.
* **Cost ledger.** `CallsInv` follows the money of a call from its reservation to the row where it counts,
  `JobInv` which reservations the pass answers for, `ReceiptInv` that the receipt speaks for all of them.
  `CeilingInv` bounds `Due`, what each call may cost at most from here on, which is what a settlement
  cannot increase. The proof found that the history variable `orphaned` forgot what an earlier crash had
  left open; it accumulates now, and the run has two crashes.
* **Position.** `SyncInv` says of every place where a number travels (the page and its reporter, the line of
  deliveries, requests under way, the outbox, the row) that its epoch is one that was, that its position
  was reported under that epoch's label, and that the version it is based on was read from the row. It has
  a part per device (`DeviceOK`), so that what one device does leaves the others' parts alone. A refused
  answer can only be of an earlier pass (`ReplyOK`): therefore what a 409 makes the page or the outbox
  forget is never of the row's pass. `FinishKept` is where an affirmed end is (`HeldIn`: counted, with the
  page, in the line, in the outbox); merging, acknowledging and rebasing keep the farthest position of a
  pass, and the line loses its head only with an answer or to the outbox. Positions are reduced, sequence
  numbers and versions are not: the theorems hold for any of them.
* **Answers.** `AnswersInv` is about places: who is `Aboard` a key is counted by its flight, who is past the
  lock (`Flies`) is its holder, who is `Between` has a slot in hand, who prepares an answer owns its future,
  and who pays looked after the lock was its own. `NobodyPaysTwice` follows, as a key has one holder and a
  question one owner. `WaitsInv` is the converse, that a lock's holder does fly and a future's owner does
  prepare, and that nobody waits for an answer that was given. So whoever waits, waits for somebody who
  does not: for a slot, for those aboard and in between; for a lock, for its holder; for an answer, for its
  owner.
* **Preparation.** `LoopOK` says that a key is pending exactly while it is queued or active. `SpentInv` says
  what became of each stage that was paid for since the start (`Secured`): in the bank, on its way there, or
  of no use any more, as the book moved on and no scope like it can be captured again (`Past`: a book's
  incarnation, pass and frontier only grow). Before the runner pays it has looked, so the stage is new.
* **Accounts, settings, marks.** The three have invariants over their own variables. A question or a
  validation remembers the stamp of the setting it saw, and an equal stamp means nothing changed since.
  An edit that was answered is dealt with before it leaves the outbox.
* **Memory.** `EntitiesInv` to `PartsInv` say of each kind of row that it begins with a completed chapter,
  no earlier than what it refers to, and that `ch`, who said it first, is no later than its beginning:
  `NoSpoiler` follows since a view asks for rows that began. States of one identity do not overlap,
  without which a copied state could hide one that was carried. `LocalCorrections` has two halves. A
  write that begins nothing before `k` and ends nothing before `k` (`NotBefore`) leaves the views before
  `k` alone. A one-for-one correction is a renaming (`Renaming`): forms, state, scenes and ties of the
  source at each later bookmark are the target's, as each row is either copied at the frontier or
  carried from after it, and never both. The move is a renumbering, so each set of rows maps onto the
  other one to one. `AllMentions` follows a chapter's names through all of these (`MentionsMove`): a
  commit writes a name down if nobody is known by it, and a renaming or a renumbering takes the forms,
  scenes and ties along. `SameOnTheService` is the refinement of the service's correction by the local one.

* **Store.** `OneSession` needs that a lease names the entry its book has in the registry, that no two
  books share one, and that an entry counts exactly its leases (`LeasesInv`): an eviction or a release
  that drops an entry then drops one nobody refers to. `SoleConnection` needs `ConnectionsInv`, that an
  open connection is cached or in the hands of the one thread that took it out. `CacheBounded` rests on
  `Evicts`: the least recently used handles that could go are as many as there are too many, or all of
  them (`AllGone`).
* **Data directory, move.** `BackupIsAMoment` needs that a ledger never counts a chapter its memory does
  not hold (`CostsInMemory`: of the directory, of every archive, and of what a restore has in hand) and
  that the memory a backup reads has only grown since it read the catalog (`SinceItsMoment`): `Agree` then
  leaves one possibility, that nothing was committed in between. `RestoreIsSafe` needs `LockHolds`: what a
  restore found in the directory stays until its rename, as only a service would change it.
  `ImportIsTrue` needs that an import past its upload has its source stored, and that whoever rolls a book
  back is alone with it (`SourceIsStored`, `UndoIsAlone`).
* **Passage index.** `Shape` says which rows of a chapter live: its windows in consecutive places once it
  is published, else its prefix, so that what `Indexed` counts is a bijection. `MirrorHolds` is where the
  two backends meet. `IndexPaidOnce` needs `OnTheBooks` and `RunHolds`: whatever is billed was reserved
  before, and of the windows a run still has to buy none was billed, since it looked at the chapter when
  no call of it was unrecovered. The run of `MCLocal` explores the two specifications side by side; the
  theorems are about `Spec` and `IndexSpec`, its two halves.

Assumptions, besides bounds that are naturals: sets that code enumerates are finite (`Tasks`, `Requests`,
`Jobs`, `Asks`, `Chapters`, `People`, `Threads`, `Readers`, `Books`); marker values (`"free"`, `"nobody"`, `Nobody`, `NoBook`) are not
members of the sets they stand outside of (`NotThere` is no row, copy, directory or record); devices have
positive numbers, of which there may be infinitely many, and `Hosting` says which services there are; every
chapter has finitely many windows and a batch holds at least one; `Owner` gives each job and call an owner; limits of the code
are positive. No theorem assumes anything of the provider, the network or the scheduler, except that the
local `CeilingsHold` is about bills within the reserved worst case, as the property itself says.

Induction over data is done by the least counterexample (`LeastNat`, from the well-foundedness of the
naturals): the recursion of the library's `SumFunctionOnSet` picks elements by `CHOOSE`, and
`SumRemoves` shows that any element may be taken first.

With TLC alone stay: the liveness properties (`EveryPassEnds`, `ShutdownDrains`, `Served`, `Drains`,
`EveryJobEnds`, `Returns`, `FinishArrives`, `FocusPrepared`), since the prover does not handle fairness; and
`GuardsAreTrue`, the third part of `AnswersGoOn`, which says with `ENABLED` that `MayGo` is what the guards
of the actions allow. `NoStandstill`, which is about `MayGo`, is proved, so that TLC is trusted with the
comparison only.

## 7. Not modelled

`PROJECT.json` lists every component with its status. Of the parts that keep state:

* The layout of views, search results, the job listing, exports and preferences are reads or single
  columns; the bookmark they are clamped to is modelled (`StoryMemory`, `ReaderAnswers`).
* Text to speech and navigation in the page are small callback handlers of browser objects.
* Schema migrations run once at start under an exclusive lock. Limits, rate windows and the audit are
  inserts and counts inside transactions that are modelled as a whole.

Text processing (segmentation, prompts, validation and grounding of answers, name resolution, prompt
versions, evaluation) is sequential functions of data without interleaving; the models take from it the
outcomes the code tells apart. Cryptography, HTTP clients, browser storage and the formats of archives
are reduced to what they promise: which key opens what, answered or not, stored or not. Deletion of a
book whose position reports are still on their way is the one interleaving of two modelled components
that no module composes. Hazards no property covers are listed in `PROJECT.json` with a note.
