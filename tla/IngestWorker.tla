---------------------------- MODULE IngestWorker ----------------------------
(***************************************************************************)
(* The ingest worker of one book (app/ingest/worker.py) with the durable   *)
(* state it moves: the catalog row (app/catalog/catalog.py), the chapter   *)
(* completion markers of memory.db (app/memory/dal.py), and the requests   *)
(* that race it: PUT /position, import, delete, shutdown, a crash.         *)
(*                                                                         *)
(* A task is one `_run` call in the executor.  Every section that one lock *)
(* or one SQLite transaction makes indivisible is one action; what the     *)
(* code does between two of them is where other actors interleave.         *)
(***************************************************************************)
EXTENDS Naturals, FiniteSets

CONSTANTS
    NumChapters,        \* chapters of the book, ordinals 1..NumChapters
    Tasks,              \* slots for `_run` calls in the executor
    NoBook,             \* the catalog has no row for the book
    MaxIncarnations,    \* bound: how often the book is imported
    MaxGeneration,      \* bound: enqueues per worker state
    MaxCrashes          \* bound: process crashes

ASSUME NumChaptersAssumption == NumChapters \in Nat \ {0}
ASSUME TasksAssumption == IsFiniteSet(Tasks)
ASSUME NoHolderAssumption == "free" \notin Tasks /\ "enqueue" \notin Tasks
ASSUME BoundsAssumption == /\ MaxIncarnations \in Nat
                           /\ MaxGeneration \in Nat \ {0}
                           /\ MaxCrashes \in Nat

VARIABLES
    row,        \* catalog: the books row with its reading_state, or NoBook
    imports,    \* catalog: incarnations handed out so far
    durable,    \* memory.db: chapters with a completion marker
    proc,       \* the process: "up", "stopping", "joined", "down"
    st,         \* worker._state[book]
    running,    \* book \in worker._running
    verified,   \* worker._verified[book]
    lifecycle,  \* holder of worker.book_lifecycle(book)
    req,        \* the one position/delete request past the request gate
    task,       \* task[t]: locals of the `_run` call in slot t
    crashes,    \* crashes so far (bound)
    orphaned    \* history: reservations a crash left without an owner

vars == <<row, imports, durable, proc, st, running, verified, lifecycle, req,
          task, crashes, orphaned>>

catalogVars == <<row, imports>>
workerVars  == <<st, running, verified>>

-----------------------------------------------------------------------------
(* Types *)

Ordinals     == 1..NumChapters
Incarnations == 1..MaxIncarnations
MaxPrepare   == 2           \* stale-roster retries of one commit (three tries)

Statuses == {"idle", "running", "done", "blocked", "error"}

TaskPC == {"none", "queued", "loop", "publish", "publishing", "gate", "chapter",
           "reserve", "extract", "commit", "store", "finalize", "end", "exit",
           "blocked", "stop", "fail", "resubmit"}

Reservations == [ch : Ordinals, inc : Incarnations]

Rows == [inc      : Incarnations,
         progress : 0..NumChapters,
         ledger   : SUBSET Ordinals,
         reserved : SUBSET Reservations]

ASSUME NoBookAssumption == NoBook \notin Rows

NoTask == [pc |-> "none", target |-> 0, gen |-> 0, inc |-> 0,
           at |-> 0, seen |-> 0, tries |-> 0]
NoReq  == [pc |-> "idle", target |-> 0, gen |-> 0, inc |-> 0]
NoState    == [inc |-> 0, target |-> 0, gen |-> 0, status |-> "idle"]
NoVerified == [inc |-> 0, gen |-> 0, ord |-> 0]

States == [inc : 0..MaxIncarnations, target : 0..NumChapters,
           gen : 0..MaxGeneration, status : Statuses]
Frontiers == [inc : 0..MaxIncarnations, gen : 0..MaxGeneration,
              ord : 0..NumChapters]
Requests == [pc : {"idle", "enqueue", "submit"}, target : 0..NumChapters,
             gen : 0..MaxGeneration, inc : 0..MaxIncarnations]
Calls == [pc : TaskPC, target : 0..NumChapters, gen : 0..MaxGeneration,
          inc : 0..MaxIncarnations, at : 0..NumChapters,
          seen : 0..NumChapters, tries : 0..MaxPrepare]

TypeOK ==
    /\ row \in Rows \cup {NoBook}
    /\ imports \in 0..MaxIncarnations
    /\ durable \in SUBSET Ordinals
    /\ proc \in {"up", "stopping", "joined", "down"}
    /\ st \in States
    /\ running \in BOOLEAN
    /\ verified \in Frontiers
    /\ lifecycle \in Tasks \cup {"free", "enqueue"}
    /\ req \in Requests
    /\ task \in [Tasks -> Calls]
    /\ crashes \in 0..MaxCrashes
    /\ orphaned \in SUBSET Reservations

Init ==
    /\ row = NoBook
    /\ imports = 0
    /\ durable = {}
    /\ proc = "up"
    /\ st = NoState
    /\ running = FALSE
    /\ verified = NoVerified
    /\ lifecycle = "free"
    /\ req = NoReq
    /\ task = [t \in Tasks |-> NoTask]
    /\ crashes = 0
    /\ orphaned = {}

-----------------------------------------------------------------------------
(* Shared tests and effects *)

\* Faulty variants, named <definition>_<what is wrong>, stand before the
\* definitions they would replace; no specification uses them.

Larger_adds(a, b) == a + b
Larger(a, b) == IF a > b THEN a ELSE b

Stopping == proc \in {"stopping", "joined"}
Alive    == proc # "down"

\* _require_incarnation: the shelf and the worker state are both still the
\* incarnation this task was started for.
Current(t) == /\ row # NoBook
              /\ row.inc = task[t].inc
              /\ st.inc = task[t].inc

Own(t) == [ch |-> task[t].at, inc |-> task[t].inc]

\* settle_cost of the task's own reservation: it moves to the ledger under a
\* phase of its own; a book removed meanwhile took the reservation with it.
SettledRow_forgets(t) == row
SettledRow(t) ==
    IF row = NoBook THEN NoBook
    ELSE [row EXCEPT !.reserved = @ \ {Own(t)}]

\* finalize_ingest's transaction: the cost row, the chapter's reservations and
\* the monotonic progress mark change together.
FinalRow_marksTarget(t) ==
    [row EXCEPT !.progress = Larger(@, task[t].target),
                !.ledger = @ \cup {task[t].at},
                !.reserved = {r \in @ : r.ch # task[t].at}]
FinalRow(t) ==
    [row EXCEPT !.progress = Larger(@, task[t].at),
                !.ledger = @ \cup {task[t].at},
                !.reserved = {r \in @ : r.ch # task[t].at}]

\* add_book: a fresh incarnation, a reading_state of its own.
FreshRow ==
    [inc |-> imports + 1, progress |-> 0, ledger |-> {}, reserved |-> {}]

\* worker.book_lifecycle(book) can be taken.
LifecycleFree_noLock == TRUE
LifecycleFree == lifecycle = "free"

\* The worker state after enqueue(req.target): a new incarnation starts from a
\* fresh state; the target is raised and the generation bumped.
Enqueued ==
    IF st.inc = req.inc
    THEN [st EXCEPT !.target = Larger(@, req.target), !.gen = @ + 1, !.status = "running"]
    ELSE [inc |-> req.inc, target |-> req.target, gen |-> 1, status |-> "running"]

\* enqueue submits only when no task or submitter is running for the book.
NeedsSubmit_always == TRUE
NeedsSubmit == ~running

\* _run's test for an enqueue or a new incarnation that came during the pass.
Superseded_whenBlocked(t) == st.inc # task[t].inc \/ (task[t].pc = "blocked" /\ st.gen # task[t].gen)
Superseded(t) == st.inc # task[t].inc \/ st.gen # task[t].gen

\* executor.shutdown(wait=True): no call is left in the executor.
Drained == \A t \in Tasks : task[t].pc = "none"

Goto(t, pc) == task' = [task EXCEPT ![t].pc = pc]

\* _after_failure: stop, hand over to a newer enqueue, or give up with "error".
FailureStatus_retriesSame(gen, inc) ==
    IF Stopping THEN "idle"
    ELSE IF st.inc # inc \/ st.gen >= gen THEN "running"
    ELSE "error"
FailureStatus_evenStopping(gen, inc) ==
    IF st.inc # inc \/ st.gen >= gen THEN "running" ELSE "error"
FailureStatus(gen, inc) ==
    IF Stopping THEN "idle"
    ELSE IF st.inc # inc \/ st.gen > gen THEN "running"
    ELSE "error"

\* ... and leaves `_running` unless the newer enqueue is to be submitted.
StaysRunning_always(status) == TRUE
StaysRunning(status) == status = "running"

\* Where one turn of the chapter loop leads before the first provider call.
ChapterNext_skipsReplay(t) ==
    IF Stopping THEN "stop"
    ELSE IF ~Current(t) THEN "fail"
    ELSE IF task[t].at \in durable THEN "publish"
    ELSE IF \E r \in row.reserved : r.ch = task[t].at THEN "fail"
    ELSE IF task[t].at <= task[t].seen THEN "fail"
    ELSE "reserve"
ChapterNext(t) ==
    IF Stopping THEN "stop"
    ELSE IF ~Current(t) THEN "fail"
    ELSE IF task[t].at \in durable THEN "finalize"
    ELSE IF \E r \in row.reserved : r.ch = task[t].at THEN "fail"
    ELSE IF task[t].at <= task[t].seen THEN "fail"
    ELSE "reserve"

-----------------------------------------------------------------------------
(* Requests.  The request gate admits one position write, delete or reset  *)
(* of a book at a time (module RequestGate), so one `req` is enough.       *)

\* import_book: memory.db exists or is created, then the row, last of all.
Import ==
    /\ proc = "up"
    /\ row = NoBook
    /\ imports < MaxIncarnations
    /\ imports' = imports + 1
    /\ row' = FreshRow
    /\ UNCHANGED <<durable, proc, workerVars, lifecycle, req, task, crashes, orphaned>>

\* delete_book, under the lifecycle lock: the row with ledger and reservations
\* goes, the files of memory.db stay.
Delete ==
    /\ proc = "up"
    /\ req.pc = "idle"
    /\ LifecycleFree
    /\ row # NoBook
    /\ row' = NoBook
    /\ orphaned' = {}
    /\ UNCHANGED <<imports, durable, proc, workerVars, lifecycle, req, task, crashes>>

\* put_position reaches enqueue(n): lifecycle lock, then the catalog read.
EnqueueRead(n) ==
    /\ Alive
    /\ ~Stopping
    /\ req.pc = "idle"
    /\ LifecycleFree
    /\ row # NoBook
    /\ st.inc = row.inc => st.gen < MaxGeneration
    /\ lifecycle' = "enqueue"
    /\ req' = [pc |-> "enqueue", target |-> n, gen |-> 0, inc |-> row.inc]
    /\ UNCHANGED <<catalogVars, durable, proc, workerVars, task, crashes, orphaned>>

\* enqueue's `_mu` section: the state moves on and what was verified for an
\* older generation is forgotten; a book nobody drives is submitted.
EnqueueState ==
    /\ req.pc = "enqueue"
    /\ lifecycle' = "free"
    /\ IF Stopping
       THEN /\ req' = NoReq
            /\ UNCHANGED workerVars
       ELSE /\ st' = Enqueued
            /\ verified' = [inc |-> req.inc, gen |-> Enqueued.gen, ord |-> 0]
            /\ running' = TRUE
            /\ req' = IF NeedsSubmit
                      THEN [req EXCEPT !.pc = "submit", !.gen = Enqueued.gen]
                      ELSE NoReq
    /\ UNCHANGED <<catalogVars, durable, proc, task, crashes, orphaned>>

\* _submit from the request thread: the executor takes the call.
SubmitAccepted(t) ==
    /\ req.pc = "submit"
    /\ proc # "joined"
    /\ task[t].pc = "none"
    /\ task' = [task EXCEPT ![t] = [NoTask EXCEPT !.pc = "queued"]]
    /\ req' = NoReq
    /\ UNCHANGED <<catalogVars, durable, proc, workerVars, lifecycle, crashes, orphaned>>

\* _submit from the request thread: the executor refuses (shut down, or no
\* thread can start); _after_failure decides whether to try again.
SubmitRefused ==
    /\ req.pc = "submit"
    /\ LET status == FailureStatus(req.gen, req.inc)
       IN /\ running' = StaysRunning(status)
          /\ st' = [st EXCEPT !.status = status]
          /\ req' = IF status = "running"
                    THEN [req EXCEPT !.gen = st.gen, !.inc = st.inc]
                    ELSE NoReq
    /\ UNCHANGED <<catalogVars, durable, proc, verified, lifecycle, task, crashes, orphaned>>

-----------------------------------------------------------------------------
(* The task *)

\* _run, top of the loop: stop, or read target, generation and incarnation.
Loop(t) ==
    /\ task[t].pc \in {"queued", "loop"}
    /\ IF Stopping
       THEN Goto(t, "stop")
       ELSE task' = [task EXCEPT ![t] = [NoTask EXCEPT !.pc = "publish",
                         !.target = st.target, !.gen = st.gen, !.inc = st.inc]]
    /\ UNCHANGED <<catalogVars, durable, proc, workerVars, lifecycle, req, crashes, orphaned>>

\* _publish_validated(at), first half: the shelf is asked.
PublishRead(t) ==
    /\ task[t].pc = "publish"
    /\ Goto(t, IF Current(t) THEN "publishing" ELSE "fail")
    /\ UNCHANGED <<catalogVars, durable, proc, workerVars, lifecycle, req, crashes, orphaned>>

\* _publish_validated(at), second half under `_mu`, and the chapter loop's
\* next turn: chapter at+1 up to the target read at the top of the pass.
PublishWrite(t) ==
    /\ task[t].pc = "publishing"
    /\ IF st.inc = task[t].inc /\ st.gen = task[t].gen
       THEN /\ verified' = [inc |-> task[t].inc, gen |-> task[t].gen, ord |-> task[t].at]
            /\ IF task[t].at = 0 THEN Goto(t, "gate")
               ELSE IF task[t].at < task[t].target
               THEN task' = [task EXCEPT ![t].pc = "chapter", ![t].at = @ + 1]
               ELSE Goto(t, "end")
       ELSE /\ Goto(t, "fail")
            /\ UNCHANGED verified
    /\ UNCHANGED <<catalogVars, durable, proc, st, running, lifecycle, req, crashes, orphaned>>

\* Segmentation and the pre-ingest gates say go: remember ingest_progress.
GateOpen(t) ==
    /\ task[t].pc = "gate"
    /\ Current(t)
    /\ task' = [task EXCEPT ![t].pc = "chapter", ![t].at = 1, ![t].seen = row.progress]
    /\ UNCHANGED <<catalogVars, durable, proc, workerVars, lifecycle, req, crashes, orphaned>>

\* A gate blocks the book: its status says so unless an enqueue came first.
GateBlocked(t) ==
    /\ task[t].pc = "gate"
    /\ Current(t)
    /\ st' = IF st.gen = task[t].gen THEN [st EXCEPT !.status = "blocked"] ELSE st
    /\ Goto(t, "blocked")
    /\ UNCHANGED <<catalogVars, durable, proc, running, verified, lifecycle, req, crashes, orphaned>>

\* The EPUB cannot be read, or the incarnation is no longer current.
GateFails(t) ==
    /\ task[t].pc = "gate"
    /\ Goto(t, "fail")
    /\ UNCHANGED <<catalogVars, durable, proc, workerVars, lifecycle, req, crashes, orphaned>>

\* One turn of the chapter loop up to the first provider call: a durable
\* receipt is replayed; leftovers of an interrupted attempt, or progress
\* without its marker, are refused.
Chapter(t) ==
    /\ task[t].pc = "chapter"
    /\ Goto(t, ChapterNext(t))
    /\ UNCHANGED <<catalogVars, durable, proc, workerVars, lifecycle, req, crashes, orphaned>>

\* reserve_cost for the chapter's extraction.  It asks for the book only, not
\* for the incarnation.
Reserve(t) ==
    /\ task[t].pc = "reserve"
    /\ IF Stopping THEN Goto(t, "stop") /\ UNCHANGED row
       ELSE IF row = NoBook THEN Goto(t, "fail") /\ UNCHANGED row
       ELSE /\ Goto(t, "extract")
            /\ row' = [row EXCEPT !.reserved = @ \cup {Own(t)}]
    /\ UNCHANGED <<imports, durable, proc, workerVars, lifecycle, req, crashes, orphaned>>

\* The ceiling is reached: no reservation, no call.
ReserveRefused(t) ==
    /\ task[t].pc = "reserve"
    /\ Goto(t, "fail")
    /\ UNCHANGED <<catalogVars, durable, proc, workerVars, lifecycle, req, crashes, orphaned>>

\* Extraction, review and preparation cleared, with no lock held.  The actual
\* usage is noted on the reservation, which must still exist.
Extracted(t) ==
    /\ task[t].pc = "extract"
    /\ ~Stopping
    /\ row # NoBook
    /\ Own(t) \in row.reserved
    /\ Goto(t, "commit")
    /\ UNCHANGED <<catalogVars, durable, proc, workerVars, lifecycle, req, crashes, orphaned>>

\* The provider fails, the extraction is rejected, the reservation is gone, or
\* the worker is stopping: the call is settled before the error leaves.
ExtractFails(t) ==
    /\ task[t].pc = "extract"
    /\ row' = SettledRow(t)
    /\ Goto(t, IF Stopping THEN "stop" ELSE "fail")
    /\ UNCHANGED <<imports, durable, proc, workerVars, lifecycle, req, crashes, orphaned>>

\* Commit, first part: the lifecycle lock, then the incarnation check.
CommitLock(t) ==
    /\ task[t].pc = "commit"
    /\ LifecycleFree
    /\ IF Current(t)
       THEN /\ lifecycle' = t
            /\ Goto(t, "store")
            /\ UNCHANGED row
       ELSE /\ row' = SettledRow(t)
            /\ Goto(t, "fail")
            /\ UNCHANGED lifecycle
    /\ UNCHANGED <<imports, durable, proc, workerVars, req, crashes, orphaned>>

\* ingest_chapter: all rows and, last, the completion marker, in one
\* memory.db transaction.
StoreChapter(t) ==
    /\ task[t].pc = "store"
    /\ durable' = durable \cup {task[t].at}
    /\ lifecycle' = "free"
    /\ task' = [task EXCEPT ![t].pc = "finalize", ![t].tries = 0]
    /\ UNCHANGED <<catalogVars, proc, workerVars, req, crashes, orphaned>>

\* A correction changed the roster since the inputs were read: prepare again,
\* outside both locks, at most twice.
StoreStale(t) ==
    /\ task[t].pc = "store"
    /\ task[t].tries < MaxPrepare
    /\ lifecycle' = "free"
    /\ task' = [task EXCEPT ![t].pc = "commit", ![t].tries = @ + 1]
    /\ UNCHANGED <<catalogVars, durable, proc, workerVars, req, crashes, orphaned>>

\* The transaction rolls back (database error, third stale roster): nothing of
\* the chapter is durable and its call is settled.
StoreFails(t) ==
    /\ task[t].pc = "store"
    /\ lifecycle' = "free"
    /\ row' = SettledRow(t)
    /\ task' = [task EXCEPT ![t].pc = "fail", ![t].tries = 0]
    /\ UNCHANGED <<imports, durable, proc, workerVars, req, crashes, orphaned>>

\* finalize_ingest: incarnation check, cost row, reservations of the chapter
\* and progress in one catalog transaction.
Finalize(t) ==
    /\ task[t].pc = "finalize"
    /\ IF row # NoBook /\ row.inc = task[t].inc
       THEN /\ row' = FinalRow(t)
            /\ Goto(t, "publish")
       ELSE /\ Goto(t, "fail")
            /\ UNCHANGED row
    /\ UNCHANGED <<imports, durable, proc, workerVars, lifecycle, req, crashes, orphaned>>

\* The catalog transaction rolls back: the marker stays, the catalog does not
\* know of it yet.
FinalizeFails(t) ==
    /\ task[t].pc = "finalize"
    /\ Goto(t, "fail")
    /\ UNCHANGED <<catalogVars, durable, proc, workerVars, lifecycle, req, crashes, orphaned>>

\* The incarnation check after the last chapter.
EndOfPass(t) ==
    /\ task[t].pc = "end"
    /\ Goto(t, IF Current(t) THEN "exit" ELSE "fail")
    /\ UNCHANGED <<catalogVars, durable, proc, workerVars, lifecycle, req, crashes, orphaned>>

\* The exit decision: one `_mu` section compares generations, reports and
\* leaves `_running`.
Exit(t) ==
    /\ task[t].pc \in {"exit", "blocked"}
    /\ IF Superseded(t)
       THEN Goto(t, "loop") /\ UNCHANGED <<st, running>>
       ELSE IF task[t].pc = "blocked"
       THEN /\ task' = [task EXCEPT ![t] = NoTask]
            /\ running' = FALSE
            /\ UNCHANGED st
       ELSE IF st.target <= task[t].at
       THEN /\ task' = [task EXCEPT ![t] = NoTask]
            /\ running' = FALSE
            /\ st' = [st EXCEPT !.status = "done"]
       ELSE Goto(t, "loop") /\ UNCHANGED <<st, running>>
    /\ UNCHANGED <<catalogVars, durable, proc, verified, lifecycle, req, crashes, orphaned>>

\* The cooperative exit of a stopping worker.
Stop(t) ==
    /\ task[t].pc = "stop"
    /\ running' = FALSE
    /\ st' = [st EXCEPT !.status = "idle"]
    /\ task' = [task EXCEPT ![t] = NoTask]
    /\ UNCHANGED <<catalogVars, durable, proc, verified, lifecycle, req, crashes, orphaned>>

\* _run's exception handler: _after_failure, and a successor if there is one.
Fail(t) ==
    /\ task[t].pc = "fail"
    /\ LET status == FailureStatus(task[t].gen, task[t].inc)
       IN /\ running' = StaysRunning(status)
          /\ st' = [st EXCEPT !.status = status]
          /\ task' = [task EXCEPT ![t] =
                        IF status = "running"
                        THEN [NoTask EXCEPT !.pc = "resubmit", !.gen = st.gen, !.inc = st.inc]
                        ELSE NoTask]
    /\ UNCHANGED <<catalogVars, durable, proc, verified, lifecycle, req, crashes, orphaned>>

\* _submit of the successor: taken by the executor, which then runs it in
\* place of this task, or refused.
ResubmitAccepted(t) ==
    /\ task[t].pc = "resubmit"
    /\ proc # "joined"
    /\ task' = [task EXCEPT ![t] = [NoTask EXCEPT !.pc = "queued"]]
    /\ UNCHANGED <<catalogVars, durable, proc, workerVars, lifecycle, req, crashes, orphaned>>

ResubmitRefused(t) ==
    /\ task[t].pc = "resubmit"
    /\ Goto(t, "fail")
    /\ UNCHANGED <<catalogVars, durable, proc, workerVars, lifecycle, req, crashes, orphaned>>

TaskStep(t) ==
    \/ Loop(t)
    \/ PublishRead(t)
    \/ PublishWrite(t)
    \/ GateOpen(t)
    \/ GateBlocked(t)
    \/ GateFails(t)
    \/ Chapter(t)
    \/ Reserve(t)
    \/ ReserveRefused(t)
    \/ Extracted(t)
    \/ ExtractFails(t)
    \/ CommitLock(t)
    \/ StoreChapter(t)
    \/ StoreStale(t)
    \/ StoreFails(t)
    \/ Finalize(t)
    \/ FinalizeFails(t)
    \/ EndOfPass(t)
    \/ Exit(t)
    \/ Stop(t)
    \/ Fail(t)
    \/ ResubmitAccepted(t)
    \/ ResubmitRefused(t)

-----------------------------------------------------------------------------
(* The process *)

\* shutdown(): the stop flag.
Shutdown ==
    /\ proc = "up"
    /\ proc' = "stopping"
    /\ UNCHANGED <<catalogVars, durable, workerVars, lifecycle, req, task, crashes, orphaned>>

\* executor.shutdown(cancel_futures=True): a call that never started is dropped.
CancelQueued(t) ==
    /\ proc = "stopping"
    /\ task[t].pc = "queued"
    /\ task' = [task EXCEPT ![t] = NoTask]
    /\ UNCHANGED <<catalogVars, durable, proc, workerVars, lifecycle, req, crashes, orphaned>>

\* executor.shutdown(wait=True) returns; the books still marked running go idle.
Joined ==
    /\ proc = "stopping"
    /\ Drained
    /\ proc' = "joined"
    /\ st' = IF running THEN [st EXCEPT !.status = "idle"] ELSE st
    /\ running' = FALSE
    /\ UNCHANGED <<catalogVars, durable, verified, lifecycle, req, task, crashes, orphaned>>

LoseMemory ==
    /\ proc' = "down"
    /\ st' = NoState
    /\ running' = FALSE
    /\ verified' = NoVerified
    /\ lifecycle' = "free"
    /\ req' = NoReq
    /\ task' = [t \in Tasks |-> NoTask]

ProcessExit ==
    /\ proc = "joined"
    /\ LoseMemory
    /\ UNCHANGED <<catalogVars, durable, crashes, orphaned>>

\* The process dies at any point; catalog.db and memory.db keep what they
\* committed, reservations included.
Crash ==
    /\ Alive
    /\ crashes < MaxCrashes
    /\ crashes' = crashes + 1
    /\ orphaned' = IF row = NoBook THEN {} ELSE row.reserved
    /\ LoseMemory
    /\ UNCHANGED <<catalogVars, durable>>

Restart ==
    /\ proc = "down"
    /\ proc' = "up"
    /\ UNCHANGED <<catalogVars, durable, workerVars, lifecycle, req, task, crashes, orphaned>>

\* `python -m app.cost reconcile`, which needs the data directory's lock and so
\* a stopped service: every reservation is settled.
ReconcileCosts ==
    /\ proc = "down"
    /\ row # NoBook
    /\ row.reserved # {}
    /\ row' = [row EXCEPT !.reserved = {}]
    /\ orphaned' = {}
    /\ UNCHANGED <<imports, durable, proc, workerVars, lifecycle, req, task, crashes>>

-----------------------------------------------------------------------------

RequestStep == EnqueueState \/ SubmitRefused \/ \E t \in Tasks : SubmitAccepted(t)

Next ==
    \/ Import
    \/ Delete
    \/ \E n \in Ordinals : EnqueueRead(n)
    \/ RequestStep
    \/ \E t \in Tasks : TaskStep(t)
    \/ Shutdown
    \/ \E t \in Tasks : CancelQueued(t)
    \/ Joined
    \/ ProcessExit
    \/ Crash
    \/ Restart
    \/ ReconcileCosts

\* A thread that can take its next step takes it: the executor's threads, the
\* request's thread and the lifespan's shutdown.  Nobody has to import, delete,
\* read on, crash or restart.
Fairness ==
    /\ WF_vars(RequestStep)
    /\ \A t \in Tasks : WF_vars(TaskStep(t))
    /\ \A t \in Tasks : WF_vars(CancelQueued(t))
    /\ WF_vars(Joined)
    /\ WF_vars(ProcessExit)

Spec == Init /\ [][Next]_vars
FairSpec == Spec /\ Fairness

-----------------------------------------------------------------------------
(* Properties *)

Active(t) == task[t].pc # "none"

\* Single flight: however enqueues, failures, resubmissions and restarts
\* interleave, at most one `_run` call or submission drives the book.
SingleFlight ==
    /\ \A t, u \in Tasks : Active(t) /\ Active(u) => t = u
    /\ req.pc = "submit" => \A t \in Tasks : ~Active(t)

\* No wedge: a book in `_running` has somebody who will take it out again, so
\* an enqueue that trusts the flag and submits nothing is still served.
NoWedge ==
    running /\ proc = "up" => req.pc = "submit" \/ \E t \in Tasks : Active(t)

\* No lost wakeup (the docstring of _run): status "done" means the newest
\* enqueue's target itself is validated, every chapter up to it durable.
DoneMeansValidated ==
    st.status = "done" =>
        /\ verified.inc = st.inc /\ verified.gen = st.gen
        /\ verified.ord >= st.target
        /\ 1..st.target \subseteq durable

\* What validated_frontier reports for the shelved incarnation is durable in
\* memory.db and reconciled in the catalog: markers first, cost and progress
\* next, the in-memory frontier last.
VerifiedIsReconciled ==
    row # NoBook /\ verified.inc = row.inc =>
        /\ 1..verified.ord \subseteq durable
        /\ verified.ord <= row.progress
        /\ 1..verified.ord \subseteq row.ledger

\* Catalog progress never passes the completion markers, across crashes,
\* deletion and re-import, so the "progress but no marker" refusal of
\* _ingest_upto never meets a book this code wrote.
ProgressIsDurable ==
    row # NoBook => /\ 1..row.progress \subseteq durable
                    /\ row.ledger = 1..row.progress

\* Every durable reservation has a task that will settle it, or a crash left it
\* (and the operator's reconcile clears it), or its chapter is durable and the
\* next pass replays the receipt.  So only a crash can lock a chapter out.
NoLeakedReservation ==
    row # NoBook =>
        \A r \in row.reserved :
            \/ r \in orphaned
            \/ r.ch \in durable
            \/ \E t \in Tasks : /\ Own(t) = r
                              /\ task[t].pc \in {"extract", "commit", "store", "finalize"}

\* What the shelf says of a book is true at every moment: its status, its
\* verified frontier, and the reservations of its cost.
ShelfIsTrue ==
    TypeOK /\ DoneMeansValidated /\ VerifiedIsReconciled /\ NoLeakedReservation

\* A chapter becomes durable only while its task's incarnation is the one on
\* the shelf: a task that outlived a delete never writes (the lifecycle lock
\* spans the check and the transaction).
CommitsBelongToTheShelf ==
    [][durable' # durable =>
         \E t \in Tasks : /\ task[t].pc = "store"
                         /\ row # NoBook
                         /\ row.inc = task[t].inc]_vars

\* Durable memory is never taken back, and grows in reading order.
Promise == INSTANCE IngestPromise
             WITH published <- durable,
                  shelved   <- row # NoBook,
                  progress  <- IF row = NoBook THEN 0 ELSE row.progress,
                  charged   <- IF row = NoBook THEN {} ELSE row.ledger

\* The worker with its crashes and races keeps the promise of IngestPromise.
KeepsPromise == Promise!PromiseSpec

\* Every pass ends: a book that is being ingested eventually is not, because
\* its target is done, it is blocked or failed, or the process stopped.
EveryPassEnds == (st.status = "running") ~> (st.status # "running")

\* Shutdown drains: no interleaving of a resubmission or a late request keeps
\* the executor's join waiting for ever.
ShutdownDrains == (proc = "stopping") ~> (proc = "down")

=============================================================================
