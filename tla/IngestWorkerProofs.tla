------------------------- MODULE IngestWorkerProofs -------------------------
(***************************************************************************)
(* Proofs about IngestWorker for any number of chapters, task slots,       *)
(* incarnations, enqueues and crashes, about ReaderAnswers for any number  *)
(* of readers, books, flights, slots and events, and about Preparation for *)
(* any finite shelf and any queue, number of events and of restarts.       *)
(***************************************************************************)
EXTENDS IngestWorker, ReaderAnswers, Preparation, SumTheorems, FiniteSetTheorems, TLAPS

\* Chapter work: the task's ordinal and incarnation are real ones.
ChapterPC == {"chapter", "reserve", "extract", "commit", "store", "finalize"}

\* What typing alone does not say and the actions rely on for it.
CallOK(c) ==
    /\ c.pc = "publishing" => c.inc \in Incarnations
    /\ c.pc \in ChapterPC => c.at \in Ordinals /\ c.inc \in Incarnations

RequestOK ==
    req.pc = "enqueue" => /\ req.target \in Ordinals
                          /\ req.inc \in Incarnations
                          /\ st.inc = req.inc => st.gen < MaxGeneration

TypeSupport == RequestOK /\ \A t \in Tasks : CallOK(task[t])

TypeInv == TypeOK /\ TypeSupport

BeforeMarker == {"chapter", "reserve", "extract", "commit", "store"}
AfterMarker  == {"finalize", "publish", "publishing", "end", "exit"}
InPass       == BeforeMarker \cup AfterMarker \cup {"gate"}

\* One driver: a task or a submission, never both, and only under `_running`.
DriverInv ==
    /\ SingleFlight
    /\ ~running => /\ \A t \in Tasks : ~Active(t)
                   /\ req.pc = "submit" => proc = "joined"
    /\ proc \in {"joined", "down"} => \A t \in Tasks : ~Active(t)
    /\ proc = "down" => ~running /\ req.pc = "idle"
    /\ st.status = "done" => ~running

\* Who holds the lifecycle lock, and what it protects.
LockInv ==
    /\ \A t \in Tasks : task[t].pc = "store" =>
           /\ lifecycle = t
           /\ row # NoBook
           /\ row.inc = task[t].inc
    /\ req.pc = "enqueue" => /\ lifecycle = "enqueue"
                             /\ row # NoBook
                             /\ row.inc = req.inc

\* Incarnations only move forward: the shelf has the newest, the worker state
\* at most that one, the verified frontier at most the state's ...
ShelfOrder ==
    /\ row # NoBook => row.inc = imports
    /\ st.inc <= imports
    /\ verified.inc <= st.inc

\* ... and a call at most the state's, with a generation the state has seen.
OrderOf(t) ==
    Active(t) => /\ task[t].inc <= st.inc
                 /\ task[t].inc = st.inc => task[t].gen <= st.gen

\* Markers are written in reading order.
Prefix == \E m \in 0..NumChapters : durable = 1..m

\* Progress and ledger trail the markers by at most the chapter in hand.
ChapterOf(t) ==
    /\ task[t].pc \in BeforeMarker => 1..(task[t].at - 1) \subseteq durable
    /\ task[t].pc \in AfterMarker => 1..task[t].at \subseteq durable
    /\ row # NoBook /\ row.inc = task[t].inc =>
         /\ task[t].pc \in ChapterPC => task[t].at <= row.progress + 1
         /\ task[t].pc \in AfterMarker \ {"finalize"} => task[t].at <= row.progress

\* What a pass knows of the enqueue it serves, and what it has published, as
\* long as that enqueue is the newest.
PassOf(t) ==
    st.inc = task[t].inc /\ st.gen = task[t].gen =>
      /\ task[t].pc \in InPass => st.target = task[t].target
      /\ task[t].pc \in {"end", "exit"} =>
           verified = [inc |-> task[t].inc, gen |-> task[t].gen, ord |-> task[t].at]
      /\ task[t].pc \in {"end", "exit"} => task[t].at >= task[t].target

ShelfPart == ShelfOrder /\ Prefix /\ ProgressIsDurable /\ VerifiedIsReconciled /\ DoneMeansValidated
CallPart(t) == OrderOf(t) /\ ChapterOf(t) /\ PassOf(t)

PassesInv == ShelfPart /\ \A t \in Tasks : CallPart(t)

\* The inductive invariant.
IInv == TypeInv /\ DriverInv /\ LockInv /\ NoWedge /\ PassesInv /\ NoLeakedReservation

-----------------------------------------------------------------------------
(* Records of the four record-valued variables *)

LEMMA Constants ==
  /\ NumChapters \in Nat /\ NumChapters >= 1
  /\ MaxIncarnations \in Nat /\ MaxCrashes \in Nat
  /\ MaxGeneration \in Nat /\ MaxGeneration >= 1
  BY NumChaptersAssumption, BoundsAssumption

\* The records a state begins with are well typed.
LEMMA EmptyRecords ==
  NoReq \in Requests /\ NoState \in States /\ NoVerified \in Frontiers /\ NoTask \in Calls
<1>1. NoReq \in Requests
  BY Constants DEF NoReq, Requests
<1>2. NoState \in States
  BY Constants DEF NoState, States, Statuses
<1>3. NoVerified \in Frontiers
  BY Constants DEF NoVerified, Frontiers
<1>4. NoTask \in Calls
  BY Constants DEF NoTask, Calls, TaskPC, MaxPrepare
<1> QED
  BY <1>1, <1>2, <1>3, <1>4

\* The first state is well typed.
LEMMA TypeInit == Init => TypeInv
<1> SUFFICES ASSUME Init PROVE TypeInv
  OBVIOUS
<1> USE DEF Init
<1>0. running \in BOOLEAN
  OBVIOUS
<1>1. TypeOK
  BY <1>0, EmptyRecords, Constants DEF TypeOK
<1>2. TypeSupport
  BY DEF TypeSupport, CallOK, RequestOK, NoTask, NoReq, ChapterPC
<1> QED
  BY <1>1, <1>2 DEF TypeInv

\* enqueue leaves a well-typed queue state.
LEMMA EnqueueStateTyped ==
  ASSUME TypeInv, EnqueueState
  PROVE  TypeInv'
<1>1. st \in States /\ req \in Requests /\ req.target \in Ordinals /\ req.inc \in Incarnations
      /\ (st.inc = req.inc => st.gen < MaxGeneration)
  BY DEF TypeInv, TypeOK, TypeSupport, RequestOK, EnqueueState
<1>2. Enqueued \in States /\ Enqueued.gen \in 0..MaxGeneration
  <2>1. Larger(st.target, req.target) \in 0..NumChapters
    BY <1>1, Constants DEF Larger, States, Ordinals
  <2>2. CASE st.inc = req.inc
    <3>1. Enqueued = [st EXCEPT !.target = Larger(st.target, req.target),
                                !.gen = st.gen + 1, !.status = "running"]
      BY <2>2 DEF Enqueued
    <3>2. st.gen + 1 \in 0..MaxGeneration
      BY <1>1, <2>2, Constants DEF States
    <3> QED
      BY <1>1, <2>1, <3>1, <3>2 DEF States, Statuses
  <2>3. CASE st.inc # req.inc
    BY <1>1, <2>3, Constants DEF Enqueued, States, Statuses, Ordinals, Incarnations
  <2> QED
    BY <2>2, <2>3
<1>3. st' \in States /\ verified' \in Frontiers /\ running' \in BOOLEAN /\ req' \in Requests
      /\ req'.pc # "enqueue"
  <2>1. CASE Stopping
    BY <1>1, <2>1, EmptyRecords DEF EnqueueState, TypeInv, TypeOK, workerVars, NoReq
  <2>2. CASE ~Stopping
    <3>1. [req EXCEPT !.pc = "submit", !.gen = Enqueued.gen] \in Requests
      BY <1>1, <1>2 DEF Requests
    <3>2. [inc |-> req.inc, gen |-> Enqueued.gen, ord |-> 0] \in Frontiers
      BY <1>1, <1>2, Constants DEF Requests, Frontiers
    <3> QED
      BY <1>1, <1>2, <2>2, <3>1, <3>2, EmptyRecords DEF EnqueueState, NoReq, Requests
  <2> QED
    BY <2>1, <2>2
<1>4. /\ lifecycle' = "free"
      /\ UNCHANGED <<row, imports, durable, proc, task, crashes, orphaned>>
  BY DEF EnqueueState, catalogVars
<1> QED
  BY <1>3, <1>4 DEF TypeInv, TypeOK, TypeSupport, RequestOK


\* A step of task t that leaves it in the well-formed call c.
LEMMA TaskSet ==
  ASSUME TypeInv, NEW t \in Tasks, NEW c \in Calls, CallOK(c),
         task' = [task EXCEPT ![t] = c]
  PROVE  task' \in [Tasks -> Calls] /\ \A u \in Tasks : CallOK(task'[u])
  BY DEF TypeInv, TypeOK, TypeSupport

\* A task that moves on keeps its other fields.
LEMMA GotoSet ==
  ASSUME TypeInv, NEW t \in Tasks, NEW pc \in TaskPC, Goto(t, pc)
  PROVE  /\ [task[t] EXCEPT !.pc = pc] \in Calls
         /\ task' = [task EXCEPT ![t] = [task[t] EXCEPT !.pc = pc]]
  BY DEF TypeInv, TypeOK, Goto, Calls

\* Every step of a task keeps the types.
LEMMA TypeTaskStep ==
  ASSUME TypeInv, NEW t \in Tasks, TaskStep(t)
  PROVE  TypeInv'
<1> DEFINE Rest == /\ row' \in Rows \cup {NoBook} /\ durable' \in SUBSET Ordinals
                   /\ lifecycle' \in Tasks \cup {"free", "enqueue"}
                   /\ st' \in States /\ st'.inc = st.inc /\ st'.gen = st.gen
                   /\ running' \in BOOLEAN /\ verified' \in Frontiers
                   /\ UNCHANGED <<imports, proc, req, crashes, orphaned>>
<1>0. ASSUME NEW c \in Calls, CallOK(c), task' = [task EXCEPT ![t] = c], Rest
      PROVE  TypeInv'
  BY <1>0, TaskSet DEF TypeInv, TypeOK, TypeSupport, RequestOK
<1>00. ASSUME NEW pc \in TaskPC \ {"publishing"}, Goto(t, pc), Rest,
              pc \in ChapterPC => task[t].pc \in ChapterPC
       PROVE  TypeInv'
  <2>1. CallOK([task[t] EXCEPT !.pc = pc])
    BY <1>00 DEF CallOK, TypeInv, TypeOK, TypeSupport, Calls
  <2> QED
    BY <1>0, <1>00, <2>1, GotoSet
<1> HIDE DEF Rest
<1> USE DEF catalogVars, workerVars
<1>typed. /\ task[t] \in Calls /\ CallOK(task[t]) /\ st \in States
          /\ row \in Rows \cup {NoBook} /\ NoTask \in Calls
  BY EmptyRecords DEF TypeInv, TypeOK, TypeSupport
<1>same. ASSUME UNCHANGED <<catalogVars, durable, workerVars, lifecycle, proc, req, crashes, orphaned>>
         PROVE  Rest
  BY <1>same DEF Rest, TypeInv, TypeOK
<1>settled. SettledRow(t) \in Rows \cup {NoBook}
  BY <1>typed DEF SettledRow, Rows
<1>Loop. CASE Loop(t)
  <2>1. Rest
    BY <1>Loop, <1>same DEF Loop
  <2>2. CASE Stopping
    BY <1>Loop, <2>1, <2>2, <1>00 DEF Loop, TaskPC, ChapterPC
  <2>3. CASE ~Stopping
    <3> DEFINE c == [NoTask EXCEPT !.pc = "publish", !.target = st.target,
                                   !.gen = st.gen, !.inc = st.inc]
    <3>1. c \in Calls /\ CallOK(c)
      BY <1>typed DEF Calls, CallOK, NoTask, States, TaskPC, ChapterPC
    <3>2. task' = [task EXCEPT ![t] = c]
      BY <1>Loop, <2>3 DEF Loop
    <3> HIDE DEF c
    <3> QED
      BY <2>1, <3>1, <3>2, <1>0
  <2> QED
    BY <2>2, <2>3
<1>PublishRead. CASE PublishRead(t)
  <2>1. Rest
    BY <1>PublishRead, <1>same DEF PublishRead
  <2>2. CASE Current(t)
    <3>1. CallOK([task[t] EXCEPT !.pc = "publishing"])
      BY <1>typed, <2>2 DEF CallOK, Calls, Current, Rows, ChapterPC
    <3> QED
      BY <1>PublishRead, <2>1, <2>2, <3>1, <1>0, GotoSet DEF PublishRead, TaskPC
  <2>3. CASE ~Current(t)
    BY <1>PublishRead, <2>1, <2>3, <1>00 DEF PublishRead, TaskPC, ChapterPC
  <2> QED
    BY <2>2, <2>3
<1>PublishWrite. CASE PublishWrite(t)
  <2>1. Rest
    <3>1. [inc |-> task[t].inc, gen |-> task[t].gen, ord |-> task[t].at] \in Frontiers
      BY <1>typed DEF Calls, Frontiers
    <3> QED
      BY <3>1, <1>PublishWrite DEF PublishWrite, Rest, TypeInv, TypeOK
  <2>2. CASE st.inc = task[t].inc /\ st.gen = task[t].gen
    <3>1. CASE task[t].at = 0
      BY <1>PublishWrite, <2>1, <2>2, <3>1, <1>00 DEF PublishWrite, TaskPC, ChapterPC
    <3>2. CASE task[t].at # 0 /\ task[t].at < task[t].target
      <4> DEFINE c == [task[t] EXCEPT !.pc = "chapter", !.at = task[t].at + 1]
      <4>1. task[t].at + 1 \in Ordinals
        BY <1>typed, <3>2, Constants DEF Calls, Ordinals
      <4>2. c \in Calls /\ c.at = task[t].at + 1 /\ c.inc = task[t].inc /\ c.pc = "chapter"
        <5>1. task[t].at + 1 \in 0..NumChapters
          BY <4>1, Constants DEF Ordinals
        <5> QED
          BY <1>typed, <5>1 DEF Calls, TaskPC
      <4>3. CallOK(c)
        BY <1>typed, <1>PublishWrite, <4>1, <4>2 DEF PublishWrite, CallOK
      <4>4. task' = [task EXCEPT ![t] = c]
        BY <1>PublishWrite, <1>typed, <2>2, <3>2 DEF PublishWrite, TypeInv, TypeOK
      <4> HIDE DEF c
      <4> QED
        BY <2>1, <4>2, <4>3, <4>4, <1>0
    <3>3. CASE task[t].at # 0 /\ ~(task[t].at < task[t].target)
      BY <1>PublishWrite, <2>1, <2>2, <3>3, <1>00 DEF PublishWrite, TaskPC, ChapterPC
    <3> QED
      BY <3>1, <3>2, <3>3
  <2>3. CASE ~(st.inc = task[t].inc /\ st.gen = task[t].gen)
    BY <1>PublishWrite, <2>1, <2>3, <1>00 DEF PublishWrite, TaskPC, ChapterPC
  <2> QED
    BY <2>2, <2>3
<1>GateOpen. CASE GateOpen(t)
  <2>1. Rest
    BY <1>GateOpen, <1>same DEF GateOpen
  <2> DEFINE c == [task[t] EXCEPT !.pc = "chapter", !.at = 1, !.seen = row.progress]
  <2>2. c \in Calls /\ CallOK(c)
    <3>1. row.progress \in 0..NumChapters /\ task[t].inc \in Incarnations /\ 1 \in Ordinals
      BY <1>typed, <1>GateOpen, Constants DEF GateOpen, Current, Rows, Ordinals
    <3>2. c \in Calls /\ c.at = 1 /\ c.inc = task[t].inc /\ c.pc = "chapter"
      <4>1. 1 \in 0..NumChapters
        BY Constants
      <4> QED
        BY <1>typed, <3>1, <4>1 DEF Calls, TaskPC
    <3> QED
      BY <3>1, <3>2 DEF CallOK
  <2>3. task' = [task EXCEPT ![t] = c]
    BY <1>GateOpen, <1>typed DEF GateOpen, TypeInv, TypeOK
  <2> HIDE DEF c
  <2> QED
    BY <2>1, <2>2, <2>3, <1>0
<1>GateBlocked. CASE GateBlocked(t)
  <2>1. Rest
    BY <1>GateBlocked, <1>typed DEF GateBlocked, Rest, TypeInv, TypeOK, States, Statuses
  <2> QED
    BY <1>GateBlocked, <2>1, <1>00 DEF GateBlocked, TaskPC, ChapterPC
<1>GateFails. CASE GateFails(t)
  BY <1>GateFails, <1>same, <1>00, <1>typed DEF GateFails, TaskPC, ChapterPC
<1>ReserveRefused. CASE ReserveRefused(t)
  BY <1>ReserveRefused, <1>same, <1>00, <1>typed DEF ReserveRefused, TaskPC, ChapterPC
<1>FinalizeFails. CASE FinalizeFails(t)
  BY <1>FinalizeFails, <1>same, <1>00, <1>typed DEF FinalizeFails, TaskPC, ChapterPC
<1>ResubmitRefused. CASE ResubmitRefused(t)
  BY <1>ResubmitRefused, <1>same, <1>00, <1>typed DEF ResubmitRefused, TaskPC, ChapterPC
<1>Chapter. CASE Chapter(t)
  <2>1. ChapterNext(t) \in TaskPC \ {"publishing"}
    BY DEF ChapterNext, TaskPC
  <2> QED
    BY <1>Chapter, <1>same, <1>00, <2>1 DEF Chapter, ChapterPC
<1>Reserve. CASE Reserve(t)
  <2>1. Rest
    <3>1. Own(t) \in Reservations
      BY <1>Reserve, <1>typed DEF Reserve, Own, Reservations, CallOK, ChapterPC
    <3>2. row # NoBook => [row EXCEPT !.reserved = @ \cup {Own(t)}] \in Rows
      BY <1>typed, <3>1 DEF Rows
    <3> QED
      BY <1>Reserve, <3>2 DEF Reserve, Rest, TypeInv, TypeOK
  <2> QED
    BY <1>Reserve, <2>1, <1>00 DEF Reserve, TaskPC, ChapterPC
<1>Extracted. CASE Extracted(t)
  BY <1>Extracted, <1>same, <1>00 DEF Extracted, TaskPC, ChapterPC
<1>ExtractFails. CASE ExtractFails(t)
  <2>1. Rest
    BY <1>ExtractFails, <1>settled DEF ExtractFails, Rest, TypeInv, TypeOK
  <2> QED
    BY <1>ExtractFails, <2>1, <1>00 DEF ExtractFails, TaskPC, ChapterPC
<1>CommitLock. CASE CommitLock(t)
  <2>1. Rest
    BY <1>CommitLock, <1>settled DEF CommitLock, Rest, TypeInv, TypeOK
  <2> QED
    BY <1>CommitLock, <2>1, <1>00 DEF CommitLock, TaskPC, ChapterPC
<1>StoreChapter. CASE StoreChapter(t)
  <2>1. Rest
    BY <1>StoreChapter, <1>typed DEF StoreChapter, Rest, TypeInv, TypeOK, CallOK, ChapterPC
  <2> DEFINE c == [task[t] EXCEPT !.pc = "finalize", !.tries = 0]
  <2>2. c \in Calls /\ CallOK(c)
    <3>1. 0 \in 0..MaxPrepare
      BY <1>typed, <1>StoreChapter DEF StoreChapter, Calls, MaxPrepare
    <3>2. c \in Calls /\ c.at = task[t].at /\ c.inc = task[t].inc /\ c.pc = "finalize"
      BY <1>typed, <3>1 DEF Calls, TaskPC
    <3> QED
      BY <1>typed, <1>StoreChapter, <3>2 DEF StoreChapter, CallOK, ChapterPC
  <2>3. task' = [task EXCEPT ![t] = c]
    BY <1>StoreChapter, <1>typed DEF StoreChapter, TypeInv, TypeOK
  <2> HIDE DEF c
  <2> QED
    BY <2>1, <2>2, <2>3, <1>0
<1>StoreStale. CASE StoreStale(t)
  <2>1. Rest
    BY <1>StoreStale, <1>typed DEF StoreStale, Rest, TypeInv, TypeOK
  <2> DEFINE c == [task[t] EXCEPT !.pc = "commit", !.tries = task[t].tries + 1]
  <2>2. c \in Calls /\ CallOK(c)
    <3>1. task[t].tries + 1 \in 0..MaxPrepare
      BY <1>typed, <1>StoreStale DEF StoreStale, Calls, MaxPrepare
    <3>2. c \in Calls /\ c.at = task[t].at /\ c.inc = task[t].inc /\ c.pc = "commit"
      BY <1>typed, <3>1 DEF Calls, TaskPC
    <3> QED
      BY <1>typed, <1>StoreStale, <3>2 DEF StoreStale, CallOK, ChapterPC
  <2>3. task' = [task EXCEPT ![t] = c]
    BY <1>StoreStale, <1>typed DEF StoreStale, TypeInv, TypeOK
  <2> HIDE DEF c
  <2> QED
    BY <2>1, <2>2, <2>3, <1>0
<1>StoreFails. CASE StoreFails(t)
  <2>1. Rest
    BY <1>StoreFails, <1>settled DEF StoreFails, Rest, TypeInv, TypeOK
  <2> DEFINE c == [task[t] EXCEPT !.pc = "fail", !.tries = 0]
  <2>2. c \in Calls /\ CallOK(c)
    <3>1. 0 \in 0..MaxPrepare
      BY <1>typed, <1>StoreFails DEF StoreFails, Calls, MaxPrepare
    <3>2. c \in Calls /\ c.at = task[t].at /\ c.inc = task[t].inc /\ c.pc = "fail"
      BY <1>typed, <3>1 DEF Calls, TaskPC
    <3> QED
      BY <1>typed, <1>StoreFails, <3>2 DEF StoreFails, CallOK, ChapterPC
  <2>3. task' = [task EXCEPT ![t] = c]
    BY <1>StoreFails, <1>typed DEF StoreFails, TypeInv, TypeOK
  <2> HIDE DEF c
  <2> QED
    BY <2>1, <2>2, <2>3, <1>0
<1>Finalize. CASE Finalize(t)
  <2>1. Rest
    <3>1. task[t].at \in 1..NumChapters
      BY <1>Finalize, <1>typed DEF Finalize, CallOK, ChapterPC, Ordinals
    <3>2. row # NoBook => FinalRow(t) \in Rows
      <4> SUFFICES ASSUME row # NoBook PROVE FinalRow(t) \in Rows
        OBVIOUS
      <4>1. Larger(row.progress, task[t].at) \in 0..NumChapters
        BY <1>typed, <3>1, Constants DEF Larger, Rows
      <4> QED
        BY <1>typed, <3>1, <4>1 DEF FinalRow, Rows, Ordinals
    <3> QED
      BY <1>Finalize, <3>2 DEF Finalize, Rest, TypeInv, TypeOK
  <2> QED
    BY <1>Finalize, <2>1, <1>00 DEF Finalize, TaskPC, ChapterPC
<1>EndOfPass. CASE EndOfPass(t)
  BY <1>EndOfPass, <1>same, <1>00 DEF EndOfPass, TaskPC, ChapterPC
<1>Exit. CASE Exit(t)
  <2>0. [st EXCEPT !.status = "done"] \in States
    BY <1>typed DEF States, Statuses
  <2>1. Rest
    BY <1>Exit, <1>typed, <2>0 DEF Exit, Rest, TypeInv, TypeOK, States
  <2>2. CallOK(NoTask)
    BY DEF CallOK, NoTask, ChapterPC
  <2>3. Goto(t, "loop") \/ task' = [task EXCEPT ![t] = NoTask]
    BY <1>Exit DEF Exit
  <2> QED
    BY <1>typed, <2>1, <2>2, <2>3, <1>0, <1>00 DEF TaskPC, ChapterPC
<1>Stop. CASE Stop(t)
  <2>1. Rest
    BY <1>Stop, <1>typed DEF Stop, Rest, TypeInv, TypeOK, States, Statuses
  <2>2. CallOK(NoTask)
    BY DEF CallOK, NoTask, ChapterPC
  <2> QED
    BY <1>Stop, <1>typed, <2>1, <2>2, <1>0 DEF Stop
<1>Fail. CASE Fail(t)
  <2> DEFINE status == FailureStatus(task[t].gen, task[t].inc)
  <2>1. status \in Statuses
    BY DEF FailureStatus, Statuses
  <2>2. running' \in BOOLEAN
    BY <1>Fail DEF Fail, StaysRunning
  <2>3. [st EXCEPT !.status = status] \in States
    BY <1>typed, <2>1 DEF States
  <2>4. st' = [st EXCEPT !.status = status]
        /\ UNCHANGED <<catalogVars, durable, proc, verified, lifecycle, req, crashes, orphaned>>
    BY <1>Fail DEF Fail
  <2>5. Rest
    BY <1>typed, <2>2, <2>3, <2>4 DEF Rest, TypeInv, TypeOK, States
  <2> DEFINE c == [NoTask EXCEPT !.pc = "resubmit", !.gen = st.gen, !.inc = st.inc]
  <2>6. c \in Calls /\ CallOK(c) /\ CallOK(NoTask)
    BY <1>typed DEF Calls, CallOK, NoTask, States, TaskPC, ChapterPC
  <2>7. task' = [task EXCEPT ![t] = c] \/ task' = [task EXCEPT ![t] = NoTask]
    BY <1>Fail DEF Fail
  <2> HIDE DEF c
  <2> QED
    BY <1>typed, <2>5, <2>6, <2>7, <1>0
<1>ResubmitAccepted. CASE ResubmitAccepted(t)
  <2>1. Rest
    BY <1>ResubmitAccepted, <1>same DEF ResubmitAccepted
  <2> DEFINE c == [NoTask EXCEPT !.pc = "queued"]
  <2>2. c \in Calls /\ CallOK(c)
    BY <1>typed DEF Calls, CallOK, NoTask, TaskPC, ChapterPC
  <2>3. task' = [task EXCEPT ![t] = c]
    BY <1>ResubmitAccepted DEF ResubmitAccepted
  <2> HIDE DEF c
  <2> QED
    BY <2>1, <2>2, <2>3, <1>0
<1> QED
  BY <1>Loop, <1>PublishRead, <1>PublishWrite, <1>GateOpen, <1>GateBlocked, <1>GateFails, <1>ReserveRefused,
     <1>FinalizeFails, <1>ResubmitRefused, <1>Chapter, <1>Reserve, <1>Extracted, <1>ExtractFails, <1>CommitLock,
     <1>StoreChapter, <1>StoreStale, <1>StoreFails, <1>Finalize, <1>EndOfPass, <1>Exit, <1>Stop, <1>Fail,
     <1>ResubmitAccepted DEF TaskStep

\* Submission, accepted or refused, keeps the types.
LEMMA SubmitTyped ==
  ASSUME TypeInv, SubmitRefused \/ \E t \in Tasks : SubmitAccepted(t)
  PROVE  TypeInv'
<1> USE DEF TypeInv, TypeOK, TypeSupport
<1>1. CASE SubmitRefused
  <2> DEFINE status == FailureStatus(req.gen, req.inc)
  <2>1. status \in Statuses
    BY DEF FailureStatus, Statuses
  <2>2. running' \in BOOLEAN
    BY <1>1 DEF SubmitRefused, StaysRunning
  <2>3. [st EXCEPT !.status = status] \in States
    BY <2>1 DEF States
  <2>4. [req EXCEPT !.gen = st.gen, !.inc = st.inc] \in Requests
    BY DEF Requests, States
  <2>5. st' = [st EXCEPT !.status = status]
        /\ UNCHANGED <<row, imports, durable, proc, verified, lifecycle, task, crashes, orphaned>>
    BY <1>1 DEF SubmitRefused, catalogVars
  <2>6. req' \in Requests /\ req'.pc # "enqueue"
    BY <1>1, <2>4, EmptyRecords DEF SubmitRefused, NoReq, Requests
  <2> QED
    BY <2>2, <2>3, <2>5, <2>6 DEF RequestOK
<1>2. CASE \E t \in Tasks : SubmitAccepted(t)
  <2> PICK t \in Tasks : SubmitAccepted(t)
    BY <1>2
  <2> DEFINE c == [NoTask EXCEPT !.pc = "queued"]
  <2>1. c \in Calls /\ CallOK(c)
    BY EmptyRecords DEF Calls, CallOK, NoTask, TaskPC, ChapterPC
  <2>2. task' = [task EXCEPT ![t] = c]
    BY DEF SubmitAccepted
  <2> HIDE DEF c
  <2>3. req' = NoReq /\ NoReq.pc # "enqueue"
        /\ UNCHANGED <<row, imports, durable, proc, st, running, verified, lifecycle, crashes, orphaned>>
    BY DEF SubmitAccepted, catalogVars, workerVars, NoReq
  <2> QED
    BY <2>1, <2>2, <2>3, EmptyRecords, TaskSet DEF RequestOK
<1> QED
  BY <1>1, <1>2

\* Import, delete and the operator's reconcile keep the types.
LEMMA ShelfTyped ==
  ASSUME TypeInv, Import \/ Delete \/ ReconcileCosts \/ \E n \in Ordinals : EnqueueRead(n)
  PROVE  TypeInv'
<1> USE DEF TypeInv, TypeOK, TypeSupport
<1>1. CASE Import
  <2>1. FreshRow \in Rows /\ imports' \in 0..MaxIncarnations
    BY <1>1, Constants DEF Import, FreshRow, Rows, Incarnations
  <2> QED
    BY <1>1, <2>1 DEF Import, RequestOK, workerVars
<1>2. CASE Delete
  BY <1>2 DEF Delete, RequestOK, workerVars
<1>3. CASE ReconcileCosts
  <2>1. [row EXCEPT !.reserved = {}] \in Rows
    BY <1>3 DEF ReconcileCosts, Rows
  <2> QED
    BY <1>3, <2>1 DEF ReconcileCosts, RequestOK, workerVars
<1>4. CASE \E n \in Ordinals : EnqueueRead(n)
  <2> PICK n \in Ordinals : EnqueueRead(n)
    BY <1>4
  <2>1. row.inc \in Incarnations /\ st.inc = row.inc => st.gen < MaxGeneration
    BY DEF EnqueueRead, Rows
  <2>2. req' = [pc |-> "enqueue", target |-> n, gen |-> 0, inc |-> row.inc] /\ lifecycle' = "enqueue"
        /\ UNCHANGED <<row, imports, durable, proc, st, running, verified, task, crashes, orphaned>>
    BY DEF EnqueueRead, catalogVars, workerVars
  <2>3. row.inc \in Incarnations
    BY DEF EnqueueRead, Rows
  <2>4. req' \in Requests
    BY <2>2, <2>3, Constants DEF Requests, Incarnations, Ordinals
  <2> QED
    BY <2>1, <2>2, <2>3, <2>4 DEF RequestOK
<1> QED
  BY <1>1, <1>2, <1>3, <1>4

\* Shutdown, crash and restart keep the types.
LEMMA ProcessTyped ==
  ASSUME TypeInv,
         \/ Shutdown \/ Joined \/ ProcessExit \/ Crash \/ Restart
         \/ \E t \in Tasks : CancelQueued(t)
  PROVE  TypeInv'
<1> USE DEF TypeInv, TypeOK, TypeSupport
<1>none. CallOK(NoTask)
  BY DEF CallOK, NoTask, ChapterPC
<1>lost. ASSUME LoseMemory
         PROVE  /\ st' \in States /\ verified' \in Frontiers /\ req' \in Requests
                /\ running' \in BOOLEAN /\ proc' = "down" /\ lifecycle' = "free"
                /\ task' \in [Tasks -> Calls] /\ \A u \in Tasks : CallOK(task'[u])
                /\ req'.pc = "idle"
  BY <1>lost, <1>none, EmptyRecords DEF LoseMemory, NoReq
<1>1. CASE Shutdown
  BY <1>1 DEF Shutdown, RequestOK, catalogVars, workerVars
<1>2. CASE Joined
  <2>1. st' \in States /\ st'.inc = st.inc /\ st'.gen = st.gen /\ running' \in BOOLEAN
    BY <1>2 DEF Joined, States, Statuses
  <2> QED
    BY <1>2, <2>1 DEF Joined, RequestOK, catalogVars
<1>3. CASE ProcessExit
  BY <1>3, <1>lost DEF ProcessExit, RequestOK, catalogVars
<1>4. CASE Crash
  <2>1. orphaned' \in SUBSET Reservations /\ crashes' \in 0..MaxCrashes
    BY <1>4, Constants DEF Crash, Rows
  <2> QED
    BY <1>4, <1>lost, <2>1 DEF Crash, RequestOK, catalogVars
<1>5. CASE Restart
  BY <1>5 DEF Restart, RequestOK, catalogVars, workerVars
<1>6. CASE \E t \in Tasks : CancelQueued(t)
  <2> PICK t \in Tasks : CancelQueued(t)
    BY <1>6
  <2> QED
    BY <1>none, EmptyRecords, TaskSet DEF CancelQueued, RequestOK, catalogVars, workerVars
<1> QED
  BY <1>1, <1>2, <1>3, <1>4, <1>5, <1>6

\* Every step keeps the types.
LEMMA TypeNext ==
  ASSUME TypeInv, [Next]_vars
  PROVE  TypeInv'
<1>1. CASE Next
  BY <1>1, TypeTaskStep, EnqueueStateTyped, SubmitTyped, ShelfTyped, ProcessTyped
     DEF Next, RequestStep
<1>2. CASE UNCHANGED vars
  BY <1>2 DEF vars, TypeInv, TypeOK, TypeSupport, RequestOK
<1> QED
  BY <1>1, <1>2

\* Every reachable state is well typed: ordinals, generations and incarnations
\* stay within their bounds whatever the interleaving.
THEOREM TypeCorrect == Spec => []TypeOK
<1>1. Spec => []TypeInv
  BY TypeInit, TypeNext, PTL DEF Spec
<1> QED
  BY <1>1, PTL DEF TypeInv


-----------------------------------------------------------------------------
(* The lifecycle lock *)

\* A task's step is its own: every other slot keeps its call.
LEMMA OtherCalls ==
  ASSUME TypeInv, NEW t \in Tasks, TaskStep(t), NEW u \in Tasks, u # t
  PROVE  task'[u] = task[u]
<1>1. \E c : task' = [task EXCEPT ![t] = c]
  BY DEF TaskStep, Goto, Loop, PublishRead, PublishWrite, GateOpen, GateBlocked, GateFails,
         Chapter, Reserve, ReserveRefused, Extracted, ExtractFails, CommitLock,
         StoreChapter, StoreStale, StoreFails, Finalize, FinalizeFails, EndOfPass, Exit,
         Stop, Fail, ResubmitAccepted, ResubmitRefused
<1> QED
  BY <1>1 DEF TypeInv, TypeOK

\* The effect of a step on the catalog row that leaves progress and ledger.
RowKeeps == /\ (row' # NoBook) = (row # NoBook)
            /\ row # NoBook => /\ row'.inc = row.inc
                               /\ row'.progress = row.progress
                               /\ row'.ledger = row.ledger

\* Settling a call takes its reservation and leaves progress and ledger.
LEMMA SettledKeeps ==
  ASSUME TypeInv, NEW t \in Tasks, row' = SettledRow(t)
  PROVE  RowKeeps
<1>1. CASE row = NoBook
  BY <1>1 DEF SettledRow, RowKeeps
<1>2. CASE row # NoBook
  <2>1. row \in Rows /\ row' = [row EXCEPT !.reserved = @ \ {Own(t)}]
    BY <1>2 DEF TypeInv, TypeOK, SettledRow
  <2>2. row' \in Rows
    BY <2>1 DEF Rows
  <2> QED
    BY <1>2, <2>1, <2>2, NoBookAssumption DEF Rows, RowKeeps
<1> QED
  BY <1>1, <1>2

\* So does reserving.
LEMMA ReserveKeeps ==
  ASSUME TypeInv, NEW t \in Tasks, Reserve(t)
  PROVE  RowKeeps
<1>1. CASE UNCHANGED row
  BY <1>1 DEF RowKeeps
<1>2. CASE row # NoBook /\ row' = [row EXCEPT !.reserved = @ \cup {Own(t)}]
  <2>1. Own(t) \in Reservations
    BY DEF Reserve, TypeInv, TypeSupport, CallOK, ChapterPC, Own, Reservations
  <2>2. row \in Rows
    BY <1>2 DEF TypeInv, TypeOK
  <2>3. row' \in Rows
    BY <1>2, <2>1, <2>2 DEF Rows
  <2> QED
    BY <1>2, <2>2, <2>3, NoBookAssumption DEF Rows, RowKeeps
<1> QED
  BY <1>1, <1>2 DEF Reserve

\* No task step changes which incarnation is on the shelf.
LEMMA SameShelf ==
  ASSUME TypeInv, NEW t \in Tasks, TaskStep(t)
  PROVE  /\ (row' # NoBook) = (row # NoBook)
         /\ row # NoBook => row'.inc = row.inc
<1>typed. task \in [Tasks -> Calls] /\ task[t] \in Calls /\ row \in Rows \cup {NoBook}
  BY DEF TypeInv, TypeOK
<1>2. CASE Finalize(t) /\ row' # row
    <3>1. row # NoBook /\ row' = FinalRow(t)
      BY <1>2 DEF Finalize
    <3>2. row'.inc = row.inc
      BY <3>1, <1>typed DEF FinalRow, Rows
    <3>3. row' \in Rows \cup {NoBook} /\ row' # NoBook
      <4>1. task[t].at \in 1..NumChapters
        BY <1>2 DEF Finalize, TypeInv, TypeSupport, CallOK, ChapterPC, Ordinals
      <4>2. Larger(row.progress, task[t].at) \in 0..NumChapters
        BY <1>typed, <3>1, <4>1, Constants DEF Larger, Rows
      <4>3. row' \in Rows
        BY <1>typed, <3>1, <4>1, <4>2 DEF FinalRow, Rows, Ordinals
      <4> QED
        BY <4>3, NoBookAssumption
    <3> QED
      BY <3>1, <3>2, <3>3
<1>3. CASE UNCHANGED row
  BY <1>3
<1>4. Reserve(t) \/ Finalize(t) \/ UNCHANGED row \/ row' = SettledRow(t)
    BY DEF TaskStep, Loop, PublishRead, PublishWrite, GateOpen, GateBlocked, GateFails,
           Chapter, ReserveRefused, Extracted, ExtractFails, CommitLock,
           StoreChapter, StoreStale, StoreFails, FinalizeFails, EndOfPass, Exit,
           Stop, Fail, ResubmitAccepted, ResubmitRefused, catalogVars
<1> QED
  BY <1>2, <1>3, <1>4, SettledKeeps, ReserveKeeps DEF RowKeeps

\* Which task steps touch the lock, and that no other one enters "store".
LEMMA LockTaskStep ==
  ASSUME TypeInv, LockInv, NEW t \in Tasks, TaskStep(t)
  PROVE  LockInv'
<1>typed. task \in [Tasks -> Calls] /\ task[t] \in Calls /\ row \in Rows \cup {NoBook}
  BY DEF TypeInv, TypeOK
<1>req. UNCHANGED req
  BY DEF TaskStep, Goto, Loop, PublishRead, PublishWrite, GateOpen, GateBlocked, GateFails,
         Chapter, Reserve, ReserveRefused, Extracted, ExtractFails, CommitLock,
         StoreChapter, StoreStale, StoreFails, Finalize, FinalizeFails, EndOfPass, Exit,
         Stop, Fail, ResubmitAccepted, ResubmitRefused
<1>shelf. /\ (row' # NoBook) = (row # NoBook)
          /\ row # NoBook => row'.inc = row.inc
  BY SameShelf
<1>1. CASE CommitLock(t)
  <2>1. CASE Current(t)
    <3>1. task' = [task EXCEPT ![t].pc = "store"] /\ lifecycle' = t /\ row' = row
      BY <1>1, <2>1 DEF CommitLock, Goto
    <3>2. task'[t].inc = task[t].inc /\ row # NoBook /\ row.inc = task[t].inc
      BY <3>1, <2>1, <1>typed DEF Current, Calls
    <3>3. \A u \in Tasks : u # t => task[u].pc # "store" /\ task'[u] = task[u]
      BY <1>1, <3>1, <1>typed, NoHolderAssumption DEF CommitLock, LockInv, LifecycleFree
    <3>4. req'.pc # "enqueue"
      BY <1>1, <1>req DEF CommitLock, LockInv, LifecycleFree
    <3> QED
      BY <3>1, <3>2, <3>3, <3>4 DEF LockInv
  <2>2. CASE ~Current(t)
    <3>1. task'[t].pc = "fail" /\ lifecycle' = lifecycle
      BY <1>1, <2>2, <1>typed DEF CommitLock, Goto, Calls
    <3>2. \A u \in Tasks : u # t => task'[u] = task[u]
      BY OtherCalls
    <3> QED
      BY <3>1, <3>2, <1>shelf, <1>req DEF LockInv
  <2> QED
    BY <2>1, <2>2
<1>2. CASE StoreChapter(t) \/ StoreStale(t) \/ StoreFails(t)
  <2>1. lifecycle = t /\ lifecycle' = "free" /\ task'[t].pc # "store"
    <3>1. task'[t].pc \in {"finalize", "commit", "fail"}
      BY <1>2, <1>typed DEF StoreChapter, StoreStale, StoreFails, Calls
    <3> QED
      BY <1>2, <3>1 DEF StoreChapter, StoreStale, StoreFails, LockInv
  <2>2. req.pc # "enqueue" /\ \A u \in Tasks : u # t => task[u].pc # "store" /\ task'[u] = task[u]
    BY <2>1, OtherCalls, NoHolderAssumption DEF LockInv
  <2> QED
    BY <2>1, <2>2, <1>req DEF LockInv
<1>3. CASE UNCHANGED lifecycle /\ task[t].pc # "store" /\ task'[t].pc # "store"
  <2>1. \A u \in Tasks : u # t => task'[u] = task[u]
    BY OtherCalls
  <2> QED
    BY <1>3, <2>1, <1>shelf, <1>req DEF LockInv
<1>4. ASSUME ~CommitLock(t), ~StoreChapter(t), ~StoreStale(t), ~StoreFails(t)
      PROVE  UNCHANGED lifecycle /\ task[t].pc # "store" /\ task'[t].pc # "store"
  <2>1. ASSUME NEW pc \in TaskPC \ {"store"}, Goto(t, pc)
        PROVE  task'[t].pc # "store"
    BY <2>1, <1>typed DEF Goto, Calls
  <2>2. ASSUME task' = [task EXCEPT ![t] = NoTask]
        PROVE  task'[t].pc # "store"
    BY <2>2, <1>typed DEF NoTask
  <2>0. UNCHANGED lifecycle /\ task[t].pc # "store"
    BY <1>4 DEF TaskStep, Loop, PublishRead, PublishWrite, GateOpen, GateBlocked, GateFails,
           Chapter, Reserve, ReserveRefused, Extracted, ExtractFails, Finalize, FinalizeFails,
           EndOfPass, Exit, Stop, Fail, ResubmitAccepted, ResubmitRefused
  <2>3. CASE Loop(t) \/ GateOpen(t) \/ Fail(t) \/ ResubmitAccepted(t)
    <3>1. CASE Loop(t)
      <4>1. CASE Stopping
        BY <3>1, <4>1, <2>1 DEF Loop, TaskPC
      <4>2. CASE ~Stopping
        BY <3>1, <4>2, <1>typed DEF Loop, NoTask
      <4> QED
        BY <4>1, <4>2
    <3>2. CASE GateOpen(t)
      BY <3>2, <1>typed DEF GateOpen, Calls
    <3>3. CASE Fail(t) \/ ResubmitAccepted(t)
      <4> DEFINE heir == [NoTask EXCEPT !.pc = "resubmit", !.gen = st.gen, !.inc = st.inc]
                 next == [NoTask EXCEPT !.pc = "queued"]
      <4>1. heir.pc = "resubmit" /\ next.pc = "queued" /\ NoTask.pc = "none"
        BY DEF NoTask
      <4>2. task'[t] \in {heir, next, NoTask}
        BY <3>3, <1>typed DEF Fail, ResubmitAccepted
      <4> HIDE DEF heir, next
      <4> QED
        BY <4>1, <4>2, <2>0
    <3> QED
      BY <2>3, <3>1, <3>2, <3>3
  <2>4. CASE PublishWrite(t)
    BY <2>4, <2>1, <1>typed DEF PublishWrite, Calls, TaskPC
  <2>5. CASE Exit(t) \/ Stop(t)
    BY <2>5, <2>1, <2>2 DEF Exit, Stop, TaskPC
  <2>6. CASE Chapter(t)
    BY <2>6, <2>1 DEF Chapter, ChapterNext, TaskPC
  <2>7. CASE PublishRead(t) \/ GateBlocked(t) \/ GateFails(t) \/ Reserve(t) \/ ReserveRefused(t)
    BY <2>7, <2>1 DEF PublishRead, GateBlocked, GateFails, Reserve, ReserveRefused, TaskPC
  <2>8. CASE \/ Extracted(t) \/ ExtractFails(t) \/ Finalize(t) \/ FinalizeFails(t)
             \/ EndOfPass(t) \/ ResubmitRefused(t)
    BY <2>8, <2>1 DEF Extracted, ExtractFails, Finalize, FinalizeFails, EndOfPass,
                      ResubmitRefused, TaskPC
  <2> QED
    BY <1>4, <2>3, <2>4, <2>5, <2>6, <2>7, <2>8, <2>0 DEF TaskStep
<1> QED
  BY <1>1, <1>2, <1>3, <1>4

\* A task at its transaction has the lifecycle lock, and the book it began with is
\* still shelved, after every step.
LEMMA LockNext ==
  ASSUME TypeInv, LockInv, [Next]_vars
  PROVE  LockInv'
<1> USE DEF catalogVars, workerVars
<1>typed. task \in [Tasks -> Calls] /\ row \in Rows \cup {NoBook}
  BY DEF TypeInv, TypeOK
<1>held. ASSUME lifecycle = "free" PROVE \A u \in Tasks : task[u].pc # "store"
  BY <1>held, NoHolderAssumption DEF LockInv
<1>lost. ASSUME LoseMemory PROVE LockInv'
  BY <1>lost DEF LoseMemory, LockInv, NoTask, NoReq
<1>1. CASE Import \/ Shutdown \/ Joined \/ Restart
  BY <1>1 DEF Import, Shutdown, Joined, Restart, LockInv
<1>2. CASE Delete
  BY <1>2, <1>held DEF Delete, LifecycleFree, LockInv
<1>3. ASSUME NEW n \in Ordinals, EnqueueRead(n) PROVE LockInv'
  BY <1>3, <1>held DEF EnqueueRead, LifecycleFree, LockInv
<1>4. CASE EnqueueState
  <2>1. req'.pc # "enqueue"
    <3>1. CASE Stopping
      BY <1>4, <3>1 DEF EnqueueState, NoReq
    <3>2. CASE ~Stopping
      <4> DEFINE submission == [req EXCEPT !.pc = "submit", !.gen = Enqueued.gen]
      <4>1. submission.pc = "submit"
        BY DEF TypeInv, TypeOK, Requests
      <4>2. req' = submission \/ req' = NoReq
        BY <1>4, <3>2 DEF EnqueueState
      <4> HIDE DEF submission
      <4> QED
        BY <4>1, <4>2 DEF NoReq
    <3> QED
      BY <3>1, <3>2
  <2>2. \A u \in Tasks : task[u].pc # "store"
    BY <1>4, NoHolderAssumption DEF EnqueueState, LockInv
  <2> QED
    BY <1>4, <2>1, <2>2 DEF EnqueueState, LockInv
<1>5. CASE SubmitRefused
  <2>1. req'.pc # "enqueue"
    BY <1>5 DEF SubmitRefused, NoReq, TypeInv, TypeOK, Requests
  <2> QED
    BY <1>5, <2>1 DEF SubmitRefused, LockInv
<1>6. ASSUME NEW t \in Tasks, SubmitAccepted(t) \/ CancelQueued(t) PROVE LockInv'
  BY <1>6, <1>typed DEF SubmitAccepted, CancelQueued, LockInv, NoTask, NoReq
<1>7. CASE ProcessExit \/ Crash
  BY <1>7, <1>lost DEF ProcessExit, Crash
<1>8. CASE ReconcileCosts
  <2>1. row # NoBook /\ row' = [row EXCEPT !.reserved = {}] /\ row \in Rows
    BY <1>8, <1>typed DEF ReconcileCosts
  <2>2. row'.inc = row.inc /\ row' \in Rows
    BY <2>1 DEF Rows
  <2> QED
    BY <1>8, <2>1, <2>2, NoBookAssumption DEF ReconcileCosts, LockInv
<1>9. CASE UNCHANGED vars
  BY <1>9 DEF vars, LockInv
<1> QED
  BY <1>1, <1>2, <1>3, <1>4, <1>5, <1>6, <1>7, <1>8, <1>9, LockTaskStep DEF Next, RequestStep

\* Whatever delete, import, enqueue, crash and shutdown do meanwhile, a chapter
\* is only made durable for the incarnation that is on the shelf: the check and
\* the transaction of _ingest_upto are under one hold of book_lifecycle.
THEOREM NoStaleCommit == Spec => CommitsBelongToTheShelf
<1>1. Init => LockInv
  BY DEF Init, LockInv, NoTask, NoReq
<1>2. ASSUME LockInv, [Next]_vars
      PROVE  [durable' # durable =>
                \E t \in Tasks : /\ task[t].pc = "store"
                                /\ row # NoBook
                                /\ row.inc = task[t].inc]_vars
  <2>1. CASE \E t \in Tasks : StoreChapter(t)
    BY <1>2, <2>1 DEF StoreChapter, LockInv
  <2>2. ASSUME ~\E t \in Tasks : StoreChapter(t) PROVE UNCHANGED durable
    <3>1. ASSUME NEW t \in Tasks, TaskStep(t) PROVE UNCHANGED durable
      <4>1. ~StoreChapter(t)
        BY <2>2
      <4>2. CASE \/ Loop(t) \/ PublishRead(t) \/ PublishWrite(t) \/ GateOpen(t)
                 \/ GateBlocked(t) \/ GateFails(t) \/ Chapter(t)
        BY <4>2 DEF Loop, PublishRead, PublishWrite, GateOpen, GateBlocked, GateFails, Chapter, Stop, Fail
      <4>3. CASE \/ Reserve(t) \/ ReserveRefused(t) \/ Extracted(t) \/ ExtractFails(t)
                 \/ CommitLock(t) \/ StoreStale(t) \/ StoreFails(t)
        BY <4>3 DEF Reserve, ReserveRefused, Extracted, ExtractFails, CommitLock, StoreStale, StoreFails,
                    Stop, Fail
      <4> QED
        BY <3>1, <4>1, <4>2, <4>3
           DEF TaskStep, Finalize, FinalizeFails, EndOfPass, Exit, Stop, Fail, ResubmitAccepted, ResubmitRefused
    <3>2. CASE RequestStep
      BY <3>2 DEF RequestStep, EnqueueState, SubmitRefused, SubmitAccepted
    <3>3. ASSUME NEW t \in Tasks, CancelQueued(t) PROVE UNCHANGED durable
      BY <3>3 DEF CancelQueued
    <3>4. ASSUME NEW n \in Ordinals, EnqueueRead(n) PROVE UNCHANGED durable
      BY <3>4 DEF EnqueueRead
    <3>5. CASE Import \/ Delete \/ Shutdown \/ Joined
      BY <3>5 DEF Import, Delete, Shutdown, Joined
    <3>6. CASE ProcessExit \/ Crash \/ Restart \/ ReconcileCosts \/ UNCHANGED vars
      BY <3>6 DEF ProcessExit, Crash, Restart, ReconcileCosts, vars
    <3> QED
      BY <1>2, <3>1, <3>2, <3>3, <3>4, <3>5, <3>6 DEF Next
  <2> QED
    BY <2>1, <2>2
<1> QED
  BY <1>1, <1>2, TypeInit, TypeNext, LockNext, PTL DEF Spec, CommitsBelongToTheShelf

-----------------------------------------------------------------------------
(* One driver per book *)

\* A task's step either keeps it going, under `_running`, or takes the book out
\* of `_running` together with the task.
GoesOn(t) ==
    /\ task'[t].pc # "none"
    /\ \/ UNCHANGED running /\ (st'.status = "done" => st.status = "done")
       \/ running' /\ st'.status # "done"
Leaves(t) == task'[t].pc = "none" /\ ~running'

\* What a step of a task may do to its book's state and to the other tasks.
LEMMA TaskOutcome ==
  ASSUME TypeInv, NEW t \in Tasks, TaskStep(t)
  PROVE  Active(t) /\ UNCHANGED <<proc, req>> /\ (GoesOn(t) \/ Leaves(t))
<1>typed. task \in [Tasks -> Calls] /\ task[t] \in Calls /\ st \in States
  BY DEF TypeInv, TypeOK
<1>0. Active(t) /\ UNCHANGED <<proc, req>>
  BY DEF Active, TaskStep, Goto, Loop, PublishRead, PublishWrite, GateOpen, GateBlocked, GateFails,
         Chapter, Reserve, ReserveRefused, Extracted, ExtractFails, CommitLock,
         StoreChapter, StoreStale, StoreFails, Finalize, FinalizeFails, EndOfPass, Exit,
         Stop, Fail, ResubmitAccepted, ResubmitRefused
<1> DEFINE Quiet == UNCHANGED running /\ (st'.status = "done" => st.status = "done")
           gone == NoTask
<1>goto. ASSUME NEW pc \in TaskPC \ {"none"}, Goto(t, pc), Quiet PROVE GoesOn(t)
  BY <1>goto, <1>typed DEF Goto, Calls, GoesOn
<1>gone. ASSUME task' = [task EXCEPT ![t] = NoTask], running' = FALSE PROVE Leaves(t)
  BY <1>gone, <1>typed DEF NoTask, Leaves
<1>1. CASE Loop(t)
  <2>1. CASE Stopping
    BY <1>0, <1>1, <2>1, <1>goto DEF Loop, TaskPC, workerVars
  <2>2. CASE ~Stopping
    <3> DEFINE c == [NoTask EXCEPT !.pc = "publish", !.target = st.target,
                                   !.gen = st.gen, !.inc = st.inc]
    <3>1. c.pc = "publish"
      BY DEF NoTask
    <3>2. task'[t] = c /\ Quiet
      BY <1>1, <2>2, <1>typed DEF Loop, workerVars
    <3> HIDE DEF c
    <3> QED
      BY <1>0, <3>1, <3>2 DEF GoesOn
  <2> QED
    BY <2>1, <2>2, <1>0
<1>2. CASE GateOpen(t) \/ StoreChapter(t) \/ StoreStale(t) \/ StoreFails(t)
  <2>1. Quiet
    BY <1>2 DEF GateOpen, StoreChapter, StoreStale, StoreFails, workerVars
  <2>2. task'[t].pc \in {"chapter", "finalize", "commit", "fail"}
    BY <1>2, <1>typed DEF GateOpen, StoreChapter, StoreStale, StoreFails, Calls
  <2> QED
    BY <1>0, <2>1, <2>2 DEF GoesOn
<1>3. CASE PublishWrite(t)
  <2>1. Quiet
    BY <1>3 DEF PublishWrite
  <2>2. task'[t].pc \in {"gate", "chapter", "end", "fail"}
    BY <1>3, <1>typed DEF PublishWrite, Goto, Calls
  <2> QED
    BY <1>0, <2>1, <2>2 DEF GoesOn
<1>4. CASE GateBlocked(t)
  <2>1. Quiet
    BY <1>4, <1>typed DEF GateBlocked, States
  <2> QED
    BY <1>0, <1>4, <2>1, <1>goto DEF GateBlocked, TaskPC
<1>5. CASE \/ Chapter(t) \/ PublishRead(t) \/ GateFails(t) \/ Reserve(t) \/ ReserveRefused(t)
           \/ Extracted(t) \/ ExtractFails(t) \/ CommitLock(t)
           \/ Finalize(t) \/ FinalizeFails(t) \/ EndOfPass(t) \/ ResubmitRefused(t)
  <2>1. Quiet
    BY <1>5 DEF Chapter, PublishRead, GateFails, Reserve, ReserveRefused, Extracted, ExtractFails,
                CommitLock, Finalize, FinalizeFails, EndOfPass, ResubmitRefused, workerVars
  <2>2. \E pc \in TaskPC \ {"none"} : Goto(t, pc)
    <3>1. CASE Chapter(t)
      BY <3>1 DEF Chapter, ChapterNext, TaskPC
    <3>2. CASE PublishRead(t) \/ GateFails(t) \/ Reserve(t) \/ ReserveRefused(t)
      BY <3>2 DEF PublishRead, GateFails, Reserve, ReserveRefused, TaskPC
    <3>3. CASE Extracted(t) \/ ExtractFails(t) \/ CommitLock(t)
      BY <3>3 DEF Extracted, ExtractFails, CommitLock, TaskPC
    <3>4. CASE Finalize(t) \/ FinalizeFails(t) \/ EndOfPass(t) \/ ResubmitRefused(t)
      BY <3>4 DEF Finalize, FinalizeFails, EndOfPass, ResubmitRefused, TaskPC
    <3> QED
      BY <1>5, <3>1, <3>2, <3>3, <3>4
  <2> QED
    BY <1>0, <2>1, <2>2, <1>goto
<1>6. CASE Exit(t)
  <2>1. CASE task' = [task EXCEPT ![t] = NoTask] /\ running' = FALSE
    BY <1>0, <2>1, <1>gone
  <2>2. CASE Goto(t, "loop") /\ UNCHANGED <<st, running>>
    BY <1>0, <2>2, <1>goto DEF TaskPC
  <2> QED
    BY <1>6, <2>1, <2>2 DEF Exit
<1>7. CASE Stop(t)
  BY <1>0, <1>7, <1>gone DEF Stop
<1>8. CASE Fail(t)
  <2> DEFINE status == FailureStatus(task[t].gen, task[t].inc)
  <2>1. CASE status = "running"
    <3> DEFINE c == [NoTask EXCEPT !.pc = "resubmit", !.gen = st.gen, !.inc = st.inc]
    <3>1. c.pc = "resubmit"
      BY DEF NoTask
    <3>2. task'[t] = c /\ running' /\ st'.status = "running"
      BY <1>8, <2>1, <1>typed DEF Fail, StaysRunning, States
    <3> HIDE DEF c
    <3> QED
      BY <1>0, <3>1, <3>2 DEF GoesOn
  <2>2. CASE status # "running"
    BY <1>0, <1>8, <2>2, <1>gone DEF Fail, StaysRunning
  <2> QED
    BY <2>1, <2>2
<1>9. CASE ResubmitAccepted(t)
  <2>1. Quiet /\ task'[t] = [NoTask EXCEPT !.pc = "queued"]
    BY <1>9, <1>typed DEF ResubmitAccepted, workerVars
  <2> QED
    BY <1>0, <2>1 DEF GoesOn, NoTask
<1> QED
  BY <1>1, <1>2, <1>3, <1>4, <1>5, <1>6, <1>7, <1>8, <1>9 DEF TaskStep

\* A book marked running keeps a driver through every step.
LEMMA DriverNext ==
  ASSUME TypeInv, DriverInv, NoWedge, [Next]_vars
  PROVE  DriverInv' /\ NoWedge'
<1> USE DEF catalogVars, workerVars
<1>typed. task \in [Tasks -> Calls] /\ running \in BOOLEAN /\ st \in States /\ req \in Requests
  BY DEF TypeInv, TypeOK
<1>none. NoTask.pc = "none" /\ NoReq.pc = "idle" /\ NoState.status = "idle"
  BY DEF NoTask, NoReq, NoState
<1>lost. ASSUME LoseMemory PROVE DriverInv' /\ NoWedge'
  <2>1. \A t \in Tasks : ~Active(t)'
    BY <1>lost, <1>none DEF LoseMemory, Active
  <2> QED
    BY <1>lost, <1>none, <2>1 DEF LoseMemory, DriverInv, SingleFlight, NoWedge
<1>0. ASSUME NEW t \in Tasks, TaskStep(t) PROVE DriverInv' /\ NoWedge'
  <2>1. Active(t) /\ UNCHANGED <<proc, req>> /\ (GoesOn(t) \/ Leaves(t))
    BY <1>0, TaskOutcome
  <2>2. /\ \A u \in Tasks : u # t => ~Active(u) /\ ~Active(u)'
        /\ req.pc # "submit" /\ running /\ proc \notin {"joined", "down"}
    BY <1>0, <2>1, OtherCalls DEF DriverInv, SingleFlight, Active
  <2>3. CASE GoesOn(t)
    BY <2>1, <2>2, <2>3 DEF GoesOn, DriverInv, SingleFlight, NoWedge, Active
  <2>4. CASE Leaves(t)
    BY <2>1, <2>2, <2>4 DEF Leaves, DriverInv, SingleFlight, NoWedge, Active
  <2> QED
    BY <2>1, <2>3, <2>4
<1>1. CASE Import \/ Delete \/ Shutdown \/ Restart \/ ReconcileCosts
  BY <1>1 DEF Import, Delete, Shutdown, Restart, ReconcileCosts, DriverInv, SingleFlight, NoWedge,
              Active
<1>2. ASSUME NEW n \in Ordinals, EnqueueRead(n) PROVE DriverInv' /\ NoWedge'
  BY <1>2 DEF EnqueueRead, Alive, DriverInv, SingleFlight, NoWedge, Active
<1>3. CASE EnqueueState
  <2>0. req.pc = "enqueue" /\ UNCHANGED <<proc, task>>
    BY <1>3 DEF EnqueueState
  <2>1. CASE Stopping
    BY <1>3, <2>0, <2>1, <1>none DEF EnqueueState, DriverInv, SingleFlight, NoWedge, Active, Stopping
  <2>2. CASE ~Stopping
    <3>1. st'.status # "done" /\ running'
      <4>1. Enqueued.status = "running"
        BY <1>typed DEF Enqueued, States
      <4> QED
        BY <1>3, <2>2, <4>1 DEF EnqueueState
    <3>2. CASE NeedsSubmit
      <4>1. \A t \in Tasks : ~Active(t) /\ ~Active(t)'
        BY <2>0, <3>2 DEF NeedsSubmit, DriverInv, Active
      <4>2. req'.pc = "submit"
        BY <1>3, <1>typed, <2>2, <3>2 DEF EnqueueState, Requests
      <4>3. proc # "down"
        BY <2>0 DEF DriverInv
      <4> QED
        BY <2>0, <3>1, <4>1, <4>2, <4>3 DEF DriverInv, SingleFlight, NoWedge
    <3>3. CASE ~NeedsSubmit
      <4>1. req'.pc = "idle"
        BY <1>3, <1>none, <2>2, <3>3 DEF EnqueueState
      <4>2. proc # "down"
        BY <2>0 DEF DriverInv
      <4> QED
        BY <2>0, <3>1, <3>3, <4>1, <4>2 DEF NeedsSubmit, DriverInv, SingleFlight, NoWedge, Active
    <3> QED
      BY <3>2, <3>3
  <2> QED
    BY <2>1, <2>2
<1>4. CASE SubmitRefused
  <2> DEFINE status == FailureStatus(req.gen, req.inc)
  <2>1. /\ \A t \in Tasks : ~Active(t) /\ ~Active(t)'
        /\ UNCHANGED proc /\ st'.status = status /\ status # "done" /\ req.pc = "submit"
        /\ proc # "down"
    BY <1>4, <1>typed DEF SubmitRefused, DriverInv, SingleFlight, Active, States, FailureStatus
  <2>2. running' => req'.pc = "submit"
    BY <1>4, <1>typed DEF SubmitRefused, StaysRunning, Requests
  <2>3. ~running' => req'.pc = "idle"
    BY <1>4, <1>none DEF SubmitRefused, StaysRunning
  <2> HIDE DEF status
  <2> QED
    BY <2>1, <2>2, <2>3 DEF DriverInv, SingleFlight, NoWedge
<1>5. ASSUME NEW t \in Tasks, SubmitAccepted(t) PROVE DriverInv' /\ NoWedge'
  <2>1. /\ running /\ running' /\ UNCHANGED <<proc, st>> /\ req'.pc = "idle"
        /\ proc \notin {"joined", "down"}
        /\ \A u \in Tasks : ~Active(u)
    BY <1>5, <1>none DEF SubmitAccepted, DriverInv, SingleFlight
  <2>2. Active(t)'
    <3>1. [NoTask EXCEPT !.pc = "queued"].pc = "queued"
      BY DEF NoTask
    <3> QED
      BY <1>5, <1>typed, <3>1 DEF SubmitAccepted, Active
  <2>3. \A u \in Tasks : u # t => ~Active(u)'
    BY <1>5, <1>typed, <2>1 DEF SubmitAccepted, Active
  <2> QED
    BY <2>1, <2>2, <2>3 DEF DriverInv, SingleFlight, NoWedge
<1>6. ASSUME NEW t \in Tasks, CancelQueued(t) PROVE DriverInv' /\ NoWedge'
  <2>1. UNCHANGED <<proc, req, running, st>> /\ proc = "stopping"
    BY <1>6 DEF CancelQueued
  <2>2. \A u \in Tasks : Active(u)' => Active(u)
    BY <1>6, <1>typed, <1>none DEF CancelQueued, Active
  <2> QED
    BY <2>1, <2>2 DEF DriverInv, SingleFlight, NoWedge
<1>7. CASE Joined
  <2>1. /\ \A u \in Tasks : ~Active(u) /\ ~Active(u)'
        /\ proc' = "joined" /\ ~running' /\ UNCHANGED req
    BY <1>7 DEF Joined, Drained, Active
  <2> QED
    BY <2>1 DEF DriverInv, SingleFlight, NoWedge
<1>8. CASE ProcessExit \/ Crash
  BY <1>8, <1>lost DEF ProcessExit, Crash
<1>9. CASE UNCHANGED vars
  BY <1>9 DEF vars, DriverInv, SingleFlight, NoWedge, Active
<1> QED
  BY <1>0, <1>1, <1>2, <1>3, <1>4, <1>5, <1>6, <1>7, <1>8, <1>9 DEF Next, RequestStep

\* No book is marked running at first.
LEMMA DriverInit == Init => DriverInv /\ NoWedge
  BY DEF Init, DriverInv, NoWedge, SingleFlight, Active, NoTask, NoReq, NoState

\* At most one `_run` call or submission drives a book: `_running` and the
\* mutex admit one, and failure, hand-over, shutdown and crash never leave a
\* second one behind.
THEOREM OneDriver == Spec => []SingleFlight
<1>1. DriverInv => SingleFlight
  BY DEF DriverInv
<1> QED
  BY <1>1, TypeInit, TypeNext, DriverInit, DriverNext, PTL DEF Spec

\* A book in `_running` always has somebody who will take it out again: no exit
\* path of `_run`, `_submit` or `shutdown` forgets the flag.
THEOREM NeverWedged == Spec => []NoWedge
  BY TypeInit, TypeNext, DriverInit, DriverNext, PTL DEF Spec

-----------------------------------------------------------------------------
(* The whole pass *)

\* Goto moves a call and changes nothing else of it.
LEMMA GotoFields ==
  ASSUME TypeInv, NEW t \in Tasks, NEW pc \in TaskPC, Goto(t, pc)
  PROVE  /\ task'[t].pc = pc /\ task'[t].at = task[t].at /\ task'[t].inc = task[t].inc
         /\ task'[t].gen = task[t].gen /\ task'[t].target = task[t].target
  BY DEF TypeInv, TypeOK, Goto, Calls

\* What no task step touches, and the parts of the worker state it keeps.
LEMMA TaskFrame ==
  ASSUME TypeInv, NEW t \in Tasks, TaskStep(t)
  PROVE  /\ UNCHANGED <<imports, proc, req, crashes, orphaned>>
         /\ st'.inc = st.inc /\ st'.gen = st.gen /\ st'.target = st.target
<1>1. UNCHANGED <<imports, proc, req, crashes, orphaned>>
  BY DEF TaskStep, Loop, PublishRead, PublishWrite, GateOpen, GateBlocked, GateFails,
         Chapter, Reserve, ReserveRefused, Extracted, ExtractFails, CommitLock,
         StoreChapter, StoreStale, StoreFails, Finalize, FinalizeFails, EndOfPass, Exit,
         Stop, Fail, ResubmitAccepted, ResubmitRefused, catalogVars
<1>2. UNCHANGED st \/ \E s \in Statuses : st' = [st EXCEPT !.status = s]
  <2>1. CASE GateBlocked(t) \/ Exit(t) \/ Stop(t)
    BY <2>1 DEF GateBlocked, Exit, Stop, Statuses
  <2>2. CASE Fail(t)
    BY <2>2 DEF Fail, FailureStatus, Statuses
  <2>3. ASSUME ~GateBlocked(t), ~Exit(t), ~Stop(t), ~Fail(t) PROVE UNCHANGED st
    BY <2>3
       DEF TaskStep, Loop, PublishRead, PublishWrite, GateOpen, GateFails,
           Chapter, Reserve, ReserveRefused, Extracted, ExtractFails, CommitLock,
           StoreChapter, StoreStale, StoreFails, Finalize, FinalizeFails, EndOfPass,
           ResubmitAccepted, ResubmitRefused, workerVars
  <2> QED
    BY <2>1, <2>2, <2>3
<1> QED
  BY <1>1, <1>2 DEF TypeInv, TypeOK, States

\* A call at rest claims nothing.
LEMMA AtRest ==
  ASSUME NEW t \in Tasks, task[t].pc = "none"
  PROVE  CallPart(t)
  BY DEF CallPart, OrderOf, ChapterOf, PassOf, Active, BeforeMarker, AfterMarker, ChapterPC, InPass

\* While one call drives the book, the others are at rest.
LEMMA OthersAtRest ==
  ASSUME TypeInv, DriverInv, NEW t \in Tasks, TaskStep(t), NEW u \in Tasks, u # t
  PROVE  task[u].pc = "none" /\ task'[u].pc = "none"
  BY TaskOutcome, OtherCalls DEF DriverInv, SingleFlight, Active

\* The rest of a step's proof once its call and the shelf's part are known.
LEMMA OneCallStep ==
  ASSUME TypeInv, DriverInv, NEW t \in Tasks, TaskStep(t), ShelfPart', CallPart(t)'
  PROVE  PassesInv'
<1>1. ASSUME NEW u \in Tasks, u # t PROVE CallPart(u)'
  <2>1. task'[u].pc = "none"
    BY <1>1, OthersAtRest
  <2> QED
    BY <2>1 DEF CallPart, OrderOf, ChapterOf, PassOf, Active, BeforeMarker, AfterMarker, ChapterPC, InPass
<1> QED
  BY <1>1 DEF PassesInv

\* The shelf's part when a step leaves shelf, marker and frontier alone.
LEMMA ShelfStays ==
  ASSUME PassesInv, RowKeeps, UNCHANGED <<imports, durable, verified>>,
         st'.inc = st.inc, st'.gen = st.gen, st'.target = st.target,
         st'.status = "done" => st.status = "done"
  PROVE  ShelfPart'
<1>1. ShelfOrder' /\ Prefix' /\ ProgressIsDurable'
  BY DEF PassesInv, ShelfPart, ShelfOrder, Prefix, ProgressIsDurable, RowKeeps
<1>2. VerifiedIsReconciled' /\ DoneMeansValidated'
  BY DEF PassesInv, ShelfPart, VerifiedIsReconciled, DoneMeansValidated, RowKeeps
<1> QED
  BY <1>1, <1>2 DEF ShelfPart

\* A step that only moves the call to another place, forwards in its pass or
\* out of it.
LEMMA QuietStep ==
  ASSUME TypeInv, DriverInv, PassesInv, NEW t \in Tasks, TaskStep(t), RowKeeps,
         UNCHANGED <<durable, verified>>, st'.status = "done" => st.status = "done",
         NEW pc \in TaskPC, Goto(t, pc),
         pc \in BeforeMarker => task[t].pc \in BeforeMarker,
         pc \in AfterMarker => task[t].pc \in AfterMarker \/ (pc = "finalize" /\ task[t].at \in durable),
         pc \in AfterMarker \ {"finalize"} => task[t].pc \in AfterMarker \ {"finalize"},
         pc \in {"end", "exit"} => task[t].pc \in {"end", "exit"},
         pc \in InPass => task[t].pc \in InPass,
         pc \in ChapterPC => task[t].pc \in ChapterPC
  PROVE  PassesInv'
<1>fields. /\ task'[t].pc = pc /\ task'[t].at = task[t].at /\ task'[t].inc = task[t].inc
           /\ task'[t].gen = task[t].gen /\ task'[t].target = task[t].target
  BY GotoFields
<1>frame. /\ UNCHANGED imports
          /\ st'.inc = st.inc /\ st'.gen = st.gen /\ st'.target = st.target
  BY TaskFrame
<1>active. Active(t)
  BY TaskOutcome
<1>1. ShelfPart'
  BY <1>frame, ShelfStays
<1>2. CallPart(t)'
  <2>1. OrderOf(t)'
    BY <1>fields, <1>frame, <1>active DEF PassesInv, CallPart, OrderOf
  <2>2. PassOf(t)'
    BY <1>fields, <1>frame DEF PassesInv, CallPart, PassOf
  <2>3. ChapterOf(t)'
    <3>1. pc \in BeforeMarker => 1..(task[t].at - 1) \subseteq durable
      BY DEF PassesInv, CallPart, ChapterOf
    <3>2. pc \in AfterMarker => 1..task[t].at \subseteq durable
      <4>1. task[t].at \in 0..NumChapters
        BY DEF TypeInv, TypeOK, Calls
      <4>2. task[t].at \in durable => 1..task[t].at \subseteq durable
        BY <4>1, Constants DEF PassesInv, ShelfPart, Prefix
      <4> QED
        BY <4>2 DEF PassesInv, CallPart, ChapterOf
    <3>3. row' # NoBook /\ row'.inc = task[t].inc =>
            /\ pc \in ChapterPC => task[t].at <= row'.progress + 1
            /\ pc \in AfterMarker \ {"finalize"} => task[t].at <= row'.progress
      BY DEF PassesInv, CallPart, ChapterOf, RowKeeps
    <3> QED
      BY <1>fields, <3>1, <3>2, <3>3 DEF ChapterOf
  <2> QED
    BY <2>1, <2>2, <2>3 DEF CallPart
<1> QED
  BY <1>1, <1>2, OneCallStep

\* A step that takes the call out of its pass.
LEMMA OutStep ==
  ASSUME TypeInv, DriverInv, PassesInv, NEW t \in Tasks, TaskStep(t), RowKeeps,
         UNCHANGED <<durable, verified>>, st'.status # "done",
         task'[t].pc \in {"none", "queued", "loop", "fail", "resubmit"},
         task'[t].pc # "none" => /\ task'[t].inc <= st.inc
                                 /\ task'[t].inc = st.inc => task'[t].gen <= st.gen
  PROVE  PassesInv'
<1>frame. /\ UNCHANGED imports
          /\ st'.inc = st.inc /\ st'.gen = st.gen /\ st'.target = st.target
  BY TaskFrame
<1>1. ShelfPart'
  BY <1>frame, ShelfStays
<1>2. CallPart(t)'
  BY <1>frame DEF CallPart, OrderOf, ChapterOf, PassOf, Active, BeforeMarker, AfterMarker,
                  ChapterPC, InPass
<1> QED
  BY <1>1, <1>2, OneCallStep

\* The top of `_run`: a pass starts from the newest enqueue, with nothing done.
LEMMA LoopPasses ==
  ASSUME TypeInv, DriverInv, PassesInv, NEW t \in Tasks, Loop(t)
  PROVE  PassesInv'
<1>step. TaskStep(t) /\ RowKeeps
  BY DEF TaskStep, Loop, RowKeeps, catalogVars
<1>1. CASE Stopping
  BY <1>step, <1>1, QuietStep DEF Loop, TaskPC, BeforeMarker, AfterMarker, InPass, ChapterPC, workerVars
<1>2. CASE ~Stopping
  <2> DEFINE c == [NoTask EXCEPT !.pc = "publish", !.target = st.target,
                                 !.gen = st.gen, !.inc = st.inc]
  <2>1. task'[t] = c /\ UNCHANGED <<st, durable, verified, imports>>
    BY <1>2 DEF Loop, TypeInv, TypeOK, catalogVars, workerVars
  <2>2. c.pc = "publish" /\ c.target = st.target /\ c.gen = st.gen /\ c.inc = st.inc /\ c.at = 0
    BY DEF NoTask
  <2> HIDE DEF c
  <2>3. ShelfPart'
    BY <1>step, <2>1, ShelfStays
  <2>4. st \in States /\ (row # NoBook => row.progress \in Nat)
    BY DEF TypeInv, TypeOK, Rows
  <2>5. OrderOf(t)' /\ PassOf(t)'
    BY <2>1, <2>2, <2>4 DEF OrderOf, PassOf, Active, InPass, AfterMarker, BeforeMarker, States
  <2>6. ChapterOf(t)'
    BY <1>step, <2>1, <2>2, <2>4 DEF ChapterOf, AfterMarker, BeforeMarker, ChapterPC, RowKeeps
  <2> QED
    BY <1>step, <2>3, <2>5, <2>6, OneCallStep DEF CallPart
<1> QED
  BY <1>1, <1>2

\* _publish_validated: only a pass that serves the newest enqueue publishes, and
\* what it publishes is durable and reconciled.
LEMMA PublishPasses ==
  ASSUME TypeInv, DriverInv, PassesInv, NEW t \in Tasks, PublishWrite(t)
  PROVE  PassesInv'
<1>step. TaskStep(t) /\ RowKeeps /\ UNCHANGED <<imports, durable, st>> /\ task[t].pc = "publishing"
         /\ st.status # "done" /\ UNCHANGED row
  <2>1. TaskStep(t) /\ RowKeeps /\ UNCHANGED <<imports, durable, st, row>> /\ task[t].pc = "publishing"
    BY DEF TaskStep, PublishWrite, RowKeeps, catalogVars
  <2>2. st.status # "done"
    BY <2>1 DEF DriverInv, Active
  <2> QED
    BY <2>1, <2>2
<1>typed. task \in [Tasks -> Calls] /\ task[t] \in Calls /\ st \in States
  BY DEF TypeInv, TypeOK
<1>1. CASE ~(st.inc = task[t].inc /\ st.gen = task[t].gen)
  <2>1. Goto(t, "fail") /\ UNCHANGED verified
    BY <1>1 DEF PublishWrite
  <2> QED
    BY <1>step, <2>1, QuietStep DEF TaskPC, BeforeMarker, AfterMarker, InPass, ChapterPC
<1>2. CASE st.inc = task[t].inc /\ st.gen = task[t].gen
  <2> DEFINE f == [inc |-> task[t].inc, gen |-> task[t].gen, ord |-> task[t].at]
  <2>1. verified' = f /\ f.inc = task[t].inc /\ f.gen = task[t].gen /\ f.ord = task[t].at
    BY <1>2 DEF PublishWrite
  <2>2. /\ 1..task[t].at \subseteq durable
        /\ row # NoBook /\ row.inc = task[t].inc => task[t].at <= row.progress
        /\ st.target = task[t].target
    BY <1>step, <1>2 DEF PassesInv, CallPart, ChapterOf, PassOf, AfterMarker, InPass
  <2>3. ShelfPart'
    <3>1. VerifiedIsReconciled'
      <4> SUFFICES ASSUME row # NoBook, task[t].inc = row.inc
                   PROVE  /\ task[t].at <= row.progress
                          /\ 1..task[t].at \subseteq durable
                          /\ 1..task[t].at \subseteq row.ledger
        BY <1>step, <2>1 DEF VerifiedIsReconciled
      <4>1. task[t].at <= row.progress /\ row.ledger = 1..row.progress
        BY <2>2 DEF PassesInv, ShelfPart, ProgressIsDurable
      <4>2. row.progress \in Nat /\ task[t].at \in Nat
        BY <1>typed DEF TypeInv, TypeOK, Rows, Calls
      <4> QED
        BY <4>1, <4>2, <2>2
    <3>2. DoneMeansValidated'
      BY <1>step DEF DoneMeansValidated
    <3>3. ShelfOrder' /\ Prefix' /\ ProgressIsDurable'
      <4>1. verified'.inc <= st'.inc
        BY <1>step, <1>typed, <1>2, <2>1 DEF States
      <4> QED
        BY <1>step, <4>1 DEF PassesInv, ShelfPart, ShelfOrder, Prefix, ProgressIsDurable
    <3> QED
      BY <3>1, <3>2, <3>3 DEF ShelfPart
  <2>4. CASE task[t].at # 0 /\ task[t].at < task[t].target
    <3> DEFINE c == [task[t] EXCEPT !.pc = "chapter", !.at = @ + 1]
    <3>1. task'[t] = c
      BY <1>2, <2>4, <1>typed DEF PublishWrite
    <3>2. /\ c.pc = "chapter" /\ c.at = task[t].at + 1 /\ c.inc = task[t].inc
          /\ c.gen = task[t].gen /\ c.target = task[t].target
      BY <1>typed DEF Calls
    <3> HIDE DEF c
    <3>3. OrderOf(t)' /\ PassOf(t)'
      BY <1>step, <1>2, <2>2, <3>1, <3>2, <1>typed DEF OrderOf, PassOf, Active, States, InPass, BeforeMarker
    <3>4. ChapterOf(t)'
      <4>1. task[t].at \in Nat /\ (row # NoBook => row.progress \in Nat)
        BY <1>typed DEF TypeInv, TypeOK, Rows, Calls
      <4>2. task[t].at + 1 - 1 = task[t].at
        BY <4>1
      <4> QED
        BY <1>step, <2>2, <3>1, <3>2, <4>1, <4>2 DEF ChapterOf, BeforeMarker, AfterMarker
    <3> QED
      BY <1>step, <2>3, <3>3, <3>4, OneCallStep DEF CallPart
  <2>5. ASSUME NEW pc \in {"gate", "end"}, Goto(t, pc),
               pc = "end" => ~(task[t].at < task[t].target)
        PROVE  PassesInv'
    <3>1. /\ task'[t].pc = pc /\ task'[t].at = task[t].at /\ task'[t].inc = task[t].inc
          /\ task'[t].gen = task[t].gen /\ task'[t].target = task[t].target
      BY <2>5, GotoFields DEF TaskPC
    <3>2. OrderOf(t)'
      BY <1>step, <1>2, <3>1, <1>typed DEF OrderOf, Active, States
    <3>3. PassOf(t)'
      BY <1>step, <1>typed, <2>1, <2>2, <2>5, <3>1 DEF PassOf, Calls
    <3>4. ChapterOf(t)'
      BY <1>step, <2>2, <2>5, <3>1 DEF ChapterOf, BeforeMarker, AfterMarker, ChapterPC
    <3> QED
      BY <1>step, <2>3, <3>2, <3>3, <3>4, OneCallStep DEF CallPart
  <2> QED
    BY <1>2, <2>4, <2>5, <1>typed DEF PublishWrite
<1> QED
  BY <1>1, <1>2

\* The chapter loop starts at the first chapter.
LEMMA GateOpenPasses ==
  ASSUME TypeInv, DriverInv, PassesInv, NEW t \in Tasks, GateOpen(t)
  PROVE  PassesInv'
<1>step. /\ TaskStep(t) /\ RowKeeps /\ UNCHANGED <<imports, durable, verified, st, row>>
         /\ task[t].pc = "gate" /\ Current(t)
  BY DEF TaskStep, GateOpen, RowKeeps, catalogVars, workerVars
<1>typed. task \in [Tasks -> Calls] /\ task[t] \in Calls /\ row \in Rows
  BY <1>step DEF TypeInv, TypeOK, Current
<1> DEFINE c == [task[t] EXCEPT !.pc = "chapter", !.at = 1, !.seen = row.progress]
<1>1. task'[t] = c
  BY <1>typed DEF GateOpen
<1>2. /\ c.pc = "chapter" /\ c.at = 1 /\ c.inc = task[t].inc
      /\ c.gen = task[t].gen /\ c.target = task[t].target
  BY <1>typed DEF Calls
<1> HIDE DEF c
<1>3. ShelfPart'
  BY <1>step, ShelfStays
<1>4. OrderOf(t)' /\ PassOf(t)'
  BY <1>step, <1>1, <1>2 DEF PassesInv, CallPart, OrderOf, PassOf, Active, InPass
<1>5. ChapterOf(t)'
  BY <1>step, <1>typed, <1>1, <1>2 DEF ChapterOf, BeforeMarker, AfterMarker, Rows
<1> QED
  BY <1>step, <1>3, <1>4, <1>5, OneCallStep DEF CallPart

\* The chapter transaction: the marker of the next chapter, or of one that has it.
LEMMA StorePasses ==
  ASSUME TypeInv, DriverInv, PassesInv, NEW t \in Tasks,
         StoreChapter(t) \/ StoreStale(t) \/ StoreFails(t)
  PROVE  PassesInv'
<1>step. /\ TaskStep(t) /\ UNCHANGED <<imports, verified, st>> /\ task[t].pc = "store"
  BY DEF TaskStep, StoreChapter, StoreStale, StoreFails, catalogVars, workerVars
<1>typed. task \in [Tasks -> Calls] /\ task[t] \in Calls /\ task[t].at \in Ordinals
  BY <1>step DEF TypeInv, TypeOK, TypeSupport, CallOK, ChapterPC
<1>rest. st.status # "done" /\ OrderOf(t) /\ ChapterOf(t) /\ PassOf(t) /\ Active(t)
  BY <1>step DEF DriverInv, Active, PassesInv, CallPart
<1>row. RowKeeps
  BY SettledKeeps DEF StoreChapter, StoreStale, StoreFails, RowKeeps, catalogVars
<1>1. CASE StoreFails(t)
  <2>1. task'[t].pc = "fail" /\ task'[t].inc = task[t].inc /\ task'[t].gen = task[t].gen
    BY <1>1, <1>typed DEF StoreFails, Calls
  <2>2. UNCHANGED durable
    BY <1>1 DEF StoreFails
  <2> QED
    BY <1>step, <1>rest, <1>row, <2>1, <2>2, OutStep DEF OrderOf
<1>2. CASE StoreStale(t)
  <2>1. /\ task'[t].pc = "commit" /\ task'[t].at = task[t].at /\ task'[t].inc = task[t].inc
        /\ task'[t].gen = task[t].gen /\ task'[t].target = task[t].target
    BY <1>2, <1>typed DEF StoreStale, Calls
  <2>2. UNCHANGED <<durable, row>>
    BY <1>2 DEF StoreStale, catalogVars
  <2>3. CallPart(t)'
    BY <1>step, <1>rest, <2>1, <2>2
       DEF CallPart, OrderOf, ChapterOf, PassOf, Active, BeforeMarker, AfterMarker, ChapterPC, InPass
  <2>4. ShelfPart'
    BY <1>step, <1>row, <2>2, ShelfStays
  <2> QED
    BY <1>step, <2>3, <2>4, OneCallStep
<1>3. CASE StoreChapter(t)
  <2>1. /\ task'[t].pc = "finalize" /\ task'[t].at = task[t].at /\ task'[t].inc = task[t].inc
        /\ task'[t].gen = task[t].gen /\ task'[t].target = task[t].target
    BY <1>3, <1>typed DEF StoreChapter, Calls
  <2>2. UNCHANGED row /\ durable' = durable \cup {task[t].at}
    BY <1>3 DEF StoreChapter, catalogVars
  <2>3. PICK m \in 0..NumChapters : durable = 1..m
    BY DEF PassesInv, ShelfPart, Prefix
  <2>4. 1..(task[t].at - 1) \subseteq 1..m /\ task[t].at \in 1..NumChapters /\ m \in Nat
    BY <1>step, <1>rest, <1>typed, <2>3 DEF ChapterOf, BeforeMarker, Ordinals
  <2>5. task[t].at <= m + 1
    <3>1. CASE task[t].at = 1
      BY <2>4, <3>1
    <3>2. CASE task[t].at # 1
      <4>1. task[t].at - 1 \in 1..(task[t].at - 1)
        BY <2>4, <3>2, Constants
      <4> QED
        BY <2>4, <4>1, Constants
    <3> QED
      BY <3>1, <3>2
  <2>6. CASE task[t].at <= m
    <3>1. durable' = 1..m
      BY <2>2, <2>3, <2>4, <2>6
    <3>2. 1..task[t].at \subseteq durable'
      BY <2>4, <2>6, <3>1
    <3> QED
      <4>1. UNCHANGED durable
        BY <2>3, <3>1
      <4>2. ShelfPart'
        BY <1>step, <1>row, <4>1, ShelfStays
      <4>3. CallPart(t)'
        BY <1>step, <1>rest, <2>1, <2>2, <3>2
          DEF CallPart, OrderOf, ChapterOf, PassOf, Active, BeforeMarker, AfterMarker, ChapterPC, InPass
      <4> QED
        BY <1>step, <4>2, <4>3, OneCallStep
  <2>7. CASE task[t].at = m + 1
    <3>1. durable' = 1..(m + 1) /\ m + 1 \in 0..NumChapters
      BY <2>2, <2>3, <2>4, <2>7, Constants
    <3>2. 1..task[t].at \subseteq durable' /\ durable \subseteq durable'
      BY <2>2, <2>7, <3>1
    <3>3. ShelfPart'
      <4>1. ShelfOrder'
        BY <1>step, <2>2 DEF PassesInv, ShelfPart, ShelfOrder
      <4>2. Prefix'
        BY <3>1 DEF Prefix
      <4>3. ProgressIsDurable' /\ VerifiedIsReconciled' /\ DoneMeansValidated'
        BY <1>step, <2>2, <3>2
           DEF PassesInv, ShelfPart, ProgressIsDurable, VerifiedIsReconciled, DoneMeansValidated
      <4> QED
        BY <4>1, <4>2, <4>3 DEF ShelfPart
    <3>4. CallPart(t)'
      BY <1>step, <1>rest, <2>1, <2>2, <3>2
         DEF CallPart, OrderOf, ChapterOf, PassOf, Active, BeforeMarker, AfterMarker, ChapterPC, InPass
    <3> QED
      BY <1>step, <3>3, <3>4, OneCallStep
  <2> QED
    BY <2>4, <2>5, <2>6, <2>7
<1> QED
  BY <1>1, <1>2, <1>3

\* finalize_ingest: progress and ledger follow the marker by one chapter.
LEMMA FinalizePasses ==
  ASSUME TypeInv, DriverInv, PassesInv, NEW t \in Tasks, Finalize(t)
  PROVE  PassesInv'
<1>step. /\ TaskStep(t) /\ UNCHANGED <<imports, durable, verified, st>> /\ task[t].pc = "finalize"
  BY DEF TaskStep, Finalize, catalogVars, workerVars
<1>typed. task[t].at \in 1..NumChapters
  BY <1>step DEF TypeInv, TypeOK, TypeSupport, CallOK, ChapterPC, Ordinals
<1>1. CASE ~(row # NoBook /\ row.inc = task[t].inc)
  <2>1. Goto(t, "fail") /\ RowKeeps
    BY <1>1 DEF Finalize, RowKeeps
  <2> QED
    BY <1>step, <2>1, QuietStep DEF TaskPC, BeforeMarker, AfterMarker, InPass, ChapterPC
<1>2. CASE row # NoBook /\ row.inc = task[t].inc
  <2>1. Goto(t, "publish") /\ row' = FinalRow(t) /\ row \in Rows
    BY <1>2 DEF Finalize, TypeInv, TypeOK
  <2> DEFINE top == Larger(row.progress, task[t].at)
  <2>2. /\ row' # NoBook /\ row'.inc = row.inc /\ row'.progress = top
        /\ row'.ledger = row.ledger \cup {task[t].at}
    BY <1>2, <1>step, <2>1, SameShelf DEF FinalRow, Rows
  <2>3. row.progress \in Nat /\ row.ledger = 1..row.progress /\ 1..row.progress \subseteq durable
    BY <1>2, <2>1 DEF PassesInv, ShelfPart, ProgressIsDurable, Rows
  <2>4. 1..task[t].at \subseteq durable /\ task[t].at <= row.progress + 1
    BY <1>2, <1>step DEF PassesInv, CallPart, ChapterOf, AfterMarker, ChapterPC
  <2>5. top \in Nat /\ row.progress <= top /\ task[t].at <= top
        /\ 1..top \subseteq durable /\ row'.ledger = 1..top
    BY <1>typed, <2>2, <2>3, <2>4 DEF Larger
  <2> HIDE DEF top
  <2>6. ShelfPart'
    <3>1. ShelfOrder' /\ Prefix' /\ DoneMeansValidated'
      BY <1>step, <1>2, <2>2 DEF PassesInv, ShelfPart, ShelfOrder, Prefix, DoneMeansValidated
    <3>2. ProgressIsDurable'
      BY <1>step, <2>2, <2>5 DEF ProgressIsDurable
    <3>3. VerifiedIsReconciled'
      <4> SUFFICES ASSUME verified.inc = row.inc
                   PROVE  /\ 1..verified.ord \subseteq durable
                          /\ verified.ord <= top
                          /\ 1..verified.ord \subseteq 1..top
        BY <1>step, <2>2, <2>5 DEF VerifiedIsReconciled
      <4>1. 1..verified.ord \subseteq durable /\ verified.ord <= row.progress
        BY <1>2 DEF PassesInv, ShelfPart, VerifiedIsReconciled
      <4>2. verified.ord \in Nat
        BY DEF TypeInv, TypeOK, Frontiers
      <4> QED
        BY <2>3, <2>5, <4>1, <4>2
    <3> QED
      BY <3>1, <3>2, <3>3 DEF ShelfPart
  <2>7. /\ task'[t].pc = "publish" /\ task'[t].at = task[t].at /\ task'[t].inc = task[t].inc
        /\ task'[t].gen = task[t].gen /\ task'[t].target = task[t].target
    BY <2>1, GotoFields DEF TaskPC
  <2>8. OrderOf(t)' /\ PassOf(t)'
    BY <1>step, <2>7 DEF PassesInv, CallPart, OrderOf, PassOf, Active, InPass, AfterMarker
  <2>9. ChapterOf(t)'
    BY <1>step, <2>2, <2>4, <2>5, <2>7 DEF ChapterOf, BeforeMarker, AfterMarker, ChapterPC
  <2> QED
    BY <1>step, <2>6, <2>8, <2>9, OneCallStep DEF CallPart
<1> QED
  BY <1>1, <1>2

\* The ways out: "done" is only written for the newest enqueue's target.
LEMMA ExitPasses ==
  ASSUME TypeInv, DriverInv, PassesInv, NEW t \in Tasks,
         Exit(t) \/ Stop(t) \/ Fail(t) \/ ResubmitAccepted(t)
  PROVE  PassesInv'
<1>step. /\ TaskStep(t) /\ RowKeeps /\ UNCHANGED <<imports, durable, verified, row>>
  BY DEF TaskStep, Exit, Stop, Fail, ResubmitAccepted, RowKeeps, catalogVars, workerVars
<1>typed. task \in [Tasks -> Calls] /\ task[t] \in Calls /\ st \in States
  BY DEF TypeInv, TypeOK
<1>rest. Active(t) /\ st.status # "done" /\ OrderOf(t) /\ ChapterOf(t) /\ PassOf(t)
  BY <1>step, TaskOutcome DEF DriverInv, PassesInv, CallPart
<1>none. NoTask.pc = "none"
  BY DEF NoTask
<1>1. CASE Exit(t)
  <2>1. ASSUME Goto(t, "loop"), UNCHANGED st PROVE PassesInv'
    <3>1. task'[t].pc = "loop" /\ task'[t].inc = task[t].inc /\ task'[t].gen = task[t].gen
      BY <2>1, GotoFields DEF TaskPC
    <3> QED
      BY <1>step, <1>rest, <2>1, <3>1, OutStep DEF OrderOf
  <2>2. ASSUME task' = [task EXCEPT ![t] = NoTask], UNCHANGED st PROVE PassesInv'
    <3>1. task'[t].pc = "none"
      BY <2>2, <1>none, <1>typed
    <3> QED
      BY <1>step, <1>rest, <2>2, <3>1, OutStep
  <2>3. ASSUME task' = [task EXCEPT ![t] = NoTask], ~Superseded(t), task[t].pc = "exit",
               st.target <= task[t].at, st' = [st EXCEPT !.status = "done"]
        PROVE  PassesInv'
    <3>1. task'[t].pc = "none"
      BY <2>3, <1>none, <1>typed
    <3>2. st.inc = task[t].inc /\ st.gen = task[t].gen
      BY <2>3 DEF Superseded
    <3>3. /\ verified = [inc |-> task[t].inc, gen |-> task[t].gen, ord |-> task[t].at]
          /\ 1..task[t].at \subseteq durable
      BY <1>rest, <2>3, <3>2 DEF PassOf, ChapterOf, AfterMarker
    <3>4. verified.inc = st.inc /\ verified.gen = st.gen /\ verified.ord = task[t].at
      BY <3>2, <3>3
    <3>5. st'.inc = st.inc /\ st'.gen = st.gen /\ st'.target = st.target
      BY <1>step, TaskFrame
    <3>6. DoneMeansValidated'
      <4>1. task[t].at \in Nat /\ st.target \in Nat
        BY <1>typed DEF Calls, States
      <4>2. 1..st.target \subseteq durable
        BY <2>3, <3>3, <4>1
      <4> QED
        BY <1>step, <2>3, <3>4, <3>5, <4>1, <4>2 DEF DoneMeansValidated
    <3>7. ShelfPart'
      BY <1>step, <3>5, <3>6
         DEF PassesInv, ShelfPart, ShelfOrder, Prefix, ProgressIsDurable, VerifiedIsReconciled
    <3>8. CallPart(t)'
      BY <3>1 DEF CallPart, OrderOf, ChapterOf, PassOf, Active, BeforeMarker, AfterMarker,
                  ChapterPC, InPass
    <3> QED
      BY <1>step, <3>7, <3>8, OneCallStep
  <2> QED
    BY <1>1, <2>1, <2>2, <2>3 DEF Exit
<1>2. CASE Stop(t)
  <2>1. task'[t].pc = "none" /\ st'.status # "done"
    BY <1>2, <1>none, <1>typed DEF Stop, States
  <2> QED
    BY <1>step, <2>1, OutStep
<1>3. CASE Fail(t)
  <2> DEFINE c == [NoTask EXCEPT !.pc = "resubmit", !.gen = st.gen, !.inc = st.inc]
             status == FailureStatus(task[t].gen, task[t].inc)
  <2>1. c.pc = "resubmit" /\ c.gen = st.gen /\ c.inc = st.inc
    BY DEF NoTask
  <2>2. task'[t] = c \/ task'[t] = NoTask
    BY <1>3, <1>typed DEF Fail
  <2>3. st'.status = status /\ status # "done"
    BY <1>3, <1>typed DEF Fail, FailureStatus, States
  <2>4. st.inc <= st.inc /\ st.gen <= st.gen
    BY <1>typed DEF States
  <2> HIDE DEF c, status
  <2> QED
    BY <1>step, <1>none, <2>1, <2>2, <2>3, <2>4, OutStep
<1>4. CASE ResubmitAccepted(t)
  <2> DEFINE c == [NoTask EXCEPT !.pc = "queued"]
  <2>1. c.pc = "queued" /\ c.gen = 0 /\ c.inc = 0
    BY DEF NoTask
  <2>2. task'[t] = c /\ UNCHANGED st
    BY <1>4, <1>typed DEF ResubmitAccepted, workerVars
  <2>3. 0 <= st.inc /\ 0 <= st.gen
    BY <1>typed DEF States
  <2> HIDE DEF c
  <2> QED
    BY <1>step, <1>rest, <2>1, <2>2, <2>3, OutStep
<1> QED
  BY <1>1, <1>2, <1>3, <1>4

\* The steps that only ask, and go on or give up.
LEMMA GotoPasses ==
  ASSUME TypeInv, DriverInv, PassesInv, NEW t \in Tasks,
         \/ PublishRead(t) \/ GateBlocked(t) \/ GateFails(t) \/ Chapter(t) \/ Reserve(t)
         \/ ReserveRefused(t) \/ Extracted(t) \/ ExtractFails(t) \/ CommitLock(t)
         \/ FinalizeFails(t) \/ EndOfPass(t) \/ ResubmitRefused(t)
  PROVE  PassesInv'
<1>step. TaskStep(t) /\ UNCHANGED <<imports, durable, verified>>
  BY DEF TaskStep, PublishRead, GateBlocked, GateFails, Chapter, Reserve, ReserveRefused, Extracted,
         ExtractFails, CommitLock, FinalizeFails, EndOfPass, ResubmitRefused, catalogVars, workerVars
<1>row. RowKeeps
  <2>1. UNCHANGED row \/ Reserve(t) \/ row' = SettledRow(t)
    BY DEF PublishRead, GateBlocked, GateFails, Chapter, ReserveRefused, Extracted,
           ExtractFails, CommitLock, FinalizeFails, EndOfPass, ResubmitRefused, catalogVars
  <2> QED
    BY <2>1, SettledKeeps, ReserveKeeps DEF RowKeeps
<1>done. st'.status = "done" => st.status = "done"
  <2>1. CASE GateBlocked(t)
    BY <2>1 DEF GateBlocked, TypeInv, TypeOK, States
  <2>2. CASE ~GateBlocked(t)
    BY <2>2
       DEF PublishRead, GateFails, Chapter, Reserve, ReserveRefused, Extracted, ExtractFails,
           CommitLock, FinalizeFails, EndOfPass, ResubmitRefused, workerVars
  <2> QED
    BY <2>1, <2>2
<1> USE DEF TaskPC, BeforeMarker, AfterMarker, InPass, ChapterPC
<1>out. ASSUME NEW pc \in {"fail", "stop", "blocked"}, Goto(t, pc) PROVE PassesInv'
  BY <1>step, <1>row, <1>done, <1>out, QuietStep
<1>1. CASE PublishRead(t)
  BY <1>step, <1>row, <1>done, <1>1, <1>out, QuietStep DEF PublishRead
<1>2. CASE GateBlocked(t) \/ GateFails(t) \/ ReserveRefused(t) \/ ExtractFails(t)
           \/ FinalizeFails(t) \/ ResubmitRefused(t)
  BY <1>2, <1>out DEF GateBlocked, GateFails, ReserveRefused, ExtractFails, FinalizeFails,
                      ResubmitRefused
<1>3. CASE Chapter(t)
  <2>1. CASE ChapterNext(t) \in {"fail", "stop"}
    BY <1>3, <1>out, <2>1 DEF Chapter
  <2>2. CASE ChapterNext(t) = "finalize"
    <3>1. task[t].at \in durable
      BY <2>2 DEF ChapterNext
    <3> QED
      BY <1>step, <1>row, <1>done, <1>3, <2>2, <3>1, QuietStep DEF Chapter
  <2>3. CASE ChapterNext(t) = "reserve"
    BY <1>step, <1>row, <1>done, <1>3, <2>3, QuietStep DEF Chapter
  <2> QED
    BY <2>1, <2>2, <2>3 DEF ChapterNext
<1>4. CASE Reserve(t)
  BY <1>step, <1>row, <1>done, <1>4, <1>out, QuietStep DEF Reserve
<1>5. CASE Extracted(t)
  BY <1>step, <1>row, <1>done, <1>5, QuietStep DEF Extracted
<1>6. CASE CommitLock(t)
  BY <1>step, <1>row, <1>done, <1>6, <1>out, QuietStep DEF CommitLock
<1>7. CASE EndOfPass(t)
  BY <1>step, <1>row, <1>done, <1>7, <1>out, QuietStep DEF EndOfPass
<1> QED
  BY <1>1, <1>2, <1>3, <1>4, <1>5, <1>6, <1>7

\* An enqueue moves the state on to a generation, or an incarnation, that no
\* call has seen.
LEMMA EnqueuePasses ==
  ASSUME TypeInv, DriverInv, LockInv, PassesInv, EnqueueState
  PROVE  PassesInv'
<1>same. UNCHANGED <<row, imports, durable, task>> /\ req.pc = "enqueue"
  BY DEF EnqueueState, catalogVars
<1>1. CASE Stopping
  BY <1>same, <1>1
     DEF EnqueueState, workerVars, PassesInv, ShelfPart, ShelfOrder, Prefix, ProgressIsDurable,
         VerifiedIsReconciled, DoneMeansValidated, CallPart, OrderOf, ChapterOf, PassOf, Active
<1>2. CASE ~Stopping
  <2>typed. st \in States /\ req \in Requests /\ task \in [Tasks -> Calls]
            /\ row # NoBook /\ req.inc = row.inc /\ row.inc = imports
    BY <1>same DEF TypeInv, TypeOK, LockInv, PassesInv, ShelfPart, ShelfOrder
  <2>1. /\ Enqueued.inc = req.inc /\ Enqueued.status = "running"
        /\ st.inc = req.inc => Enqueued.gen = st.gen + 1
    BY <2>typed DEF Enqueued, States
  <2>2. st' = Enqueued /\ verified' = [inc |-> req.inc, gen |-> Enqueued.gen, ord |-> 0]
    BY <1>2 DEF EnqueueState
  <2>3. verified'.inc = req.inc /\ verified'.ord = 0
    BY <2>2
  <2>4. ShelfPart'
    <3>1. ShelfOrder' /\ Prefix' /\ ProgressIsDurable'
      <4>1. imports \in Nat
        BY Constants DEF TypeInv, TypeOK
      <4> QED
        BY <1>same, <2>typed, <2>1, <2>2, <2>3, <4>1
           DEF PassesInv, ShelfPart, ShelfOrder, Prefix, ProgressIsDurable
    <3>2. VerifiedIsReconciled'
      <4>1. 0 <= row.progress
        BY <2>typed DEF TypeInv, TypeOK, Rows
      <4> QED
        BY <1>same, <2>3, <4>1 DEF VerifiedIsReconciled
    <3>3. DoneMeansValidated'
      BY <2>1, <2>2 DEF DoneMeansValidated
    <3> QED
      BY <3>1, <3>2, <3>3 DEF ShelfPart
  <2>5. ASSUME NEW t \in Tasks PROVE CallPart(t)'
    <3>1. task[t] \in Calls /\ CallPart(t) /\ st.inc <= imports /\ imports \in Nat
      BY <2>typed, Constants DEF TypeInv, TypeOK, PassesInv, ShelfPart, ShelfOrder
    <3>2. Active(t) => /\ task[t].inc <= st'.inc
                       /\ task[t].inc = st'.inc => task[t].gen < st'.gen
      <4>1. CASE st.inc = req.inc
        BY <2>typed, <2>1, <2>2, <3>1, <4>1 DEF CallPart, OrderOf, Calls, States
      <4>2. CASE st.inc # req.inc
        BY <2>typed, <2>1, <2>2, <3>1, <4>2 DEF CallPart, OrderOf, Calls, States
      <4> QED
        BY <4>1, <4>2
    <3>3. OrderOf(t)'
      <4>1. st' \in States
        BY EnqueueStateTyped DEF TypeInv, TypeOK
      <4> QED
        BY <1>same, <3>1, <3>2, <4>1 DEF OrderOf, Active, Calls, States
    <3>4. ChapterOf(t)'
      BY <1>same, <3>1 DEF CallPart, ChapterOf
    <3>5. PassOf(t)'
      <4>1. CASE Active(t)
        <5>1. st' \in States
          BY EnqueueStateTyped DEF TypeInv, TypeOK
        <5>2. ~(st'.inc = task[t].inc /\ st'.gen = task[t].gen)
          BY <3>1, <3>2, <4>1, <5>1 DEF Calls, States
        <5> QED
          BY <1>same, <5>2 DEF PassOf
      <4>2. CASE ~Active(t)
        BY <1>same, <4>2 DEF PassOf, Active, InPass, BeforeMarker, AfterMarker
      <4> QED
        BY <4>1, <4>2
    <3> QED
      BY <3>3, <3>4, <3>5 DEF CallPart
  <2> QED
    BY <2>4, <2>5 DEF PassesInv
<1> QED
  BY <1>1, <1>2

\* Every step of the system keeps what passes rely on.
LEMMA PassesNext ==
  ASSUME TypeInv, DriverInv, LockInv, PassesInv, [Next]_vars
  PROVE  PassesInv'
<1> USE DEF catalogVars, workerVars
<1>typed. task \in [Tasks -> Calls] /\ st \in States /\ req \in Requests /\ verified \in Frontiers
          /\ row \in Rows \cup {NoBook} /\ imports \in Nat
  BY Constants DEF TypeInv, TypeOK
<1>none. NoTask.pc = "none" /\ NoState.status = "idle" /\ NoState.inc = 0 /\ NoVerified.inc = 0
  BY DEF NoTask, NoState, NoVerified
\* Nobody's claim is disturbed while calls, state, frontier and markers stay.
<1>same. ASSUME UNCHANGED <<imports, durable, st, verified, task>>,
                \/ row' = NoBook \/ UNCHANGED row \/ RowKeeps
         PROVE  PassesInv'
  <2>1. CASE row' = NoBook
    BY <1>same, <2>1
       DEF PassesInv, ShelfPart, ShelfOrder, Prefix, ProgressIsDurable,
           VerifiedIsReconciled, DoneMeansValidated, CallPart, OrderOf, ChapterOf, PassOf, Active
  <2>2. CASE UNCHANGED row \/ RowKeeps
    BY <1>same, <2>2
       DEF RowKeeps, PassesInv, ShelfPart, ShelfOrder, Prefix, ProgressIsDurable,
           VerifiedIsReconciled, DoneMeansValidated, CallPart, OrderOf, ChapterOf, PassOf, Active
  <2> QED
    BY <1>same, <2>1, <2>2
<1>lost. ASSUME LoseMemory, UNCHANGED <<row, imports, durable>> PROVE PassesInv'
  <2>1. \A t \in Tasks : task'[t].pc = "none"
    BY <1>lost, <1>none DEF LoseMemory
  <2>2. \A t \in Tasks : CallPart(t)'
    BY <2>1 DEF CallPart, OrderOf, ChapterOf, PassOf, Active, BeforeMarker, AfterMarker, ChapterPC, InPass
  <2>3. st' = NoState /\ verified' = NoVerified
    BY <1>lost DEF LoseMemory
  <2>4. row # NoBook => row.inc # 0
    BY <1>typed DEF Rows, Incarnations
  <2>5. ShelfPart'
    BY <1>lost, <1>typed, <1>none, <2>3, <2>4
       DEF PassesInv, ShelfPart, ShelfOrder, Prefix, ProgressIsDurable, VerifiedIsReconciled,
           DoneMeansValidated
  <2> QED
    BY <2>2, <2>5 DEF PassesInv
<1>1. ASSUME NEW t \in Tasks, TaskStep(t) PROVE PassesInv'
  BY <1>1, LoopPasses, PublishPasses, GateOpenPasses, StorePasses, FinalizePasses, ExitPasses,
     GotoPasses DEF TaskStep
<1>2. CASE Import
  <2>1. /\ row' # NoBook /\ row'.inc = imports + 1 /\ row'.progress = 0 /\ row'.ledger = {}
        /\ imports' = imports + 1 /\ UNCHANGED <<durable, st, verified, task>>
    <3>1. row' \in Rows \cup {NoBook} /\ FreshRow \in Rows
      BY <1>2, ShelfTyped, Constants DEF Import, FreshRow, Rows, Incarnations, TypeInv, TypeOK
    <3> QED
      BY <1>2, <3>1, NoBookAssumption DEF Import, FreshRow
  <2>2. ShelfPart'
    <3>1. ShelfOrder' /\ Prefix'
      BY <1>typed, <2>1 DEF PassesInv, ShelfPart, ShelfOrder, Prefix, States, Frontiers
    <3>2. ProgressIsDurable' /\ VerifiedIsReconciled'
      <4>1. verified.inc < imports + 1
        BY <1>typed DEF PassesInv, ShelfPart, ShelfOrder, States, Frontiers
      <4> QED
        BY <1>typed, <2>1, <4>1 DEF ProgressIsDurable, VerifiedIsReconciled, Frontiers
    <3>3. DoneMeansValidated'
      BY <2>1 DEF PassesInv, ShelfPart, DoneMeansValidated
    <3> QED
      BY <3>1, <3>2, <3>3 DEF ShelfPart
  <2>3. ASSUME NEW t \in Tasks PROVE CallPart(t)'
    <3>1. OrderOf(t)' /\ PassOf(t)'
      BY <2>1 DEF PassesInv, CallPart, OrderOf, PassOf, Active
    <3>2. ChapterOf(t)'
      <4>1. Active(t) => task[t].inc < imports + 1
        BY <1>typed DEF PassesInv, ShelfPart, ShelfOrder, CallPart, OrderOf, States, Calls
      <4>2. ~Active(t) => task[t].pc \notin BeforeMarker \cup AfterMarker \cup ChapterPC
        BY DEF Active, BeforeMarker, AfterMarker, ChapterPC
      <4>3. task[t].inc \in Nat
        BY <1>typed DEF Calls
      <4> QED
        BY <1>typed, <2>1, <4>1, <4>2, <4>3 DEF PassesInv, CallPart, ChapterOf
    <3> QED
      BY <3>1, <3>2 DEF CallPart
  <2> QED
    BY <2>2, <2>3 DEF PassesInv
<1>3. CASE Delete \/ Shutdown \/ Restart
  BY <1>3, <1>same DEF Delete, Shutdown, Restart
<1>4. ASSUME NEW n \in Ordinals, EnqueueRead(n) PROVE PassesInv'
  BY <1>4, <1>same DEF EnqueueRead
<1>5. CASE EnqueueState
  BY <1>5, EnqueuePasses
<1>6. CASE SubmitRefused \/ Joined
  <2>1. UNCHANGED <<row, imports, durable, verified, task>>
    BY <1>6 DEF SubmitRefused, Joined
  <2>2. /\ st'.inc = st.inc /\ st'.gen = st.gen /\ st'.target = st.target
        /\ st'.status = "done" => st.status = "done"
    <3>1. CASE SubmitRefused
      BY <1>typed, <3>1 DEF SubmitRefused, FailureStatus, States
    <3>2. CASE Joined
      BY <1>typed, <3>2 DEF Joined, States
    <3> QED
      BY <1>6, <3>1, <3>2
  <2>3. ShelfPart'
    BY <2>1, <2>2, ShelfStays DEF RowKeeps
  <2> QED
    BY <2>1, <2>2, <2>3 DEF PassesInv, CallPart, OrderOf, ChapterOf, PassOf, Active
<1>7. ASSUME NEW t \in Tasks, SubmitAccepted(t) \/ CancelQueued(t) PROVE PassesInv'
  <2> DEFINE c == [NoTask EXCEPT !.pc = "queued"]
  <2>1. c.pc = "queued" /\ c.gen = 0 /\ c.inc = 0
    BY DEF NoTask
  <2>2. UNCHANGED <<row, imports, durable, verified, st>> /\ task'[t] \in {c, NoTask}
        /\ \A u \in Tasks : u # t => task'[u] = task[u]
    BY <1>7, <1>typed DEF SubmitAccepted, CancelQueued
  <2>3. 0 <= st.inc /\ 0 <= st.gen
    BY <1>typed DEF States
  <2> HIDE DEF c
  <2>4. CallPart(t)'
    BY <1>none, <2>1, <2>2, <2>3
       DEF CallPart, OrderOf, ChapterOf, PassOf, Active, BeforeMarker, AfterMarker, ChapterPC, InPass
  <2>5. ASSUME NEW u \in Tasks, u # t PROVE CallPart(u)'
    BY <2>2, <2>5 DEF PassesInv, CallPart, OrderOf, ChapterOf, PassOf, Active
  <2>6. ShelfPart'
    BY <2>2, ShelfStays DEF RowKeeps
  <2> QED
    BY <2>4, <2>5, <2>6 DEF PassesInv
<1>8. CASE ProcessExit \/ Crash
  BY <1>8, <1>lost DEF ProcessExit, Crash
<1>9. CASE ReconcileCosts
  <2>1. row \in Rows /\ row' = [row EXCEPT !.reserved = {}] /\ row # NoBook
    BY <1>9, <1>typed DEF ReconcileCosts
  <2>2. row' \in Rows
    BY <2>1 DEF Rows
  <2>3. RowKeeps
    BY <2>1, <2>2, NoBookAssumption DEF Rows, RowKeeps
  <2> QED
    BY <1>9, <2>3, <1>same DEF ReconcileCosts
<1>10. CASE UNCHANGED vars
  BY <1>10, <1>same DEF vars
<1> QED
  BY <1>1, <1>2, <1>3, <1>4, <1>5, <1>6, <1>7, <1>8, <1>9, <1>10 DEF Next, RequestStep

-----------------------------------------------------------------------------
(* Reservations *)

Holding == {"extract", "commit", "store", "finalize"}

\* A task step that neither invents a reservation nor drops the one it answers
\* for leaks none.
LEMMA NoLeakStep ==
  ASSUME TypeInv, DriverInv, NoLeakedReservation, NEW t \in Tasks, TaskStep(t),
         durable \subseteq durable',
         row' # NoBook =>
           \A r \in row'.reserved :
             \/ row # NoBook /\ r \in row.reserved /\ ~(r = Own(t) /\ task[t].pc \in Holding)
             \/ r.ch \in durable'
             \/ r = Own(t)' /\ task'[t].pc \in Holding
  PROVE  NoLeakedReservation'
<1> SUFFICES ASSUME row' # NoBook, NEW r \in row'.reserved
             PROVE  \/ r \in orphaned'
                    \/ r.ch \in durable'
                    \/ \E u \in Tasks : Own(u)' = r /\ task'[u].pc \in Holding
  BY DEF NoLeakedReservation, Holding
<1>1. UNCHANGED orphaned
  BY TaskFrame
<1>2. CASE row # NoBook /\ r \in row.reserved /\ ~(r = Own(t) /\ task[t].pc \in Holding)
  <2>1. ASSUME NEW u \in Tasks, Own(u) = r, task[u].pc \in Holding PROVE FALSE
    <3>1. u # t
      BY <1>2, <2>1
    <3>2. task[u].pc = "none"
      BY <3>1, OthersAtRest
    <3> QED
      BY <2>1, <3>2 DEF Holding
  <2> QED
    BY <1>1, <1>2, <2>1 DEF NoLeakedReservation, Holding
<1> QED
  BY <1>2

\* Every way out of a call that holds a reservation settles it, finalizes it, or
\* leaves the marker that the next pass replays.
LEMMA NoLeakTask ==
  ASSUME TypeInv, DriverInv, PassesInv, NoLeakedReservation, NEW t \in Tasks, TaskStep(t)
  PROVE  NoLeakedReservation'
<1>typed. task \in [Tasks -> Calls] /\ task[t] \in Calls /\ row \in Rows \cup {NoBook}
  BY DEF TypeInv, TypeOK
<1>own. ASSUME task'[t].at = task[t].at, task'[t].inc = task[t].inc PROVE Own(t)' = Own(t)
  BY <1>own DEF Own
<1>goto. ASSUME NEW pc \in TaskPC, Goto(t, pc) PROVE task'[t].pc = pc /\ Own(t)' = Own(t)
  BY <1>goto, <1>own, GotoFields
<1>kept. ASSUME UNCHANGED <<row, durable>>, task[t].pc \notin Holding PROVE NoLeakedReservation'
  BY <1>kept, NoLeakStep
<1>moved. ASSUME UNCHANGED <<row, durable>>, NEW pc \in Holding, Goto(t, pc) PROVE NoLeakedReservation'
  <2>1. task'[t].pc \in Holding /\ Own(t)' = Own(t)
    BY <1>moved, <1>goto DEF Holding, TaskPC
  <2> QED
    BY <1>moved, <2>1, NoLeakStep
<1>settled. ASSUME UNCHANGED durable, row' = SettledRow(t) PROVE NoLeakedReservation'
  <2>1. row' # NoBook => row # NoBook /\ row'.reserved = row.reserved \ {Own(t)}
    BY <1>settled, <1>typed DEF SettledRow, Rows
  <2> QED
    BY <1>settled, <2>1, NoLeakStep
<1> USE DEF catalogVars, workerVars
<1>1. CASE \/ Loop(t) \/ PublishRead(t) \/ PublishWrite(t) \/ GateOpen(t) \/ GateBlocked(t)
           \/ GateFails(t) \/ Chapter(t) \/ ReserveRefused(t) \/ EndOfPass(t) \/ Exit(t) \/ Stop(t)
           \/ Fail(t) \/ ResubmitAccepted(t) \/ ResubmitRefused(t)
  <2>1. UNCHANGED <<row, durable>>
    BY <1>1 DEF Loop, PublishRead, PublishWrite, GateOpen, GateBlocked, GateFails, Chapter,
                ReserveRefused, EndOfPass, Exit, Stop, Fail, ResubmitAccepted, ResubmitRefused
  <2>2. task[t].pc \notin Holding
    BY <1>1 DEF Loop, PublishRead, PublishWrite, GateOpen, GateBlocked, GateFails, Chapter,
                ReserveRefused, EndOfPass, Exit, Stop, Fail, ResubmitAccepted, ResubmitRefused, Holding
  <2> QED
    BY <2>1, <2>2, <1>kept
<1>2. CASE Reserve(t)
  <2>1. CASE UNCHANGED row
    BY <1>2, <2>1, <1>kept DEF Reserve, Holding
  <2>2. CASE row # NoBook /\ Goto(t, "extract") /\ row' = [row EXCEPT !.reserved = @ \cup {Own(t)}]
    <3>1. row'.reserved = row.reserved \cup {Own(t)}
      BY <2>2, <1>typed DEF Rows
    <3>2. task'[t].pc \in Holding /\ Own(t)' = Own(t) /\ task[t].pc \notin Holding
          /\ UNCHANGED durable
      BY <1>2, <2>2, <1>goto DEF Reserve, Holding, TaskPC
    <3> QED
      BY <2>2, <3>1, <3>2, NoLeakStep
  <2> QED
    BY <1>2, <2>1, <2>2 DEF Reserve
<1>3. CASE Extracted(t)
  BY <1>3, <1>moved DEF Extracted, Holding
<1>4. CASE ExtractFails(t) \/ StoreFails(t)
  BY <1>4, <1>settled DEF ExtractFails, StoreFails
<1>5. CASE CommitLock(t)
  BY <1>5, <1>moved, <1>settled DEF CommitLock, Holding
<1>6. CASE StoreChapter(t)
  <2>1. UNCHANGED row /\ durable' = durable \cup {task[t].at}
    BY <1>6 DEF StoreChapter
  <2>2. Own(t).ch = task[t].at
    BY DEF Own
  <2> QED
    BY <2>1, <2>2, NoLeakStep
<1>7. CASE StoreStale(t)
  <2>1. UNCHANGED <<row, durable>> /\ task'[t].pc \in Holding
        /\ task'[t].at = task[t].at /\ task'[t].inc = task[t].inc
    BY <1>7, <1>typed DEF StoreStale, Calls, Holding
  <2> QED
    BY <2>1, <1>own, NoLeakStep
<1>8. CASE Finalize(t) \/ FinalizeFails(t)
  <2>1. Own(t).ch \in durable /\ UNCHANGED durable
    <3>1. task[t].at \in 1..NumChapters
      BY <1>8 DEF Finalize, FinalizeFails, TypeInv, TypeSupport, CallOK, ChapterPC, Ordinals
    <3>2. 1..task[t].at \subseteq durable
      BY <1>8 DEF Finalize, FinalizeFails, PassesInv, CallPart, ChapterOf, AfterMarker
    <3> QED
      BY <1>8, <3>1, <3>2 DEF Own, Finalize, FinalizeFails
  <2>2. \/ UNCHANGED row
        \/ row # NoBook /\ row' = FinalRow(t)
    BY <1>8 DEF Finalize, FinalizeFails
  <2>3. row' # NoBook => row # NoBook /\ row'.reserved \subseteq row.reserved
    <3>1. CASE UNCHANGED row
      BY <3>1
    <3>2. CASE row # NoBook /\ row' = FinalRow(t)
      <4>1. row'.reserved = {r \in row.reserved : r.ch # task[t].at}
        BY <3>2, <1>typed DEF FinalRow, Rows
      <4> QED
        BY <3>2, <4>1
    <3> QED
      BY <2>2, <3>1, <3>2
  <2> QED
    BY <2>1, <2>3, NoLeakStep
<1> QED
  BY <1>1, <1>2, <1>3, <1>4, <1>5, <1>6, <1>7, <1>8 DEF TaskStep

\* Deletion, import and reconcile take reservations away; a crash orphans them.
LEMMA NoLeakNext ==
  ASSUME TypeInv, DriverInv, PassesInv, NoLeakedReservation, [Next]_vars
  PROVE  NoLeakedReservation'
<1> USE DEF catalogVars, workerVars
<1>typed. task \in [Tasks -> Calls] /\ row \in Rows \cup {NoBook}
  BY DEF TypeInv, TypeOK
<1>same. ASSUME UNCHANGED <<row, durable, orphaned, task>> PROVE NoLeakedReservation'
  BY <1>same DEF NoLeakedReservation, Own
<1>1. CASE Import
  <2>1. row'.reserved = {}
    BY <1>1 DEF Import, FreshRow
  <2> QED
    BY <2>1 DEF NoLeakedReservation
<1>2. CASE Delete
  BY <1>2 DEF Delete, NoLeakedReservation
<1>3. CASE \/ EnqueueState \/ SubmitRefused \/ Shutdown \/ Joined \/ Restart \/ UNCHANGED vars
           \/ \E n \in Ordinals : EnqueueRead(n)
  BY <1>3, <1>same DEF EnqueueState, SubmitRefused, Shutdown, Joined, Restart, EnqueueRead, vars
<1>4. ASSUME NEW t \in Tasks, SubmitAccepted(t) \/ CancelQueued(t) PROVE NoLeakedReservation'
  <2>1. task[t].pc \notin Holding /\ UNCHANGED <<row, durable, orphaned>>
        /\ \A u \in Tasks : u # t => task'[u] = task[u]
    BY <1>4, <1>typed DEF SubmitAccepted, CancelQueued, Holding
  <2> QED
    BY <2>1 DEF NoLeakedReservation, Own, Holding
<1>5. CASE ProcessExit
  <2>1. \A t \in Tasks : task[t].pc = "none"
    BY <1>5 DEF ProcessExit, DriverInv, Active
  <2> QED
    BY <1>5, <2>1 DEF ProcessExit, NoLeakedReservation
<1>6. CASE Crash
  BY <1>6 DEF Crash, NoLeakedReservation
<1>7. CASE ReconcileCosts
  <2>1. row'.reserved = {}
    BY <1>7, <1>typed DEF ReconcileCosts, Rows
  <2> QED
    BY <2>1 DEF NoLeakedReservation
<1> QED
  BY <1>1, <1>2, <1>3, <1>4, <1>5, <1>6, <1>7, NoLeakTask DEF Next, RequestStep

\* The empty shelf satisfies all of it.
LEMMA PassesInit == Init => PassesInv /\ NoLeakedReservation /\ LockInv
<1> SUFFICES ASSUME Init PROVE PassesInv /\ NoLeakedReservation /\ LockInv
  OBVIOUS
<1>1. NoTask.pc = "none" /\ NoState.inc = 0 /\ NoState.status = "idle" /\ NoVerified.inc = 0
      /\ NoReq.pc = "idle"
  BY DEF NoTask, NoState, NoVerified, NoReq
<1>2. \A t \in Tasks : CallPart(t)
  BY <1>1, AtRest DEF Init
<1>3. Prefix
  BY Constants DEF Prefix, Init
<1>4. ShelfPart
  BY <1>1, <1>3 DEF Init, ShelfPart, ShelfOrder, ProgressIsDurable, VerifiedIsReconciled, DoneMeansValidated
<1>5. NoLeakedReservation /\ LockInv
  BY <1>1 DEF Init, NoLeakedReservation, LockInv
<1> QED
  BY <1>2, <1>4, <1>5 DEF PassesInv

\* The invariant of the whole worker.
LEMMA Inductive == Spec => []IInv
<1>1. Init => IInv
  BY TypeInit, DriverInit, PassesInit DEF IInv
<1>2. IInv /\ [Next]_vars => IInv'
  BY TypeNext, DriverNext, LockNext, PassesNext, NoLeakNext DEF IInv
<1> QED
  BY <1>1, <1>2, PTL DEF Spec

\* What the shelf says is true in every reachable state: "done" means the newest
\* enqueue's target is validated, the reported frontier is durable and
\* reconciled, and only a crash leaves a reservation nobody answers for
\* (_run, _ingest_upto, validated_frontier and the cost receipts).
THEOREM TrueShelf == Spec => []ShelfIsTrue
<1>1. IInv => ShelfIsTrue
  BY DEF IInv, TypeInv, PassesInv, ShelfPart, ShelfIsTrue
<1> QED
  BY <1>1, Inductive, PTL

-----------------------------------------------------------------------------
(* The promise *)

\* Under the invariant every step of the worker is a step of IngestPromise or
\* changes nothing it speaks of: StoreChapter is Publish or a replay, Finalize is
\* Reconcile or a replay, Import is Shelve, Delete is Unshelve.
LEMMA PromiseStep ==
  ASSUME IInv, [Next]_vars
  PROVE  [Promise!PromiseNext]_(Promise!promiseVars)
<1> USE DEF catalogVars, workerVars
<1>typed. TypeInv /\ LockInv /\ PassesInv /\ row \in Rows \cup {NoBook}
  BY DEF IInv, TypeInv, TypeOK
<1>same. ASSUME RowKeeps, UNCHANGED durable PROVE UNCHANGED Promise!promiseVars
  BY <1>same DEF RowKeeps, Promise!promiseVars
<1>1. CASE Import
  <2>1. row' # NoBook /\ row'.progress = 0 /\ row'.ledger = {}
    <3>1. FreshRow \in Rows
      BY <1>1, Constants DEF Import, FreshRow, Rows, Incarnations, TypeInv, TypeOK, IInv
    <3> QED
      BY <1>1, <3>1, NoBookAssumption DEF Import, FreshRow
  <2>2. Promise!Shelve
    BY <1>1, <2>1 DEF Import, Promise!Shelve
  <2> QED
    BY <2>2 DEF Promise!PromiseNext
<1>2. CASE Delete
  <2>1. Promise!Unshelve
    BY <1>2 DEF Delete, Promise!Unshelve
  <2> QED
    BY <2>1 DEF Promise!PromiseNext
<1>3. ASSUME NEW t \in Tasks, StoreChapter(t) PROVE [Promise!PromiseNext]_(Promise!promiseVars)
  <2>1. row # NoBook /\ UNCHANGED row /\ durable' = durable \cup {task[t].at}
        /\ task[t].pc = "store"
    BY <1>3, <1>typed DEF StoreChapter, LockInv
  <2>2. task[t].at \in 1..NumChapters
    BY <2>1, <1>typed DEF TypeInv, TypeSupport, CallOK, ChapterPC, Ordinals
  <2>3. PICK m \in 0..NumChapters : durable = 1..m
    BY <1>typed DEF PassesInv, ShelfPart, Prefix
  <2>4. 1..(task[t].at - 1) \subseteq 1..m
    BY <2>1, <2>3, <1>typed DEF PassesInv, CallPart, ChapterOf, BeforeMarker
  <2>5. CASE task[t].at <= m
    <3>1. UNCHANGED durable
      BY <2>1, <2>2, <2>3, <2>5
    <3> QED
      BY <2>1, <3>1 DEF Promise!promiseVars
  <2>6. CASE ~(task[t].at <= m)
    <3>1. task[t].at = m + 1
      <4>1. CASE task[t].at = 1
        BY <2>6, <4>1, <2>2
      <4>2. CASE task[t].at # 1
        <5>1. task[t].at - 1 \in 1..(task[t].at - 1)
          BY <2>2, <4>2, Constants
        <5> QED
          BY <2>2, <2>4, <2>6, <5>1, Constants
      <4> QED
        BY <4>1, <4>2
    <3>2. durable' = 1..(m + 1) /\ m + 1 \in 1..NumChapters /\ durable = 1..(m + 1 - 1)
      BY <2>1, <2>2, <2>3, <3>1, Constants
    <3>3. Promise!Publish
      BY <2>1, <3>2 DEF Promise!Publish
    <3> QED
      BY <3>3 DEF Promise!PromiseNext
  <2> QED
    BY <2>5, <2>6
<1>4. ASSUME NEW t \in Tasks, Finalize(t) PROVE [Promise!PromiseNext]_(Promise!promiseVars)
  <2>1. CASE UNCHANGED row
    BY <1>4, <2>1 DEF Finalize, Promise!promiseVars
  <2>2. CASE row # NoBook /\ row.inc = task[t].inc /\ row' = FinalRow(t)
    <3>1. /\ task[t].pc = "finalize" /\ UNCHANGED durable
          /\ task[t].at \in 1..NumChapters
      BY <1>4, <1>typed DEF Finalize, TypeInv, TypeSupport, CallOK, ChapterPC, Ordinals
    <3>2. /\ row' # NoBook /\ row'.progress = Larger(row.progress, task[t].at)
          /\ row'.ledger = row.ledger \cup {task[t].at}
      <4>1. row' # NoBook
        BY <1>4, <1>typed, <2>2, SameShelf DEF TaskStep
      <4> QED
        BY <1>typed, <2>2, <4>1 DEF FinalRow, Rows
    <3>3. /\ task[t].at <= row.progress + 1 /\ 1..task[t].at \subseteq durable
          /\ row.ledger = 1..row.progress /\ row.progress \in Nat
      BY <1>typed, <2>2, <3>1
         DEF PassesInv, CallPart, ChapterOf, AfterMarker, ChapterPC, ShelfPart, ProgressIsDurable, Rows
    <3>4. CASE task[t].at <= row.progress
      <4>1. row'.progress = row.progress /\ row'.ledger = row.ledger
        BY <3>1, <3>2, <3>3, <3>4 DEF Larger
      <4> QED
        BY <2>2, <3>1, <3>2, <4>1 DEF Promise!promiseVars
    <3>5. CASE task[t].at = row.progress + 1
      <4>1. row'.progress = row.progress + 1 /\ row'.ledger = row.ledger \cup {row.progress + 1}
            /\ row.progress + 1 \in durable
        BY <3>1, <3>2, <3>3, <3>5 DEF Larger
      <4>2. Promise!Reconcile
        BY <2>2, <3>1, <3>2, <4>1 DEF Promise!Reconcile
      <4> QED
        BY <4>2 DEF Promise!PromiseNext
    <3> QED
      BY <3>1, <3>3, <3>4, <3>5
  <2> QED
    BY <1>4, <2>1, <2>2 DEF Finalize
<1>5. ASSUME NEW t \in Tasks, TaskStep(t), ~StoreChapter(t), ~Finalize(t)
      PROVE  UNCHANGED Promise!promiseVars
  <2>1. UNCHANGED durable /\ (UNCHANGED row \/ Reserve(t) \/ row' = SettledRow(t))
    BY <1>5 DEF TaskStep, Loop, PublishRead, PublishWrite, GateOpen, GateBlocked, GateFails,
           Chapter, Reserve, ReserveRefused, Extracted, ExtractFails, CommitLock,
           StoreStale, StoreFails, FinalizeFails, EndOfPass, Exit,
           Stop, Fail, ResubmitAccepted, ResubmitRefused
  <2> QED
    BY <1>typed, <1>same, <2>1, SettledKeeps, ReserveKeeps DEF RowKeeps
<1>6. CASE ReconcileCosts
  <2>1. row \in Rows /\ row' = [row EXCEPT !.reserved = {}] /\ row # NoBook
    BY <1>6, <1>typed DEF ReconcileCosts
  <2>2. row' \in Rows
    BY <2>1 DEF Rows
  <2>3. RowKeeps
    BY <2>1, <2>2, NoBookAssumption DEF Rows, RowKeeps
  <2> QED
    BY <1>6, <2>3, <1>same DEF ReconcileCosts
<1>7. CASE \/ \E n \in Ordinals : EnqueueRead(n)
           \/ RequestStep \/ Shutdown \/ Joined \/ ProcessExit \/ Crash \/ Restart
           \/ \E t \in Tasks : CancelQueued(t)
           \/ UNCHANGED vars
  <2>1. UNCHANGED <<row, durable>>
    BY <1>7 DEF EnqueueRead, RequestStep, EnqueueState, SubmitRefused, SubmitAccepted, Shutdown,
                Joined, ProcessExit, Crash, Restart, CancelQueued, vars
  <2> QED
    BY <2>1 DEF Promise!promiseVars
<1> QED
  BY <1>1, <1>2, <1>3, <1>4, <1>5, <1>6, <1>7 DEF Next

\* The worker implements IngestPromise: whatever interleaves with a pass, memory
\* grows by the next chapter of a shelved book, and progress follows it one
\* chapter at a time with its cost on the ledger.
THEOREM Refines == Spec => KeepsPromise
<1>1. Init => Promise!PromiseInit
  BY DEF Init, Promise!PromiseInit
<1> QED
  BY <1>1, PromiseStep, Inductive, PTL DEF Spec, KeepsPromise, Promise!PromiseSpec

-----------------------------------------------------------------------------
(* ReaderAnswers: the inductive invariant *)

BooksTyped ==
  shelf \in [Books -> [on : BOOLEAN, inc : Nat, epoch : Nat, mark : 0..Chapters, done : 0..Chapters,
                       fixed : SUBSET Nat]]

Scopes == {NoScope} \union [b : Books, inc : Nat, epoch : Nat, at : Nat, memory : SUBSET Nat]

(* Where a request of each kind can be.                                     *)
PlacesOf(kind) ==
  CASE kind = "recap" -> {"look", "slot", "claim", "spare", "lock", "again", "draft", "evidence", "judge",
                          "now", "keep", "write", "land", "return"}
    [] kind = "ask" -> {"share", "wait", "find", "draft", "evidence", "judge", "keep", "write", "resolve",
                        "pop"}
    [] kind = "closeout" -> {"draft", "evidence", "judge", "keep"}
    [] kind = "selection" -> {"draft", "judge", "keep"}

RequestPlaces == {"idle"} \union UNION {PlacesOf(kind) : kind \in Kinds}

RequestRows == [pc : RequestPlaces, kind : Kinds, s : Scopes, want : Scopes, tries : {0, 1},
                owner : Threads \union {Nobody}]
Placed(x) == x \in RequestRows /\ x.pc \in PlacesOf(x.kind) \union {"idle"}

FlightRows == [holder : Threads \union {Nobody}, refs : Nat]

ThreadsTyped == th \in [Threads -> RequestRows] /\ \A t \in Threads : Placed(th[t])
FlightsTyped == IsFiniteSet(DOMAIN flights) /\ flights \in [DOMAIN flights -> FlightRows]
SlotsTyped == slots \in Nat
InflightTyped == inflight \in [DOMAIN inflight -> [owner : Threads, done : BOOLEAN]]

AnswersTyped == BooksTyped /\ ThreadsTyped /\ FlightsTyped /\ SlotsTyped /\ InflightTyped

(* What a request holds, by where it is.                                    *)
Aboard(x) == x.kind = "recap"
             /\ x.pc \in {"spare", "lock", "again", "land", "write", "keep"} \union Paying
Flies(x) == Aboard(x) /\ x.pc \notin {"spare", "lock"}
Between(x) == x.pc \in {"claim", "spare", "return"}
Asks(x) == x.kind = "ask" /\ x.pc \notin {"idle", "share", "wait"}
Pays(x) == x.kind = "recap" /\ x.pc \in Paying

Aboards(k) == {t \in Threads : Aboard(th[t]) /\ RecapKey(th[t].s) = k}
Betweens == {t \in Threads : Between(th[t])}

(* A key is in flight while somebody is aboard, its entry counts them, and  *)
(* who is past its lock is its holder.                                      *)
FlightsInv ==
  /\ \A t \in Threads : Aboard(th[t]) => RecapKey(th[t].s) \in DOMAIN flights
  /\ \A t \in Threads : Flies(th[t]) => flights[RecapKey(th[t].s)].holder = t
  /\ \A k \in DOMAIN flights : flights[k].refs = Cardinality(Aboards(k)) /\ flights[k].refs > 0

SlotsInv == slots + Cardinality(DOMAIN flights) + Cardinality(Betweens) = MaxFlights

(* Whose question is being prepared owns the entry of its key.              *)
AsksInv == \A t \in Threads : Asks(th[t]) => AskKey(t) \in DOMAIN inflight /\ inflight[AskKey(t)].owner = t

(* Who pays for a recap looked for it after the flight was its own.         *)
PaysInv == \A t \in Threads : Pays(th[t]) => RecapKey(th[t].s) \notin recaps \union failed

AnswersInv == AnswersTyped /\ FlightsInv /\ SlotsInv /\ AsksInv /\ PaysInv

-----------------------------------------------------------------------------
(* ReaderAnswers: the shelf and the places of a request *)

\* What a step does to the books keeps their types.
LEMMA ShelfKeeps ==
    ASSUME BooksTyped, NEW b \in Books,
           \/ Reported(b) \/ CaughtUp(b) \/ StartedAgain(b) \/ Corrected(b) \/ Removed(b) \/ Imported(b)
    PROVE  BooksTyped'
<1> DEFINE Book == [on : BOOLEAN, inc : Nat, epoch : Nat, mark : 0..Chapters, done : 0..Chapters,
                    fixed : SUBSET Nat]
<1>1. shelf[b] \in Book /\ shelf \in [Books -> Book] /\ Chapters \in Nat
  BY ChaptersAssumption DEF BooksTyped
<1>2. PICK new \in Book : shelf' = [shelf EXCEPT ![b] = new]
  <2>1. CASE Reported(b)
    <3>1. PICK mark \in 0..Chapters : shelf' = [shelf EXCEPT ![b] = [shelf[b] EXCEPT !.mark = mark]]
      BY <2>1 DEF Reported, Becomes
    <3>2. [shelf[b] EXCEPT !.mark = mark] \in Book
      BY <1>1
    <3> QED
      BY <3>1, <3>2
  <2>2. CASE CaughtUp(b)
    <3>1. [shelf[b] EXCEPT !.done = shelf[b].mark] \in Book
      BY <1>1
    <3> QED
      BY <2>2, <3>1 DEF CaughtUp, Becomes
  <2>3. CASE StartedAgain(b)
    <3> DEFINE next == [shelf[b] EXCEPT !.epoch = shelf[b].epoch + 1]
    <3>1. next \in Book
      BY <1>1
    <3>2. shelf' = [shelf EXCEPT ![b] = [next EXCEPT !.mark = 0]]
      BY <2>3 DEF StartedAgain, Becomes
    <3> HIDE DEF next
    <3>3. [next EXCEPT !.mark = 0] \in Book
      BY <1>1, <3>1
    <3> QED
      BY <3>2, <3>3
  <2>4. CASE Corrected(b)
    <3>1. [shelf[b] EXCEPT !.fixed = shelf[b].fixed \union {shelf[b].mark}] \in Book
      BY <1>1
    <3> QED
      BY <2>4, <3>1 DEF Corrected, Becomes
  <2>5. CASE Removed(b)
    <3>1. [shelf[b] EXCEPT !.on = FALSE] \in Book
      BY <1>1
    <3> QED
      BY <2>5, <3>1 DEF Removed, Becomes
  <2>6. CASE Imported(b)
    <3> DEFINE next == [NewBook EXCEPT !.inc = shelf[b].inc + 1]
    <3>1. NewBook \in Book
      BY <1>1 DEF NewBook
    <3>2. next \in Book
      BY <1>1, <3>1
    <3>3. shelf' = [shelf EXCEPT ![b] = [next EXCEPT !.fixed = shelf[b].fixed]]
      BY <2>6 DEF Imported, Becomes
    <3> HIDE DEF next
    <3>4. [next EXCEPT !.fixed = shelf[b].fixed] \in Book
      BY <1>1, <3>2
    <3> QED
      BY <3>3, <3>4
  <2> QED
    BY <2>1, <2>2, <2>3, <2>4, <2>5, <2>6
<1> HIDE DEF Book
<1>3. shelf' \in [Books -> Book]
  BY <1>1, <1>2
<1> QED
  BY <1>3 DEF BooksTyped, Book

\* The books of a new shelf.
LEMMA ShelfStarts == ShelfInit => BooksTyped
<1> SUFFICES ASSUME ShelfInit PROVE BooksTyped
  OBVIOUS
<1>1. PICK c \in 0..1 : shelf = [b \in Books |-> [NewBook EXCEPT !.mark = c, !.done = c]]
  BY DEF ShelfInit
<1> DEFINE Book == [on : BOOLEAN, inc : Nat, epoch : Nat, mark : 0..Chapters, done : 0..Chapters,
                    fixed : SUBSET Nat]
           x == [NewBook EXCEPT !.mark = c]
           y == [x EXCEPT !.done = c]
<1>2. c \in 0..Chapters
  BY ChaptersAssumption
<1>3. NewBook \in Book
  BY <1>2, ChaptersAssumption DEF NewBook
<1>4. x \in Book
  BY <1>2, <1>3
<1> HIDE DEF x
<1>5. y \in Book
  BY <1>2, <1>4
<1>6. [NewBook EXCEPT !.mark = c, !.done = c] = y
  BY DEF x
<1> HIDE DEF y, Book
<1>7. shelf \in [Books -> Book]
  BY <1>1, <1>5, <1>6
<1> QED
  BY <1>7 DEF Book, BooksTyped

\* Below, a request's record is only seen through these facts.
LEMMA PayingIs == Paying = {"find", "draft", "evidence", "judge", "now"}
<1>1. 1..5 = {1, 2, 3, 4, 5}
  OBVIOUS
<1> QED
  BY <1>1 DEF Paying, Stages

\* A request that waits for nothing is in no role.
LEMMA IdlePlaced ==
    Placed(Idle) /\ ~Aboard(Idle) /\ ~Flies(Idle) /\ ~Between(Idle) /\ ~Asks(Idle) /\ ~Pays(Idle)
<1>1. Idle.pc = "idle" /\ Idle.kind = "recap" /\ Idle \in RequestRows
  BY DEF Idle, RequestRows, RequestPlaces, Kinds, Scopes
<1> QED
  BY <1>1, PayingIs DEF Placed, Aboard, Flies, Between, Asks, Pays

\* The record of a request at another place, in its first or its second attempt.
Moved(x, place, n) == [x EXCEPT !.pc = place, !.tries = n]
\* A request moved to a place of its kind is a request there.
LEMMA AtPlaced ==
    ASSUME NEW x \in RequestRows, NEW place \in PlacesOf(x.kind), NEW n \in {0, 1}
    PROVE  /\ Moved(x, place, n) \in RequestRows /\ Placed(Moved(x, place, n))
           /\ Moved(x, place, n).pc = place /\ Moved(x, place, n).kind = x.kind /\ Moved(x, place, n).s = x.s
<1> DEFINE y == [x EXCEPT !.pc = place]
           z == [y EXCEPT !.tries = n]
<1>1. x.kind \in Kinds
  BY DEF RequestRows
<1>2. place \in RequestPlaces
  BY <1>1 DEF RequestPlaces
<1>3. y \in RequestRows /\ y.pc = place /\ y.kind = x.kind /\ y.s = x.s
  BY <1>2 DEF RequestRows
<1> HIDE DEF y
<1>4. z \in RequestRows /\ z.pc = y.pc /\ z.kind = y.kind /\ z.s = y.s
  BY <1>3 DEF RequestRows
<1>5. Moved(x, place, n) = z
  BY DEF Moved, y
<1> HIDE DEF z
<1> QED
  BY <1>3, <1>4, <1>5 DEF Placed

\* A thread goes to another place of its route.
LEMMA ToIs ==
    ASSUME ThreadsTyped, NEW t \in Threads, NEW place \in PlacesOf(th[t].kind)
    PROVE  \E x \in RequestRows : /\ To(t, place) = [th EXCEPT ![t] = x] /\ Placed(x)
                                  /\ x.pc = place /\ x.kind = th[t].kind /\ x.s = th[t].s
<1> DEFINE x == [th[t] EXCEPT !.pc = place]
<1>1. th[t] \in RequestRows /\ th \in [Threads -> RequestRows]
  BY DEF ThreadsTyped
<1>2. place \in RequestPlaces
  BY <1>1 DEF RequestPlaces, RequestRows
<1>3. x \in RequestRows /\ x.pc = place /\ x.kind = th[t].kind /\ x.s = th[t].s
  BY <1>1, <1>2 DEF RequestRows
<1>4. To(t, place) = [th EXCEPT ![t] = x]
  BY <1>1 DEF To
<1> HIDE DEF x
<1> QED
  BY <1>3, <1>4 DEF Placed

-----------------------------------------------------------------------------
(* ReaderAnswers: what a step of one thread does to flights, slots and futures *)

\* The others go on as they were, or are woken from their wait.
OthersRest(t) ==
    /\ th' \in [Threads -> RequestRows]
    /\ \A u \in Threads \ {t} : th'[u] = th[u] \/ (th[u].pc = "wait" /\ th[u].kind = "ask" /\ th'[u] = Idle)

SameRoles(x, y) ==
    /\ Aboard(x) <=> Aboard(y)
    /\ Aboard(y) => RecapKey(x.s) = RecapKey(y.s)
    /\ Flies(y) => Flies(x)
    /\ Between(x) <=> Between(y)
    /\ Asks(y) => Asks(x) /\ x.s = y.s

\* A step of one thread leaves the roles of the others.
LEMMA OthersKeep ==
    ASSUME NEW t \in Threads, OthersRest(t), NEW u \in Threads \ {t}
    PROVE  SameRoles(th[u], th'[u]) /\ (Pays(th'[u]) => Pays(th[u]) /\ th'[u].s = th[u].s)
<1>1. CASE th'[u] = th[u]
  BY <1>1 DEF SameRoles
<1>2. CASE th[u].pc = "wait" /\ th[u].kind = "ask" /\ th'[u] = Idle
  <2>1. ~Aboard(th[u]) /\ ~Between(th[u])
    BY <1>2, PayingIs DEF Aboard, Between
  <2> QED
    BY <1>2, <2>1, IdlePlaced DEF SameRoles
<1> QED
  BY <1>1, <1>2 DEF OthersRest

\* The whole step of a thread, when it stays in its roles.
LEMMA RolesKeep ==
    ASSUME NEW t \in Threads, OthersRest(t), SameRoles(th[t], th'[t])
    PROVE  \A u \in Threads : SameRoles(th[u], th'[u])
BY OthersKeep

\* The flights stand while nobody boards one of them or leaves it.
LEMMA FlightsStand ==
    ASSUME FlightsInv, flights' = flights,
           \A u \in Threads : /\ Aboard(th'[u]) <=> Aboard(th[u])
                              /\ Aboard(th'[u]) => RecapKey(th'[u].s) = RecapKey(th[u].s)
                              /\ Flies(th'[u]) => Flies(th[u])
    PROVE  FlightsInv'
<1>1. ASSUME NEW k PROVE Aboards(k)' = Aboards(k)
  BY DEF Aboards
<1>2. ASSUME NEW u \in Threads, Aboard(th'[u]) PROVE RecapKey(th'[u].s) \in DOMAIN flights
  BY <1>2 DEF FlightsInv
<1>3. ASSUME NEW u \in Threads, Flies(th'[u]) PROVE flights[RecapKey(th'[u].s)].holder = u
  BY <1>3 DEF FlightsInv, Flies
<1> QED
  BY <1>1, <1>2, <1>3 DEF FlightsInv

\* The flights stand while every thread keeps its role.
LEMMA FlightsStay ==
    ASSUME FlightsInv, flights' = flights, \A u \in Threads : SameRoles(th[u], th'[u])
    PROVE  FlightsInv'
BY FlightsStand DEF SameRoles

\* The slots are accounted for while every thread keeps its role.
LEMMA SlotsStay ==
    ASSUME SlotsInv, UNCHANGED <<slots, flights>>, \A u \in Threads : SameRoles(th[u], th'[u])
    PROVE  SlotsInv'
<1>1. Betweens' = Betweens
  BY DEF Betweens, SameRoles
<1> QED
  BY <1>1 DEF SlotsInv

\* The futures' owners stay, and so do those who own one.
LEMMA AsksStay ==
    ASSUME AsksInv, inflight' = inflight, \A u \in Threads : SameRoles(th[u], th'[u])
    PROVE  AsksInv'
<1> SUFFICES ASSUME NEW u \in Threads, Asks(th'[u])
             PROVE  AskKey(u)' \in DOMAIN inflight /\ inflight[AskKey(u)'].owner = u
  BY DEF AsksInv
<1>1. Asks(th[u]) /\ th[u].s = th'[u].s
  BY DEF SameRoles
<1>2. AskKey(u)' = AskKey(u)
  BY <1>1 DEF AskKey
<1> QED
  BY <1>1, <1>2 DEF AsksInv

\* Who pays still may, when the caches hold nothing of those who pay.
LEMMA PaysStay ==
    ASSUME NEW t \in Threads, OthersRest(t),
           \A u \in Threads \ {t} : Pays(th[u]) => RecapKey(th[u].s) \notin recaps' \union failed',
           Pays(th'[t]) => RecapKey(th'[t].s) \notin recaps' \union failed'
    PROVE  PaysInv'
<1> SUFFICES ASSUME NEW u \in Threads, Pays(th'[u]) PROVE RecapKey(th'[u].s) \notin recaps' \union failed'
  BY DEF PaysInv
<1>1. CASE u = t
  BY <1>1
<1>2. CASE u # t
  BY <1>2, OthersKeep
<1> QED
  BY <1>1, <1>2

\* How many threads hold a slot in hand.
LEMMA BetweensCount ==
    Betweens \subseteq Threads /\ IsFiniteSet(Betweens) /\ Cardinality(Betweens) \in Nat
<1>1. IsFiniteSet(Threads)
  BY ReadersAssumption, FS_AddElement DEF Threads
<1>2. Betweens \subseteq Threads
  BY DEF Betweens
<1> QED
  BY <1>1, <1>2, FS_Subset, FS_CardinalityType

\* One thread more or less that holds a slot of its own.
LEMMA BetweensChange ==
    ASSUME NEW t \in Threads, OthersRest(t)
    PROVE  /\ Between(th[t]) <=> Between(th'[t]) => Betweens' = Betweens
           /\ ~Between(th[t]) /\ Between(th'[t]) => Cardinality(Betweens') = Cardinality(Betweens) + 1
           /\ Between(th[t]) /\ ~Between(th'[t]) => Cardinality(Betweens') = Cardinality(Betweens) - 1
<1>1. \A u \in Threads : u # t => (Between(th'[u]) <=> Between(th[u]))
  BY OthersKeep DEF SameRoles
<1>2. Betweens' = {u \in Threads : Between(th'[u])} /\ Betweens = {u \in Threads : Between(th[u])}
  BY DEF Betweens
<1>3. CASE Between(th[t]) <=> Between(th'[t])
  BY <1>1, <1>2, <1>3
<1>4. CASE ~Between(th[t]) /\ Between(th'[t])
  <2>1. Betweens' = Betweens \union {t} /\ t \notin Betweens
    BY <1>1, <1>2, <1>4
  <2> QED
    BY <1>4, <2>1, BetweensCount, FS_AddElement
<1>5. CASE Between(th[t]) /\ ~Between(th'[t])
  <2>1. Betweens' = Betweens \ {t} /\ t \in Betweens
    BY <1>1, <1>2, <1>5
  <2> QED
    BY <1>5, <2>1, BetweensCount, FS_RemoveElement
<1> QED
  BY <1>3, <1>4, <1>5


\* Nobody is aboard a key that is not in flight; who is past its lock is alone there.
LEMMA NobodyAboard ==
    ASSUME FlightsInv, NEW k, k \notin DOMAIN flights
    PROVE  Aboards(k) = {}
BY DEF FlightsInv, Aboards

\* Those aboard a flight can be counted.
LEMMA AboardsFinite ==
    ASSUME NEW k
    PROVE  /\ IsFiniteSet(Aboards(k)) /\ Cardinality(Aboards(k)) \in Nat
           /\ IsFiniteSet(Aboards(k)') /\ Cardinality(Aboards(k)') \in Nat
<1>1. IsFiniteSet(Threads)
  BY ReadersAssumption, FS_AddElement DEF Threads
<1>2. Aboards(k) \subseteq Threads /\ Aboards(k)' \subseteq Threads
  BY DEF Aboards
<1> QED
  BY <1>1, <1>2, FS_Subset, FS_CardinalityType

\* What the step of one thread changes about who is aboard.
LEMMA AboardsChange ==
    ASSUME NEW t \in Threads, OthersRest(t), NEW k
    PROVE  Aboards(k)' = IF Aboard(th'[t]) /\ RecapKey(th'[t].s) = k THEN Aboards(k) \union {t}
                         ELSE Aboards(k) \ {t}
<1>1. \A u \in Threads : u # t => (/\ Aboard(th'[u]) <=> Aboard(th[u])
                                   /\ Aboard(th'[u]) => RecapKey(th'[u].s) = RecapKey(th[u].s))
  BY OthersKeep DEF SameRoles
<1>2. /\ Aboards(k)' = {u \in Threads : Aboard(th'[u]) /\ RecapKey(th'[u].s) = k}
      /\ Aboards(k) = {u \in Threads : Aboard(th[u]) /\ RecapKey(th[u].s) = k}
  BY DEF Aboards
<1> QED
  BY <1>1, <1>2

\* A step of one thread lets no other one board or fly.
LEMMA OthersFly ==
    ASSUME NEW t \in Threads, OthersRest(t), NEW u \in Threads \ {t}
    PROVE  /\ Aboard(th'[u]) => Aboard(th[u]) /\ RecapKey(th'[u].s) = RecapKey(th[u].s)
           /\ Flies(th'[u]) => Flies(th[u]) /\ Aboard(th[u])
BY OthersKeep DEF SameRoles, Flies

\* A thread gets aboard a key in flight.
LEMMA BoardKeeps ==
    ASSUME FlightsInv, FlightsTyped, NEW t \in Threads, OthersRest(t), NEW k \in DOMAIN flights, flights' = Boarded(k),
           ~Aboard(th[t]), Aboard(th'[t]), RecapKey(th'[t].s) = k, ~Flies(th'[t])
    PROVE  FlightsInv' /\ FlightsTyped' /\ DOMAIN flights' = DOMAIN flights
<1> DEFINE seat == [flights[k] EXCEPT !.refs = flights[k].refs + 1]
<1>1. flights' = [flights EXCEPT ![k] = seat] /\ DOMAIN flights' = DOMAIN flights
  BY DEF Boarded
<1>2. seat \in FlightRows /\ seat.refs = flights[k].refs + 1 /\ seat.holder = flights[k].holder
      /\ flights[k].refs \in Nat
  BY DEF FlightsTyped, FlightRows
<1> HIDE DEF seat
<1>3. \A i \in DOMAIN flights : flights'[i] = IF i = k THEN seat ELSE flights[i]
  BY <1>1
<1>4. FlightsTyped'
  BY <1>1, <1>2 DEF FlightsTyped
<1>5. ASSUME NEW u \in Threads, Aboard(th'[u]) PROVE RecapKey(th'[u].s) \in DOMAIN flights'
  BY <1>1, <1>5, OthersFly DEF FlightsInv
<1>6. ASSUME NEW u \in Threads, Flies(th'[u]) PROVE flights'[RecapKey(th'[u].s)].holder = u
  <2>1. u # t /\ Flies(th[u]) /\ Aboard(th[u]) /\ RecapKey(th'[u].s) = RecapKey(th[u].s)
    BY <1>6, OthersFly DEF Flies
  <2> DEFINE i == RecapKey(th[u].s)
  <2>2. i \in DOMAIN flights /\ flights[i].holder = u
    BY <2>1 DEF FlightsInv
  <2> HIDE DEF i
  <2>3. flights'[i].holder = flights[i].holder
    BY <1>2, <1>3, <2>2
  <2> QED
    BY <2>1, <2>2, <2>3 DEF i
<1>7. ASSUME NEW i \in DOMAIN flights
      PROVE  flights'[i].refs = Cardinality(Aboards(i)') /\ flights'[i].refs > 0
  <2>1. flights[i].refs = Cardinality(Aboards(i)) /\ flights[i].refs > 0
    BY DEF FlightsInv
  <2>2. t \notin Aboards(i)
    BY DEF Aboards
  <2>3. CASE i = k
    <3>1. Aboards(i)' = Aboards(i) \union {t}
      BY <2>3, AboardsChange
    <3>2. Cardinality(Aboards(i)') = Cardinality(Aboards(i)) + 1
      BY <2>2, <3>1, AboardsFinite, FS_AddElement
    <3> QED
      BY <1>2, <1>3, <2>1, <2>3, <3>2
  <2>4. CASE i # k
    <3>1. Aboards(i)' = Aboards(i)
      BY <2>2, <2>4, AboardsChange
    <3> QED
      BY <1>3, <2>1, <2>4, <3>1
  <2> QED
    BY <2>3, <2>4
<1> QED
  BY <1>1, <1>4, <1>5, <1>6, <1>7 DEF FlightsInv

\* A key takes off with the thread that brings it.
LEMMA TakesOffKeeps ==
    ASSUME FlightsInv, FlightsTyped, NEW t \in Threads, OthersRest(t), NEW k, k \notin DOMAIN flights,
           flights' = With(flights, k, [holder |-> Nobody, refs |-> 1]),
           ~Aboard(th[t]), Aboard(th'[t]), RecapKey(th'[t].s) = k, ~Flies(th'[t])
    PROVE  /\ FlightsInv' /\ FlightsTyped'
           /\ Cardinality(DOMAIN flights') = Cardinality(DOMAIN flights) + 1
<1> DEFINE seat == [holder |-> Nobody, refs |-> 1]
<1>1. seat \in FlightRows /\ seat.refs = 1
  BY DEF FlightRows
<1> HIDE DEF seat
<1>2. /\ DOMAIN flights' = DOMAIN flights \union {k}
      /\ flights'[k] = seat
      /\ \A i \in DOMAIN flights : flights'[i] = flights[i] /\ i # k
      /\ flights' \in [DOMAIN flights \union {k} -> FlightRows]
  BY <1>1 DEF With, FlightsTyped, seat
<1>3. IsFiniteSet(DOMAIN flights') /\ Cardinality(DOMAIN flights') = Cardinality(DOMAIN flights) + 1
  BY <1>2, FS_AddElement DEF FlightsTyped
<1>4. FlightsTyped'
  BY <1>2, <1>3 DEF FlightsTyped
<1>5. ASSUME NEW u \in Threads, Aboard(th'[u]) PROVE RecapKey(th'[u].s) \in DOMAIN flights'
  BY <1>2, <1>5, OthersFly DEF FlightsInv
<1>6. ASSUME NEW u \in Threads, Flies(th'[u]) PROVE flights'[RecapKey(th'[u].s)].holder = u
  <2>1. u # t /\ Flies(th[u]) /\ Aboard(th[u]) /\ RecapKey(th'[u].s) = RecapKey(th[u].s)
    BY <1>6, OthersFly DEF Flies
  <2>2. RecapKey(th[u].s) \in DOMAIN flights /\ flights[RecapKey(th[u].s)].holder = u
    BY <2>1 DEF FlightsInv
  <2> QED
    BY <1>2, <2>1, <2>2
<1>7. ASSUME NEW i \in DOMAIN flights'
      PROVE  flights'[i].refs = Cardinality(Aboards(i)') /\ flights'[i].refs > 0
  <2>1. t \notin Aboards(i)
    BY DEF Aboards
  <2>2. CASE i = k
    <3>1. Aboards(i)' = {t}
      BY <2>2, AboardsChange, NobodyAboard
    <3>2. Cardinality(Aboards(i)') = 1
      BY <3>1, FS_Singleton
    <3>3. flights'[i].refs = 1
      BY <1>1, <1>2, <2>2
    <3> QED
      BY <3>2, <3>3
  <2>3. CASE i # k
    <3>1. Aboards(i)' = Aboards(i)
      BY <2>1, <2>3, AboardsChange
    <3> QED
      BY <1>2, <1>7, <2>3, <3>1 DEF FlightsInv
  <2> QED
    BY <2>2, <2>3
<1> QED
  BY <1>3, <1>4, <1>5, <1>6, <1>7 DEF FlightsInv


\* Who gets the lock of a key holds it, and nobody else did.
LEMMA LocksKeeps ==
    ASSUME FlightsInv, FlightsTyped, NEW t \in Threads, OthersRest(t), NEW k \in DOMAIN flights,
           flights[k].holder = Nobody, flights' = [flights EXCEPT ![k].holder = t],
           Aboard(th[t]), RecapKey(th[t].s) = k, Aboard(th'[t]), RecapKey(th'[t].s) = k
    PROVE  FlightsInv' /\ FlightsTyped' /\ DOMAIN flights' = DOMAIN flights
<1> DEFINE seat == [flights[k] EXCEPT !.holder = t]
<1>1. flights' = [flights EXCEPT ![k] = seat] /\ DOMAIN flights' = DOMAIN flights
  OBVIOUS
<1>2. seat \in FlightRows /\ seat.refs = flights[k].refs /\ seat.holder = t
  BY DEF FlightsTyped, FlightRows
<1> HIDE DEF seat
<1>3. \A i \in DOMAIN flights : flights'[i] = IF i = k THEN seat ELSE flights[i]
  BY <1>1
<1>4. FlightsTyped'
  BY <1>1, <1>2 DEF FlightsTyped
<1>5. ASSUME NEW u \in Threads, Aboard(th'[u]) PROVE RecapKey(th'[u].s) \in DOMAIN flights'
  BY <1>1, <1>5, OthersFly DEF FlightsInv
<1>6. ASSUME NEW u \in Threads, Flies(th'[u]) PROVE flights'[RecapKey(th'[u].s)].holder = u
  <2>1. CASE u = t
    BY <1>2, <1>3, <2>1
  <2>2. CASE u # t
    <3>1. Flies(th[u]) /\ Aboard(th[u]) /\ RecapKey(th'[u].s) = RecapKey(th[u].s)
      BY <1>6, <2>2, OthersFly DEF Flies
    <3>2. RecapKey(th[u].s) \in DOMAIN flights /\ flights[RecapKey(th[u].s)].holder = u
      BY <3>1 DEF FlightsInv
    <3>3. u # Nobody
      BY ReadersAssumption DEF Threads, Nobody
    <3>4. RecapKey(th[u].s) # k
      BY <3>2, <3>3
    <3> QED
      BY <1>3, <3>1, <3>2, <3>4
  <2> QED
    BY <2>1, <2>2
<1>7. ASSUME NEW i \in DOMAIN flights
      PROVE  flights'[i].refs = Cardinality(Aboards(i)') /\ flights'[i].refs > 0
  <2>1. t \in Aboards(i) <=> i = k
    BY DEF Aboards
  <2>2. Aboards(i)' = Aboards(i)
    BY <2>1, AboardsChange
  <2>3. flights'[i].refs = flights[i].refs
    BY <1>2, <1>3
  <2> QED
    BY <2>2, <2>3 DEF FlightsInv
<1> QED
  BY <1>1, <1>4, <1>5, <1>6, <1>7 DEF FlightsInv

\* Whoever flies with a key holds it, and so flies alone.
LEMMA FliesAlone ==
    ASSUME FlightsInv, NEW t \in Threads, NEW u \in Threads, Flies(th[t]), Flies(th[u]),
           RecapKey(th[t].s) = RecapKey(th[u].s)
    PROVE  t = u
BY DEF FlightsInv

\* The last one takes the key out of flight; there is nobody else aboard.
LEMMA LastLands ==
    ASSUME FlightsInv, FlightsTyped, NEW t \in Threads, OthersRest(t), NEW k, RecapKey(th[t].s) = k, Flies(th[t]),
           flights[k].refs = 1, flights' = Less(flights, {k}), ~Aboard(th'[t])
    PROVE  /\ FlightsInv' /\ FlightsTyped'
           /\ Cardinality(DOMAIN flights') = Cardinality(DOMAIN flights) - 1
<1>1. k \in DOMAIN flights /\ t \in Aboards(k) /\ Aboard(th[t])
  BY DEF FlightsInv, Flies, Aboards
<1>2. /\ DOMAIN flights' = DOMAIN flights \ {k}
      /\ \A i \in DOMAIN flights' : flights'[i] = flights[i]
      /\ flights' \in [DOMAIN flights' -> FlightRows]
  BY DEF Less, FlightsTyped
<1>3. IsFiniteSet(DOMAIN flights') /\ Cardinality(DOMAIN flights') = Cardinality(DOMAIN flights) - 1
  BY <1>1, <1>2, FS_RemoveElement DEF FlightsTyped
<1>4. FlightsTyped'
  BY <1>2, <1>3 DEF FlightsTyped
<1>5. Aboards(k) = {t}
  <2>1. Cardinality(Aboards(k)) = 1 /\ IsFiniteSet(Aboards(k))
    BY <1>1, AboardsFinite DEF FlightsInv
  <2>2. Cardinality(Aboards(k) \ {t}) = 0 /\ IsFiniteSet(Aboards(k) \ {t})
    BY <1>1, <2>1, FS_RemoveElement
  <2>3. Aboards(k) \ {t} = {}
    BY <2>2, FS_EmptySet
  <2> QED
    BY <1>1, <2>3
<1>6. ASSUME NEW u \in Threads, Aboard(th'[u])
      PROVE  u # t /\ Aboard(th[u]) /\ RecapKey(th'[u].s) = RecapKey(th[u].s) /\ RecapKey(th'[u].s) \in DOMAIN flights'
  <2>1. u # t /\ Aboard(th[u]) /\ RecapKey(th'[u].s) = RecapKey(th[u].s)
    BY <1>6, OthersFly
  <2>2. RecapKey(th[u].s) # k
    BY <1>5, <2>1 DEF Aboards
  <2> QED
    BY <1>2, <2>1, <2>2 DEF FlightsInv
<1>7. ASSUME NEW u \in Threads, Flies(th'[u]) PROVE flights'[RecapKey(th'[u].s)].holder = u
  <2>1. Aboard(th'[u])
    BY <1>7 DEF Flies
  <2>2. u # t /\ Flies(th[u]) /\ RecapKey(th'[u].s) = RecapKey(th[u].s) /\ RecapKey(th'[u].s) \in DOMAIN flights'
    BY <1>6, <1>7, <2>1, OthersFly
  <2> QED
    BY <1>2, <2>2 DEF FlightsInv
<1>8. ASSUME NEW i \in DOMAIN flights'
      PROVE  flights'[i].refs = Cardinality(Aboards(i)') /\ flights'[i].refs > 0
  <2>1. i \in DOMAIN flights /\ i # k /\ t \notin Aboards(i)
    BY <1>2 DEF Aboards
  <2>2. Aboards(i)' = Aboards(i)
    BY <2>1, AboardsChange
  <2> QED
    BY <1>2, <2>1, <2>2 DEF FlightsInv
<1> QED
  BY <1>3, <1>4, <1>6, <1>7, <1>8 DEF FlightsInv

\* One of several leaves the lock to the next.
LEMMA OneLands ==
    ASSUME FlightsInv, FlightsTyped, NEW t \in Threads, OthersRest(t), NEW k, RecapKey(th[t].s) = k, Flies(th[t]),
           flights[k].refs # 1,
           flights' = [flights EXCEPT ![k] = [holder |-> Nobody, refs |-> flights[k].refs - 1]], ~Aboard(th'[t])
    PROVE  FlightsInv' /\ FlightsTyped' /\ DOMAIN flights' = DOMAIN flights
<1> DEFINE seat == [holder |-> Nobody, refs |-> flights[k].refs - 1]
<1>1. k \in DOMAIN flights /\ t \in Aboards(k) /\ Aboard(th[t]) /\ flights[k].holder = t
  BY DEF FlightsInv, Flies, Aboards
<1>2. flights[k] \in FlightRows /\ flights[k].refs = Cardinality(Aboards(k)) /\ flights[k].refs > 0
      /\ flights[k].refs \in Nat
  BY <1>1 DEF FlightsInv, FlightsTyped, FlightRows
<1>3. seat \in FlightRows /\ seat.refs = flights[k].refs - 1 /\ seat.refs > 0
  BY <1>2 DEF FlightRows
<1>4. flights' = [flights EXCEPT ![k] = seat] /\ DOMAIN flights' = DOMAIN flights
  OBVIOUS
<1> HIDE DEF seat
<1>5. \A i \in DOMAIN flights : flights'[i] = IF i = k THEN seat ELSE flights[i]
  BY <1>4
<1>6. FlightsTyped'
  BY <1>3, <1>4 DEF FlightsTyped
<1>7. ASSUME NEW u \in Threads, Aboard(th'[u]) PROVE RecapKey(th'[u].s) \in DOMAIN flights'
  BY <1>4, <1>7, OthersFly DEF FlightsInv
<1>8. ASSUME NEW u \in Threads, Flies(th'[u]) PROVE flights'[RecapKey(th'[u].s)].holder = u
  <2>1. u # t /\ Flies(th[u]) /\ Aboard(th[u]) /\ RecapKey(th'[u].s) = RecapKey(th[u].s)
    BY <1>8, OthersFly DEF Flies
  <2>2. RecapKey(th[u].s) \in DOMAIN flights /\ flights[RecapKey(th[u].s)].holder = u
    BY <2>1 DEF FlightsInv
  <2>3. RecapKey(th[u].s) # k
    BY <1>1, <2>1, <2>2
  <2> QED
    BY <1>5, <2>1, <2>2, <2>3
<1>9. ASSUME NEW i \in DOMAIN flights
      PROVE  flights'[i].refs = Cardinality(Aboards(i)') /\ flights'[i].refs > 0
  <2>1. Aboards(i)' = Aboards(i) \ {t}
    BY AboardsChange
  <2>2. CASE i = k
    <3>1. t \in Aboards(i) /\ IsFiniteSet(Aboards(i))
      BY <1>1, <2>2, AboardsFinite
    <3>2. Cardinality(Aboards(i) \ {t}) = Cardinality(Aboards(i)) - 1
      BY <3>1, FS_RemoveElement
    <3> QED
      BY <1>2, <1>3, <1>5, <2>1, <2>2, <3>2
  <2>3. CASE i # k
    <3>1. t \notin Aboards(i)
      BY <2>3 DEF Aboards
    <3>2. Aboards(i)' = Aboards(i)
      BY <2>1, <3>1
    <3> QED
      BY <1>5, <2>3, <3>2 DEF FlightsInv
  <2> QED
    BY <2>2, <2>3
<1> QED
  BY <1>4, <1>6, <1>7, <1>8, <1>9 DEF FlightsInv


-----------------------------------------------------------------------------
(* ReaderAnswers: each step keeps the invariant *)

LEMMA MoveIs ==
    ASSUME ThreadsTyped, NEW t \in Threads, NEW x, Placed(x), th' = [th EXCEPT ![t] = x]
    PROVE  OthersRest(t) /\ ThreadsTyped' /\ th'[t] = x
BY DEF ThreadsTyped, OthersRest, Placed

\* What the caches get from the one who flies with its key, no other pays for.
LEMMA OthersPay ==
    ASSUME FlightsInv, PaysInv, NEW t \in Threads, Flies(th[t]),
           recaps' \union failed' \subseteq recaps \union failed \union {RecapKey(th[t].s)}
    PROVE  \A u \in Threads \ {t} : Pays(th[u]) => RecapKey(th[u].s) \notin recaps' \union failed'
<1> SUFFICES ASSUME NEW u \in Threads \ {t}, Pays(th[u]) PROVE RecapKey(th[u].s) \notin recaps' \union failed'
  OBVIOUS
<1>1. Flies(th[u])
  BY PayingIs DEF Pays, Flies, Aboard
<1>2. RecapKey(th[u].s) # RecapKey(th[t].s)
  BY <1>1, FliesAlone
<1>3. RecapKey(th[u].s) \notin recaps \union failed
  BY DEF PaysInv
<1> QED
  BY <1>2, <1>3

\* A step that leaves flights, slots and futures, and its thread's roles.
LEMMA StayKeeps ==
    ASSUME AnswersInv, NEW t \in Threads, NEW x, Placed(x), th' = [th EXCEPT ![t] = x], SameRoles(th[t], x),
           UNCHANGED <<shelf, flights, slots, inflight>>,
           \A u \in Threads \ {t} : Pays(th[u]) => RecapKey(th[u].s) \notin recaps' \union failed',
           Pays(x) => RecapKey(x.s) \notin recaps' \union failed'
    PROVE  AnswersInv'
<1>1. OthersRest(t) /\ ThreadsTyped' /\ th'[t] = x
  BY MoveIs DEF AnswersInv, AnswersTyped
<1>2. \A u \in Threads : SameRoles(th[u], th'[u])
  BY <1>1, RolesKeep
<1>3. AnswersTyped'
  BY <1>1 DEF AnswersInv, AnswersTyped, BooksTyped, FlightsTyped, SlotsTyped, InflightTyped
<1>4. FlightsInv' /\ SlotsInv' /\ AsksInv'
  BY <1>2, FlightsStay, SlotsStay, AsksStay DEF AnswersInv
<1>5. PaysInv'
  BY <1>1, PaysStay
<1> QED
  BY <1>3, <1>4, <1>5 DEF AnswersInv

\* The caches as they were.
LEMMA CachesStay ==
    ASSUME AnswersInv, UNCHANGED <<recaps, failed>>
    PROVE  \A u \in Threads : Pays(th[u]) => RecapKey(th[u].s) \notin recaps' \union failed'
BY DEF AnswersInv, PaysInv

\* A request begins outside of every flight, slot and future.
LEMMA BeginKeeps ==
    ASSUME AnswersInv, NEW t \in Threads, th[t].pc = "idle", NEW kind \in Kinds, NEW b \in Books,
           NEW want \in Scopes, th' = [th EXCEPT ![t] = Begun(kind, b, HighWater(b), want)],
           UNCHANGED <<shelf, caches, flights, slots, inflight>>
    PROVE  AnswersInv'
<1> DEFINE s == Scope(b, HighWater(b))
           pc == Opens(kind)
           x == Begun(kind, b, HighWater(b), want)
<1>1. s \in Scopes
  BY DEF Scopes, Scope, Snapshot, HighWater, Lower, AnswersInv, AnswersTyped, BooksTyped
<1>2. pc \in PlacesOf(kind) /\ pc \in RequestPlaces /\ pc \notin {"idle", "claim", "spare", "return"}
      /\ (kind = "recap" => pc = "look") /\ (kind = "ask" => pc = "share")
  BY DEF Opens, PlacesOf, RequestPlaces, Kinds
<1> HIDE DEF s, pc
<1>3. Placed(x) /\ ~Aboard(x) /\ ~Flies(x) /\ ~Between(x) /\ ~Asks(x) /\ ~Pays(x)
  <2>1. CASE x = Idle
    BY <2>1, IdlePlaced
  <2>2. CASE x # Idle
    <3> DEFINE y == [pc |-> pc, kind |-> kind, s |-> s, want |-> want, tries |-> 0, owner |-> Nobody]
    <3>1. x = y
      <4>1. x = [Idle EXCEPT !.pc = pc, !.kind = kind, !.s = s, !.want = want]
        BY <2>2 DEF Begun, s, pc
      <4> QED
        BY <4>1 DEF Idle
    <3>2. y \in RequestRows /\ y.pc = pc /\ y.kind = kind
      BY <1>1, <1>2 DEF RequestRows
    <3> HIDE DEF x, y
    <3> QED
      BY <1>2, <3>1, <3>2, PayingIs DEF Placed, Aboard, Flies, Between, Asks, Pays
  <2> QED
    BY <2>1, <2>2
<1>4. ~Aboard(th[t]) /\ ~Between(th[t])
  BY PayingIs DEF Aboard, Between
<1>5. SameRoles(th[t], x)
  BY <1>3, <1>4 DEF SameRoles
<1> HIDE DEF x
<1> QED
  BY <1>3, <1>5, CachesStay, StayKeeps DEF caches, x


\* Which routes have a place.
LEMMA KindAt ==
    ASSUME ThreadsTyped, NEW t \in Threads
    PROVE  /\ th[t] \in RequestRows /\ th[t].kind \in Kinds
           /\ th[t].pc # "idle" => th[t].pc \in PlacesOf(th[t].kind)
           /\ th[t].pc \in {"look", "slot", "claim", "spare", "lock", "again", "now", "land", "return"}
                => th[t].kind = "recap"
           /\ th[t].pc \in {"share", "wait", "find", "resolve", "pop"} => th[t].kind = "ask"
           /\ th[t].pc = "write" => th[t].kind \in {"recap", "ask"}
<1>1. th[t] \in RequestRows /\ th[t].pc \in PlacesOf(th[t].kind) \union {"idle"}
  BY DEF ThreadsTyped, Placed
<1>2. th[t].kind \in Kinds
  BY <1>1 DEF RequestRows
<1> QED
  BY <1>1, <1>2 DEF PlacesOf, Kinds

\* A step of a recap's thread to another place of its route.
LEMMA RecapGoes ==
    ASSUME ThreadsTyped, NEW t \in Threads, th[t].kind = "recap", NEW place \in PlacesOf("recap"), th' = To(t, place)
    PROVE  /\ OthersRest(t) /\ ThreadsTyped'
           /\ th'[t].pc = place /\ th'[t].kind = "recap" /\ th'[t].s = th[t].s
           /\ \E x : Placed(x) /\ th' = [th EXCEPT ![t] = x] /\ x.pc = place /\ x.kind = "recap" /\ x.s = th[t].s
<1>1. PICK x \in RequestRows : /\ th' = [th EXCEPT ![t] = x] /\ Placed(x)
                               /\ x.pc = place /\ x.kind = "recap" /\ x.s = th[t].s
  BY ToIs
<1>2. OthersRest(t) /\ ThreadsTyped' /\ th'[t] = x
  BY <1>1, MoveIs
<1> QED
  BY <1>1, <1>2

\* What a recap request is at each place.
LEMMA RecapsRoles ==
    ASSUME NEW x, x.kind = "recap"
    PROVE  /\ Aboard(x) <=> x.pc \in {"spare", "lock", "again", "land", "write", "keep", "find", "draft",
                                      "evidence", "judge", "now"}
           /\ Flies(x) <=> x.pc \in {"again", "land", "write", "keep", "find", "draft", "evidence", "judge", "now"}
           /\ Pays(x) <=> x.pc \in {"find", "draft", "evidence", "judge", "now"}
           /\ Between(x) <=> x.pc \in {"claim", "spare", "return"}
           /\ ~Asks(x)
BY PayingIs DEF Aboard, Flies, Pays, Between, Asks

\* The parts a step of a recap's thread leaves.
LEMMA RecapLeaves ==
    ASSUME AnswersInv, NEW t \in Threads, OthersRest(t), th[t].kind = "recap", th'[t].kind = "recap",
           UNCHANGED <<shelf, inflight, recaps, failed>>, Pays(th'[t]) => Pays(th[t]) /\ th'[t].s = th[t].s
    PROVE  BooksTyped' /\ InflightTyped' /\ AsksInv' /\ PaysInv'
<1>1. BooksTyped' /\ InflightTyped'
  BY DEF AnswersInv, AnswersTyped, BooksTyped, InflightTyped
<1>2. AsksInv'
  <2> SUFFICES ASSUME NEW u \in Threads, Asks(th'[u])
               PROVE  AskKey(u)' \in DOMAIN inflight /\ inflight[AskKey(u)'].owner = u
    BY DEF AsksInv
  <2>1. u # t
    BY DEF Asks
  <2>2. Asks(th[u]) /\ th[u].s = th'[u].s
    BY <2>1, OthersKeep DEF SameRoles
  <2>3. AskKey(u)' = AskKey(u)
    BY <2>2 DEF AskKey
  <2> QED
    BY <2>2, <2>3 DEF AnswersInv, AsksInv
<1>3. PaysInv'
  <2>1. \A u \in Threads : Pays(th[u]) => RecapKey(th[u].s) \notin recaps' \union failed'
    BY CachesStay
  <2> QED
    BY <2>1, PaysStay
<1> QED
  BY <1>1, <1>2, <1>3

\* A flight of the key is boarded, or a slot is asked for.
LEMMA LookKeeps == ASSUME AnswersInv, NEW t \in Threads, Look(t) PROVE AnswersInv'
<1> DEFINE k == RecapKey(th[t].s)
<1>1. /\ th[t].pc = "look" /\ UNCHANGED <<shelf, recaps, failed, slots, answers, inflight>>
      /\ ThreadsTyped /\ FlightsTyped /\ SlotsTyped /\ FlightsInv /\ SlotsInv
  BY DEF Look, AnswersInv, AnswersTyped
<1>2. th[t].kind = "recap" /\ {"lock", "slot"} \subseteq PlacesOf("recap")
  BY <1>1, KindAt DEF PlacesOf
<1>3. CASE k \in DOMAIN flights
  <2>1. flights' = Boarded(k) /\ th' = To(t, "lock")
    BY <1>3 DEF Look, Key
  <2>2. OthersRest(t) /\ ThreadsTyped' /\ th'[t].pc = "lock" /\ th'[t].kind = "recap" /\ th'[t].s = th[t].s
    BY <1>1, <1>2, <2>1, RecapGoes
  <2>3. FlightsInv' /\ FlightsTyped' /\ DOMAIN flights' = DOMAIN flights
    BY <1>1, <1>2, <1>3, <2>1, <2>2, RecapsRoles, BoardKeeps
  <2>4. SlotsInv' /\ SlotsTyped'
    <3>1. Betweens' = Betweens
      BY <1>1, <1>2, <2>2, RecapsRoles, BetweensChange
    <3> QED
      BY <1>1, <2>3, <3>1 DEF SlotsInv, SlotsTyped
  <2>5. BooksTyped' /\ InflightTyped' /\ AsksInv' /\ PaysInv'
    BY <1>1, <1>2, <2>2, RecapsRoles, RecapLeaves
  <2> QED
    BY <2>2, <2>3, <2>4, <2>5 DEF AnswersInv, AnswersTyped
<1>4. CASE k \notin DOMAIN flights
  <2>1. flights' = flights /\ th' = To(t, "slot")
    BY <1>4 DEF Look, Key
  <2>2. PICK x : Placed(x) /\ th' = [th EXCEPT ![t] = x] /\ x.pc = "slot" /\ x.kind = "recap" /\ x.s = th[t].s
    BY <1>1, <1>2, <2>1, RecapGoes
  <2>3. SameRoles(th[t], x) /\ ~Pays(x)
    BY <1>1, <1>2, <2>2, RecapsRoles DEF SameRoles
  <2> QED
    BY <1>1, <2>1, <2>2, <2>3, CachesStay, StayKeeps
<1> QED
  BY <1>3, <1>4

\* A slot is taken.
LEMMA TakeSlotKeeps == ASSUME AnswersInv, NEW t \in Threads, TakeSlot(t) PROVE AnswersInv'
<1>1. /\ th[t].pc = "slot" /\ UNCHANGED <<shelf, recaps, failed, flights, answers, inflight>>
      /\ ThreadsTyped /\ FlightsTyped /\ SlotsTyped /\ FlightsInv /\ SlotsInv
      /\ slots > 0 /\ slots' = slots - 1 /\ th' = To(t, "claim")
  BY DEF TakeSlot, AnswersInv, AnswersTyped
<1>2. th[t].kind = "recap" /\ "claim" \in PlacesOf("recap")
  BY <1>1, KindAt DEF PlacesOf
<1>3. OthersRest(t) /\ ThreadsTyped' /\ th'[t].pc = "claim" /\ th'[t].kind = "recap" /\ th'[t].s = th[t].s
  BY <1>1, <1>2, RecapGoes
<1>4. FlightsInv' /\ FlightsTyped'
  <2>1. FlightsTyped'
    BY <1>1 DEF FlightsTyped
  <2>2. ASSUME NEW u \in Threads
        PROVE  /\ Aboard(th'[u]) <=> Aboard(th[u])
               /\ Aboard(th'[u]) => RecapKey(th'[u].s) = RecapKey(th[u].s)
               /\ Flies(th'[u]) => Flies(th[u])
    <3>1. CASE u = t
      BY <1>1, <1>2, <1>3, <3>1, RecapsRoles
    <3>2. CASE u # t
      BY <1>3, <3>2, OthersKeep DEF SameRoles
    <3> QED
      BY <3>1, <3>2
  <2> QED
    BY <1>1, <2>1, <2>2, FlightsStand
<1>5. SlotsInv' /\ SlotsTyped'
  <2>1. Cardinality(Betweens') = Cardinality(Betweens) + 1
    BY <1>1, <1>2, <1>3, RecapsRoles, BetweensChange
  <2>2. Cardinality(DOMAIN flights) \in Nat /\ Cardinality(Betweens) \in Nat
    BY <1>1, BetweensCount, FS_CardinalityType DEF FlightsTyped
  <2> QED
    BY <1>1, <2>1, <2>2 DEF SlotsInv, SlotsTyped
<1>6. BooksTyped' /\ InflightTyped' /\ AsksInv' /\ PaysInv'
  BY <1>1, <1>2, <1>3, RecapsRoles, RecapLeaves
<1> QED
  BY <1>3, <1>4, <1>5, <1>6 DEF AnswersInv, AnswersTyped


\* The slots add up again when what the thread has in hand accounts for the change.
LEMMA SlotsMove ==
    ASSUME SlotsInv, FlightsTyped, slots \in Nat, slots' \in Nat, NEW t \in Threads, OthersRest(t),
           NEW more \in Int, Cardinality(DOMAIN flights') = Cardinality(DOMAIN flights) + more,
           slots' = slots - more - (IF Between(th'[t]) THEN 1 ELSE 0) + (IF Between(th[t]) THEN 1 ELSE 0)
    PROVE  SlotsInv' /\ SlotsTyped'
<1>1. Cardinality(DOMAIN flights) \in Nat /\ Cardinality(Betweens) \in Nat
  BY BetweensCount, FS_CardinalityType DEF FlightsTyped
<1>2. Cardinality(Betweens') = Cardinality(Betweens) + (IF Between(th'[t]) THEN 1 ELSE 0)
                                                     - (IF Between(th[t]) THEN 1 ELSE 0)
  BY <1>1, BetweensChange
<1>3. slots' + Cardinality(DOMAIN flights') + Cardinality(Betweens') = MaxFlights
  <2> DEFINE n == Cardinality(DOMAIN flights)
             m == Cardinality(Betweens)
             a == IF Between(th'[t]) THEN 1 ELSE 0
             b == IF Between(th[t]) THEN 1 ELSE 0
  <2>1. a \in Int /\ b \in Int /\ n \in Nat /\ m \in Nat /\ slots + n + m = MaxFlights
    BY <1>1 DEF SlotsInv
  <2>2. slots' = slots - more - a + b /\ Cardinality(DOMAIN flights') = n + more /\ Cardinality(Betweens') = m + a - b
    BY <1>2
  <2> HIDE DEF n, m, a, b
  <2> QED
    BY <2>1, <2>2
<1> QED
  BY <1>3 DEF SlotsInv, SlotsTyped

\* A new flight gets its entry, or the one that came meanwhile is boarded.
LEMMA ClaimKeeps == ASSUME AnswersInv, NEW t \in Threads, Claim(t) PROVE AnswersInv'
<1> DEFINE k == RecapKey(th[t].s)
<1>1. /\ th[t].pc = "claim" /\ UNCHANGED <<shelf, recaps, failed, slots, answers, inflight>>
      /\ ThreadsTyped /\ FlightsTyped /\ SlotsTyped /\ FlightsInv /\ SlotsInv
  BY DEF Claim, AnswersInv, AnswersTyped
<1>2. th[t].kind = "recap" /\ {"lock", "spare"} \subseteq PlacesOf("recap")
  BY <1>1, KindAt DEF PlacesOf
<1>3. CASE k \in DOMAIN flights
  <2>1. flights' = Boarded(k) /\ th' = To(t, "spare")
    BY <1>3 DEF Claim, Key
  <2>2. OthersRest(t) /\ ThreadsTyped' /\ th'[t].pc = "spare" /\ th'[t].kind = "recap" /\ th'[t].s = th[t].s
    BY <1>1, <1>2, <2>1, RecapGoes
  <2>3. FlightsInv' /\ FlightsTyped' /\ DOMAIN flights' = DOMAIN flights
    BY <1>1, <1>2, <1>3, <2>1, <2>2, RecapsRoles, BoardKeeps
  <2>4. SlotsInv' /\ SlotsTyped'
    <3>1. Betweens' = Betweens
      BY <1>1, <1>2, <2>2, RecapsRoles, BetweensChange
    <3> QED
      BY <1>1, <2>3, <3>1 DEF SlotsInv, SlotsTyped
  <2>5. BooksTyped' /\ InflightTyped' /\ AsksInv' /\ PaysInv'
    BY <1>1, <1>2, <2>2, RecapsRoles, RecapLeaves
  <2> QED
    BY <2>2, <2>3, <2>4, <2>5 DEF AnswersInv, AnswersTyped
<1>4. CASE k \notin DOMAIN flights
  <2>1. flights' = With(flights, k, [holder |-> Nobody, refs |-> 1]) /\ th' = To(t, "lock")
    BY <1>4 DEF Claim, Key
  <2>2. OthersRest(t) /\ ThreadsTyped' /\ th'[t].pc = "lock" /\ th'[t].kind = "recap" /\ th'[t].s = th[t].s
    BY <1>1, <1>2, <2>1, RecapGoes
  <2>3. /\ FlightsInv' /\ FlightsTyped'
        /\ Cardinality(DOMAIN flights') = Cardinality(DOMAIN flights) + 1
    BY <1>1, <1>2, <1>4, <2>1, <2>2, RecapsRoles, TakesOffKeeps
  <2>4. SlotsInv' /\ SlotsTyped'
    <3>1. Between(th[t]) /\ ~Between(th'[t]) /\ slots \in Nat
      BY <1>1, <2>2 DEF Between, SlotsTyped
    <3>2. slots' = slots - 1 - (IF Between(th'[t]) THEN 1 ELSE 0) + (IF Between(th[t]) THEN 1 ELSE 0)
      BY <1>1, <3>1
    <3> QED
      BY <1>1, <2>2, <2>3, <3>1, <3>2, SlotsMove
  <2>5. BooksTyped' /\ InflightTyped' /\ AsksInv' /\ PaysInv'
    BY <1>1, <1>2, <2>2, RecapsRoles, RecapLeaves
  <2> QED
    BY <2>2, <2>3, <2>4, <2>5 DEF AnswersInv, AnswersTyped
<1> QED
  BY <1>3, <1>4

\* Who joined a flight gives the spare slot back.
LEMMA GiveSlotBackKeeps == ASSUME AnswersInv, NEW t \in Threads, GiveSlotBack(t) PROVE AnswersInv'
<1>1. /\ th[t].pc = "spare" /\ UNCHANGED <<shelf, recaps, failed, flights, answers, inflight>>
      /\ ThreadsTyped /\ FlightsTyped /\ SlotsTyped /\ FlightsInv /\ SlotsInv
      /\ slots' = slots + 1 /\ th' = To(t, "lock")
  BY DEF GiveSlotBack, AnswersInv, AnswersTyped
<1>2. th[t].kind = "recap" /\ "lock" \in PlacesOf("recap")
  BY <1>1, KindAt DEF PlacesOf
<1>3. OthersRest(t) /\ ThreadsTyped' /\ th'[t].pc = "lock" /\ th'[t].kind = "recap" /\ th'[t].s = th[t].s
  BY <1>1, <1>2, RecapGoes
<1>4. FlightsInv' /\ FlightsTyped'
  <2>1. FlightsTyped'
    BY <1>1 DEF FlightsTyped
  <2>2. ASSUME NEW u \in Threads
        PROVE  /\ Aboard(th'[u]) <=> Aboard(th[u])
               /\ Aboard(th'[u]) => RecapKey(th'[u].s) = RecapKey(th[u].s)
               /\ Flies(th'[u]) => Flies(th[u])
    <3>1. CASE u = t
      BY <1>1, <1>2, <1>3, <3>1, RecapsRoles
    <3>2. CASE u # t
      BY <1>3, <3>2, OthersKeep DEF SameRoles
    <3> QED
      BY <3>1, <3>2
  <2> QED
    BY <1>1, <2>1, <2>2, FlightsStand
<1>5. SlotsInv' /\ SlotsTyped'
  <2>1. Between(th[t]) /\ ~Between(th'[t]) /\ slots \in Nat /\ Cardinality(DOMAIN flights) \in Nat
    BY <1>1, <1>3, FS_CardinalityType DEF Between, SlotsTyped, FlightsTyped
  <2>2. slots' = slots - 0 - (IF Between(th'[t]) THEN 1 ELSE 0) + (IF Between(th[t]) THEN 1 ELSE 0)
        /\ Cardinality(DOMAIN flights') = Cardinality(DOMAIN flights) + 0 /\ slots' \in Nat
    BY <1>1, <2>1
  <2> QED
    BY <1>1, <1>3, <2>1, <2>2, SlotsMove
<1>6. BooksTyped' /\ InflightTyped' /\ AsksInv' /\ PaysInv'
  BY <1>1, <1>2, <1>3, RecapsRoles, RecapLeaves
<1> QED
  BY <1>3, <1>4, <1>5, <1>6 DEF AnswersInv, AnswersTyped

\* One aboard gets its turn.
LEMMA TakeOffKeeps == ASSUME AnswersInv, NEW t \in Threads, TakeOff(t) PROVE AnswersInv'
<1> DEFINE k == RecapKey(th[t].s)
<1>1. /\ th[t].pc = "lock" /\ UNCHANGED <<shelf, recaps, failed, slots, answers, inflight>>
      /\ ThreadsTyped /\ FlightsTyped /\ SlotsTyped /\ FlightsInv /\ SlotsInv
      /\ flights[k].holder = Nobody /\ flights' = [flights EXCEPT ![k].holder = t] /\ th' = To(t, "again")
  BY DEF TakeOff, Key, AnswersInv, AnswersTyped
<1>2. th[t].kind = "recap" /\ "again" \in PlacesOf("recap")
  BY <1>1, KindAt DEF PlacesOf
<1>3. OthersRest(t) /\ ThreadsTyped' /\ th'[t].pc = "again" /\ th'[t].kind = "recap" /\ th'[t].s = th[t].s
  BY <1>1, <1>2, RecapGoes
<1>4. FlightsInv' /\ FlightsTyped' /\ DOMAIN flights' = DOMAIN flights
  <2>1. k \in DOMAIN flights
    BY <1>1, <1>2, RecapsRoles DEF FlightsInv
  <2> QED
    BY <1>1, <1>2, <1>3, <2>1, RecapsRoles, LocksKeeps
<1>5. SlotsInv' /\ SlotsTyped'
  <2>1. Betweens' = Betweens
    BY <1>1, <1>2, <1>3, RecapsRoles, BetweensChange
  <2> QED
    BY <1>1, <1>4, <2>1 DEF SlotsInv, SlotsTyped
<1>6. BooksTyped' /\ InflightTyped' /\ AsksInv' /\ PaysInv'
  BY <1>1, <1>2, <1>3, RecapsRoles, RecapLeaves
<1> QED
  BY <1>3, <1>4, <1>5, <1>6 DEF AnswersInv, AnswersTyped

\* The caches are looked at again under the flight's turn.
LEMMA LookAgainKeeps == ASSUME AnswersInv, NEW t \in Threads, LookAgain(t) PROVE AnswersInv'
<1> DEFINE place == IF RecapKey(th[t].s) \in recaps \union failed THEN "land" ELSE "draft"
<1>1. /\ th[t].pc = "again" /\ UNCHANGED <<shelf, recaps, failed, flights, slots, answers, inflight>>
      /\ ThreadsTyped /\ th' = To(t, place)
  BY DEF LookAgain, Key, AnswersInv, AnswersTyped
<1>2. th[t].kind = "recap" /\ place \in PlacesOf("recap")
  BY <1>1, KindAt DEF PlacesOf
<1>3. PICK x : Placed(x) /\ th' = [th EXCEPT ![t] = x] /\ x.pc = place /\ x.kind = "recap" /\ x.s = th[t].s
  BY <1>1, <1>2, RecapGoes
<1>4. SameRoles(th[t], x) /\ (Pays(x) => RecapKey(x.s) \notin recaps \union failed)
  BY <1>1, <1>2, <1>3, RecapsRoles DEF SameRoles
<1> QED
  BY <1>1, <1>3, <1>4, CachesStay, StayKeeps

\* One aboard a flight leaves it; the last one removes its entry.
LEMMA LandKeeps == ASSUME AnswersInv, NEW t \in Threads, Land(t) PROVE AnswersInv'
<1> DEFINE k == RecapKey(th[t].s)
<1>1. /\ th[t].pc = "land" /\ UNCHANGED <<shelf, recaps, failed, slots, answers, inflight>>
      /\ ThreadsTyped /\ FlightsTyped /\ SlotsTyped /\ FlightsInv /\ SlotsInv
  BY DEF Land, AnswersInv, AnswersTyped
<1>2. th[t].kind = "recap" /\ "return" \in PlacesOf("recap")
  BY <1>1, KindAt DEF PlacesOf
<1>3. Flies(th[t]) /\ ~Between(th[t]) /\ slots \in Nat
  BY <1>1, <1>2, RecapsRoles DEF SlotsTyped
<1>4. CASE flights[k].refs = 1
  <2>1. flights' = Less(flights, {k}) /\ th' = To(t, "return")
    BY <1>4 DEF Land, Key
  <2>2. OthersRest(t) /\ ThreadsTyped' /\ th'[t].pc = "return" /\ th'[t].kind = "recap" /\ th'[t].s = th[t].s
    BY <1>1, <1>2, <2>1, RecapGoes
  <2>3. /\ FlightsInv' /\ FlightsTyped'
        /\ Cardinality(DOMAIN flights') = Cardinality(DOMAIN flights) - 1
    <3>1. ~Aboard(th'[t])
      BY <2>2, RecapsRoles
    <3> QED
      BY <1>1, <1>3, <1>4, <2>1, <2>2, <3>1, LastLands
  <2>4. SlotsInv' /\ SlotsTyped'
    <3>1. Between(th'[t]) /\ Cardinality(DOMAIN flights) \in Nat
      BY <1>1, <2>2, FS_CardinalityType DEF Between, FlightsTyped
    <3>2. slots' = slots - (0 - 1) - (IF Between(th'[t]) THEN 1 ELSE 0) + (IF Between(th[t]) THEN 1 ELSE 0)
          /\ Cardinality(DOMAIN flights') = Cardinality(DOMAIN flights) + (0 - 1) /\ 0 - 1 \in Int /\ slots' \in Nat
      BY <1>1, <1>3, <2>3, <3>1
    <3> QED
      BY <1>1, <1>3, <2>2, <3>2, SlotsMove
  <2>5. BooksTyped' /\ InflightTyped' /\ AsksInv' /\ PaysInv'
    BY <1>1, <1>2, <2>2, RecapsRoles, RecapLeaves
  <2> QED
    BY <2>2, <2>3, <2>4, <2>5 DEF AnswersInv, AnswersTyped
<1>5. CASE flights[k].refs # 1
  <2>1. flights' = [flights EXCEPT ![k] = [holder |-> Nobody, refs |-> flights[k].refs - 1]] /\ th' = [th EXCEPT ![t] = Idle]
    BY <1>5 DEF Land, Key, Resting
  <2>2. OthersRest(t) /\ ThreadsTyped' /\ th'[t] = Idle
    BY <1>1, <2>1, IdlePlaced, MoveIs
  <2>3. FlightsInv' /\ FlightsTyped' /\ DOMAIN flights' = DOMAIN flights
    BY <1>1, <1>3, <1>5, <2>1, <2>2, IdlePlaced, OneLands
  <2>4. SlotsInv' /\ SlotsTyped'
    <3>1. Betweens' = Betweens
      BY <1>3, <2>2, IdlePlaced, BetweensChange
    <3> QED
      BY <1>1, <2>3, <3>1 DEF SlotsInv, SlotsTyped
  <2>5. BooksTyped' /\ InflightTyped' /\ AsksInv' /\ PaysInv'
    <3>1. th'[t].kind = "recap" /\ ~Pays(th'[t])
      BY <2>2, IdlePlaced DEF Idle
    <3> QED
      BY <1>1, <1>2, <2>2, <3>1, RecapLeaves
  <2> QED
    BY <2>2, <2>3, <2>4, <2>5 DEF AnswersInv, AnswersTyped
<1> QED
  BY <1>4, <1>5

\* A slot is returned.
LEMMA ReturnSlotKeeps == ASSUME AnswersInv, NEW t \in Threads, ReturnSlot(t) PROVE AnswersInv'
<1>1. /\ th[t].pc = "return" /\ UNCHANGED <<shelf, recaps, failed, flights, answers, inflight>>
      /\ ThreadsTyped /\ FlightsTyped /\ SlotsTyped /\ FlightsInv /\ SlotsInv
      /\ slots' = slots + 1 /\ th' = [th EXCEPT ![t] = Idle]
  BY DEF ReturnSlot, Resting, AnswersInv, AnswersTyped
<1>2. th[t].kind = "recap" /\ ~Aboard(th[t]) /\ Between(th[t])
  BY <1>1, KindAt, RecapsRoles
<1>3. OthersRest(t) /\ ThreadsTyped' /\ th'[t] = Idle
  BY <1>1, IdlePlaced, MoveIs
<1>4. FlightsInv' /\ FlightsTyped'
  <2>1. FlightsTyped'
    BY <1>1 DEF FlightsTyped
  <2>2. ASSUME NEW u \in Threads
        PROVE  /\ Aboard(th'[u]) <=> Aboard(th[u])
               /\ Aboard(th'[u]) => RecapKey(th'[u].s) = RecapKey(th[u].s)
               /\ Flies(th'[u]) => Flies(th[u])
    <3>1. CASE u = t
      BY <1>2, <1>3, <3>1, IdlePlaced
    <3>2. CASE u # t
      BY <1>3, <3>2, OthersKeep DEF SameRoles
    <3> QED
      BY <3>1, <3>2
  <2> QED
    BY <1>1, <2>1, <2>2, FlightsStand
<1>5. SlotsInv' /\ SlotsTyped'
  <2>1. ~Between(th'[t]) /\ slots \in Nat /\ Cardinality(DOMAIN flights) \in Nat
    BY <1>1, <1>3, IdlePlaced, FS_CardinalityType DEF SlotsTyped, FlightsTyped
  <2>2. slots' = slots - 0 - (IF Between(th'[t]) THEN 1 ELSE 0) + (IF Between(th[t]) THEN 1 ELSE 0)
        /\ Cardinality(DOMAIN flights') = Cardinality(DOMAIN flights) + 0 /\ slots' \in Nat
    BY <1>1, <1>2, <2>1
  <2> QED
    BY <1>1, <1>3, <2>1, <2>2, SlotsMove
<1>6. BooksTyped' /\ InflightTyped' /\ AsksInv' /\ PaysInv'
  <2>1. th'[t].kind = "recap" /\ ~Pays(th'[t])
    BY <1>3, IdlePlaced DEF Idle
  <2> QED
    BY <1>1, <1>2, <1>3, <2>1, RecapLeaves
<1> QED
  BY <1>3, <1>4, <1>5, <1>6 DEF AnswersInv, AnswersTyped


\* A question's thread has no part in flights and slots.
LEMMA QuestionLeaves ==
    ASSUME AnswersInv, NEW t \in Threads, OthersRest(t), th[t].kind = "ask",
           ~Aboard(th'[t]), ~Between(th'[t]), ~Pays(th'[t]), UNCHANGED <<shelf, recaps, failed, flights, slots>>
    PROVE  BooksTyped' /\ FlightsTyped' /\ SlotsTyped' /\ FlightsInv' /\ SlotsInv' /\ PaysInv'
<1>1. BooksTyped' /\ FlightsTyped' /\ SlotsTyped'
  BY DEF AnswersInv, AnswersTyped, BooksTyped, FlightsTyped, SlotsTyped
<1>2. ~Aboard(th[t]) /\ ~Between(th[t])
  <2>1. ThreadsTyped
    BY DEF AnswersInv, AnswersTyped
  <2> QED
    BY <2>1, KindAt DEF Aboard, Between
<1>3. FlightsInv'
  <2>1. ASSUME NEW u \in Threads
        PROVE  /\ Aboard(th'[u]) <=> Aboard(th[u])
               /\ Aboard(th'[u]) => RecapKey(th'[u].s) = RecapKey(th[u].s)
               /\ Flies(th'[u]) => Flies(th[u])
    <3>1. CASE u = t
      BY <1>2, <3>1 DEF Flies
    <3>2. CASE u # t
      BY <3>2, OthersKeep DEF SameRoles
    <3> QED
      BY <3>1, <3>2
  <2> QED
    BY <2>1, FlightsStand DEF AnswersInv
<1>4. SlotsInv'
  <2>1. Betweens' = Betweens
    BY <1>2, BetweensChange
  <2> QED
    BY <2>1 DEF AnswersInv, SlotsInv
<1>5. PaysInv'
  <2>1. \A u \in Threads : Pays(th[u]) => RecapKey(th[u].s) \notin recaps' \union failed'
    BY CachesStay
  <2> QED
    BY <2>1, PaysStay
<1> QED
  BY <1>1, <1>3, <1>4, <1>5

\* A question goes from one place to the next.
LEMMA QuestionGoes ==
    ASSUME ThreadsTyped, NEW t \in Threads, th[t].kind = "ask", NEW place \in PlacesOf("ask"), th' = To(t, place)
    PROVE  /\ OthersRest(t) /\ ThreadsTyped'
           /\ th'[t].pc = place /\ th'[t].kind = "ask" /\ th'[t].s = th[t].s
           /\ \E x : Placed(x) /\ th' = [th EXCEPT ![t] = x] /\ x.pc = place /\ x.kind = "ask" /\ x.s = th[t].s
<1>1. PICK x \in RequestRows : /\ th' = [th EXCEPT ![t] = x] /\ Placed(x)
                               /\ x.pc = place /\ x.kind = "ask" /\ x.s = th[t].s
  BY ToIs
<1>2. OthersRest(t) /\ ThreadsTyped' /\ th'[t] = x
  BY <1>1, MoveIs
<1> QED
  BY <1>1, <1>2

\* What a question is at each place.
LEMMA QuestionsRoles ==
    ASSUME NEW x, x.kind = "ask", x.pc \in PlacesOf("ask")
    PROVE  /\ ~Aboard(x) /\ ~Flies(x) /\ ~Pays(x) /\ ~Between(x)
           /\ Asks(x) <=> x.pc \notin {"share", "wait"}
BY DEF Aboard, Flies, Pays, Between, Asks, PlacesOf

\* The others' futures are theirs.
LEMMA OthersAsk ==
    ASSUME AsksInv, NEW t \in Threads, OthersRest(t), NEW u \in Threads \ {t}, Asks(th'[u])
    PROVE  AskKey(u)' = AskKey(u) /\ AskKey(u) \in DOMAIN inflight /\ inflight[AskKey(u)].owner = u
<1>1. Asks(th[u]) /\ th[u].s = th'[u].s
  BY OthersKeep DEF SameRoles
<1> QED
  BY <1>1 DEF AsksInv, AskKey

\* A question joins the one under way, or becomes it.
LEMMA ShareKeeps == ASSUME AnswersInv, NEW t \in Threads, Share(t) PROVE AnswersInv'
<1> DEFINE k == AskKey(t)
           seat == [owner |-> t, done |-> FALSE]
<1>1. /\ th[t].pc = "share" /\ UNCHANGED <<shelf, recaps, failed, flights, slots, answers>>
      /\ ThreadsTyped /\ InflightTyped /\ AsksInv
  BY DEF Share, AnswersInv, AnswersTyped
<1>2. th[t].kind = "ask" /\ th[t] \in RequestRows /\ {"wait", "find"} \subseteq PlacesOf("ask")
      /\ th[t].pc \in PlacesOf("ask")
  BY <1>1, KindAt DEF PlacesOf
<1>3. ~Aboard(th[t]) /\ ~Between(th[t]) /\ ~Asks(th[t])
  BY <1>1, <1>2, QuestionsRoles
<1>4. CASE th' = Resting(t) /\ UNCHANGED inflight
  <2>1. th' = [th EXCEPT ![t] = Idle]
    BY <1>4 DEF Resting
  <2>2. SameRoles(th[t], Idle)
    BY <1>3, IdlePlaced DEF SameRoles
  <2> QED
    BY <1>1, <1>4, <2>1, <2>2, IdlePlaced, CachesStay, StayKeeps
<1>5. CASE k \in DOMAIN inflight /\ ~inflight[k].done
  <2> DEFINE y == [th[t] EXCEPT !.pc = "wait"]
             x == [y EXCEPT !.owner = inflight[k].owner]
  <2>1. th' = [th EXCEPT ![t] = x] /\ UNCHANGED inflight
    BY <1>1, <1>2, <1>5 DEF Share, ThreadsTyped
  <2>2. inflight[k].owner \in Threads \union {Nobody}
    BY <1>1, <1>5 DEF InflightTyped
  <2>3. y \in RequestRows /\ y.pc = "wait" /\ y.kind = "ask"
    <3>1. "wait" \in RequestPlaces
      BY <1>2 DEF RequestPlaces, Kinds
    <3> QED
      BY <1>2, <3>1 DEF RequestRows
  <2> HIDE DEF y
  <2>4. x \in RequestRows /\ x.pc = "wait" /\ x.kind = "ask"
    BY <2>2, <2>3 DEF RequestRows
  <2> HIDE DEF x
  <2>5. Placed(x) /\ SameRoles(th[t], x) /\ ~Pays(x)
    BY <1>2, <1>3, <2>4, QuestionsRoles DEF Placed, SameRoles
  <2> QED
    BY <1>1, <2>1, <2>5, CachesStay, StayKeeps
<1>6. CASE k \notin DOMAIN inflight /\ inflight' = With(inflight, k, seat) /\ th' = To(t, "find")
  <2>1. OthersRest(t) /\ ThreadsTyped' /\ th'[t].pc = "find" /\ th'[t].kind = "ask" /\ th'[t].s = th[t].s
    BY <1>1, <1>2, <1>6, QuestionGoes
  <2>2. /\ DOMAIN inflight' = DOMAIN inflight \union {k} /\ inflight'[k] = seat
        /\ \A i \in DOMAIN inflight : inflight'[i] = inflight[i] /\ i # k
        /\ inflight' \in [DOMAIN inflight' -> [owner : Threads, done : BOOLEAN]]
    BY <1>1, <1>6 DEF With, InflightTyped
  <2>3. InflightTyped'
    BY <2>2 DEF InflightTyped
  <2>4. AsksInv'
    <3> SUFFICES ASSUME NEW u \in Threads, Asks(th'[u])
                 PROVE  AskKey(u)' \in DOMAIN inflight' /\ inflight'[AskKey(u)'].owner = u
      BY DEF AsksInv
    <3>1. CASE u = t
      <4>1. AskKey(t)' = k
        BY <2>1 DEF AskKey
      <4> QED
        BY <2>2, <3>1, <4>1
    <3>2. CASE u # t
      <4>1. AskKey(u)' = AskKey(u) /\ AskKey(u) \in DOMAIN inflight /\ inflight[AskKey(u)].owner = u
        BY <1>1, <2>1, <3>2, OthersAsk
      <4> QED
        BY <2>2, <4>1
    <3> QED
      BY <3>1, <3>2
  <2>5. ~Aboard(th'[t]) /\ ~Between(th'[t]) /\ ~Pays(th'[t])
    BY <1>2, <2>1, QuestionsRoles
  <2>6. BooksTyped' /\ FlightsTyped' /\ SlotsTyped' /\ FlightsInv' /\ SlotsInv' /\ PaysInv'
    BY <1>1, <1>2, <2>1, <2>5, QuestionLeaves
  <2> QED
    BY <2>1, <2>3, <2>4, <2>6 DEF AnswersInv, AnswersTyped
<1> QED
  BY <1>4, <1>5, <1>6 DEF Share

\* The result of a question reaches every waiter.
LEMMA ResolveKeeps == ASSUME AnswersInv, NEW t \in Threads, Resolve(t) PROVE AnswersInv'
<1> DEFINE k == AskKey(t)
           x == [th[t] EXCEPT !.pc = "pop"]
<1>1. /\ th[t].pc = "resolve" /\ UNCHANGED <<shelf, recaps, failed, flights, slots, answers>>
      /\ ThreadsTyped /\ InflightTyped /\ AsksInv
      /\ inflight' = [inflight EXCEPT ![k].done = TRUE]
      /\ th' = [u \in Threads |-> IF u = t THEN x
                                  ELSE IF th[u].pc = "wait" /\ th[u].owner = t THEN Idle ELSE th[u]]
  BY DEF Resolve, AnswersInv, AnswersTyped
<1>2. th[t].kind = "ask" /\ th[t] \in RequestRows /\ th[t].pc \in PlacesOf("ask") /\ "pop" \in PlacesOf("ask")
  BY <1>1, KindAt DEF PlacesOf
<1>3. x \in RequestRows /\ x.pc = "pop" /\ x.kind = "ask" /\ x.s = th[t].s
  <2>1. "pop" \in RequestPlaces
    BY <1>2 DEF RequestPlaces, Kinds
  <2> QED
    BY <1>2, <2>1 DEF RequestRows
<1>4. Placed(x)
  BY <1>2, <1>3 DEF Placed
<1> HIDE DEF x
<1>5. OthersRest(t) /\ ThreadsTyped' /\ th'[t] = x
  <2>1. th'[t] = x
    BY <1>1
  <2>2. ASSUME NEW u \in Threads, u # t
        PROVE  th'[u] = th[u] \/ (th[u].pc = "wait" /\ th[u].kind = "ask" /\ th'[u] = Idle)
    <3>1. CASE th[u].pc = "wait" /\ th[u].owner = t
      BY <1>1, <2>2, <3>1, KindAt
    <3>2. CASE ~(th[u].pc = "wait" /\ th[u].owner = t)
      BY <1>1, <2>2, <3>2
    <3> QED
      BY <3>1, <3>2
  <2>3. \A u \in Threads : th'[u] \in RequestRows /\ Placed(th'[u])
    BY <1>1, <1>3, <1>4, <2>1, <2>2, IdlePlaced DEF ThreadsTyped, Placed
  <2>4. th' \in [Threads -> RequestRows]
    <3>1. th' = [u \in Threads |-> th'[u]]
      BY <1>1
    <3> QED
      BY <2>3, <3>1
  <2> QED
    BY <2>1, <2>2, <2>3, <2>4 DEF OthersRest, ThreadsTyped
<1>6. /\ DOMAIN inflight' = DOMAIN inflight
      /\ inflight' \in [DOMAIN inflight' -> [owner : Threads, done : BOOLEAN]]
      /\ \A i \in DOMAIN inflight : inflight'[i].owner = inflight[i].owner
  BY <1>1 DEF InflightTyped
<1>7. AsksInv'
  <2> SUFFICES ASSUME NEW u \in Threads, Asks(th'[u])
               PROVE  AskKey(u)' \in DOMAIN inflight' /\ inflight'[AskKey(u)'].owner = u
    BY DEF AsksInv
  <2>1. AskKey(u)' = AskKey(u) /\ AskKey(u) \in DOMAIN inflight /\ inflight[AskKey(u)].owner = u
    <3>1. CASE u = t
      <4>1. Asks(th[t]) /\ th'[t].s = th[t].s
        BY <1>1, <1>2, <1>3, <1>5, QuestionsRoles
      <4> QED
        BY <1>1, <3>1, <4>1 DEF AsksInv, AskKey
    <3>2. CASE u # t
      BY <1>1, <1>5, <3>2, OthersAsk
    <3> QED
      BY <3>1, <3>2
  <2> QED
    BY <1>6, <2>1
<1>8. ~Aboard(th'[t]) /\ ~Between(th'[t]) /\ ~Pays(th'[t])
  BY <1>2, <1>3, <1>5, QuestionsRoles
<1>9. BooksTyped' /\ FlightsTyped' /\ SlotsTyped' /\ FlightsInv' /\ SlotsInv' /\ PaysInv'
  BY <1>1, <1>2, <1>5, <1>8, QuestionLeaves
<1> QED
  BY <1>5, <1>6, <1>7, <1>9 DEF AnswersInv, AnswersTyped, InflightTyped

\* The owner of a question takes it off the registry.
LEMMA PopKeeps == ASSUME AnswersInv, NEW t \in Threads, Pop(t) PROVE AnswersInv'
<1> DEFINE k == AskKey(t)
<1>1. /\ th[t].pc = "pop" /\ UNCHANGED <<shelf, recaps, failed, flights, slots, answers>>
      /\ ThreadsTyped /\ InflightTyped /\ AsksInv
      /\ inflight' = Less(inflight, {k}) /\ th' = [th EXCEPT ![t] = Idle]
  BY DEF Pop, Resting, AnswersInv, AnswersTyped
<1>2. th[t].kind = "ask" /\ th[t].pc \in PlacesOf("ask")
  BY <1>1, KindAt
<1>3. OthersRest(t) /\ ThreadsTyped' /\ th'[t] = Idle
  BY <1>1, IdlePlaced, MoveIs
<1>4. /\ DOMAIN inflight' = DOMAIN inflight \ {k}
      /\ \A i \in DOMAIN inflight' : inflight'[i] = inflight[i]
      /\ inflight' \in [DOMAIN inflight' -> [owner : Threads, done : BOOLEAN]]
  BY <1>1 DEF Less, InflightTyped
<1>5. inflight[k].owner = t
  BY <1>1, <1>2, QuestionsRoles DEF AsksInv
<1>6. AsksInv'
  <2> SUFFICES ASSUME NEW u \in Threads, Asks(th'[u])
               PROVE  AskKey(u)' \in DOMAIN inflight' /\ inflight'[AskKey(u)'].owner = u
    BY DEF AsksInv
  <2>1. u # t
    BY <1>3, IdlePlaced
  <2>2. AskKey(u)' = AskKey(u) /\ AskKey(u) \in DOMAIN inflight /\ inflight[AskKey(u)].owner = u
    BY <1>1, <1>3, <2>1, OthersAsk
  <2> QED
    BY <1>4, <1>5, <2>1, <2>2
<1>7. BooksTyped' /\ FlightsTyped' /\ SlotsTyped' /\ FlightsInv' /\ SlotsInv' /\ PaysInv'
  BY <1>1, <1>2, <1>3, IdlePlaced, QuestionLeaves
<1> QED
  BY <1>3, <1>4, <1>6, <1>7 DEF AnswersInv, AnswersTyped, InflightTyped


\* The places of the paid stages of a route, and what comes after one.
LEMMA AfterIs ==
    ASSUME NEW kind \in Kinds, NEW pc
    PROVE  After(kind, pc) \in (Paying \cap PlacesOf(kind)) \union {"keep"}
<1> DEFINE ahead == {j \in 1..5 : Stages[j] \in DOMAIN CallsOf(kind) /\ \E i \in 1..(j - 1) : Stages[i] = pc}
<1>1. CASE ahead = {}
  BY <1>1 DEF After
<1>2. CASE ahead # {}
  <2> DEFINE j == CHOOSE i \in ahead : \A n \in ahead : i <= n
  <2>1. j \in ahead
    <3>1. ahead \subseteq Nat
      OBVIOUS
    <3> HIDE DEF ahead
    <3>2. \E i \in ahead : \A n \in ahead : i <= n
      BY <1>2, <3>1, LeastNat
    <3> QED
      BY <3>2
  <2>2. After(kind, pc) = Stages[j]
    BY <1>2 DEF After
  <2>3. j \in 1..5 /\ Stages[j] \in DOMAIN CallsOf(kind)
    BY <2>1
  <2> HIDE DEF ahead, j
  <2>4. DOMAIN CallsOf(kind) \subseteq PlacesOf(kind)
    BY DEF Kinds, CallsOf, PlacesOf, RecapCalls, AskCalls, CloseoutCalls, SelectionCalls
  <2>5. Stages[j] \in Paying
    BY <2>3 DEF Paying
  <2> QED
    BY <2>2, <2>3, <2>4, <2>5
<1> QED
  BY <1>1, <1>2

\* Where a thread goes when its call is over.
LEMMA OverIs ==
    ASSUME ThreadsTyped, NEW t \in Threads
    PROVE  \E x : /\ Placed(x) /\ Over(t) = [th EXCEPT ![t] = x]
                  /\ th[t].kind = "recap" => x.kind = "recap" /\ x.pc = "land" /\ x.s = th[t].s
                  /\ th[t].kind = "ask" => x.kind = "ask" /\ x.pc = "resolve" /\ x.s = th[t].s
                  /\ th[t].kind \notin {"recap", "ask"} => x = Idle
<1>1. "land" \in PlacesOf("recap") /\ "resolve" \in PlacesOf("ask")
  BY DEF PlacesOf
<1>2. CASE th[t].kind = "recap"
  <2>1. Over(t) = To(t, "land")
    BY <1>2 DEF Over
  <2> QED
    BY <1>1, <1>2, <2>1, ToIs
<1>3. CASE th[t].kind = "ask"
  <2>1. Over(t) = To(t, "resolve")
    BY <1>3 DEF Over
  <2> QED
    BY <1>1, <1>3, <2>1, ToIs
<1>4. CASE th[t].kind \notin {"recap", "ask"}
  <2>1. Over(t) = [th EXCEPT ![t] = Idle]
    BY <1>4 DEF Over, Resting
  <2> QED
    BY <1>4, <2>1, IdlePlaced
<1> QED
  BY <1>2, <1>3, <1>4

\* A request that is drafted, checked, kept or written stays in its roles wherever it goes from there.
LEMMA WorkersRoles ==
    ASSUME NEW t \in Threads, ThreadsTyped, NEW x, Placed(x), th[t].pc \in Paying \union {"keep", "write"},
           \/ x.pc \in Paying \union {"keep", "write"} /\ x.kind = th[t].kind /\ x.s = th[t].s
           \/ /\ th[t].kind = "recap" => x.kind = "recap" /\ x.pc = "land" /\ x.s = th[t].s
              /\ th[t].kind = "ask" => x.kind = "ask" /\ x.pc = "resolve" /\ x.s = th[t].s
              /\ th[t].kind \notin {"recap", "ask"} => x = Idle
    PROVE  SameRoles(th[t], x) /\ (Flies(th[t]) <=> th[t].kind = "recap")
<1>1. CASE th[t].kind = "recap"
  BY <1>1, RecapsRoles, PayingIs DEF SameRoles
<1>2. CASE th[t].kind = "ask"
  BY <1>2, PayingIs DEF SameRoles, Aboard, Flies, Between, Asks
<1>3. CASE th[t].kind \notin {"recap", "ask"}
  BY <1>3, IdlePlaced, PayingIs DEF SameRoles, Aboard, Flies, Between, Asks
<1> QED
  BY <1>1, <1>2, <1>3

\* Where the outcome of a call takes its thread: to a place of the same work, or over.
LEMMA OutGoes ==
    ASSUME ThreadsTyped, NEW t \in Threads, th[t].pc \in Paying, NEW out,
           th' = CASE out = "on" -> To(t, After(th[t].kind, th[t].pc))
                   [] out = "reject" /\ ~(th[t].tries = 1) -> [th EXCEPT ![t].pc = "draft", ![t].tries = 1]
                   [] OTHER -> Over(t)
    PROVE  \E x : /\ Placed(x) /\ th' = [th EXCEPT ![t] = x]
                  /\ \/ x.pc \in Paying \union {"keep"} /\ x.kind = th[t].kind /\ x.s = th[t].s
                        /\ ~(out = "reject" /\ th[t].tries = 1)
                     \/ /\ th[t].kind = "recap" => x.kind = "recap" /\ x.pc = "land" /\ x.s = th[t].s
                        /\ th[t].kind = "ask" => x.kind = "ask" /\ x.pc = "resolve" /\ x.s = th[t].s
                        /\ th[t].kind \notin {"recap", "ask"} => x = Idle
<1> DEFINE kind == th[t].kind
           last == th[t].tries = 1
<1>1. th[t] \in RequestRows /\ kind \in Kinds /\ {"draft", "keep"} \subseteq PlacesOf(kind)
  BY KindAt DEF PlacesOf, Kinds
<1>2. CASE out = "on"
  <2>1. th' = To(t, After(kind, th[t].pc))
    BY <1>2
  <2>2. After(kind, th[t].pc) \in Paying \union {"keep"} /\ After(kind, th[t].pc) \in PlacesOf(kind)
    BY <1>1, AfterIs
  <2> QED
    BY <1>2, <2>1, <2>2, ToIs
<1>3. CASE out = "reject" /\ ~last
  <2> DEFINE y == Moved(th[t], "draft", 1)
  <2>1. th' = [th EXCEPT ![t].pc = "draft", ![t].tries = 1]
    BY <1>3
  <2>2. th' = [th EXCEPT ![t] = y]
    BY <2>1 DEF Moved, ThreadsTyped
  <2>3. Placed(y) /\ y.pc = "draft" /\ y.kind = kind /\ y.s = th[t].s
    BY <1>1, AtPlaced
  <2> HIDE DEF y
  <2> QED
    BY <1>3, <2>2, <2>3, PayingIs
<1>4. CASE ~(out = "on") /\ ~(out = "reject" /\ ~last)
  <2>1. th' = Over(t)
    BY <1>4
  <2>2. PICK x : /\ Placed(x) /\ Over(t) = [th EXCEPT ![t] = x]
                 /\ kind = "recap" => x.kind = "recap" /\ x.pc = "land" /\ x.s = th[t].s
                 /\ kind = "ask" => x.kind = "ask" /\ x.pc = "resolve" /\ x.s = th[t].s
                 /\ kind \notin {"recap", "ask"} => x = Idle
    BY OverIs
  <2>3. th' = [th EXCEPT ![t] = x]
    BY <2>1, <2>2
  <2> QED
    BY <2>2, <2>3
<1> QED
  BY <1>2, <1>3, <1>4

\* The stages of an answer, each with its paid call.
LEMMA StageKeeps == ASSUME AnswersInv, NEW t \in Threads, Stage(t) PROVE AnswersInv'
<1> DEFINE kind == th[t].kind
           pc == th[t].pc
           k == RecapKey(th[t].s)
           last == th[t].tries = 1
           Out(out) == /\ th' = CASE out = "on" -> To(t, After(kind, pc))
                                  [] out = "reject" /\ ~last -> [th EXCEPT ![t].pc = "draft", ![t].tries = 1]
                                  [] OTHER -> Over(t)
                       /\ failed' = IF kind = "recap" /\ out = "reject" /\ last THEN failed \union {k}
                                    ELSE IF kind = "recap" /\ out = "on" /\ pc = "judge"
                                    THEN failed \ {k} ELSE failed
<1>1. /\ pc \in Paying /\ UNCHANGED <<shelf, recaps, flights, slots, answers, inflight>>
      /\ ThreadsTyped /\ FlightsInv /\ PaysInv
  BY DEF Stage, AnswersInv, AnswersTyped
<1>2. PICK out : Out(out)
  BY DEF Stage, Key
<1>3. PICK x : /\ Placed(x) /\ th' = [th EXCEPT ![t] = x]
               /\ \/ x.pc \in Paying \union {"keep"} /\ x.kind = kind /\ x.s = th[t].s
                     /\ ~(out = "reject" /\ last)
                  \/ /\ kind = "recap" => x.kind = "recap" /\ x.pc = "land" /\ x.s = th[t].s
                     /\ kind = "ask" => x.kind = "ask" /\ x.pc = "resolve" /\ x.s = th[t].s
                     /\ kind \notin {"recap", "ask"} => x = Idle
  BY <1>1, <1>2, OutGoes
<1>4. SameRoles(th[t], x) /\ (Flies(th[t]) <=> kind = "recap")
  BY <1>1, <1>3, WorkersRoles
<1>5. \A u \in Threads \ {t} : Pays(th[u]) => RecapKey(th[u].s) \notin recaps' \union failed'
  <2>1. CASE kind = "recap"
    <3>1. recaps' \union failed' \subseteq recaps \union failed \union {k}
      BY <1>1, <1>2
    <3> QED
      BY <1>1, <1>4, <2>1, <3>1, OthersPay
  <2>2. CASE kind # "recap"
    <3>1. failed' = failed
      BY <1>2, <2>2
    <3> QED
      BY <1>1, <3>1, CachesStay
  <2> QED
    BY <2>1, <2>2
<1>6. Pays(x) => RecapKey(x.s) \notin recaps' \union failed'
  <2> SUFFICES ASSUME Pays(x) PROVE RecapKey(x.s) \notin recaps' \union failed'
    OBVIOUS
  <2>1. x.kind = kind /\ x.s = th[t].s /\ ~(out = "reject" /\ last) /\ kind = "recap"
    BY <1>3, IdlePlaced, PayingIs DEF Pays
  <2>2. failed' \subseteq failed
    BY <1>2, <2>1
  <2>3. k \notin recaps \union failed
    BY <1>1, <2>1 DEF PaysInv, Pays
  <2> QED
    BY <1>1, <2>1, <2>2, <2>3
<1> QED
  BY <1>1, <1>3, <1>4, <1>5, <1>6, StayKeeps

\* The book is looked at before an answer is kept.
LEMMA KeepKeeps == ASSUME AnswersInv, NEW t \in Threads, Keep(t) PROVE AnswersInv'
<1>1. /\ th[t].pc = "keep" /\ UNCHANGED <<shelf, recaps, failed, flights, slots, answers, inflight>> /\ ThreadsTyped
  BY DEF Keep, AnswersInv, AnswersTyped
<1>2. th[t].kind \in {"recap", "ask"} => "write" \in PlacesOf(th[t].kind)
  BY DEF PlacesOf
<1>3. th' = Over(t) \/ (th[t].kind \in {"recap", "ask"} /\ th' = To(t, "write"))
  BY DEF Keep
<1>4. PICK x : /\ Placed(x) /\ th' = [th EXCEPT ![t] = x] /\ SameRoles(th[t], x) /\ ~Pays(x)
  <2>1. CASE th' = Over(t)
    <3>1. PICK x : /\ Placed(x) /\ th' = [th EXCEPT ![t] = x]
                   /\ th[t].kind = "recap" => x.kind = "recap" /\ x.pc = "land" /\ x.s = th[t].s
                   /\ th[t].kind = "ask" => x.kind = "ask" /\ x.pc = "resolve" /\ x.s = th[t].s
                   /\ th[t].kind \notin {"recap", "ask"} => x = Idle
      BY <1>1, <2>1, OverIs
    <3>2. SameRoles(th[t], x)
      BY <1>1, <3>1, WorkersRoles
    <3>3. ~Pays(x)
      BY <3>1, IdlePlaced, PayingIs DEF Pays
    <3> QED
      BY <3>1, <3>2, <3>3
  <2>2. CASE th[t].kind \in {"recap", "ask"} /\ th' = To(t, "write")
    <3>1. PICK x : /\ th' = [th EXCEPT ![t] = x] /\ Placed(x)
                   /\ x.pc = "write" /\ x.kind = th[t].kind /\ x.s = th[t].s
      BY <1>1, <1>2, <2>2, ToIs
    <3>2. SameRoles(th[t], x)
      BY <1>1, <3>1, WorkersRoles
    <3>3. ~Pays(x)
      BY <3>1, PayingIs DEF Pays
    <3> QED
      BY <3>1, <3>2, <3>3
  <2> QED
    BY <1>3, <2>1, <2>2
<1> QED
  BY <1>1, <1>4, CachesStay, StayKeeps

\* A recap or an answer is written to its cache.
LEMMA WriteKeeps == ASSUME AnswersInv, NEW t \in Threads, Write(t) PROVE AnswersInv'
<1>1. /\ th[t].pc = "write" /\ UNCHANGED <<shelf, failed, flights, slots, inflight>>
      /\ ThreadsTyped /\ FlightsInv /\ PaysInv /\ th' = Over(t)
  BY DEF Write, AnswersInv, AnswersTyped
<1>2. PICK x : /\ Placed(x) /\ th' = [th EXCEPT ![t] = x]
               /\ th[t].kind = "recap" => x.kind = "recap" /\ x.pc = "land" /\ x.s = th[t].s
               /\ th[t].kind = "ask" => x.kind = "ask" /\ x.pc = "resolve" /\ x.s = th[t].s
               /\ th[t].kind \notin {"recap", "ask"} => x = Idle
  BY <1>1, OverIs
<1>3. SameRoles(th[t], x) /\ (Flies(th[t]) <=> th[t].kind = "recap")
  BY <1>1, <1>2, WorkersRoles
<1>4. ~Pays(x)
  BY <1>2, IdlePlaced, PayingIs DEF Pays
<1>5. \A u \in Threads \ {t} : Pays(th[u]) => RecapKey(th[u].s) \notin recaps' \union failed'
  <2>1. CASE th[t].kind = "recap"
    <3>1. recaps' \subseteq recaps \union {RecapKey(th[t].s)}
      BY <2>1 DEF Write, Key
    <3> QED
      BY <1>1, <1>3, <2>1, <3>1, OthersPay
  <2>2. CASE th[t].kind # "recap"
    <3>1. recaps' = recaps
      BY <2>2 DEF Write
    <3> QED
      BY <1>1, <3>1, CachesStay
  <2> QED
    BY <2>1, <2>2
<1> QED
  BY <1>1, <1>2, <1>3, <1>4, <1>5, StayKeeps


\* A reader asks.
LEMMA RequestKeeps ==
    ASSUME AnswersInv, NEW t \in Readers, NEW kind \in Kinds, NEW b \in Books, Request(t, kind, b)
    PROVE  AnswersInv'
<1>1. /\ th[t].pc = "idle" /\ th' = [th EXCEPT ![t] = Begun(kind, b, HighWater(b), NoScope)]
      /\ UNCHANGED <<shelf, caches, flights, slots, inflight>>
  BY DEF Request, caches
<1>2. t \in Threads /\ NoScope \in Scopes
  BY DEF Threads, Scopes
<1> QED
  BY <1>1, <1>2, BeginKeeps

\* The preparation asks.
LEMMA PrepareKeeps ==
    ASSUME AnswersInv, NEW kind \in {"recap", "ask"}, NEW b \in Books, Prepare(kind, b)
    PROVE  AnswersInv'
<1> DEFINE s == Scope(b, HighWater(b))
<1>1. /\ th[Background].pc = "idle" /\ UNCHANGED <<shelf, caches, flights, slots, inflight>>
      /\ th' = [th EXCEPT ![Background] = Begun(kind, b, s.at, s)]
  BY DEF Prepare
<1>2. s.at = HighWater(b)
  BY DEF Scope
<1>3. Background \in Threads /\ kind \in Kinds /\ s \in Scopes
  BY DEF Threads, Kinds, Scopes, Scope, Snapshot, HighWater, Lower, AnswersInv, AnswersTyped, BooksTyped
<1> HIDE DEF s
<1> QED
  BY <1>1, <1>2, <1>3, BeginKeeps

\* What happens to the books, or is forgotten, leaves the threads as they are.
LEMMA StandsKeeps ==
    ASSUME AnswersInv, BooksTyped', UNCHANGED <<flights, slots, inflight, th>>,
           recaps' \subseteq recaps, failed' \subseteq failed
    PROVE  AnswersInv'
<1>1. AnswersTyped'
  BY DEF AnswersInv, AnswersTyped, ThreadsTyped, FlightsTyped, SlotsTyped, InflightTyped
<1>2. \A u \in Threads : SameRoles(th[u], th'[u])
  BY DEF SameRoles
<1>3. FlightsInv' /\ SlotsInv' /\ AsksInv'
  BY <1>2, FlightsStay, SlotsStay, AsksStay DEF AnswersInv
<1>4. PaysInv'
  BY DEF AnswersInv, PaysInv
<1> QED
  BY <1>1, <1>3, <1>4 DEF AnswersInv

\* What happens to a book while answers are under way.
LEMMA BooksKeep ==
    ASSUME AnswersInv, NEW b \in Books,
           Report(b) \/ Ingested(b) \/ StartAgain(b) \/ Correct(b) \/ DeleteBook(b) \/ ImportBook(b)
    PROVE  AnswersInv'
<1>1. BooksTyped'
  BY ShelfKeeps DEF Report, Ingested, StartAgain, Correct, DeleteBook, ImportBook, AnswersInv, AnswersTyped
<1>2. UNCHANGED <<flights, slots, inflight, th>> /\ recaps' \subseteq recaps /\ failed' \subseteq failed
  BY DEF Report, Ingested, StartAgain, Correct, DeleteBook, ImportBook, caches
<1> QED
  BY <1>1, <1>2, StandsKeeps

\* Every thread rests, nothing is in flight and every slot is free.
Rest0(flying, permits, futures, threads) ==
    /\ flying = Nothing /\ permits = MaxFlights /\ futures = Nothing
    /\ threads = [t \in Threads |-> Idle]

\* A registry without flights, slots or requests satisfies the invariant.
LEMMA ResetKeeps ==
    ASSUME BooksTyped, Rest0(flights, slots, inflight, th)
    PROVE  AnswersInv
<1>1. /\ flights = Nothing /\ slots = MaxFlights /\ inflight = Nothing
      /\ \A t \in Threads : th[t] = Idle
      /\ th \in [Threads -> RequestRows]
  BY IdlePlaced DEF Rest0, Placed
<1>2. DOMAIN Nothing = {} /\ Nothing = [x \in {} |-> x]
  BY DEF Nothing
<1>3. FlightsTyped /\ InflightTyped /\ SlotsTyped
  <2>1. IsFiniteSet({})
    BY FS_EmptySet
  <2>2. flights \in [DOMAIN flights -> FlightRows] /\ inflight \in [DOMAIN inflight -> [owner : Threads, done : BOOLEAN]]
    BY <1>1, <1>2
  <2> QED
    BY <1>1, <1>2, <2>1, <2>2, LimitsAssumption DEF FlightsTyped, InflightTyped, SlotsTyped
<1>4. ThreadsTyped
  BY <1>1, IdlePlaced DEF ThreadsTyped
<1>5. FlightsInv /\ AsksInv /\ PaysInv
  BY <1>1, <1>2, IdlePlaced DEF FlightsInv, AsksInv, PaysInv, Flies
<1>6. SlotsInv
  <2>1. Betweens = {}
    BY <1>1, IdlePlaced DEF Betweens
  <2>2. Cardinality({}) = 0 /\ MaxFlights \in Nat
    BY FS_EmptySet, LimitsAssumption
  <2> QED
    BY <1>1, <1>2, <2>1, <2>2 DEF SlotsInv
<1> QED
  BY <1>3, <1>4, <1>5, <1>6 DEF AnswersInv, AnswersTyped

\* The first state of the answers satisfies the invariant.
LEMMA AnswersInitHolds == AnswersInit => AnswersInv
<1> SUFFICES ASSUME AnswersInit PROVE AnswersInv
  OBVIOUS
<1>1. Rest0(flights, slots, inflight, th)
  BY DEF AnswersInit, Rest0
<1>2. BooksTyped
  BY ShelfStarts DEF AnswersInit
<1> QED
  BY <1>1, <1>2, ResetKeeps

\* A restart forgets every flight and every slot.
LEMMA RestartKeeps == ASSUME AnswersInv, RestartAnswers PROVE AnswersInv'
<1>1. Rest0(flights, slots, inflight, th)' /\ BooksTyped'
  BY DEF RestartAnswers, Rest0, AnswersInv, AnswersTyped, BooksTyped, Nothing
<1>2. BooksTyped /\ Rest0(flights, slots, inflight, th) => AnswersInv
  BY ResetKeeps
<1>3. (BooksTyped /\ Rest0(flights, slots, inflight, th) => AnswersInv)'
  BY ResetKeeps, PTL
<1> QED
  BY <1>1, <1>3

\* Every step of the answers keeps the invariant.
LEMMA AnswersStepKeeps == AnswersInv /\ [AnswersNext]_answersVars => AnswersInv'
<1> SUFFICES ASSUME AnswersInv, [AnswersNext]_answersVars PROVE AnswersInv'
  OBVIOUS
<1>1. ASSUME NEW t \in Threads, Step(t) \/ TakeSlot(t) \/ TakeOff(t) PROVE AnswersInv'
  BY <1>1, LookKeeps, ClaimKeeps, GiveSlotBackKeeps, LookAgainKeeps, LandKeeps, ReturnSlotKeeps, ShareKeeps,
     ResolveKeeps, PopKeeps, StageKeeps, KeepKeeps, WriteKeeps, TakeSlotKeeps, TakeOffKeeps DEF Step
<1>2. ASSUME NEW k \in failed, Expire(k) PROVE AnswersInv'
  <2>1. BooksTyped' /\ UNCHANGED <<flights, slots, inflight, th>> /\ recaps' \subseteq recaps /\ failed' \subseteq failed
    BY <1>2 DEF Expire, AnswersInv, AnswersTyped, BooksTyped
  <2> QED
    BY <2>1, StandsKeeps
<1>3. CASE UNCHANGED answersVars
  <2>1. BooksTyped' /\ UNCHANGED <<flights, slots, inflight, th>> /\ recaps' \subseteq recaps /\ failed' \subseteq failed
    BY <1>3 DEF answersVars, caches, AnswersInv, AnswersTyped, BooksTyped
  <2> QED
    BY <2>1, StandsKeeps
<1> QED
  BY <1>1, <1>2, <1>3, RequestKeeps, PrepareKeeps, BooksKeep, RestartKeeps DEF AnswersNext

-----------------------------------------------------------------------------
(* ReaderAnswers: the theorems *)

\* Flights count who is aboard, who is past a lock holds it, who prepares an
\* answer owns its future, and who pays looked before.
THEOREM AnswersHold == AnswersSpec => []AnswersInv
BY AnswersInitHolds, AnswersStepKeeps, PTL DEF AnswersSpec

\* Nobody pays for a recap that is there, was rejected within the minute or is
\* being paid for by another thread, and no two requests pay for one question:
\* the second look after the flight's lock, and run_once's futures.
THEOREM NobodyPaysTwice == AnswersSpec => []PaidOnce
<1>1. ASSUME AnswersInv PROVE PaidOnce
  <2> SUFFICES ASSUME NEW t \in Threads, th[t].pc \in Paying
               PROVE  /\ th[t].kind = "recap" => Key(t) \notin recaps \union failed
                      /\ \A u \in Threads \ {t} :
                           th[u].pc \in Paying /\ th[u].kind = th[t].kind =>
                             /\ th[t].kind = "recap" => Key(u) # Key(t)
                             /\ th[t].kind = "ask" => AskKey(u) # AskKey(t)
    BY DEF PaidOnce
  <2>1. FlightsInv /\ AsksInv /\ PaysInv
    BY <1>1 DEF AnswersInv
  <2>2. th[t].kind = "recap" => Key(t) \notin recaps \union failed
    BY <2>1 DEF PaysInv, Pays, Key
  <2>3. ASSUME NEW u \in Threads \ {t}, th[u].pc \in Paying, th[u].kind = "recap", th[t].kind = "recap"
        PROVE  Key(u) # Key(t)
    <3>1. Flies(th[t]) /\ Flies(th[u])
      BY <2>3, RecapsRoles, PayingIs
    <3> QED
      BY <2>1, <3>1, FliesAlone DEF Key
  <2>4. ASSUME NEW u \in Threads \ {t}, th[u].pc \in Paying, th[u].kind = "ask", th[t].kind = "ask"
        PROVE  AskKey(u) # AskKey(t)
    <3>1. Asks(th[t]) /\ Asks(th[u])
      BY <2>4, PayingIs DEF Asks
    <3> QED
      BY <2>1, <3>1 DEF AsksInv
  <2> QED
    BY <2>2, <2>3, <2>4
<1> QED
  BY <1>1, AnswersHold, PTL

\* Every slot of the semaphore is free, owned by a key in flight or in the hands
\* of a thread between the two, and a key is in flight exactly while a thread
\* refers to it: no slot leaks, whoever leaves last.
THEOREM NoSlotLeaks == AnswersSpec => []SlotsAccounted
<1>1. ASSUME AnswersInv PROVE SlotsAccounted
  <2>1. Betweens = {t \in Threads : th[t].pc \in {"claim", "spare", "return"}}
    BY DEF Betweens, Between
  <2>2. \A k : Aboards(k) = {t \in Threads : Refers(t, k)}
    BY DEF Aboards, Aboard, Refers, Key
  <2> QED
    BY <1>1, <2>1, <2>2 DEF AnswersInv, FlightsInv, SlotsInv, SlotsAccounted
<1> QED
  BY <1>1, AnswersHold, PTL

-----------------------------------------------------------------------------
(* ReaderAnswers: who waits, waits for somebody who goes on *)

(* A flight's lock is free or held by who is past it.                       *)
HoldersInv ==
  \A k \in DOMAIN flights :
    LET u == flights[k].holder
    IN  u # Nobody => Flies(th[u]) /\ RecapKey(th[u].s) = k

(* A future belongs to who prepares it, and is done once its owner is about *)
(* to take it off.                                                          *)
Prepares(u, k) == Asks(th[u]) /\ AskKey(u) = k
FuturesInv ==
  \A k \in DOMAIN inflight :
    LET u == inflight[k].owner
    IN  Prepares(u, k) /\ (inflight[k].done <=> th[u].pc = "pop")

(* Who waits for a result, waits for somebody who has yet to give it.       *)
Gives(x) == Asks(x) /\ x.pc # "pop"
WaitersInv ==
  \A t \in Threads : th[t].pc = "wait" => th[t].owner \in Threads /\ Gives(th[th[t].owner])

WaitsInv == HoldersInv /\ FuturesInv /\ WaitersInv

-----------------------------------------------------------------------------
(* ReaderAnswers: what a step does to those who wait *)

\* A thread that keeps what it holds, or holds nothing yet, and waits for no result.
StaysOn(x, y) ==
  /\ Flies(x) => Flies(y) /\ RecapKey(y.s) = RecapKey(x.s)
  /\ Asks(x) => Asks(y) /\ y.s = x.s /\ (y.pc = "pop" <=> x.pc = "pop")
  /\ y.pc # "wait"

\* After a step of t, which is x then: a lock that is free, its own, or another's as it was.
LockMoves(k, t, x) ==
  \/ flights'[k].holder = Nobody
  \/ flights'[k].holder = t /\ Flies(x) /\ RecapKey(x.s) = k
  \/ k \in DOMAIN flights /\ flights'[k].holder = flights[k].holder /\ flights[k].holder # t

\* Locks that stay with their holders, are given back or taken by the thread that moves.
LEMMA HoldersMove ==
    ASSUME HoldersInv, NEW t \in Threads, NEW x, ThreadsTyped, FlightsTyped, th' = [th EXCEPT ![t] = x],
           \A k \in DOMAIN flights' : LockMoves(k, t, x)
    PROVE  HoldersInv'
<1> SUFFICES ASSUME NEW k \in DOMAIN flights', flights'[k].holder # Nobody
             PROVE  Flies(th'[flights'[k].holder]) /\ RecapKey(th'[flights'[k].holder].s) = k
  BY DEF HoldersInv
<1>1. th'[t] = x /\ \A u \in Threads : u # t => th'[u] = th[u]
  BY DEF ThreadsTyped
<1>2. CASE flights'[k].holder = t /\ Flies(x) /\ RecapKey(x.s) = k
  BY <1>1, <1>2
<1>3. CASE k \in DOMAIN flights /\ flights'[k].holder = flights[k].holder /\ flights[k].holder # t
  <2>1. PICK u : u = flights[k].holder
    OBVIOUS
  <2>2. u # Nobody /\ u # t /\ u \in Threads \union {Nobody}
    BY <1>3, <2>1 DEF FlightsTyped, FlightRows
  <2>3. Flies(th[u]) /\ RecapKey(th[u].s) = k
    BY <1>3, <2>1, <2>2 DEF HoldersInv
  <2> QED
    BY <1>1, <1>3, <2>1, <2>2, <2>3
<1> QED
  BY <1>2, <1>3 DEF LockMoves

\* After a step of t, which is x then: its own future, and another's as it was.
OwnFuture(k, t, x) ==
  /\ inflight'[k].owner = t /\ Asks(x) /\ k = [s |-> x.s, back |-> t = Background]
  /\ inflight'[k].done <=> x.pc = "pop"
OtherFuture(k, t) == k \in DOMAIN inflight /\ inflight'[k] = inflight[k] /\ inflight[k].owner # t

\* Futures that stay with their owners.
LEMMA FuturesMove ==
    ASSUME FuturesInv, NEW t \in Threads, NEW x, ThreadsTyped, InflightTyped, th' = [th EXCEPT ![t] = x],
           \A k \in DOMAIN inflight' : OwnFuture(k, t, x) \/ OtherFuture(k, t)
    PROVE  FuturesInv'
<1> SUFFICES ASSUME NEW k \in DOMAIN inflight'
             PROVE  /\ Asks(th'[inflight'[k].owner])
                    /\ [s |-> th'[inflight'[k].owner].s, back |-> inflight'[k].owner = Background] = k
                    /\ inflight'[k].done <=> th'[inflight'[k].owner].pc = "pop"
  BY DEF FuturesInv, Prepares, AskKey
<1>1. th'[t] = x /\ \A u \in Threads : u # t => th'[u] = th[u]
  BY DEF ThreadsTyped
<1>2. CASE OwnFuture(k, t, x)
  BY <1>1, <1>2 DEF OwnFuture
<1>3. CASE OtherFuture(k, t)
  <2>1. PICK u : u = inflight[k].owner
    OBVIOUS
  <2>2. u # t /\ u \in Threads
    BY <1>3, <2>1 DEF OtherFuture, InflightTyped
  <2>3. Asks(th[u]) /\ AskKey(u) = k /\ (inflight[k].done <=> th[u].pc = "pop")
    BY <1>3, <2>1 DEF OtherFuture, FuturesInv, Prepares
  <2>4. th'[u] = th[u] /\ inflight'[k].owner = u
    BY <1>1, <1>3, <2>1, <2>2 DEF OtherFuture
  <2> QED
    BY <1>3, <2>3, <2>4 DEF AskKey, OtherFuture
<1> QED
  BY <1>2, <1>3

\* Waiters whose giver goes on.
LEMMA WaitersMove ==
    ASSUME WaitersInv, NEW t \in Threads, NEW x, ThreadsTyped, th' = [th EXCEPT ![t] = x],
           Gives(th[t]) => Gives(x),
           x.pc = "wait" => x.owner \in Threads \ {t} /\ Gives(th[x.owner])
    PROVE  WaitersInv'
<1> SUFFICES ASSUME NEW u \in Threads, th'[u].pc = "wait"
             PROVE  th'[u].owner \in Threads /\ Gives(th'[th'[u].owner])
  BY DEF WaitersInv
<1>1. th'[t] = x /\ \A v \in Threads : v # t => th'[v] = th[v]
  BY DEF ThreadsTyped
<1>2. CASE u = t
  BY <1>1, <1>2
<1>3. CASE u # t
  <2>1. th[u].pc = "wait" /\ th'[u] = th[u]
    BY <1>1, <1>3
  <2>2. th[u].owner \in Threads /\ Gives(th[th[u].owner])
    BY <2>1 DEF WaitersInv
  <2> QED
    BY <1>1, <2>1, <2>2
<1> QED
  BY <1>2, <1>3

\* A thread that stays on, while every lock stays where it is and no future changes.
LEMMA StayWaits ==
    ASSUME AnswersInv, WaitsInv, NEW t \in Threads, NEW x, th' = [th EXCEPT ![t] = x], StaysOn(th[t], x),
           \A k \in DOMAIN flights' : \/ flights'[k].holder = Nobody
                                      \/ k \in DOMAIN flights /\ flights'[k].holder = flights[k].holder,
           inflight' = inflight
    PROVE  WaitsInv'
<1>1. ThreadsTyped /\ FlightsTyped /\ InflightTyped /\ HoldersInv /\ FuturesInv /\ WaitersInv
  BY DEF AnswersInv, AnswersTyped, WaitsInv
<1>2. ASSUME NEW k \in DOMAIN flights', flights'[k].holder = t, flights'[k].holder # Nobody
      PROVE  Flies(x) /\ RecapKey(x.s) = k
  <2>1. k \in DOMAIN flights /\ flights[k].holder = t /\ t # Nobody
    BY <1>2
  <2>2. Flies(th[t]) /\ RecapKey(th[t].s) = k
    BY <1>1, <2>1 DEF HoldersInv
  <2> QED
    BY <2>2 DEF StaysOn
<1>3. HoldersInv'
  <2>1. ASSUME NEW k \in DOMAIN flights' PROVE LockMoves(k, t, x)
    BY <1>2 DEF LockMoves
  <2> QED
    BY <1>1, <2>1, HoldersMove
<1>4. ASSUME NEW k \in DOMAIN inflight, inflight[k].owner = t
      PROVE  Asks(x) /\ k = [s |-> x.s, back |-> t = Background] /\ (inflight[k].done <=> x.pc = "pop")
  <2>1. Asks(th[t]) /\ AskKey(t) = k /\ (inflight[k].done <=> th[t].pc = "pop")
    BY <1>1, <1>4 DEF FuturesInv, Prepares
  <2> QED
    BY <2>1 DEF StaysOn, AskKey
<1>5. FuturesInv'
  <2>1. ASSUME NEW k \in DOMAIN inflight'
        PROVE  OwnFuture(k, t, x) \/ OtherFuture(k, t)
    BY <1>4 DEF OwnFuture, OtherFuture
  <2> QED
    BY <1>1, <2>1, FuturesMove
<1>6. WaitersInv'
  BY <1>1, WaitersMove DEF StaysOn, Gives
<1> QED
  BY <1>3, <1>5, <1>6 DEF WaitsInv

\* Whoever holds nothing yet may go anywhere but to wait for a result.
LEMMA LooseOn ==
    ASSUME NEW x, NEW y, ~Flies(x), ~Asks(x), y.pc # "wait"
    PROVE  StaysOn(x, y)
BY DEF StaysOn

\* A recap request before its flight, or after it.
LEMMA RecapWaits ==
    ASSUME AnswersInv, WaitsInv, NEW t \in Threads, NEW place \in PlacesOf("recap"), th' = To(t, place),
           th[t].pc \in {"look", "slot", "claim", "spare", "again"},
           th[t].pc = "again" => place \in {"land", "draft"},
           \A k \in DOMAIN flights' : \/ flights'[k].holder = Nobody
                                      \/ k \in DOMAIN flights /\ flights'[k].holder = flights[k].holder,
           inflight' = inflight
    PROVE  WaitsInv'
<1>1. ThreadsTyped
  BY DEF AnswersInv, AnswersTyped
<1>2. th[t].kind = "recap"
  BY <1>1, KindAt
<1>3. PICK x : /\ Placed(x) /\ th' = [th EXCEPT ![t] = x] /\ x.pc = place /\ x.kind = "recap" /\ x.s = th[t].s
  BY <1>1, <1>2, RecapGoes
<1>4. ~Asks(th[t]) /\ x.pc # "wait"
  BY <1>2, <1>3 DEF Asks, PlacesOf
<1>5. CASE th[t].pc # "again"
  <2>1. ~Flies(th[t])
    BY <1>2, <1>5, RecapsRoles
  <2> QED
    BY <1>3, <1>4, <2>1, LooseOn, StayWaits
<1>6. CASE th[t].pc = "again"
  <2>1. Flies(x)
    BY <1>3, <1>6, RecapsRoles
  <2>2. StaysOn(th[t], x)
    BY <1>3, <1>4, <2>1 DEF StaysOn
  <2> QED
    BY <1>3, <2>2, StayWaits
<1> QED
  BY <1>5, <1>6

\* Boarding leaves a flight's lock with its holder.
LEMMA BoardedHolders ==
    ASSUME FlightsTyped, NEW k \in DOMAIN flights, flights' = Boarded(k)
    PROVE  \A i \in DOMAIN flights' : i \in DOMAIN flights /\ flights'[i].holder = flights[i].holder
<1> DEFINE seat == [flights[k] EXCEPT !.refs = flights[k].refs + 1]
<1>1. flights' = [flights EXCEPT ![k] = seat] /\ DOMAIN flights' = DOMAIN flights
  BY DEF Boarded
<1>2. seat.holder = flights[k].holder
  BY DEF FlightsTyped, FlightRows
<1> HIDE DEF seat
<1> QED
  BY <1>1, <1>2

\* A flight of the key is boarded, or a slot is asked for.
LEMMA LookWaits == ASSUME AnswersInv, WaitsInv, NEW t \in Threads, Look(t) PROVE WaitsInv'
<1>1. th[t].pc = "look" /\ inflight' = inflight /\ FlightsTyped
  BY DEF Look, AnswersInv, AnswersTyped
<1>2. {"lock", "slot"} \subseteq PlacesOf("recap")
  BY DEF PlacesOf
<1>3. CASE Key(t) \in DOMAIN flights
  <2>1. flights' = Boarded(Key(t)) /\ th' = To(t, "lock")
    BY <1>3 DEF Look
  <2> QED
    BY <1>1, <1>2, <1>3, <2>1, BoardedHolders, RecapWaits
<1>4. CASE Key(t) \notin DOMAIN flights
  <2>1. flights' = flights /\ th' = To(t, "slot")
    BY <1>4 DEF Look
  <2> QED
    BY <1>1, <1>2, <2>1, RecapWaits
<1> QED
  BY <1>3, <1>4

\* A slot is taken.
LEMMA TakeSlotWaits == ASSUME AnswersInv, WaitsInv, NEW t \in Threads, TakeSlot(t) PROVE WaitsInv'
<1>1. th[t].pc = "slot" /\ th' = To(t, "claim") /\ UNCHANGED <<flights, inflight>>
  BY DEF TakeSlot
<1>2. "claim" \in PlacesOf("recap")
  BY DEF PlacesOf
<1> QED
  BY <1>1, <1>2, RecapWaits

\* A new flight gets its entry, whose lock is free, or the one that came meanwhile is boarded.
LEMMA ClaimWaits == ASSUME AnswersInv, WaitsInv, NEW t \in Threads, Claim(t) PROVE WaitsInv'
<1>1. th[t].pc = "claim" /\ inflight' = inflight /\ FlightsTyped
  BY DEF Claim, AnswersInv, AnswersTyped
<1>2. {"spare", "lock"} \subseteq PlacesOf("recap")
  BY DEF PlacesOf
<1>3. CASE Key(t) \in DOMAIN flights
  <2>1. flights' = Boarded(Key(t)) /\ th' = To(t, "spare")
    BY <1>3 DEF Claim
  <2> QED
    BY <1>1, <1>2, <1>3, <2>1, BoardedHolders, RecapWaits
<1>4. CASE Key(t) \notin DOMAIN flights
  <2>1. flights' = With(flights, Key(t), [holder |-> Nobody, refs |-> 1]) /\ th' = To(t, "lock")
    BY <1>4 DEF Claim
  <2>2. \A k \in DOMAIN flights' : \/ flights'[k].holder = Nobody
                                   \/ k \in DOMAIN flights /\ flights'[k].holder = flights[k].holder
    BY <1>4, <2>1 DEF With
  <2> QED
    BY <1>1, <1>2, <2>1, <2>2, RecapWaits
<1> QED
  BY <1>3, <1>4

\* A slot that was not needed goes back.
LEMMA GiveSlotBackWaits == ASSUME AnswersInv, WaitsInv, NEW t \in Threads, GiveSlotBack(t) PROVE WaitsInv'
<1>1. th[t].pc = "spare" /\ th' = To(t, "lock") /\ UNCHANGED <<flights, inflight>>
  BY DEF GiveSlotBack
<1>2. "lock" \in PlacesOf("recap")
  BY DEF PlacesOf
<1> QED
  BY <1>1, <1>2, RecapWaits

\* The caches are looked at again under the flight's turn.
LEMMA LookAgainWaits == ASSUME AnswersInv, WaitsInv, NEW t \in Threads, LookAgain(t) PROVE WaitsInv'
<1>1. PICK place \in {"land", "draft"} : th' = To(t, place)
  BY DEF LookAgain
<1>2. th[t].pc = "again" /\ UNCHANGED <<flights, inflight>>
  BY DEF LookAgain
<1>3. {"land", "draft"} \subseteq PlacesOf("recap")
  BY DEF PlacesOf
<1> QED
  BY <1>1, <1>2, <1>3, RecapWaits

\* One aboard gets its turn: the lock was free, and is its own now.
LEMMA TakeOffWaits == ASSUME AnswersInv, WaitsInv, NEW t \in Threads, TakeOff(t) PROVE WaitsInv'
<1> DEFINE k == RecapKey(th[t].s)
<1>1. /\ th[t].pc = "lock" /\ flights[k].holder = Nobody /\ flights' = [flights EXCEPT ![k].holder = t]
      /\ th' = To(t, "again") /\ inflight' = inflight
      /\ ThreadsTyped /\ FlightsTyped /\ InflightTyped /\ HoldersInv /\ FuturesInv /\ WaitersInv
  BY DEF TakeOff, Key, AnswersInv, AnswersTyped, WaitsInv
<1>2. th[t].kind = "recap" /\ "again" \in PlacesOf("recap")
  BY <1>1, KindAt DEF PlacesOf
<1>3. PICK x : /\ th' = [th EXCEPT ![t] = x] /\ x.pc = "again" /\ x.kind = "recap" /\ x.s = th[t].s
  BY <1>1, <1>2, RecapGoes
<1>4. Flies(x) /\ ~Asks(th[t])
  BY <1>2, <1>3, RecapsRoles
<1>5. HoldersInv'
  <2>1. ASSUME NEW i \in DOMAIN flights' PROVE LockMoves(i, t, x)
    <3>1. i \in DOMAIN flights
      BY <1>1
    <3>2. CASE i = k
      <4>1. flights'[i].holder = t
        BY <1>1, <3>1, <3>2 DEF FlightsTyped, FlightRows
      <4> QED
        BY <1>3, <1>4, <3>2, <4>1 DEF LockMoves
    <3>3. CASE i # k
      <4>1. flights'[i] = flights[i]
        BY <1>1, <3>1, <3>3
      <4>2. flights[i].holder # t
        <5>1. ~Flies(th[t])
          BY <1>1, <1>2, RecapsRoles
        <5>2. t # Nobody
          BY ReadersAssumption DEF Threads, Nobody
        <5> QED
          BY <1>1, <3>1, <5>1, <5>2 DEF HoldersInv
      <4> QED
        BY <3>1, <4>1, <4>2 DEF LockMoves
    <3> QED
      BY <3>2, <3>3
  <2> QED
    BY <1>1, <1>3, <2>1, HoldersMove
<1>6. FuturesInv'
  <2>1. ASSUME NEW i \in DOMAIN inflight' PROVE OwnFuture(i, t, x) \/ OtherFuture(i, t)
    BY <1>1, <1>4 DEF OtherFuture, FuturesInv, Prepares
  <2> QED
    BY <1>1, <1>3, <2>1, FuturesMove
<1>7. WaitersInv'
  BY <1>1, <1>3, <1>4, WaitersMove DEF Gives
<1> QED
  BY <1>5, <1>6, <1>7 DEF WaitsInv

\* One aboard leaves its flight: the lock is free, or the entry gone.
LEMMA LandWaits == ASSUME AnswersInv, WaitsInv, NEW t \in Threads, Land(t) PROVE WaitsInv'
<1> DEFINE k == RecapKey(th[t].s)
           seat == [holder |-> Nobody, refs |-> flights[k].refs - 1]
<1>1. /\ th[t].pc = "land" /\ inflight' = inflight
      /\ \/ flights' = Less(flights, {k}) /\ th' = To(t, "return")
         \/ flights' = [flights EXCEPT ![k] = seat] /\ th' = Resting(t)
      /\ ThreadsTyped /\ FlightsTyped /\ InflightTyped /\ HoldersInv /\ FuturesInv /\ WaitersInv
  BY DEF Land, Key, AnswersInv, AnswersTyped, WaitsInv
<1>2. th[t].kind = "recap" /\ "return" \in PlacesOf("recap")
  BY <1>1, KindAt DEF PlacesOf
<1>3. PICK x : th' = [th EXCEPT ![t] = x] /\ x.pc \in {"return", "idle"}
  <2>1. CASE th' = To(t, "return")
    BY <1>1, <1>2, <2>1, RecapGoes
  <2>2. CASE th' = Resting(t)
    <3>1. Idle.pc = "idle"
      BY DEF Idle
    <3> QED
      BY <2>2, <3>1 DEF Resting
  <2> QED
    BY <1>1, <2>1, <2>2
<1>4. ~Asks(th[t])
  BY <1>2, RecapsRoles
<1>5. \A i \in DOMAIN flights' : \/ flights'[i].holder = Nobody
                                 \/ i \in DOMAIN flights /\ i # k /\ flights'[i] = flights[i]
  <2>1. CASE flights' = Less(flights, {k})
    BY <2>1 DEF Less
  <2>2. CASE flights' = [flights EXCEPT ![k] = seat]
    BY <2>2
  <2> QED
    BY <1>1, <2>1, <2>2
<1>6. ASSUME NEW i \in DOMAIN flights, i # k PROVE flights[i].holder # t
  <2>1. t # Nobody
    BY ReadersAssumption DEF Threads, Nobody
  <2> QED
    BY <1>1, <1>6, <2>1 DEF HoldersInv
<1>7. HoldersInv'
  <2>1. ASSUME NEW i \in DOMAIN flights' PROVE LockMoves(i, t, x)
    BY <1>5, <1>6 DEF LockMoves
  <2> QED
    BY <1>1, <1>3, <2>1, HoldersMove
<1>8. FuturesInv'
  <2>1. ASSUME NEW i \in DOMAIN inflight' PROVE OwnFuture(i, t, x) \/ OtherFuture(i, t)
    BY <1>1, <1>4 DEF OtherFuture, FuturesInv, Prepares
  <2> QED
    BY <1>1, <1>3, <2>1, FuturesMove
<1>9. WaitersInv'
  BY <1>1, <1>3, <1>4, WaitersMove DEF Gives
<1> QED
  BY <1>7, <1>8, <1>9 DEF WaitsInv

\* The slot of a flight that is over goes back.
LEMMA ReturnSlotWaits == ASSUME AnswersInv, WaitsInv, NEW t \in Threads, ReturnSlot(t) PROVE WaitsInv'
<1>1. th[t].pc = "return" /\ th' = [th EXCEPT ![t] = Idle] /\ UNCHANGED <<flights, inflight>> /\ ThreadsTyped
  BY DEF ReturnSlot, Resting, AnswersInv, AnswersTyped
<1>2. th[t].kind = "recap"
  BY <1>1, KindAt
<1>3. ~Flies(th[t]) /\ ~Asks(th[t]) /\ Idle.pc # "wait"
  BY <1>1, <1>2, RecapsRoles DEF Idle
<1> QED
  BY <1>1, <1>3, LooseOn, StayWaits

\* A question joins the one under way, whose owner has yet to answer, or becomes it.
LEMMA ShareWaits == ASSUME AnswersInv, WaitsInv, NEW t \in Threads, Share(t) PROVE WaitsInv'
<1> DEFINE k == AskKey(t)
           seat == [owner |-> t, done |-> FALSE]
<1>1. /\ th[t].pc = "share" /\ flights' = flights
      /\ ThreadsTyped /\ FlightsTyped /\ InflightTyped /\ HoldersInv /\ FuturesInv /\ WaitersInv
  BY DEF Share, AnswersInv, AnswersTyped, WaitsInv
<1>2. th[t].kind = "ask" /\ th[t].pc \in PlacesOf("ask") /\ th[t] \in RequestRows /\ "find" \in PlacesOf("ask")
  BY <1>1, KindAt DEF PlacesOf
<1>3. ~Flies(th[t]) /\ ~Asks(th[t])
  BY <1>1, <1>2, QuestionsRoles
<1>4. CASE th' = Resting(t) /\ UNCHANGED inflight
  <2>1. th' = [th EXCEPT ![t] = Idle] /\ Idle.pc # "wait"
    BY <1>4 DEF Resting, Idle
  <2> QED
    BY <1>1, <1>3, <1>4, <2>1, LooseOn, StayWaits
<1>5. ASSUME NEW i \in DOMAIN flights PROVE flights[i].holder # t
  <2>1. t # Nobody
    BY ReadersAssumption DEF Threads, Nobody
  <2> QED
    BY <1>1, <1>3, <2>1 DEF HoldersInv
<1>6. ASSUME NEW x, th' = [th EXCEPT ![t] = x] PROVE HoldersInv'
  <2>1. ASSUME NEW i \in DOMAIN flights' PROVE LockMoves(i, t, x)
    BY <1>1, <1>5 DEF LockMoves
  <2> QED
    BY <1>1, <1>6, <2>1, HoldersMove
<1>7. ASSUME NEW i \in DOMAIN inflight PROVE inflight[i].owner # t
  BY <1>1, <1>3 DEF FuturesInv, Prepares
<1>8. CASE k \in DOMAIN inflight /\ ~inflight[k].done
  <2> DEFINE v == inflight[k].owner
             y == [th[t] EXCEPT !.pc = "wait"]
             x == [y EXCEPT !.owner = v]
  <2>1. th' = [th EXCEPT ![t] = x] /\ UNCHANGED inflight
    BY <1>1, <1>2, <1>8 DEF Share, ThreadsTyped
  <2>2. v \in Threads \ {t} /\ Gives(th[v])
    <3>1. v \in Threads /\ v # t
      BY <1>1, <1>7, <1>8 DEF InflightTyped
    <3>2. Asks(th[v]) /\ th[v].pc # "pop"
      BY <1>1, <1>8 DEF FuturesInv, Prepares
    <3> QED
      BY <3>1, <3>2 DEF Gives
  <2>3. x.owner = v
    <3>1. "wait" \in RequestPlaces
      BY DEF RequestPlaces, Kinds, PlacesOf
    <3>2. y \in RequestRows
      BY <1>2, <3>1 DEF RequestRows
    <3> HIDE DEF y, v
    <3> QED
      BY <3>2 DEF RequestRows
  <2> HIDE DEF x, v
  <2>4. FuturesInv'
    <3>1. ASSUME NEW i \in DOMAIN inflight' PROVE OwnFuture(i, t, x) \/ OtherFuture(i, t)
      BY <1>7, <2>1 DEF OtherFuture
    <3> QED
      BY <1>1, <2>1, <3>1, FuturesMove
  <2>5. WaitersInv'
    BY <1>1, <1>3, <2>1, <2>2, <2>3, WaitersMove DEF Gives
  <2> QED
    BY <1>6, <2>1, <2>4, <2>5 DEF WaitsInv
<1>9. CASE k \notin DOMAIN inflight /\ inflight' = With(inflight, k, seat) /\ th' = To(t, "find")
  <2>1. PICK x : /\ th' = [th EXCEPT ![t] = x] /\ x.pc = "find" /\ x.kind = "ask" /\ x.s = th[t].s
    BY <1>1, <1>2, <1>9, QuestionGoes
  <2>2. FuturesInv'
    <3>1. ASSUME NEW i \in DOMAIN inflight' PROVE OwnFuture(i, t, x) \/ OtherFuture(i, t)
      <4>1. CASE i = k
        <5>1. inflight'[i] = seat
          BY <1>9, <4>1 DEF With
        <5>2. i = [s |-> x.s, back |-> t = Background] /\ Asks(x)
          BY <2>1, <4>1 DEF AskKey, Asks
        <5> QED
          BY <2>1, <5>1, <5>2 DEF OwnFuture
      <4>2. CASE i # k
        <5>1. i \in DOMAIN inflight /\ inflight'[i] = inflight[i]
          BY <1>9, <4>2 DEF With
        <5> QED
          BY <1>7, <5>1 DEF OtherFuture
      <4> QED
        BY <4>1, <4>2
    <3> QED
      BY <1>1, <2>1, <3>1, FuturesMove
  <2>3. WaitersInv'
    BY <1>1, <1>3, <2>1, WaitersMove DEF Gives
  <2> QED
    BY <1>6, <2>1, <2>2, <2>3 DEF WaitsInv
<1> QED
  BY <1>4, <1>8, <1>9 DEF Share

\* The result of a question reaches every waiter, so that nobody waits for its owner any more.
LEMMA ResolveWaits == ASSUME AnswersInv, WaitsInv, NEW t \in Threads, Resolve(t) PROVE WaitsInv'
<1> DEFINE k == AskKey(t)
           x == [th[t] EXCEPT !.pc = "pop"]
<1>1. /\ th[t].pc = "resolve" /\ flights' = flights
      /\ inflight' = [inflight EXCEPT ![k].done = TRUE]
      /\ th' = [u \in Threads |-> IF u = t THEN x
                                  ELSE IF th[u].pc = "wait" /\ th[u].owner = t THEN Idle ELSE th[u]]
      /\ ThreadsTyped /\ FlightsTyped /\ InflightTyped /\ AsksInv /\ HoldersInv /\ FuturesInv /\ WaitersInv
  BY DEF Resolve, AnswersInv, AnswersTyped, WaitsInv
<1>2. th[t].kind = "ask" /\ th[t].pc \in PlacesOf("ask") /\ th[t] \in RequestRows
  BY <1>1, KindAt
<1>3. ~Flies(th[t]) /\ Asks(th[t])
  BY <1>1, <1>2, QuestionsRoles
<1>4. x.pc = "pop" /\ x.kind = "ask" /\ x.s = th[t].s
  BY <1>2 DEF RequestRows
<1> HIDE DEF x
<1>5. /\ th'[t] = x
      /\ \A u \in Threads : u # t => th'[u] = th[u] \/ (th[u].pc = "wait" /\ th[u].owner = t /\ th'[u] = Idle)
      /\ \A u \in Threads : th[u].pc = "wait" /\ th[u].owner = t => u # t /\ th'[u] = Idle
  BY <1>1
<1>6. ASSUME NEW u \in Threads, Flies(th[u]) \/ Asks(th[u]), u # t PROVE th'[u] = th[u]
  <2>1. th[u].pc # "wait"
    BY <1>6, PayingIs DEF Flies, Aboard, Asks
  <2> QED
    BY <1>5, <1>6, <2>1
<1>7. HoldersInv'
  <2> SUFFICES ASSUME NEW i \in DOMAIN flights', flights'[i].holder # Nobody
               PROVE  Flies(th'[flights'[i].holder]) /\ RecapKey(th'[flights'[i].holder].s) = i
    BY DEF HoldersInv
  <2>1. PICK u : u = flights[i].holder
    OBVIOUS
  <2>2. u \in Threads /\ Flies(th[u]) /\ RecapKey(th[u].s) = i
    BY <1>1, <2>1 DEF HoldersInv, FlightsTyped, FlightRows
  <2>3. th'[u] = th[u]
    BY <1>3, <1>6, <2>2
  <2> QED
    BY <1>1, <2>1, <2>2, <2>3
<1>8. FuturesInv'
  <2> SUFFICES ASSUME NEW i \in DOMAIN inflight'
               PROVE  /\ Asks(th'[inflight'[i].owner])
                      /\ [s |-> th'[inflight'[i].owner].s, back |-> inflight'[i].owner = Background] = i
                      /\ inflight'[i].done <=> th'[inflight'[i].owner].pc = "pop"
    BY DEF FuturesInv, Prepares, AskKey
  <2>1. i \in DOMAIN inflight /\ inflight[i] \in [owner : Threads, done : BOOLEAN]
    BY <1>1 DEF InflightTyped
  <2>2. PICK u \in Threads : u = inflight[i].owner
    BY <2>1
  <2>3. Asks(th[u]) /\ AskKey(u) = i /\ (inflight[i].done <=> th[u].pc = "pop")
    BY <1>1, <2>1, <2>2 DEF FuturesInv, Prepares
  <2>4. CASE u = t
    <3>1. inflight'[i].owner = t /\ inflight'[i].done = TRUE
      BY <1>1, <2>1, <2>2, <2>3, <2>4
    <3>2. Asks(x)
      BY <1>4 DEF Asks
    <3> QED
      BY <1>4, <1>5, <2>3, <2>4, <3>1, <3>2 DEF AskKey
  <2>5. CASE u # t
    <3>1. th'[u] = th[u]
      BY <1>6, <2>3, <2>5
    <3>2. i # k
      BY <1>1, <1>3, <2>2, <2>5 DEF AsksInv
    <3>3. inflight'[i] = inflight[i]
      BY <1>1, <2>1, <3>2
    <3> QED
      BY <2>2, <2>3, <3>1, <3>3 DEF AskKey
  <2> QED
    BY <2>4, <2>5
<1>9. WaitersInv'
  <2> SUFFICES ASSUME NEW u \in Threads, th'[u].pc = "wait"
               PROVE  th'[u].owner \in Threads /\ Gives(th'[th'[u].owner])
    BY DEF WaitersInv
  <2>1. th[u].pc = "wait" /\ th'[u] = th[u] /\ th[u].owner # t
    BY <1>4, <1>5 DEF Idle
  <2>2. PICK v : v = th[u].owner
    OBVIOUS
  <2>3. v \in Threads /\ Gives(th[v]) /\ v # t
    BY <1>1, <2>1, <2>2 DEF WaitersInv
  <2>4. th'[v] = th[v]
    BY <1>6, <2>3 DEF Gives
  <2> QED
    BY <2>1, <2>2, <2>3, <2>4
<1> QED
  BY <1>7, <1>8, <1>9 DEF WaitsInv

\* The owner of a question takes it off the registry: nobody waits for it by then.
LEMMA PopWaits == ASSUME AnswersInv, WaitsInv, NEW t \in Threads, Pop(t) PROVE WaitsInv'
<1> DEFINE k == AskKey(t)
<1>1. /\ th[t].pc = "pop" /\ flights' = flights
      /\ inflight' = Less(inflight, {k}) /\ th' = [th EXCEPT ![t] = Idle]
      /\ ThreadsTyped /\ FlightsTyped /\ InflightTyped /\ HoldersInv /\ FuturesInv /\ WaitersInv
  BY DEF Pop, Resting, AnswersInv, AnswersTyped, WaitsInv
<1>2. th[t].kind = "ask"
  BY <1>1, KindAt
<1>3. ~Flies(th[t]) /\ ~Gives(th[t])
  BY <1>1, <1>2 DEF Flies, Aboard, Gives
<1>4. HoldersInv'
  <2>1. t # Nobody
    BY ReadersAssumption DEF Threads, Nobody
  <2>2. ASSUME NEW i \in DOMAIN flights' PROVE LockMoves(i, t, Idle)
    BY <1>1, <1>3, <2>1 DEF HoldersInv, LockMoves
  <2> QED
    BY <1>1, <2>2, HoldersMove
<1>5. FuturesInv'
  <2>1. ASSUME NEW i \in DOMAIN inflight' PROVE OwnFuture(i, t, Idle) \/ OtherFuture(i, t)
    <3>1. i \in DOMAIN inflight /\ i # k /\ inflight'[i] = inflight[i]
      BY <1>1 DEF Less
    <3>2. AskKey(inflight[i].owner) = i
      BY <1>1, <3>1 DEF FuturesInv, Prepares
    <3> QED
      BY <3>1, <3>2 DEF OtherFuture
  <2> QED
    BY <1>1, <2>1, FuturesMove
<1>6. WaitersInv'
  BY <1>1, <1>3, WaitersMove DEF Idle
<1> QED
  BY <1>4, <1>5, <1>6 DEF WaitsInv

\* A request that is drafted, checked, kept or written keeps its lock or its future.
LEMMA WorkersStayOn ==
    ASSUME NEW t \in Threads, NEW x, th[t].pc \in Paying \union {"keep", "write"},
           \/ x.pc \in Paying \union {"keep", "write"} /\ x.kind = th[t].kind /\ x.s = th[t].s
           \/ /\ th[t].kind = "recap" => x.kind = "recap" /\ x.pc = "land" /\ x.s = th[t].s
              /\ th[t].kind = "ask" => x.kind = "ask" /\ x.pc = "resolve" /\ x.s = th[t].s
              /\ th[t].kind \notin {"recap", "ask"} => x = Idle
    PROVE  StaysOn(th[t], x)
<1>1. CASE th[t].kind = "recap"
  BY <1>1, RecapsRoles, PayingIs DEF StaysOn
<1>2. CASE th[t].kind = "ask"
  BY <1>2, PayingIs DEF StaysOn, Flies, Aboard, Asks
<1>3. CASE th[t].kind \notin {"recap", "ask"}
  <2>1. ~Flies(th[t]) /\ ~Asks(th[t])
    BY <1>3 DEF Flies, Aboard, Asks
  <2>2. x.pc # "wait"
    BY <1>3, PayingIs DEF Idle
  <2> QED
    BY <2>1, <2>2, LooseOn
<1> QED
  BY <1>1, <1>2, <1>3

\* The stages of an answer, and what is kept of it.
LEMMA WorkWaits ==
    ASSUME AnswersInv, WaitsInv, NEW t \in Threads, Stage(t) \/ Keep(t) \/ Write(t)
    PROVE  WaitsInv'
<1>1. th[t].pc \in Paying \union {"keep", "write"} /\ UNCHANGED <<flights, inflight>> /\ ThreadsTyped
  BY DEF Stage, Keep, Write, AnswersInv, AnswersTyped
<1> DEFINE Goes(x) == /\ th' = [th EXCEPT ![t] = x]
                      /\ \/ x.pc \in Paying \union {"keep", "write"} /\ x.kind = th[t].kind /\ x.s = th[t].s
                         \/ /\ th[t].kind = "recap" => x.kind = "recap" /\ x.pc = "land" /\ x.s = th[t].s
                            /\ th[t].kind = "ask" => x.kind = "ask" /\ x.pc = "resolve" /\ x.s = th[t].s
                            /\ th[t].kind \notin {"recap", "ask"} => x = Idle
<1>2. CASE Stage(t)
  <2>1. PICK out : th' = CASE out = "on" -> To(t, After(th[t].kind, th[t].pc))
                           [] out = "reject" /\ ~(th[t].tries = 1) -> [th EXCEPT ![t].pc = "draft", ![t].tries = 1]
                           [] OTHER -> Over(t)
    BY <1>2 DEF Stage
  <2>2. th[t].pc \in Paying
    BY <1>2 DEF Stage
  <2>3. PICK x : /\ Placed(x) /\ th' = [th EXCEPT ![t] = x]
                 /\ \/ x.pc \in Paying \union {"keep"} /\ x.kind = th[t].kind /\ x.s = th[t].s
                       /\ ~(out = "reject" /\ th[t].tries = 1)
                    \/ /\ th[t].kind = "recap" => x.kind = "recap" /\ x.pc = "land" /\ x.s = th[t].s
                       /\ th[t].kind = "ask" => x.kind = "ask" /\ x.pc = "resolve" /\ x.s = th[t].s
                       /\ th[t].kind \notin {"recap", "ask"} => x = Idle
    BY <1>1, <2>1, <2>2, OutGoes
  <2>4. Goes(x)
    BY <2>3
  <2> QED
    BY <1>1, <2>4, WorkersStayOn, StayWaits
<1>3. CASE th' = Over(t)
  <2>1. PICK x : /\ Over(t) = [th EXCEPT ![t] = x]
                 /\ th[t].kind = "recap" => x.kind = "recap" /\ x.pc = "land" /\ x.s = th[t].s
                 /\ th[t].kind = "ask" => x.kind = "ask" /\ x.pc = "resolve" /\ x.s = th[t].s
                 /\ th[t].kind \notin {"recap", "ask"} => x = Idle
    BY <1>1, OverIs
  <2>2. Goes(x)
    BY <1>3, <2>1
  <2> QED
    BY <1>1, <2>2, WorkersStayOn, StayWaits
<1>4. CASE Keep(t) /\ th' # Over(t)
  <2>1. th[t].kind \in {"recap", "ask"} /\ th' = To(t, "write")
    BY <1>4 DEF Keep
  <2>2. "write" \in PlacesOf(th[t].kind)
    BY <2>1 DEF PlacesOf
  <2>3. PICK x : th' = [th EXCEPT ![t] = x] /\ x.pc = "write" /\ x.kind = th[t].kind /\ x.s = th[t].s
    BY <1>1, <2>1, <2>2, ToIs
  <2>4. Goes(x)
    BY <2>3
  <2> QED
    BY <1>1, <2>4, WorkersStayOn, StayWaits
<1> QED
  BY <1>2, <1>3, <1>4 DEF Write

\* Whoever asks waits for nothing yet.
LEMMA BeginWaits ==
    ASSUME AnswersInv, WaitsInv, NEW t \in Threads, th[t].pc = "idle", NEW kind \in Kinds, NEW b, NEW at, NEW want,
           th' = [th EXCEPT ![t] = Begun(kind, b, at, want)], UNCHANGED <<flights, inflight>>
    PROVE  WaitsInv'
<1> DEFINE x == Begun(kind, b, at, want)
<1>1. ~Flies(th[t]) /\ ~Asks(th[t])
  BY PayingIs DEF Flies, Aboard, Asks
<1>2. x.pc \in {"idle", "look", "share", "draft"}
  BY DEF Begun, Idle, Opens
<1> HIDE DEF x
<1>3. StaysOn(th[t], x)
  BY <1>1, <1>2, LooseOn
<1> QED
  BY <1>3, StayWaits DEF x

\* Steps that concern no thread.
LEMMA StandWaits == ASSUME WaitsInv, UNCHANGED <<flights, inflight, th>> PROVE WaitsInv'
<1>1. HoldersInv'
  BY DEF WaitsInv, HoldersInv
<1>2. FuturesInv'
  BY DEF WaitsInv, FuturesInv, Prepares, AskKey
<1>3. WaitersInv'
  BY DEF WaitsInv, WaitersInv
<1> QED
  BY <1>1, <1>2, <1>3 DEF WaitsInv

\* Nobody waits where everybody rests.
LEMMA RestWaits == ASSUME Rest0(flights, slots, inflight, th) PROVE WaitsInv
<1>1. DOMAIN flights = {} /\ DOMAIN inflight = {} /\ \A t \in Threads : th[t].pc = "idle"
  BY DEF Rest0, Nothing, Idle
<1> QED
  BY <1>1 DEF WaitsInv, HoldersInv, FuturesInv, WaitersInv

\* Every step of the answers leaves everybody who waits somebody to wait for.
LEMMA WaitsStepKeeps == AnswersInv /\ WaitsInv /\ [AnswersNext]_answersVars => WaitsInv'
<1> SUFFICES ASSUME AnswersInv, WaitsInv, [AnswersNext]_answersVars PROVE WaitsInv'
  OBVIOUS
<1>1. ASSUME NEW t \in Threads, Step(t) \/ TakeSlot(t) \/ TakeOff(t) PROVE WaitsInv'
  BY <1>1, LookWaits, ClaimWaits, GiveSlotBackWaits, LookAgainWaits, LandWaits, ReturnSlotWaits, ShareWaits,
     ResolveWaits, PopWaits, WorkWaits, TakeSlotWaits, TakeOffWaits DEF Step
<1>2. ASSUME NEW t \in Readers, NEW kind \in Kinds, NEW b \in Books, Request(t, kind, b) PROVE WaitsInv'
  BY <1>2, BeginWaits DEF Request, Threads
<1>3. ASSUME NEW kind \in {"recap", "ask"}, NEW b \in Books, Prepare(kind, b) PROVE WaitsInv'
  BY <1>3, BeginWaits DEF Prepare, Threads, Kinds
<1>4. CASE \/ \E k \in failed : Expire(k)
           \/ \E b \in Books : Report(b) \/ Ingested(b) \/ StartAgain(b) \/ Correct(b) \/ DeleteBook(b) \/ ImportBook(b)
           \/ UNCHANGED answersVars
  <2>1. UNCHANGED <<flights, inflight, th>>
    BY <1>4 DEF Expire, Report, Ingested, StartAgain, Correct, DeleteBook, ImportBook, answersVars
  <2> QED
    BY <2>1, StandWaits
<1>5. CASE RestartAnswers
  <2>1. Rest0(flights, slots, inflight, th)'
    BY <1>5 DEF RestartAnswers, Rest0, Nothing
  <2>2. (Rest0(flights, slots, inflight, th) => WaitsInv)'
    BY RestWaits, PTL
  <2> QED
    BY <2>1, <2>2
<1> QED
  BY <1>1, <1>2, <1>3, <1>4, <1>5 DEF AnswersNext

\* While a request is being served, some thread may go on: whoever waits for a
\* slot, for a flight's lock or for another's answer waits for a thread that has
\* it and waits for nothing itself (flight's semaphore and locks, run_once's futures).
THEOREM NobodyStandsStill == AnswersSpec => []NoStandstill
<1>1. AnswersInit => WaitsInv
  BY RestWaits DEF AnswersInit, Rest0
<1>2. ASSUME AnswersInv, WaitsInv PROVE NoStandstill
  <2> SUFFICES ASSUME NEW t \in Threads, th[t].pc # "idle" PROVE \E u \in Threads : MayGo(u)
    BY DEF NoStandstill
  <2>1. FlightsTyped /\ FlightsInv /\ SlotsTyped /\ SlotsInv /\ HoldersInv /\ WaitersInv /\ ThreadsTyped
    BY <1>2 DEF AnswersInv, AnswersTyped, WaitsInv
  <2>2. ASSUME NEW u \in Threads, Flies(th[u]) PROVE MayGo(u)
    BY <2>2, PayingIs DEF Flies, Aboard, MayGo
  <2>3. ASSUME NEW u \in Threads, Aboard(th[u]) PROVE \E v \in Threads : MayGo(v)
    <3>1. CASE th[u].pc = "lock"
      <4> DEFINE k == RecapKey(th[u].s)
      <4>1. k \in DOMAIN flights
        BY <2>1, <2>3 DEF FlightsInv
      <4>2. CASE flights[k].holder = Nobody
        BY <3>1, <4>2 DEF MayGo, Key
      <4>3. CASE flights[k].holder # Nobody
        <5>1. flights[k].holder \in Threads /\ Flies(th[flights[k].holder])
          BY <2>1, <4>1, <4>3 DEF HoldersInv, FlightsTyped, FlightRows
        <5> QED
          BY <2>2, <5>1
      <4> QED
        BY <4>2, <4>3
    <3>2. CASE th[u].pc # "lock"
      BY <2>3, <3>2, PayingIs DEF Aboard, MayGo
    <3> QED
      BY <3>1, <3>2
  <2>4. CASE th[t].pc = "wait"
    <3>1. th[t].owner \in Threads /\ Gives(th[th[t].owner])
      BY <2>1, <2>4 DEF WaitersInv
    <3>2. th[th[t].owner].kind = "ask" /\ th[th[t].owner].pc \notin {"idle", "wait"}
      BY <3>1 DEF Gives, Asks
    <3>3. th[th[t].owner].pc \notin {"slot", "lock"}
      BY <2>1, <3>1, <3>2, KindAt
    <3> QED
      BY <3>1, <3>2, <3>3 DEF MayGo
  <2>5. CASE th[t].pc = "lock"
    <3>1. Aboard(th[t])
      BY <2>1, <2>5, KindAt DEF Aboard
    <3> QED
      BY <2>3, <3>1
  <2>6. CASE th[t].pc = "slot"
    <3>1. CASE slots > 0
      BY <2>6, <3>1 DEF MayGo
    <3>2. CASE Betweens # {}
      <4>1. PICK u \in Threads : Between(th[u])
        BY <3>2 DEF Betweens
      <4> QED
        BY <4>1 DEF Between, MayGo
    <3>3. CASE DOMAIN flights # {}
      <4>1. PICK k \in DOMAIN flights : flights[k].refs = Cardinality(Aboards(k)) /\ flights[k].refs > 0
        BY <2>1, <3>3 DEF FlightsInv
      <4>2. Aboards(k) # {}
        BY <4>1, FS_EmptySet
      <4> QED
        BY <2>3, <4>2 DEF Aboards
    <3>4. slots > 0 \/ Betweens # {} \/ DOMAIN flights # {}
      <4> SUFFICES ASSUME Betweens = {}, DOMAIN flights = {} PROVE slots > 0
        BY <2>1 DEF SlotsTyped
      <4>1. Cardinality(Betweens) = 0 /\ Cardinality(DOMAIN flights) = 0
        BY FS_EmptySet
      <4> QED
        BY <2>1, <4>1, LimitsAssumption DEF SlotsInv, SlotsTyped
    <3> QED
      BY <3>1, <3>2, <3>3, <3>4
  <2>7. CASE th[t].pc \notin {"wait", "lock", "slot"}
    BY <2>7 DEF MayGo
  <2> QED
    BY <2>4, <2>5, <2>6, <2>7
<1>3. AnswersInv /\ WaitsInv /\ [AnswersNext]_answersVars => WaitsInv'
  BY WaitsStepKeeps
<1> QED
  BY <1>1, <1>2, <1>3, AnswersHold, PTL DEF AnswersSpec

-----------------------------------------------------------------------------
(* Preparation: the inductive invariant *)

Keys == Books \X Nat
Tokens == [epoch : Nat, mark : Nat, n : Nat]
TokenMaps == UNION {[ks -> Tokens] : ks \in SUBSET Keys}
Actives == [key : Keys \union {NoKey}, token : Tokens, cancelled : BOOLEAN]
Loops == [queue : Seq(Keys), pending : TokenMaps, completed : TokenMaps, focus : Keys \union {NoKey},
          active : Actives, closed : BOOLEAN]

(* No request falls between the queue and its pending token; what the       *)
(* runner is at keeps its token and is not queued again.                    *)
LoopOK(L) ==
  /\ L \in Loops
  /\ \A key \in DOMAIN L.pending : key = L.active.key \/ key \in ToSet(L.queue)
  /\ IsInjective(L.queue)
  /\ \A i \in DOMAIN L.queue : L.queue[i] \in DOMAIN L.pending
  /\ L.active.key # NoKey => L.active.key \in DOMAIN L.pending /\ L.active.key \notin ToSet(L.queue)

CallsTyped == calls \in Seq([key : Keys, force : BOOLEAN, foreground : BOOLEAN])

Works == {"recap", "recapping", "plan", "planned", "review", "reviewed", "question", "asking", "mark", "end"}
Runs == [pc : Works \union {"get", "capture", "settle"}, s : Scopes, good : BOOLEAN, fault : BOOLEAN]

(* A scope that was captured is of the book as it was before.               *)
Past(s) ==
  LET book == shelf[s.b]
  IN  /\ s \in [b : Books, inc : Nat, epoch : Nat, at : Nat, memory : SUBSET Nat]
      /\ s.inc <= book.inc
      /\ s.inc = book.inc => s.epoch <= book.epoch
      /\ s.inc = book.inc /\ s.epoch = book.epoch => s.at <= HighWater(s.b)
      /\ s.memory \subseteq Snapshot(s.b, s.at)

Bought == {"plan", "review", "answer"}
Spent(w, s) == Times(<<w, s>>) > restarts

(* What was paid for since the process started is in the bank, on its way   *)
(* there, or of no use any more.                                            *)
Secured(w, s) ==
  \/ w = "plan" /\ (s \in DOMAIN plans \/ s \in attempted \/ (run.pc = "planned" /\ run.s = s))
  \/ w = "review" /\ \/ s \in DOMAIN plans /\ plans[s]
                     \/ s \in attempted \/ (run.pc = "reviewed" /\ run.s = s)
  \/ w = "answer" /\ s \in banked

BankTyped ==
  /\ plans \in [DOMAIN plans -> BOOLEAN]
  /\ bought \in [DOMAIN bought -> Nat] /\ DOMAIN bought \subseteq Bought \X Scopes
  /\ restarts \in Nat

SpentInv ==
  \A w \in Bought, s \in Scopes :
    Spent(w, s) => Past(s) /\ (loop.closed \/ ~Wanted(s) \/ Secured(w, s))

(* Where the runner is says what it has looked for and not found.           *)
RunOK(r) ==
  /\ r \in Runs
  /\ r.pc \in Works => Past(r.s)
  /\ r.pc \in {"plan", "planned"} => r.s \notin attempted /\ r.s \notin DOMAIN plans
  /\ r.pc \in {"review", "reviewed"} => r.s \notin attempted /\ (r.s \in DOMAIN plans => ~plans[r.s])
  /\ r.pc = "asking" => ~Spent("answer", r.s)

RunnerInv == RunOK(run) /\ (run.pc = "get" <=> loop.active.key = NoKey)

PreparationInv ==
  /\ BooksTyped /\ CallsTyped /\ BankTyped
  /\ LoopOK(loop) /\ RunnerInv /\ SpentInv /\ BoughtOnce

-----------------------------------------------------------------------------
(* Preparation: the shelf under a captured scope *)

\* A book stays in its pass and is read and remembered further, starts another
\* pass, or is another one.
LEMMA BookGoes ==
    ASSUME BooksTyped, NEW b \in Books,
           \/ Reported(b) \/ CaughtUp(b) \/ StartedAgain(b) \/ Corrected(b) \/ Removed(b) \/ Imported(b)
    PROVE  /\ \A c \in Books \ {b} : shelf'[c] = shelf[c]
           /\ \/ /\ shelf'[b].inc = shelf[b].inc /\ shelf'[b].epoch = shelf[b].epoch
                 /\ shelf'[b].mark >= shelf[b].mark /\ shelf'[b].done >= shelf[b].done
                 /\ shelf[b].fixed \subseteq shelf'[b].fixed /\ (shelf'[b].on => shelf[b].on)
              \/ /\ shelf'[b].inc = shelf[b].inc /\ shelf'[b].epoch = shelf[b].epoch + 1
                 /\ shelf'[b].fixed = shelf[b].fixed
              \/ shelf'[b].inc = shelf[b].inc + 1 /\ shelf'[b].fixed = shelf[b].fixed
<1> DEFINE Book == [on : BOOLEAN, inc : Nat, epoch : Nat, mark : 0..Chapters, done : 0..Chapters,
                    fixed : SUBSET Nat]
<1>1. shelf[b] \in Book /\ shelf \in [Books -> Book] /\ Chapters \in Nat
  BY ChaptersAssumption DEF BooksTyped
<1>2. CASE Reported(b)
  <2>1. PICK mark \in {shelf[b].mark, shelf[b].mark + 1} : shelf' = [shelf EXCEPT ![b] = [shelf[b] EXCEPT !.mark = mark]]
    BY <1>2 DEF Reported, Becomes
  <2> QED
    BY <1>1, <2>1
<1>3. CASE CaughtUp(b)
  BY <1>1, <1>3 DEF CaughtUp, Becomes
<1>4. CASE StartedAgain(b)
  <2> DEFINE next == [shelf[b] EXCEPT !.epoch = shelf[b].epoch + 1]
  <2>1. next \in Book /\ next.inc = shelf[b].inc /\ next.epoch = shelf[b].epoch + 1 /\ next.fixed = shelf[b].fixed
    BY <1>1
  <2>2. shelf' = [shelf EXCEPT ![b] = [next EXCEPT !.mark = 0]]
    BY <1>4 DEF StartedAgain, Becomes
  <2> HIDE DEF next
  <2> QED
    BY <1>1, <2>1, <2>2
<1>5. CASE Corrected(b)
  <2>1. shelf' = [shelf EXCEPT ![b] = [shelf[b] EXCEPT !.fixed = shelf[b].fixed \union {shelf[b].mark}]]
    BY <1>5 DEF Corrected, Becomes
  <2> QED
    BY <1>1, <2>1
<1>6. CASE Removed(b)
  BY <1>1, <1>6 DEF Removed, Becomes
<1>7. CASE Imported(b)
  <2> DEFINE next == [NewBook EXCEPT !.inc = shelf[b].inc + 1]
  <2>1. NewBook \in Book
    BY <1>1 DEF NewBook
  <2>2. next \in Book /\ next.inc = shelf[b].inc + 1
    BY <1>1, <2>1
  <2>3. shelf' = [shelf EXCEPT ![b] = [next EXCEPT !.fixed = shelf[b].fixed]]
    BY <1>7 DEF Imported, Becomes
  <2> HIDE DEF next
  <2> QED
    BY <1>1, <2>2, <2>3
<1> QED
  BY <1>2, <1>3, <1>4, <1>5, <1>6, <1>7

\* A captured scope stays one of the past; one that is of no use any more stays so.
LEMMA PastStays ==
    ASSUME BooksTyped, NEW b \in Books,
           \/ Reported(b) \/ CaughtUp(b) \/ StartedAgain(b) \/ Corrected(b) \/ Removed(b) \/ Imported(b),
           NEW s, Past(s)
    PROVE  Past(s)' /\ (Wanted(s)' => Wanted(s))
<1>1. s \in [b : Books, inc : Nat, epoch : Nat, at : Nat, memory : SUBSET Nat] /\ s.b \in Books
  BY DEF Past
<1>2. CASE s.b # b
  <2>1. shelf'[s.b] = shelf[s.b]
    BY <1>1, <1>2, BookGoes
  <2> QED
    BY <2>1 DEF Past, Wanted, Still, Unchanged, Scope, Snapshot, HighWater
<1>3. CASE s.b = b
  <2> DEFINE old == shelf[b]
             new == shelf'[b]
  <2>1. BooksTyped'
    BY ShelfKeeps
  <2>2. /\ {old.inc, old.epoch, old.mark, old.done, new.inc, new.epoch, new.mark, new.done} \subseteq Nat
        /\ old.fixed \subseteq Nat /\ new.fixed \subseteq Nat
    BY <2>1, ChaptersAssumption DEF BooksTyped
  <2>3. \/ /\ new.inc = old.inc /\ new.epoch = old.epoch
           /\ new.mark >= old.mark /\ new.done >= old.done
           /\ old.fixed \subseteq new.fixed /\ (new.on => old.on)
        \/ /\ new.inc = old.inc /\ new.epoch = old.epoch + 1 /\ new.fixed = old.fixed
        \/ new.inc = old.inc + 1 /\ new.fixed = old.fixed
    BY BookGoes
  <2> DEFINE hw == Lower(old.mark, old.done)
             kept == {c \in old.fixed : c <= s.at}
  <2>4. /\ s.inc <= old.inc /\ (s.inc = old.inc => s.epoch <= old.epoch)
        /\ s.inc = old.inc /\ s.epoch = old.epoch => s.at <= hw
        /\ s.memory \subseteq kept
    BY <1>3 DEF Past, HighWater, Snapshot
  <2>5. /\ Past(s)' <=> /\ s.inc <= new.inc /\ (s.inc = new.inc => s.epoch <= new.epoch)
                        /\ s.inc = new.inc /\ s.epoch = new.epoch => s.at <= Lower(new.mark, new.done)
                        /\ s.memory \subseteq {c \in new.fixed : c <= s.at}
    BY <1>1, <1>3 DEF Past, HighWater, Snapshot
  <2>6. Wanted(s) <=> /\ old.on /\ old.inc = s.inc /\ old.epoch = s.epoch /\ hw >= s.at
                      /\ kept = s.memory /\ old.mark = s.at
    <3>1. Scope(s.b, s.at) = s <=> old.inc = s.inc /\ old.epoch = s.epoch /\ kept = s.memory
      BY <1>1, <1>3 DEF Scope, Snapshot
    <3> QED
      BY <1>3, <3>1 DEF Wanted, Still, Unchanged, HighWater
  <2>7. Wanted(s)' <=> /\ new.on /\ new.inc = s.inc /\ new.epoch = s.epoch /\ Lower(new.mark, new.done) >= s.at
                       /\ {c \in new.fixed : c <= s.at} = s.memory /\ new.mark = s.at
    <3>1. (Scope(s.b, s.at) = s)' <=> new.inc = s.inc /\ new.epoch = s.epoch /\ {c \in new.fixed : c <= s.at} = s.memory
      BY <1>1, <1>3 DEF Scope, Snapshot
    <3> QED
      BY <1>3, <3>1 DEF Wanted, Still, Unchanged, HighWater
  <2>8. {s.inc, s.epoch, s.at} \subseteq Nat
    BY <1>1
  <2>9. CASE new.inc = old.inc /\ new.epoch = old.epoch
    <3>1. /\ new.mark >= old.mark /\ new.done >= old.done
          /\ old.fixed \subseteq new.fixed /\ (new.on => old.on)
      BY <2>2, <2>3, <2>9
    <3>2. Lower(new.mark, new.done) >= hw /\ hw <= old.mark /\ hw \in Nat /\ Lower(new.mark, new.done) \in Nat
      BY <2>2, <3>1 DEF Lower
    <3>3. kept \subseteq {c \in new.fixed : c <= s.at}
      BY <3>1
    <3> HIDE DEF old, new, hw, kept
    <3>4. Past(s)'
      BY <2>2, <2>4, <2>5, <2>8, <2>9, <3>2, <3>3
    <3>5. ASSUME Wanted(s)' PROVE Wanted(s)
      <4>1. new.mark = s.at /\ new.on /\ {c \in new.fixed : c <= s.at} = s.memory
        BY <2>7, <3>5
      <4>2. s.inc = old.inc /\ s.epoch = old.epoch
        BY <2>7, <2>9, <3>5
      <4>3. s.at <= hw
        BY <2>4, <4>2
      <4>4. kept = s.memory
        BY <2>4, <3>3, <4>1
      <4>5. old.mark = s.at
        BY <2>2, <2>8, <3>1, <3>2, <4>1, <4>3 DEF old, new
      <4> QED
        BY <2>6, <2>8, <3>1, <3>2, <4>1, <4>2, <4>3, <4>4, <4>5
    <3> QED
      BY <3>4, <3>5
  <2>10. CASE ~(new.inc = old.inc /\ new.epoch = old.epoch)
    <3> HIDE DEF old, new, hw, kept
    <3>1. new.fixed = old.fixed /\ (new.inc > old.inc \/ (new.inc = old.inc /\ new.epoch > old.epoch))
      BY <2>2, <2>3, <2>10 DEF old, new
    <3>2. kept = {c \in new.fixed : c <= s.at}
      BY <3>1 DEF kept
    <3>3. ~(new.inc = s.inc /\ new.epoch = s.epoch) /\ s.inc <= new.inc /\ (s.inc = new.inc => s.epoch <= new.epoch)
      BY <2>2, <2>4, <2>8, <3>1 DEF old, new
    <3> QED
      BY <2>4, <2>5, <2>7, <3>2, <3>3
  <2> QED
    BY <2>9, <2>10
<1> QED
  BY <1>2, <1>3

-----------------------------------------------------------------------------
(* Preparation: what a notification does to the queue *)

LEMMA TokenMapsAre == \A f : f \in TokenMaps <=> f \in [DOMAIN f -> Tokens] /\ DOMAIN f \subseteq Keys
BY DEF TokenMaps

\* A map with one more entry.
LEMMA WithIs ==
    ASSUME NEW f, NEW k, NEW v
    PROVE  /\ DOMAIN With(f, k, v) = DOMAIN f \union {k} /\ With(f, k, v)[k] = v
           /\ \A x \in DOMAIN f \ {k} : With(f, k, v)[x] = f[x]
BY DEF With

\* Maps of tokens stay such when entries come and go.
LEMMA TokensStay ==
    /\ \A f \in TokenMaps, k \in Keys, v \in Tokens : With(f, k, v) \in TokenMaps
    /\ \A f \in TokenMaps : \A ks : Less(f, ks) \in TokenMaps
<1>1. ASSUME NEW f \in TokenMaps, NEW k \in Keys, NEW v \in Tokens PROVE With(f, k, v) \in TokenMaps
  <2>1. f \in [DOMAIN f -> Tokens] /\ DOMAIN f \subseteq Keys
    BY TokenMapsAre
  <2>2. With(f, k, v) \in [DOMAIN f \union {k} -> Tokens] /\ DOMAIN f \union {k} \subseteq Keys
    BY <2>1 DEF With
  <2> QED
    BY <2>2 DEF TokenMaps
<1>2. ASSUME NEW f \in TokenMaps, NEW ks PROVE Less(f, ks) \in TokenMaps
  <2>1. f \in [DOMAIN f -> Tokens] /\ DOMAIN f \subseteq Keys
    BY TokenMapsAre
  <2>2. Less(f, ks) \in [DOMAIN f \ ks -> Tokens] /\ DOMAIN f \ ks \subseteq Keys
    BY <2>1 DEF Less
  <2> QED
    BY <2>2 DEF TokenMaps
<1> QED
  BY <1>1, <1>2

\* A map with entries taken out.
LEMMA LessIs ==
    ASSUME NEW f, NEW ks
    PROVE  DOMAIN Less(f, ks) = DOMAIN f \ ks /\ \A x \in DOMAIN f \ ks : Less(f, ks)[x] = f[x]
BY DEF Less

\* Below, a loop's record is only seen through its fields.
LEMMA LoopIs ==
    ASSUME NEW L
    PROVE  L \in Loops <=> /\ L = [queue |-> L.queue, pending |-> L.pending, completed |-> L.completed,
                                   focus |-> L.focus, active |-> L.active, closed |-> L.closed]
                           /\ L.queue \in Seq(Keys) /\ L.pending \in TokenMaps /\ L.completed \in TokenMaps
                           /\ L.focus \in Keys \union {NoKey} /\ L.active \in Actives /\ L.closed \in BOOLEAN
BY DEF Loops

\* Another loop of the same runner.
Follows(L, X) == LoopOK(X) /\ X.active.key = L.active.key /\ X.closed = L.closed

\* The loop with another queue and other pending tokens.
Requeued(L, queue, pending) == [[L EXCEPT !.queue = queue] EXCEPT !.pending = pending]
\* The loop with another queue and other pending items.
LEMMA RequeuedFollows ==
    ASSUME NEW L, LoopOK(L), NEW queue \in Seq(Keys), NEW pending \in TokenMaps,
           \A key \in DOMAIN pending : key = L.active.key \/ key \in ToSet(queue),
           IsInjective(queue),
           \A i \in DOMAIN queue : queue[i] \in DOMAIN pending,
           L.active.key # NoKey => L.active.key \in DOMAIN pending /\ L.active.key \notin ToSet(queue)
    PROVE  Follows(L, Requeued(L, queue, pending))
<1> DEFINE M == [L EXCEPT !.queue = queue]
           X == [M EXCEPT !.pending = pending]
<1>1. L \in Loops
  BY DEF LoopOK
<1>2. M \in Loops /\ M.queue = queue /\ M.active = L.active /\ M.closed = L.closed
  BY <1>1 DEF Loops
<1> HIDE DEF M
<1>3. X \in Loops /\ X.queue = queue /\ X.pending = pending /\ X.active = L.active /\ X.closed = L.closed
  BY <1>2 DEF Loops
<1> HIDE DEF X
<1>4. LoopOK(X)
  BY <1>3 DEF LoopOK
<1> QED
  BY <1>3, <1>4 DEF Follows, Requeued, X, M

\* The loop once its running item is cancelled.
LEMMA CancelledFollows ==
    ASSUME NEW L, LoopOK(L)
    PROVE  Follows(L, Cancelled(L)) /\ Cancelled(L).focus = L.focus /\ Cancelled(L).completed = L.completed
<1> DEFINE a == [L.active EXCEPT !.cancelled = TRUE]
           X == [L EXCEPT !.active = a]
<1>1. L \in Loops /\ L.active \in Actives
  BY LoopIs DEF LoopOK
<1>2. a \in Actives /\ a.key = L.active.key
  BY <1>1 DEF Actives
<1>3. Cancelled(L) = X
  BY <1>1 DEF Cancelled, Loops
<1> HIDE DEF a
<1>4. /\ X \in Loops /\ X.queue = L.queue /\ X.pending = L.pending /\ X.active = a /\ X.closed = L.closed
      /\ X.focus = L.focus /\ X.completed = L.completed
  BY <1>1, <1>2 DEF Loops
<1> HIDE DEF X
<1>5. LoopOK(X)
  BY <1>2, <1>4 DEF LoopOK
<1> QED
  BY <1>2, <1>3, <1>4, <1>5 DEF Follows

\* What is left of a queue when one key stays.
LEMMA OnlyIs ==
    ASSUME NEW queue \in Seq(Keys), IsInjective(queue), NEW key \in Keys
    PROVE  /\ Only(queue, key) \in Seq(Keys) /\ IsInjective(Only(queue, key))
           /\ ToSet(Only(queue, key)) = ToSet(queue) \intersect {key}
<1> DEFINE places == {j \in DOMAIN queue : queue[j] = key}
           n == Cardinality(places)
<1>1. CASE places = {}
  <2>1. n = 0
    BY <1>1, FS_EmptySet
  <2>2. Only(queue, key) = [i \in 1..0 |-> key]
    BY <2>1 DEF Only
  <2>3. Only(queue, key) = << >>
    BY <2>2
  <2> QED
    BY <1>1, <2>3 DEF ToSet, IsInjective
<1>2. CASE places # {}
  <2>1. PICK j \in places : TRUE
    BY <1>2
  <2>2. places = {j}
    BY <2>1 DEF IsInjective
  <2>3. n = 1
    BY <2>2, FS_Singleton
  <2>4. Only(queue, key) = [i \in 1..1 |-> key]
    BY <2>3 DEF Only
  <2>5. Only(queue, key) = <<key>>
    BY <2>4
  <2>6. key \in ToSet(queue)
    BY <2>1 DEF ToSet
  <2>7. <<key>> \in Seq(Keys) /\ IsInjective(<<key>>) /\ ToSet(<<key>>) = {key}
    BY DEF ToSet, IsInjective
  <2> QED
    BY <2>5, <2>6, <2>7
<1> QED
  BY <1>1, <1>2

\* The loop once the focus is on a key.
LEMMA FocusedFollows ==
    ASSUME NEW L, LoopOK(L), NEW key \in Keys
    PROVE  Follows(L, Focused(L, key))
<1> DEFINE dropped == ToSet(L.queue) \ {key}
           queue == Only(L.queue, key)
           pending == Less(L.pending, dropped \ {L.active.key})
<1>1. /\ L \in Loops /\ L.queue \in Seq(Keys) /\ L.pending \in TokenMaps
      /\ \A k \in DOMAIN L.pending : k = L.active.key \/ k \in ToSet(L.queue)
      /\ IsInjective(L.queue)
      /\ \A k \in ToSet(L.queue) : k \in DOMAIN L.pending
      /\ L.active.key # NoKey => L.active.key \in DOMAIN L.pending /\ L.active.key \notin ToSet(L.queue)
  BY LoopIs DEF LoopOK, ToSet
<1>2. /\ queue \in Seq(Keys) /\ IsInjective(queue) /\ ToSet(queue) = ToSet(L.queue) \intersect {key}
  BY <1>1, OnlyIs
<1>3. pending \in TokenMaps /\ DOMAIN pending = DOMAIN L.pending \ (dropped \ {L.active.key})
  <2> DEFINE gone == dropped \ {L.active.key}
  <2> HIDE DEF dropped
  <2>1. DOMAIN Less(L.pending, gone) = DOMAIN L.pending \ gone
    BY DEF Less
  <2>2. Less(L.pending, gone) \in TokenMaps
    BY <1>1, TokensStay
  <2> QED
    BY <2>1, <2>2
<1>4. Focused(L, key) = Requeued(L, queue, pending)
  BY <1>1 DEF Focused, Requeued, Loops
<1> HIDE DEF queue, pending
<1>5. \A i \in DOMAIN queue : queue[i] \in ToSet(queue)
  BY DEF ToSet
<1> QED
  BY <1>1, <1>2, <1>3, <1>4, <1>5, RequeuedFollows

\* The loop once on_focus was called.
LEMMA OnFocusFollows ==
    ASSUME NEW L, LoopOK(L), NEW key \in Keys
    PROVE  Follows(L, OnFocus(L, key))
<1> DEFINE F == [L EXCEPT !.focus = key]
           C == IF F.active.key \notin {NoKey, key} THEN Cancelled(F) ELSE F
<1>1. L \in Loops
  BY DEF LoopOK
<1>2. /\ F \in Loops /\ F.queue = L.queue /\ F.pending = L.pending /\ F.active = L.active /\ F.closed = L.closed
  BY <1>1 DEF Loops
<1> HIDE DEF F
<1>3. LoopOK(F)
  BY <1>2 DEF LoopOK
<1>4. Follows(F, C)
  BY <1>3, CancelledFollows DEF Follows
<1>5. OnFocus(L, key) = Focused(C, key)
  BY DEF OnFocus, F
<1> HIDE DEF C
<1>6. Follows(C, Focused(C, key))
  BY <1>4, FocusedFollows DEF Follows
<1> QED
  BY <1>2, <1>4, <1>5, <1>6 DEF Follows

\* The loop once an item was queued or its pending token replaced.
LEMMA QueuedFollows ==
    ASSUME NEW L, LoopOK(L), NEW key \in Keys, NEW token \in Tokens
    PROVE  Follows(L, Queued(L, key, token))
<1>1. /\ L \in Loops /\ L.queue \in Seq(Keys) /\ L.pending \in TokenMaps
      /\ \A k \in DOMAIN L.pending : k = L.active.key \/ k \in ToSet(L.queue)
      /\ IsInjective(L.queue)
      /\ \A k \in ToSet(L.queue) : k \in DOMAIN L.pending
      /\ L.active.key # NoKey => L.active.key \in DOMAIN L.pending /\ L.active.key \notin ToSet(L.queue)
  BY LoopIs DEF LoopOK, ToSet
<1>2. \A i \in DOMAIN L.queue : L.queue[i] \in DOMAIN L.pending
  BY DEF LoopOK
<1>3. CASE key \in DOMAIN L.pending
  <2> DEFINE pending == [L.pending EXCEPT ![key] = token]
  <2>1. L.pending \in [DOMAIN L.pending -> Tokens] /\ DOMAIN L.pending \subseteq Keys
    BY <1>1, TokenMapsAre
  <2>2. pending \in [DOMAIN L.pending -> Tokens] /\ DOMAIN pending = DOMAIN L.pending
    BY <2>1
  <2>3. pending \in TokenMaps
    BY <2>1, <2>2 DEF TokenMaps
  <2>4. Queued(L, key, token) = Requeued(L, L.queue, pending)
    BY <1>1, <1>3 DEF Queued, Requeued, Loops
  <2> HIDE DEF pending
  <2> QED
    BY <1>1, <1>2, <2>2, <2>3, <2>4, RequeuedFollows
<1>4. CASE key \notin DOMAIN L.pending /\ Len(L.queue) < QueueSize
  <2> DEFINE queue == Append(L.queue, key)
             pending == With(L.pending, key, token)
  <2>1. pending \in TokenMaps /\ DOMAIN pending = DOMAIN L.pending \union {key}
    BY <1>1, TokensStay, WithIs
  <2>2. /\ queue \in Seq(Keys) /\ DOMAIN queue = 1..(Len(L.queue) + 1) /\ DOMAIN L.queue = 1..Len(L.queue)
        /\ queue[Len(L.queue) + 1] = key /\ \A i \in 1..Len(L.queue) : queue[i] = L.queue[i]
        /\ Len(L.queue) \in Nat
    BY <1>1
  <2>3. ToSet(queue) = ToSet(L.queue) \union {key}
    <3>1. ToSet(queue) = {queue[i] : i \in 1..(Len(L.queue) + 1)} /\ ToSet(L.queue) = {L.queue[i] : i \in 1..Len(L.queue)}
      BY <2>2 DEF ToSet
    <3> HIDE DEF queue
    <3>2. 1..(Len(L.queue) + 1) = 1..Len(L.queue) \union {Len(L.queue) + 1}
      BY <2>2
    <3> QED
      BY <2>2, <3>1, <3>2
  <2>4. Queued(L, key, token) = Requeued(L, queue, pending)
    BY <1>1, <1>4 DEF Queued, Requeued, Loops
  <2> HIDE DEF queue, pending
  <2>5. key \notin ToSet(L.queue)
    BY <1>1, <1>4
  <2>6. \A i \in 1..Len(L.queue) : L.queue[i] # key
    BY <2>2, <2>5 DEF ToSet
  <2>7. IsInjective(queue)
    BY <1>1, <2>2, <2>6 DEF IsInjective
  <2>8. \A i \in DOMAIN queue : queue[i] \in DOMAIN pending
    <3>1. \A i \in DOMAIN queue : queue[i] \in ToSet(queue)
      BY DEF ToSet
    <3> QED
      BY <1>1, <2>1, <2>3, <3>1
  <2>9. L.active.key # key
    <3>1. key # NoKey
      BY KeysAssumption DEF Keys, NoKey
    <3> QED
      BY <1>1, <1>4, <3>1
  <2>10. \A other \in DOMAIN pending : other = L.active.key \/ other \in ToSet(queue)
    BY <1>1, <2>1, <2>3
  <2>11. L.active.key # NoKey => L.active.key \in DOMAIN pending /\ L.active.key \notin ToSet(queue)
    BY <1>1, <2>1, <2>3, <2>9
  <2>12. LoopOK(L) /\ queue \in Seq(Keys)
    BY <2>2
  <2>13. Follows(L, Requeued(L, queue, pending))
    BY <2>1, <2>7, <2>8, <2>10, <2>11, <2>12, RequeuedFollows
  <2> QED
    BY <2>4, <2>13
<1>5. CASE ~(key \in DOMAIN L.pending) /\ ~(Len(L.queue) < QueueSize)
  BY <1>5 DEF Queued, Follows
<1> QED
  BY <1>3, <1>4, <1>5

\* A token is of the pass and the chapter the book is at, or the one before.
LEMMA TokenIs ==
    ASSUME BooksTyped, NEW L \in Loops, NEW key \in Keys, NEW force \in BOOLEAN
    PROVE  NewToken(L, key, force) \in Tokens
<1> DEFINE b == key[1]
           prior == Prior(L, key)
           last == CHOOSE p \in prior : TRUE
           n == IF force /\ prior # {} THEN last.n + 1 ELSE 0
<1>1. b \in Books
  BY DEF Keys
<1>2. shelf[b].epoch \in Nat /\ shelf[b].mark \in Nat
  BY <1>1, ChaptersAssumption DEF BooksTyped
<1>3. prior \subseteq Tokens
  <2>1. L.pending \in TokenMaps /\ L.completed \in TokenMaps
    BY LoopIs
  <2>2. L.pending \in [DOMAIN L.pending -> Tokens] /\ L.completed \in [DOMAIN L.completed -> Tokens]
    BY <2>1, TokenMapsAre
  <2> QED
    BY <2>2 DEF Prior
<1> HIDE DEF prior
<1>4. prior # {} => last \in Tokens
  BY <1>3
<1> HIDE DEF last
<1>5. n \in Nat
  BY <1>4 DEF Tokens
<1> HIDE DEF n
<1>6. [epoch |-> shelf[b].epoch, mark |-> shelf[b].mark, n |-> n] \in Tokens
  BY <1>2, <1>5 DEF Tokens
<1>7. NewToken(L, key, force) = IF prior # {} /\ ~force /\ SameBase(last, b) THEN last
                                ELSE [epoch |-> shelf[b].epoch, mark |-> shelf[b].mark, n |-> n]
  BY DEF NewToken, n, last, prior
<1> QED
  BY <1>4, <1>6, <1>7

\* The token of a key that is scheduled again.
LEMMA SuccessorIs ==
    ASSUME NEW L, NEW key, NEW token \in Tokens
    PROVE  Successor(L, key, token) \in Tokens
<1>1. [token EXCEPT !.n = token.n + 1] \in Tokens
  BY DEF Tokens
<1> QED
  BY <1>1 DEF Successor

\* The loop once a key was scheduled.
LEMMA ScheduledFollows ==
    ASSUME BooksTyped, NEW L, LoopOK(L), NEW key \in Keys, NEW force \in BOOLEAN, NEW foreground \in BOOLEAN
    PROVE  Follows(L, Scheduled(L, key, force, foreground))
<1> DEFINE F == IF foreground THEN OnFocus(L, key) ELSE L
           token == NewToken(F, key, force)
           next == Successor(F, key, token)
           C == IF key = F.active.key /\ token # F.active.token THEN Cancelled(F) ELSE F
           W == IF key = F.active.key THEN Cancelled(F) ELSE F
           Q == Queued(C, key, next)
<1>1. Follows(L, F)
  BY OnFocusFollows DEF Follows
<1>2. token \in Tokens
  BY <1>1, TokenIs DEF Follows, LoopOK
<1>3. next \in Tokens
  BY <1>2, SuccessorIs
<1>4. Scheduled(L, key, force, foreground) \in {L, F, W, C, Q}
  BY DEF Scheduled
<1> HIDE DEF token, next, F
<1>5. Follows(F, C) /\ Follows(F, W)
  BY <1>1, CancelledFollows DEF Follows
<1> HIDE DEF C, W
<1>6. Follows(C, Q)
  BY <1>3, <1>5, QueuedFollows DEF Follows
<1> HIDE DEF Q
<1> QED
  BY <1>1, <1>4, <1>5, <1>6 DEF Follows

\* The runner has left its book.
LEMMA RestedFollows ==
    ASSUME LoopOK(loop), loop.active.key # NoKey
    PROVE  LoopOK(Rested) /\ Rested.active.key = NoKey /\ Rested.closed = loop.closed
<1> DEFINE A == loop.active
           pending == Less(loop.pending, {A.key})
           M == [loop EXCEPT !.pending = pending]
           L == [M EXCEPT !.active = NoActive]
           completed == With(L.completed, A.key, A.token)
           X == [L EXCEPT !.completed = completed]
<1>1. /\ loop \in Loops /\ loop.queue \in Seq(Keys) /\ loop.pending \in TokenMaps /\ loop.completed \in TokenMaps
      /\ A.key \in Keys /\ A.token \in Tokens
      /\ \A k \in DOMAIN loop.pending : k = A.key \/ k \in ToSet(loop.queue)
      /\ IsInjective(loop.queue)
      /\ \A i \in DOMAIN loop.queue : loop.queue[i] \in DOMAIN loop.pending
      /\ A.key \notin ToSet(loop.queue)
  BY LoopIs DEF LoopOK, Actives
<1>2. pending \in TokenMaps /\ DOMAIN pending = DOMAIN loop.pending \ {A.key}
  BY <1>1, TokensStay, LessIs
<1>3. NoActive \in Actives /\ NoActive.key = NoKey
  BY DEF NoActive, Actives, NoToken, Tokens
<1>4. Rested = IF Good /\ ~A.cancelled THEN X ELSE L
  BY <1>1 DEF Rested, Loops
<1> HIDE DEF pending
<1>5. M \in Loops /\ M.queue = loop.queue /\ M.pending = pending /\ M.completed = loop.completed /\ M.closed = loop.closed
  BY <1>1, <1>2 DEF Loops
<1> HIDE DEF M
<1>6. /\ L \in Loops /\ L.queue = loop.queue /\ L.pending = pending /\ L.completed = loop.completed
      /\ L.closed = loop.closed /\ L.active = NoActive
  BY <1>3, <1>5 DEF Loops
<1> HIDE DEF L
<1>7. completed \in TokenMaps
  BY <1>1, <1>6, TokensStay
<1> HIDE DEF completed
<1>8. X \in Loops /\ X.queue = loop.queue /\ X.pending = pending /\ X.closed = loop.closed /\ X.active = NoActive
  BY <1>6, <1>7 DEF Loops
<1> HIDE DEF X
<1>9. \A i \in DOMAIN loop.queue : loop.queue[i] \in DOMAIN pending
  BY <1>1, <1>2 DEF ToSet
<1>10. LoopOK(L) /\ LoopOK(X)
  BY <1>1, <1>2, <1>3, <1>6, <1>8, <1>9 DEF LoopOK
<1> QED
  BY <1>3, <1>4, <1>6, <1>8, <1>10

\* The loop once its running item is done with.
LEMMA SettledFollows ==
    ASSUME BooksTyped, LoopOK(loop), loop.active.key # NoKey
    PROVE  LoopOK(Settled) /\ Settled.active.key = NoKey /\ Settled.closed = loop.closed
<1>1. LoopOK(Rested) /\ Rested.active.key = NoKey /\ Rested.closed = loop.closed
  BY RestedFollows
<1>2. loop.active.key \in Keys
  BY LoopIs DEF LoopOK, Actives
<1>3. Follows(Rested, Scheduled(Rested, loop.active.key, TRUE, FALSE))
  BY <1>1, <1>2, ScheduledFollows
<1>4. Settled \in {Rested, Scheduled(Rested, loop.active.key, TRUE, FALSE)}
  BY DEF Settled
<1> QED
  BY <1>1, <1>3, <1>4 DEF Follows

-----------------------------------------------------------------------------
(* Preparation: what a step of the runner does to what was paid for *)

\* The runner's record at its next place.
LEMMA RunsGo ==
    ASSUME run \in Runs
    PROVE  /\ \A pc \in Works : At(pc) \in Runs /\ At(pc).pc = pc /\ At(pc).s = run.s
           /\ Stale \in Runs /\ Stale.pc = "settle"
           /\ \A r \in {Abandoned, Unfinished, Failed} : r \in Runs /\ r.pc = "mark" /\ r.s = run.s
           /\ Waiting \in Runs /\ Waiting.pc = "get"
<1>1. \A pc \in Works \union {"settle"} : At(pc) \in Runs /\ At(pc).pc = pc /\ At(pc).s = run.s
  BY DEF At, Runs
<1>2. "mark" \in Works
  BY DEF Works
<1> DEFINE m == At("mark")
           n == [m EXCEPT !.good = FALSE]
           f == [n EXCEPT !.fault = TRUE]
           e == At("settle")
<1>3. m \in Runs /\ m.pc = "mark" /\ m.s = run.s /\ e \in Runs /\ e.pc = "settle"
  BY <1>1, <1>2
<1>4. /\ Abandoned = [m EXCEPT !.good = FALSE] /\ Unfinished = [m EXCEPT !.good = FALSE]
      /\ Stale = [e EXCEPT !.good = FALSE] /\ Failed = [[m EXCEPT !.good = FALSE] EXCEPT !.fault = TRUE]
  BY DEF Abandoned, Unfinished, Stale, Failed, At, Runs
<1> HIDE DEF m, e
<1>5. n \in Runs /\ n.pc = "mark" /\ n.s = run.s /\ Abandoned = n /\ Unfinished = n
  BY <1>3, <1>4 DEF Runs
<1>6. Stale \in Runs /\ Stale.pc = "settle"
  BY <1>3, <1>4 DEF Runs
<1>7. Failed = f
  BY <1>4
<1> HIDE DEF n
<1>8. Failed \in Runs /\ Failed.pc = "mark" /\ Failed.s = run.s
  BY <1>5, <1>7 DEF Runs
<1>9. Waiting \in Runs /\ Waiting.pc = "get"
  BY DEF Waiting, Runs, Scopes
<1> QED
  BY <1>1, <1>5, <1>6, <1>8, <1>9

\* The checks of a scope: what passes both is wanted, what fails the second is
\* of no use.
LEMMA ChecksAre ==
    /\ First /\ Same => Wanted(run.s) /\ ~loop.closed
    /\ Same /\ shelf[run.s.b].mark = run.s.at => Wanted(run.s)
    /\ ~Same => loop.closed \/ ~Wanted(run.s)
BY DEF First, Same, StillOpen, Wanted, Still

\* One life of a book has one scope that is wanted.
LEMMA OneWanted ==
    ASSUME NEW s, NEW p, Wanted(s), Wanted(p), p.b = s.b
    PROVE  p = s
BY DEF Wanted, Still

\* A step that pays for nothing and loses nothing.
LEMMA RunKeeps ==
    ASSUME PreparationInv, UNCHANGED <<shelf, calls, bank, bought, restarts>>,
           run.pc \notin {"planned", "reviewed"}, RunOK(run'),
           LoopOK(loop'), loop'.closed = loop.closed, run'.pc = "get" <=> loop'.active.key = NoKey
    PROVE  PreparationInv'
<1>1. \A w, s : Spent(w, s)' <=> Spent(w, s)
  BY DEF Spent, Times
<1>2. BooksTyped' /\ CallsTyped' /\ BankTyped' /\ BoughtOnce'
  BY DEF PreparationInv, BooksTyped, CallsTyped, BankTyped, BoughtOnce, bank
<1>3. \A s : (Past(s)' <=> Past(s)) /\ (Wanted(s)' <=> Wanted(s))
  BY DEF Past, Wanted, Still, Unchanged, Scope, Snapshot, HighWater
<1>4. \A w, s : Secured(w, s) => Secured(w, s)'
  BY DEF Secured, bank
<1>5. SpentInv'
  BY <1>1, <1>3, <1>4 DEF PreparationInv, SpentInv
<1>6. RunOK(run)'
  BY <1>1, <1>3 DEF RunOK, bank
<1>7. LoopOK(loop)'
  BY DEF LoopOK
<1> QED
  BY <1>2, <1>5, <1>6, <1>7 DEF PreparationInv, RunnerInv

\* What a payment is added to.
LEMMA PaidIs ==
    ASSUME PreparationInv, NEW w \in Bought, Paid(w), restarts' = restarts, run.s \in Scopes, ~Spent(w, run.s)
    PROVE  /\ bought' \in [DOMAIN bought' -> Nat] /\ DOMAIN bought' \subseteq Bought \X Scopes
           /\ BoughtOnce'
           /\ \A v, s : <<v, s>> # <<w, run.s>> => (Spent(v, s)' <=> Spent(v, s))
<1> DEFINE x == <<w, run.s>>
           n == Times(x) + 1
<1>1. bought' = With(bought, x, n)
  BY DEF Paid
<1>2. /\ bought \in [DOMAIN bought -> Nat] /\ DOMAIN bought \subseteq Bought \X Scopes /\ restarts \in Nat
      /\ \A y \in DOMAIN bought : bought[y] <= 1 + restarts
  BY DEF PreparationInv, BankTyped, BoughtOnce
<1>3. Times(x) \in Nat /\ ~(Times(x) > restarts)
  BY <1>2 DEF Times, Spent
<1>4. n \in Nat /\ n <= 1 + restarts
  BY <1>2, <1>3
<1>5. x \in Bought \X Scopes
  OBVIOUS
<1> HIDE DEF n, x
<1>6. /\ DOMAIN bought' = DOMAIN bought \union {x} /\ bought'[x] = n
      /\ \A y \in DOMAIN bought \ {x} : bought'[y] = bought[y]
  BY <1>1 DEF With
<1>7. \A y \in DOMAIN bought' : bought'[y] \in Nat /\ bought'[y] <= 1 + restarts
  BY <1>2, <1>4, <1>6
<1>8. bought' = [y \in DOMAIN bought' |-> bought'[y]]
  BY <1>1 DEF With
<1>9. BoughtOnce'
  BY <1>7 DEF BoughtOnce
<1>10. \A y : y # x => Times(y)' = Times(y)
  BY <1>6 DEF Times
<1>11. \A v, s : <<v, s>> # x => (Spent(v, s)' <=> Spent(v, s))
  BY <1>10 DEF Spent
<1> QED
  BY <1>2, <1>5, <1>6, <1>7, <1>8, <1>9, <1>11 DEF x

\* A step of the runner that pays, or writes to the bank.
LEMMA BankKeeps ==
    ASSUME PreparationInv, UNCHANGED <<shelf, calls, loop, restarts>>,
           run.pc \in Works, run'.pc # "get", run' \in Runs, run'.s = run.s,
           BankTyped', BoughtOnce', SpentInv',
           run'.pc \notin {"plan", "planned", "review", "reviewed", "asking"} \/ RunOK(run)'
    PROVE  PreparationInv'
<1>1. BooksTyped' /\ CallsTyped' /\ LoopOK(loop)'
  BY DEF PreparationInv, BooksTyped, CallsTyped, LoopOK
<1>2. Past(run.s)'
  BY DEF PreparationInv, RunnerInv, RunOK, Past, Snapshot, HighWater
<1>3. RunOK(run)'
  BY <1>2 DEF RunOK
<1>4. run'.pc # "get" /\ loop'.active.key # NoKey
  BY DEF PreparationInv, RunnerInv, Works
<1> QED
  BY <1>1, <1>3, <1>4 DEF PreparationInv, RunnerInv

-----------------------------------------------------------------------------
(* Preparation: the actions *)

\* A loop is what it is in every state.
LEMMA HearKeeps == ASSUME PreparationInv, Hear PROVE PreparationInv'
<1>1. /\ calls \in Seq([key : Keys, force : BOOLEAN, foreground : BOOLEAN]) /\ calls # <<>>
      /\ LoopOK(loop) /\ BooksTyped /\ RunnerInv /\ calls' = Tail(calls)
      /\ UNCHANGED <<shelf, run, bank, bought, restarts>>
  BY DEF PreparationInv, CallsTyped, Hear
<1>2. Head(calls) \in [key : Keys, force : BOOLEAN, foreground : BOOLEAN] /\ CallsTyped'
  <2> DEFINE T == [key : Keys, force : BOOLEAN, foreground : BOOLEAN]
  <2>1. calls \in Seq(T)
    BY <1>1
  <2> HIDE DEF T
  <2>2. Head(calls) \in T /\ Tail(calls) \in Seq(T)
    BY <1>1, <2>1
  <2> QED
    BY <1>1, <2>2 DEF T, CallsTyped
<1>3. Follows(loop, loop')
  <2>1. loop' = Scheduled(loop, Head(calls).key, Head(calls).force, Head(calls).foreground)
    BY DEF Hear
  <2> QED
    BY <1>1, <1>2, <2>1, ScheduledFollows
<1>5. \A w, s : /\ Spent(w, s)' <=> Spent(w, s)
                /\ Past(s)' <=> Past(s)
                /\ Wanted(s)' <=> Wanted(s)
                /\ Secured(w, s)' <=> Secured(w, s)
  BY <1>1 DEF Spent, Times, Past, Wanted, Still, Unchanged, Scope, Snapshot, HighWater, Secured, bank
<1>6. SpentInv'
  BY <1>1, <1>3, <1>5 DEF PreparationInv, SpentInv, Follows
<1>7. RunOK(run)'
  BY <1>1, <1>5 DEF RunnerInv, RunOK, bank
<1>8. BooksTyped' /\ BankTyped' /\ BoughtOnce'
  BY <1>1 DEF PreparationInv, BooksTyped, BankTyped, BoughtOnce, bank
<1>9. RunnerInv'
  BY <1>1, <1>3, <1>7 DEF RunnerInv, Follows
<1>10. LoopOK(loop)'
  BY <1>3 DEF Follows, LoopOK
<1> QED
  BY <1>2, <1>6, <1>8, <1>9, <1>10 DEF PreparationInv

\* The runner takes an item of the queue.
LEMMA GetKeeps == ASSUME PreparationInv, Get PROVE PreparationInv'
<1> DEFINE key == Head(loop.queue)
           token == IF key \in DOMAIN loop.pending THEN loop.pending[key] ELSE NoToken
           a == [key |-> key, cancelled |-> FALSE, token |-> token]
           M == [loop EXCEPT !.queue = Tail(loop.queue)]
           X == [M EXCEPT !.active = a]
<1>1. /\ run.pc = "get" /\ loop.queue # <<>> /\ UNCHANGED <<shelf, calls, bank, bought, restarts>>
      /\ loop \in Loops /\ loop.queue \in Seq(Keys) /\ loop.pending \in TokenMaps
      /\ \A k \in DOMAIN loop.pending : k = loop.active.key \/ k \in ToSet(loop.queue)
      /\ IsInjective(loop.queue)
      /\ \A i \in DOMAIN loop.queue : loop.queue[i] \in DOMAIN loop.pending
      /\ loop.active.key = NoKey
  BY LoopIs DEF Get, PreparationInv, RunnerInv, LoopOK
<1>2. /\ key \in Keys /\ Tail(loop.queue) \in Seq(Keys) /\ key = loop.queue[1]
      /\ DOMAIN loop.queue = 1..Len(loop.queue) /\ Len(loop.queue) \in Nat /\ Len(loop.queue) > 0
      /\ DOMAIN Tail(loop.queue) = 1..(Len(loop.queue) - 1)
      /\ \A i \in 1..(Len(loop.queue) - 1) : Tail(loop.queue)[i] = loop.queue[i + 1]
  BY <1>1
<1>3. key \in DOMAIN loop.pending /\ key # NoKey
  <2>1. 1 \in DOMAIN loop.queue
    BY <1>2
  <2>2. key \in DOMAIN loop.pending
    BY <1>1, <1>2, <2>1
  <2>3. NoKey \notin Keys
    BY KeysAssumption DEF Keys, NoKey
  <2> QED
    BY <1>2, <2>2, <2>3
<1>4. token \in Tokens
  <2>1. loop.pending \in [DOMAIN loop.pending -> Tokens]
    BY <1>1, TokenMapsAre
  <2> QED
    BY <1>3, <2>1
<1>5. IsInjective(Tail(loop.queue)) /\ ToSet(Tail(loop.queue)) = ToSet(loop.queue) \ {key}
  <2>1. IsInjective(Tail(loop.queue))
    <3> SUFFICES ASSUME NEW i \in 1..(Len(loop.queue) - 1), NEW j \in 1..(Len(loop.queue) - 1),
                        loop.queue[i + 1] = loop.queue[j + 1]
                 PROVE  i = j
      BY <1>2 DEF IsInjective
    <3>1. i + 1 \in DOMAIN loop.queue /\ j + 1 \in DOMAIN loop.queue
      BY <1>2
    <3>2. i + 1 = j + 1
      BY <1>1, <3>1 DEF IsInjective
    <3> QED
      BY <3>2
  <2>2. ASSUME NEW k \in ToSet(Tail(loop.queue)) PROVE k \in ToSet(loop.queue) \ {key}
    <3>1. PICK i \in 1..(Len(loop.queue) - 1) : k = loop.queue[i + 1]
      BY <1>2, <2>2 DEF ToSet
    <3>2. i + 1 \in DOMAIN loop.queue /\ i + 1 # 1 /\ 1 \in DOMAIN loop.queue
      BY <1>2
    <3> QED
      BY <1>1, <1>2, <3>1, <3>2 DEF ToSet, IsInjective
  <2>3. ASSUME NEW k \in ToSet(loop.queue), k # key PROVE k \in ToSet(Tail(loop.queue))
    <3>1. PICK i \in DOMAIN loop.queue : k = loop.queue[i]
      BY <2>3 DEF ToSet
    <3>2. i # 1 /\ i \in 1..Len(loop.queue)
      BY <1>2, <2>3, <3>1
    <3>3. i - 1 \in 1..(Len(loop.queue) - 1) /\ (i - 1) + 1 = i
      BY <1>2, <3>2
    <3> QED
      BY <1>2, <3>1, <3>3 DEF ToSet
  <2> QED
    BY <2>1, <2>2, <2>3
<1>6. loop' = X
  BY <1>1 DEF Get, Loops
<1>7. a \in Actives /\ a.key = key
  BY <1>2, <1>4 DEF Actives
<1> HIDE DEF a, token
<1>8. M \in Loops /\ M.queue = Tail(loop.queue) /\ M.pending = loop.pending /\ M.closed = loop.closed
  BY <1>1, <1>2 DEF Loops
<1> HIDE DEF M
<1>9. X \in Loops /\ X.queue = Tail(loop.queue) /\ X.pending = loop.pending /\ X.closed = loop.closed /\ X.active = a
  BY <1>7, <1>8 DEF Loops
<1> HIDE DEF X
<1>10. LoopOK(X)
  <2>1. \A i \in DOMAIN Tail(loop.queue) : Tail(loop.queue)[i] \in DOMAIN loop.pending
    <3>1. \A k \in ToSet(loop.queue) : k \in DOMAIN loop.pending
      BY <1>1 DEF ToSet
    <3>2. \A i \in DOMAIN Tail(loop.queue) : Tail(loop.queue)[i] \in ToSet(Tail(loop.queue))
      BY DEF ToSet
    <3> QED
      BY <1>5, <3>1, <3>2
  <2>2. \A k \in DOMAIN loop.pending : k \in ToSet(loop.queue)
    <3>1. NoKey \notin DOMAIN loop.pending
      <4>1. DOMAIN loop.pending \subseteq Keys
        BY <1>1, TokenMapsAre
      <4> QED
        BY <4>1, KeysAssumption DEF Keys, NoKey
    <3> QED
      BY <1>1, <3>1
  <2>3. /\ X \in Loops /\ X.queue = Tail(loop.queue) /\ X.pending = loop.pending /\ X.active.key = key
    BY <1>7, <1>9
  <2> HIDE DEF key
  <2> QED
    BY <1>1, <1>3, <1>5, <2>1, <2>2, <2>3 DEF LoopOK
<1>11. RunOK(run') /\ run'.pc = "capture"
  <2>1. run' = [Waiting EXCEPT !.pc = "capture"]
    BY DEF Get
  <2> QED
    BY <2>1 DEF Waiting, RunOK, Runs, Scopes, Works
<1> QED
  BY <1>1, <1>3, <1>6, <1>7, <1>9, <1>10, <1>11, RunKeeps

\* A step that only moves the runner.
LEMMA OnlyRuns ==
    ASSUME PreparationInv, UNCHANGED <<shelf, calls, loop, restarts, bank, bought>>,
           run.pc \notin {"get", "planned", "reviewed"}, RunOK(run'), run'.pc # "get"
    PROVE  PreparationInv'
<1>1. LoopOK(loop') /\ loop'.closed = loop.closed /\ loop'.active.key = loop.active.key /\ loop.active.key # NoKey
  BY DEF PreparationInv, RunnerInv
<1> QED
  BY <1>1, RunKeeps

\* The runner captures the snapshot of an item.
LEMMA CaptureKeeps == ASSUME PreparationInv, Capture PROVE PreparationInv'
<1> DEFINE b == loop.active.key[1]
           s == Scope(b, HighWater(b))
<1>1. /\ run.pc = "capture" /\ UNCHANGED <<shelf, calls, loop, restarts, bank, bought>>
      /\ run \in Runs /\ BooksTyped /\ loop.active.key \in Keys
      /\ run' \in {[run EXCEPT !.pc = "recap", !.s = s], [run EXCEPT !.pc = "settle", !.good = FALSE]}
  BY LoopIs DEF Capture, others, PreparationInv, RunnerInv, RunOK, LoopOK, Actives
<1>2. b \in Books
  BY <1>1 DEF Keys
<1>3. Past(s) /\ s \in Scopes
  <2>1. /\ s.b = b /\ s.inc = shelf[b].inc /\ s.epoch = shelf[b].epoch /\ s.at = HighWater(b)
        /\ s.memory = Snapshot(b, s.at)
        /\ s = [b |-> b, inc |-> shelf[b].inc, epoch |-> shelf[b].epoch, at |-> HighWater(b), memory |-> Snapshot(b, s.at)]
    BY DEF Scope
  <2> HIDE DEF s
  <2>2. shelf[b].inc \in Nat /\ shelf[b].epoch \in Nat /\ HighWater(b) \in Nat /\ Snapshot(b, s.at) \in SUBSET Nat
    <3> HIDE DEF b
    <3>1. shelf[b] \in [on : BOOLEAN, inc : Nat, epoch : Nat, mark : 0..Chapters, done : 0..Chapters, fixed : SUBSET Nat]
      BY <1>1, <1>2 DEF BooksTyped
    <3>2. HighWater(b) \in Nat
      BY <3>1, ChaptersAssumption DEF HighWater, Lower
    <3>3. Snapshot(b, s.at) \in SUBSET Nat
      BY <3>1 DEF Snapshot
    <3> QED
      BY <3>1, <3>2, <3>3
  <2>3. s \in [b : Books, inc : Nat, epoch : Nat, at : Nat, memory : SUBSET Nat]
    BY <1>2, <2>1, <2>2
  <2> QED
    BY <2>1, <2>2, <2>3 DEF Past, Scopes
<1> HIDE DEF s
<1>4. CASE run' = [run EXCEPT !.pc = "recap", !.s = s]
  <2> DEFINE m == [run EXCEPT !.pc = "recap"]
             x == [m EXCEPT !.s = s]
  <2>1. m \in Runs /\ m.pc = "recap"
    BY <1>1 DEF Runs, Works
  <2>2. run' = x
    BY <1>4
  <2> HIDE DEF m
  <2>3. x \in Runs /\ x.pc = "recap" /\ x.s = s
    BY <1>3, <2>1 DEF Runs
  <2> HIDE DEF x
  <2>4. RunOK(run') /\ run'.pc = "recap"
    BY <1>3, <2>2, <2>3 DEF RunOK
  <2> QED
    BY <1>1, <2>4, OnlyRuns
<1>5. CASE run' = [run EXCEPT !.pc = "settle", !.good = FALSE]
  <2>1. run' \in Runs /\ run'.pc = "settle"
    BY <1>1, <1>5, RunsGo DEF Stale
  <2>2. RunOK(run')
    BY <2>1 DEF RunOK, Works
  <2> QED
    BY <1>1, <2>1, <2>2, OnlyRuns
<1> QED
  BY <1>1, <1>4, <1>5

\* The runner asks for the recap.
LEMMA WarmRecapKeeps == ASSUME PreparationInv, WarmRecap PROVE PreparationInv'
<1>1. /\ run.pc = "recap" /\ UNCHANGED <<shelf, calls, loop, restarts, bank, bought>>
      /\ run \in Runs /\ Past(run.s) /\ run' \in {At("recapping"), Stale}
  BY DEF WarmRecap, others, PreparationInv, RunnerInv, RunOK, Works
<1>2. RunOK(run') /\ run'.pc # "get"
  BY <1>1, RunsGo DEF RunOK, Works
<1> QED
  BY <1>1, <1>2, OnlyRuns

\* The recap of an item is there, or failed.
LEMMA RecapOverKeeps == ASSUME PreparationInv, RecapOver PROVE PreparationInv'
<1>1. /\ run.pc = "recapping" /\ UNCHANGED <<shelf, calls, loop, restarts, bank, bought>>
      /\ run \in Runs /\ Past(run.s) /\ plans \in [DOMAIN plans -> BOOLEAN]
  BY DEF RecapOver, others, PreparationInv, RunnerInv, RunOK, Works, BankTyped
<1>2. \/ run' \in {Stale, At("end"), Abandoned, Unfinished}
      \/ /\ run.s \notin attempted
         /\ \/ run' = At("plan") /\ run.s \notin DOMAIN plans
            \/ run' = At("question")
            \/ run' = At("review") /\ run.s \in DOMAIN plans /\ ~plans[run.s]
  BY <1>1 DEF RecapOver
<1>3. {"end", "plan", "question", "review", "mark"} \subseteq Works /\ "settle" \notin Works /\ "get" \notin Works
  BY DEF Works
<1>4. RunOK(run') /\ run'.pc # "get"
  <2>1. CASE run' \in {Stale, At("end"), Abandoned, Unfinished}
    BY <1>1, <1>3, <2>1, RunsGo DEF RunOK
  <2>2. CASE /\ run.s \notin attempted
             /\ \/ run' = At("plan") /\ run.s \notin DOMAIN plans
                \/ run' = At("question")
                \/ run' = At("review") /\ run.s \in DOMAIN plans /\ ~plans[run.s]
    BY <1>1, <1>3, <2>2, RunsGo DEF RunOK
  <2> QED
    BY <1>2, <2>1, <2>2
<1> QED
  BY <1>1, <1>4, OnlyRuns

\* The runner asks the next question.
LEMMA AskQuestionKeeps == ASSUME PreparationInv, AskQuestion PROVE PreparationInv'
<1>1. /\ run.pc = "question" /\ UNCHANGED <<shelf, calls, loop, restarts, bank, bought>>
      /\ run \in Runs /\ Past(run.s) /\ SpentInv
  BY DEF AskQuestion, others, PreparationInv, RunnerInv, RunOK, Works
<1>2. \/ run' \in {Abandoned, At("mark")}
      \/ run' = At("asking") /\ First /\ Same /\ run.s \notin banked
  BY DEF AskQuestion
<1>3. {"mark", "asking"} \subseteq Works /\ "get" \notin Works
  BY DEF Works
<1>4. First /\ Same /\ run.s \notin banked => ~Spent("answer", run.s)
  <2>1. run.s \in Scopes /\ "answer" \in Bought
    BY <1>1 DEF Runs, Bought
  <2> QED
    BY <1>1, <2>1, ChecksAre DEF SpentInv, Secured
<1>5. RunOK(run') /\ run'.pc # "get"
  BY <1>1, <1>2, <1>3, <1>4, RunsGo DEF RunOK
<1> QED
  BY <1>1, <1>5, OnlyRuns

\* A payment for what was not spent since the start.
LEMMA PaysFor ==
    ASSUME PreparationInv, NEW w \in Bought, Paid(w), UNCHANGED <<shelf, calls, loop, restarts, plans, attempted>>,
           banked \subseteq banked', NEW r \in Scopes, r = run.s, ~Spent(w, r), Past(r),
           loop.closed \/ ~Wanted(r) \/ Secured(w, r)',
           run.pc \notin {"planned", "reviewed"}
    PROVE  BankTyped' /\ BoughtOnce' /\ SpentInv'
<1>1. /\ bought' \in [DOMAIN bought' -> Nat] /\ DOMAIN bought' \subseteq Bought \X Scopes
      /\ BoughtOnce'
      /\ \A v, s : <<v, s>> # <<w, r>> => (Spent(v, s)' <=> Spent(v, s))
  BY PaidIs
<1>2. BankTyped'
  BY <1>1 DEF PreparationInv, BankTyped
<1>3. \A s : (Past(s)' <=> Past(s)) /\ (Wanted(s)' <=> Wanted(s))
  BY DEF Past, Wanted, Still, Unchanged, Scope, Snapshot, HighWater
<1>4. \A v, s : Secured(v, s) => Secured(v, s)'
  BY DEF Secured
<1>5. ASSUME NEW v \in Bought, NEW s \in Scopes, Spent(v, s)'
      PROVE  Past(s)' /\ (loop.closed' \/ ~Wanted(s)' \/ Secured(v, s)')
  <2>1. CASE <<v, s>> = <<w, r>>
    <3>1. v = w /\ s = r
      BY <2>1
    <3>2. Past(s)' /\ (Wanted(s)' <=> Wanted(s))
      BY <1>3, <3>1
    <3> QED
      BY <3>1, <3>2
  <2>2. CASE <<v, s>> # <<w, r>>
    <3>1. Spent(v, s)
      BY <1>1, <1>5, <2>2
    <3>2. Past(s) /\ (loop.closed \/ ~Wanted(s) \/ Secured(v, s))
      BY <3>1 DEF PreparationInv, SpentInv
    <3> QED
      BY <1>3, <1>4, <3>2
  <2> QED
    BY <2>1, <2>2
<1>6. SpentInv'
  BY <1>5 DEF SpentInv
<1> QED
  BY <1>1, <1>2, <1>6

\* A plan or its review is paid for where neither is known yet.
LEMMA CallKeeps ==
    ASSUME PreparationInv, NEW pc \in {"plan", "review"}, NEW then,
           \/ pc = "plan" /\ then = "planned"
           \/ pc = "review" /\ then = "reviewed",
           Call(pc, then)
    PROVE  PreparationInv'
<1>1. /\ run.pc = pc /\ UNCHANGED <<shelf, calls, loop, restarts, bank>>
      /\ run \in Runs /\ Past(run.s) /\ SpentInv
      /\ pc \in Works /\ then \in Works /\ "mark" \in Works /\ "get" \notin Works /\ pc \in Bought
      /\ \/ First /\ Same /\ run' = At(then) /\ Paid(pc)
         \/ run' \in {Failed, Abandoned} /\ UNCHANGED bought
  BY DEF Call, others, PreparationInv, RunnerInv, RunOK, Works, Bought
<1>2. PICK r \in Scopes : r = run.s
  BY <1>1 DEF Runs
<1>3. /\ r \notin attempted
      /\ pc = "plan" => r \notin DOMAIN plans
      /\ pc = "review" => (r \in DOMAIN plans => ~plans[r])
  BY <1>1, <1>2 DEF PreparationInv, RunnerInv, RunOK
<1>4. CASE First /\ Same /\ run' = At(then) /\ Paid(pc)
  <2>1. run' \in Runs /\ run'.pc = then /\ run'.s = r
    BY <1>1, <1>2, <1>4, RunsGo
  <2>2. ~Spent(pc, r)
    <3>1. ~Secured(pc, r)
      BY <1>1, <1>3 DEF Secured
    <3> QED
      BY <1>1, <1>2, <1>4, <3>1, ChecksAre DEF SpentInv
  <2>3. Secured(pc, r)'
    BY <2>1 DEF Secured
  <2>4. BankTyped' /\ BoughtOnce' /\ SpentInv'
    BY <1>1, <1>2, <1>4, <2>2, <2>3, PaysFor DEF bank
  <2>5. RunOK(run)'
    <3>1. Past(run.s)'
      BY <1>1, <1>2, <2>1 DEF Past, Snapshot, HighWater
    <3> QED
      BY <1>1, <1>2, <1>3, <2>1, <3>1 DEF RunOK, bank
  <2> QED
    BY <1>1, <1>2, <2>1, <2>4, <2>5, BankKeeps
<1>5. CASE run' \in {Failed, Abandoned} /\ UNCHANGED bought
  <2>1. RunOK(run') /\ run'.pc # "get"
    BY <1>1, <1>5, RunsGo DEF RunOK
  <2> QED
    BY <1>1, <1>5, <2>1, OnlyRuns
<1> QED
  BY <1>1, <1>4, <1>5

\* A question of the preparation is answered, or fails.
LEMMA AnswerKeeps == ASSUME PreparationInv, Answer PROVE PreparationInv'
<1>1. /\ run.pc = "asking" /\ UNCHANGED <<shelf, calls, loop, restarts, plans, attempted>>
      /\ run \in Runs /\ Past(run.s) /\ ~Spent("answer", run.s)
      /\ "asking" \in Works /\ "mark" \in Works /\ "get" \notin Works /\ "answer" \in Bought
      /\ \/ /\ Paid("answer")
            /\ IF Same THEN banked' = banked \union {run.s} /\ run' = At("mark")
               ELSE run' = Abandoned /\ UNCHANGED banked
         \/ run' \in {At("mark"), Unfinished, Abandoned} /\ UNCHANGED <<banked, bought>>
  BY DEF Answer, MayBank, others, PreparationInv, RunnerInv, RunOK, Works, Bought
<1>2. PICK r \in Scopes : r = run.s
  BY <1>1 DEF Runs
<1>3. run' \in {At("mark"), Unfinished, Abandoned}
  BY <1>1
<1>4. run' \in Runs /\ run'.pc = "mark" /\ run'.s = r
  BY <1>1, <1>2, <1>3, RunsGo
<1>5. CASE Paid("answer") /\ IF Same THEN banked' = banked \union {run.s} /\ run' = At("mark")
                             ELSE run' = Abandoned /\ UNCHANGED banked
  <2>1. loop.closed \/ ~Wanted(r) \/ Secured("answer", r)'
    BY <1>2, <1>5, ChecksAre DEF Secured
  <2>2. banked \subseteq banked'
    BY <1>5
  <2>3. BankTyped' /\ BoughtOnce' /\ SpentInv'
    BY <1>1, <1>2, <1>5, <2>1, <2>2, PaysFor
  <2> QED
    BY <1>1, <1>2, <1>4, <2>3, BankKeeps
<1>6. CASE UNCHANGED <<banked, bought>>
  <2>1. RunOK(run')
    BY <1>1, <1>2, <1>4 DEF RunOK
  <2> QED
    BY <1>1, <1>4, <1>6, <2>1, OnlyRuns DEF bank
<1> QED
  BY <1>1, <1>5, <1>6


\* A write to the bank keeps what it says of every other scope that is wanted.
LEMMA BankWrites ==
    ASSUME PreparationInv, UNCHANGED <<shelf, calls, loop, restarts, bought, banked>>,
           NEW r \in Scopes, r = run.s,
           plans' \in [DOMAIN plans' -> BOOLEAN], attempted \subseteq attempted',
           \A s \in Scopes \ {r} :
              \/ ~Wanted(s)
              \/ s \in DOMAIN plans => s \in DOMAIN plans' /\ plans'[s] = plans[s],
           \A w \in Bought : Spent(w, r) => loop.closed \/ ~Wanted(r) \/ Secured(w, r)'
    PROVE  BankTyped' /\ BoughtOnce' /\ SpentInv'
<1>1. BankTyped' /\ BoughtOnce'
  BY DEF PreparationInv, BankTyped, BoughtOnce
<1>2. \A w, s : /\ Past(s)' <=> Past(s)
                /\ Wanted(s)' <=> Wanted(s)
                /\ Spent(w, s)' <=> Spent(w, s)
  BY DEF Past, Wanted, Still, Unchanged, Scope, Snapshot, HighWater, Spent, Times
<1>3. ASSUME NEW w \in Bought, NEW s \in Scopes, Spent(w, s)'
      PROVE  Past(s)' /\ (loop.closed' \/ ~Wanted(s)' \/ Secured(w, s)')
  <2>1. Spent(w, s) /\ Past(s) /\ (loop.closed \/ ~Wanted(s) \/ Secured(w, s))
    BY <1>2, <1>3 DEF PreparationInv, SpentInv
  <2>2. CASE s = r
    BY <1>2, <2>1, <2>2
  <2>3. CASE s # r
    <3>1. ~Wanted(s) \/ (s \in DOMAIN plans => s \in DOMAIN plans' /\ plans'[s] = plans[s])
      BY <2>3
    <3>2. Secured(w, s) /\ (s \in DOMAIN plans => s \in DOMAIN plans' /\ plans'[s] = plans[s]) => Secured(w, s)'
      BY <2>3 DEF Secured
    <3> QED
      BY <1>2, <2>1, <3>1, <3>2
  <2> QED
    BY <2>2, <2>3
<1> QED
  BY <1>1, <1>3 DEF SpentInv

\* A checkpoint replaces those of other scopes of this life of the book.
LEMMA CheckpointIs ==
    ASSUME BankTyped, NEW reviewed \in BOOLEAN, NEW r, r = run.s, Same, Checkpoint(reviewed)
    PROVE  /\ plans' \in [DOMAIN plans' -> BOOLEAN]
           /\ \A s \in Scopes \ {r} : \/ ~Wanted(s)
                                      \/ s \in DOMAIN plans => s \in DOMAIN plans' /\ plans'[s] = plans[s]
           /\ \/ Wanted(r) /\ r \in DOMAIN plans' /\ plans'[r] = reviewed
              \/ ~Wanted(r) /\ plans' = plans
<1>1. plans \in [DOMAIN plans -> BOOLEAN]
  BY DEF BankTyped
<1>2. CASE shelf[r.b].mark = r.at
  <2> DEFINE kept == Less(plans, OfLife(r))
  <2>1. plans' = With(kept, r, reviewed) /\ Wanted(r)
    BY <1>2, ChecksAre DEF Checkpoint
  <2>2. kept \in [DOMAIN kept -> BOOLEAN] /\ DOMAIN kept = DOMAIN plans \ OfLife(r)
        /\ \A x \in DOMAIN kept : kept[x] = plans[x]
    BY <1>1 DEF Less
  <2> HIDE DEF kept
  <2>3. /\ DOMAIN plans' = DOMAIN kept \union {r} /\ plans'[r] = reviewed
        /\ \A x \in DOMAIN kept \ {r} : plans'[x] = kept[x]
        /\ plans' \in [DOMAIN plans' -> BOOLEAN]
    BY <2>1, <2>2 DEF With
  <2>4. ASSUME NEW s \in Scopes \ {r}, Wanted(s), s \in DOMAIN plans
        PROVE  s \in DOMAIN plans' /\ plans'[s] = plans[s]
    <3>1. s.b # r.b
      BY <2>1, <2>4, OneWanted
    <3>2. s \notin OfLife(r)
      BY <3>1 DEF OfLife
    <3> QED
      BY <2>2, <2>3, <2>4, <3>2
  <2> QED
    BY <2>1, <2>3, <2>4
<1>3. CASE shelf[r.b].mark # r.at
  BY <1>1, <1>3 DEF Checkpoint, Wanted
<1> QED
  BY <1>2, <1>3

\* The plan of an item is saved.
LEMMA SavePlanKeeps == ASSUME PreparationInv, SavePlan PROVE PreparationInv'
<1>1. /\ run.pc = "planned" /\ UNCHANGED <<shelf, calls, loop, restarts, banked, attempted, bought>>
      /\ run \in Runs /\ Past(run.s) /\ BankTyped /\ SpentInv
      /\ run.s \notin attempted /\ run.s \notin DOMAIN plans
      /\ {"planned", "review", "mark"} \subseteq Works /\ "get" \notin Works
      /\ \/ Same /\ Checkpoint(FALSE) /\ run' \in {At("review"), Unfinished}
         \/ ~Same /\ run' = Abandoned /\ UNCHANGED plans
  BY DEF SavePlan, MaySave, others, PreparationInv, RunnerInv, RunOK, Works
<1>2. PICK r \in Scopes : r = run.s
  BY <1>1 DEF Runs
<1>3. run' \in Runs /\ run'.s = r /\ run'.pc \in {"review", "mark"} /\ run'.pc # "get"
  BY <1>1, <1>2, RunsGo
<1>4. Past(run.s)'
  BY <1>1, <1>2, <1>3 DEF Past, Snapshot, HighWater
<1>5. BankTyped' /\ BoughtOnce' /\ SpentInv' /\ (r \in DOMAIN plans' => ~plans'[r])
  <2>1. CASE Same /\ Checkpoint(FALSE)
    <3>1. /\ plans' \in [DOMAIN plans' -> BOOLEAN]
          /\ \A s \in Scopes \ {r} : \/ ~Wanted(s)
                                     \/ s \in DOMAIN plans => s \in DOMAIN plans' /\ plans'[s] = plans[s]
          /\ \/ Wanted(r) /\ r \in DOMAIN plans' /\ plans'[r] = FALSE
             \/ ~Wanted(r) /\ plans' = plans
      BY <1>1, <1>2, <2>1, CheckpointIs
    <3>2. ASSUME NEW w \in Bought, Spent(w, r) PROVE loop.closed \/ ~Wanted(r) \/ Secured(w, r)'
      <4>1. loop.closed \/ ~Wanted(r) \/ Secured(w, r)
        BY <1>1, <3>2 DEF SpentInv
      <4>2. w = "plan" /\ Wanted(r) => Secured(w, r)'
        BY <3>1 DEF Secured
      <4>3. w # "plan" /\ Secured(w, r) => Secured(w, r)'
        BY <1>1, <1>2 DEF Secured
      <4> QED
        BY <4>1, <4>2, <4>3
    <3>3. BankTyped' /\ BoughtOnce' /\ SpentInv'
      BY <1>1, <1>2, <3>1, <3>2, BankWrites
    <3> QED
      BY <1>1, <1>2, <3>1, <3>3
  <2>2. CASE ~Same /\ UNCHANGED plans
    <3>1. loop.closed \/ ~Wanted(r)
      BY <1>2, <2>2, ChecksAre
    <3>2. plans' \in [DOMAIN plans' -> BOOLEAN]
      BY <1>1, <2>2 DEF BankTyped
    <3>3. BankTyped' /\ BoughtOnce' /\ SpentInv'
      BY <1>1, <1>2, <2>2, <3>1, <3>2, BankWrites
    <3> QED
      BY <1>1, <1>2, <2>2, <3>3
  <2> QED
    BY <1>1, <2>1, <2>2
<1>6. RunOK(run)'
  BY <1>1, <1>2, <1>3, <1>4, <1>5 DEF RunOK
<1> QED
  BY <1>1, <1>2, <1>3, <1>5, <1>6, BankKeeps

\* The review of an item is saved.
LEMMA SaveReviewKeeps == ASSUME PreparationInv, SaveReview PROVE PreparationInv'
<1>1. /\ run.pc = "reviewed" /\ UNCHANGED <<shelf, calls, loop, restarts, banked, attempted, bought>>
      /\ run \in Runs /\ Past(run.s) /\ BankTyped /\ SpentInv
      /\ {"reviewed", "question", "mark"} \subseteq Works /\ "get" \notin Works
      /\ \/ Same /\ Checkpoint(TRUE) /\ run' \in {At("question"), At("mark")}
         \/ ~Same /\ run' = Abandoned /\ UNCHANGED plans
  BY DEF SaveReview, MaySave, others, PreparationInv, RunnerInv, RunOK, Works
<1>2. PICK r \in Scopes : r = run.s
  BY <1>1 DEF Runs
<1>3. run' \in Runs /\ run'.s = r /\ run'.pc \in {"question", "mark"} /\ run'.pc # "get"
  BY <1>1, <1>2, RunsGo
<1>4. BankTyped' /\ BoughtOnce' /\ SpentInv'
  <2>1. CASE Same /\ Checkpoint(TRUE)
    <3>1. /\ plans' \in [DOMAIN plans' -> BOOLEAN]
          /\ \A s \in Scopes \ {r} : \/ ~Wanted(s)
                                     \/ s \in DOMAIN plans => s \in DOMAIN plans' /\ plans'[s] = plans[s]
          /\ \/ Wanted(r) /\ r \in DOMAIN plans' /\ plans'[r] = TRUE
             \/ ~Wanted(r) /\ plans' = plans
      BY <1>1, <1>2, <2>1, CheckpointIs
    <3>2. ASSUME NEW w \in Bought, Spent(w, r) PROVE loop.closed \/ ~Wanted(r) \/ Secured(w, r)'
      <4>1. loop.closed \/ ~Wanted(r) \/ Secured(w, r)
        BY <1>1, <3>2 DEF SpentInv
      <4>2. w \in {"plan", "review"} /\ Wanted(r) => Secured(w, r)'
        BY <3>1 DEF Secured
      <4>3. w = "answer" /\ Secured(w, r) => Secured(w, r)'
        BY <1>1 DEF Secured
      <4> QED
        BY <4>1, <4>2, <4>3 DEF Bought
    <3> QED
      BY <1>1, <1>2, <3>1, <3>2, BankWrites
  <2>2. CASE ~Same /\ UNCHANGED plans
    <3>1. loop.closed \/ ~Wanted(r)
      BY <1>2, <2>2, ChecksAre
    <3>2. plans' \in [DOMAIN plans' -> BOOLEAN]
      BY <1>1, <2>2 DEF BankTyped
    <3> QED
      BY <1>1, <1>2, <2>2, <3>1, <3>2, BankWrites
  <2> QED
    BY <1>1, <2>1, <2>2
<1> QED
  BY <1>1, <1>2, <1>3, <1>4, BankKeeps

\* An attempt is marked.
LEMMA MarkKeeps == ASSUME PreparationInv, Mark PROVE PreparationInv'
<1>1. /\ run.pc = "mark" /\ UNCHANGED <<shelf, calls, loop, restarts, banked, bought>>
      /\ run \in Runs /\ Past(run.s) /\ BankTyped /\ SpentInv
      /\ "mark" \in Works /\ "end" \in Works /\ "get" \notin Works
      /\ \/ /\ First /\ Same /\ attempted' = attempted \union {run.s}
            /\ plans' \in {Less(plans, OfLife(run.s)), plans}
            /\ run' = [run EXCEPT !.pc = IF run.fault THEN "settle" ELSE "end", !.good = TRUE]
         \/ run' = Stale /\ UNCHANGED <<attempted, plans>>
  BY DEF Mark, others, PreparationInv, RunnerInv, RunOK, Works
<1>2. PICK r \in Scopes : r = run.s
  BY <1>1 DEF Runs
<1>3. CASE /\ First /\ Same /\ attempted' = attempted \union {run.s}
           /\ plans' \in {Less(plans, OfLife(run.s)), plans}
           /\ run' = [run EXCEPT !.pc = IF run.fault THEN "settle" ELSE "end", !.good = TRUE]
  <2>1. run' \in Runs /\ run'.pc \in {"settle", "end"} /\ run'.s = r
    <3> DEFINE m == [run EXCEPT !.pc = IF run.fault THEN "settle" ELSE "end"]
    <3>1. m \in Runs /\ m.pc \in {"settle", "end"} /\ m.s = r
      BY <1>1, <1>2 DEF Runs
    <3>2. run' = [m EXCEPT !.good = TRUE]
      BY <1>1, <1>3 DEF Runs
    <3> HIDE DEF m
    <3> QED
      BY <3>1, <3>2 DEF Runs
  <2>2. plans' \in [DOMAIN plans' -> BOOLEAN]
    BY <1>1, <1>3 DEF BankTyped, Less
  <2>3. Wanted(r)
    BY <1>2, <1>3, ChecksAre
  <2>4. ASSUME NEW s \in Scopes \ {r}, Wanted(s), s \in DOMAIN plans
        PROVE  s \in DOMAIN plans' /\ plans'[s] = plans[s]
    <3>1. s.b # r.b
      BY <2>3, <2>4, OneWanted
    <3>2. s \notin OfLife(r)
      BY <3>1 DEF OfLife
    <3> QED
      BY <1>2, <1>3, <2>4, <3>2 DEF Less
  <2>5. ASSUME NEW w \in Bought, Spent(w, r) PROVE loop.closed \/ ~Wanted(r) \/ Secured(w, r)'
    <3>1. loop.closed \/ ~Wanted(r) \/ Secured(w, r)
      BY <1>1, <2>5 DEF SpentInv
    <3>2. w \in {"plan", "review"} => Secured(w, r)'
      BY <1>2, <1>3 DEF Secured
    <3>3. w = "answer" /\ Secured(w, r) => Secured(w, r)'
      BY <1>1 DEF Secured
    <3> QED
      BY <3>1, <3>2, <3>3 DEF Bought
  <2>6. attempted \subseteq attempted'
    BY <1>3
  <2>7. BankTyped' /\ BoughtOnce' /\ SpentInv'
    BY <1>1, <1>2, <2>2, <2>4, <2>5, <2>6, BankWrites
  <2> QED
    BY <1>1, <1>2, <2>1, <2>7, BankKeeps
<1>4. CASE run' = Stale /\ UNCHANGED <<attempted, plans>>
  <2>1. RunOK(run') /\ run'.pc # "get"
    BY <1>1, <1>4, RunsGo DEF RunOK, Works
  <2> QED
    BY <1>1, <1>4, <2>1, OnlyRuns DEF bank
<1> QED
  BY <1>1, <1>3, <1>4

\* The runner is done with an item.
LEMMA SettleKeeps == ASSUME PreparationInv, Settle PROVE PreparationInv'
<1>1. /\ run.pc \in {"end", "settle"} /\ UNCHANGED <<shelf, calls, bank, bought, restarts>>
      /\ BooksTyped /\ LoopOK(loop) /\ loop.active.key # NoKey /\ run \in Runs
      /\ loop' = Settled /\ run' = Waiting
  BY DEF Settle, PreparationInv, RunnerInv, RunOK
<1>2. LoopOK(loop') /\ loop'.active.key = NoKey /\ loop'.closed = loop.closed
  BY <1>1, SettledFollows
<1>3. RunOK(run') /\ run'.pc = "get"
  BY <1>1, RunsGo DEF RunOK, Works
<1> QED
  BY <1>1, <1>2, <1>3, RunKeeps

\* What happens to a book leaves what was paid for as it was, or of no use.
LEMMA ShelfMoves ==
    ASSUME PreparationInv, NEW b \in Books,
           \/ Reported(b) \/ CaughtUp(b) \/ StartedAgain(b) \/ Corrected(b) \/ Removed(b) \/ Imported(b),
           UNCHANGED <<loop, run, bought, restarts>>, CallsTyped',
           plans' \in [DOMAIN plans' -> BOOLEAN], attempted' \subseteq attempted,
           \A s \in DOMAIN plans' : s \in DOMAIN plans /\ plans'[s] = plans[s],
           \A w \in Bought, s \in Scopes : Secured(w, s) => Secured(w, s)' \/ ~Wanted(s)'
    PROVE  PreparationInv'
<1>1. BooksTyped'
  BY ShelfKeeps DEF PreparationInv
<1>2. \A s : Past(s) => Past(s)' /\ (Wanted(s)' => Wanted(s))
  BY PastStays DEF PreparationInv
<1>3. \A w, s : Spent(w, s)' <=> Spent(w, s)
  BY DEF Spent, Times
<1>4. BankTyped' /\ BoughtOnce'
  BY DEF PreparationInv, BankTyped, BoughtOnce
<1>5. SpentInv'
  BY <1>2, <1>3 DEF PreparationInv, SpentInv
<1>6. PICK r : r = run.s /\ r = run'.s
  OBVIOUS
<1>7. RunOK(run)'
  <2>1. RunOK(run) /\ run' = run
    BY DEF PreparationInv, RunnerInv
  <2>2. run.pc \in Works => Past(r)'
    BY <1>2, <1>6, <2>1 DEF RunOK
  <2>3. Past(run.s)' <=> Past(r)'
    BY <1>6
  <2>4. Spent("answer", run.s)' <=> Spent("answer", run.s)
    BY DEF Spent, Times
  <2> QED
    BY <1>6, <2>1, <2>2, <2>3, <2>4 DEF RunOK
<1>8. RunnerInv' /\ LoopOK(loop)'
  BY <1>7 DEF PreparationInv, RunnerInv, LoopOK
<1> QED
  BY <1>1, <1>4, <1>5, <1>8 DEF PreparationInv

\* A notification names a key.
LEMMA NotifyIs ==
    ASSUME PreparationInv, NEW b \in Books, NEW force \in BOOLEAN, NEW foreground \in BOOLEAN,
           Notify(b, force, foreground)
    PROVE  CallsTyped'
<1> DEFINE T == [key : Keys, force : BOOLEAN, foreground : BOOLEAN]
           c == Notice(b, force, foreground)
<1>1. calls \in Seq(T) /\ calls' = Append(calls, c)
  BY DEF PreparationInv, CallsTyped, Notify
<1>2. c \in T
  BY DEF Notice, KeyOf, Keys, PreparationInv, BooksTyped
<1> HIDE DEF T, c
<1>3. calls' \in Seq(T)
  BY <1>1, <1>2
<1> QED
  BY <1>3 DEF T, CallsTyped

\* The events of a book call on the loop.
LEMMA BookEventsKeep ==
    ASSUME PreparationInv, NEW b \in Books,
           \/ ReportCalls(b) \/ IngestedCalls(b) \/ StartAgainCalls(b) \/ CorrectCalls(b) \/ ImportAnew(b)
    PROVE  PreparationInv'
<1>1. /\ UNCHANGED <<loop, run, bought, restarts, bank>>
      /\ \/ Reported(b) \/ CaughtUp(b) \/ StartedAgain(b) \/ Corrected(b) \/ Removed(b) \/ Imported(b)
      /\ UNCHANGED calls \/ \E force, foreground \in BOOLEAN : Notify(b, force, foreground)
  BY DEF ReportCalls, IngestedCalls, StartAgainCalls, CorrectCalls, ImportAnew, Outside
<1>2. CallsTyped'
  BY <1>1, NotifyIs DEF PreparationInv, CallsTyped
<1>3. plans' \in [DOMAIN plans' -> BOOLEAN] /\ attempted' \subseteq attempted
      /\ \A s \in DOMAIN plans' : s \in DOMAIN plans /\ plans'[s] = plans[s]
  BY <1>1 DEF PreparationInv, BankTyped, bank
<1>4. \A w \in Bought, s \in Scopes : Secured(w, s) => Secured(w, s)'
  BY <1>1 DEF Secured, bank
<1> QED
  BY <1>1, <1>2, <1>3, <1>4, ShelfMoves

\* What the bank has of a deleted book goes with it.
LEMMA DeleteBankKeeps == ASSUME PreparationInv, NEW b \in Books, DeleteBank(b) PROVE PreparationInv'
<1>1. /\ Removed(b) /\ UNCHANGED <<loop, run, bought, restarts, calls>> /\ BooksTyped
      /\ plans' = Less(plans, OfBook(b, DOMAIN plans))
      /\ banked' = banked \ OfBook(b, banked)
      /\ attempted' = attempted \ OfBook(b, attempted)
      /\ plans \in [DOMAIN plans -> BOOLEAN]
  BY DEF DeleteBank, Outside, PreparationInv, BankTyped
<1>2. CallsTyped'
  BY <1>1 DEF PreparationInv, CallsTyped
<1>3. plans' \in [DOMAIN plans' -> BOOLEAN] /\ attempted' \subseteq attempted
      /\ \A s \in DOMAIN plans' : s \in DOMAIN plans /\ plans'[s] = plans[s]
  BY <1>1 DEF Less
<1>4. ~shelf'[b].on
  BY <1>1 DEF Removed, Becomes, BooksTyped
<1>5. ASSUME NEW w \in Bought, NEW s \in Scopes, Secured(w, s)
      PROVE  Secured(w, s)' \/ ~Wanted(s)'
  <2>1. CASE s.b = b
    BY <1>4, <2>1 DEF Wanted, Still, Unchanged
  <2>2. CASE s.b # b
    <3>1. /\ s \in DOMAIN plans => s \in DOMAIN plans' /\ plans'[s] = plans[s]
          /\ s \in banked => s \in banked'
          /\ s \in attempted => s \in attempted'
      BY <1>1, <2>2 DEF Less, OfBook
    <3> QED
      BY <1>1, <1>5, <3>1 DEF Secured
  <2> QED
    BY <2>1, <2>2
<1> QED
  BY <1>1, <1>2, <1>3, <1>5, ShelfMoves

\* The loop is closed: nothing is queued any more, and nothing is paid for.
LEMMA CloseKeeps == ASSUME PreparationInv, Close PROVE PreparationInv'
<1> DEFINE L == Cancelled(loop)
           pending == Less(loop.pending, DOMAIN loop.pending \ {loop.active.key})
           M == [L EXCEPT !.closed = TRUE]
           X == Requeued(M, <<>>, pending)
<1>1. /\ UNCHANGED <<shelf, calls, run, bank, bought, restarts>> /\ loop \in Loops
      /\ loop' = [L EXCEPT !.closed = TRUE, !.queue = <<>>, !.pending = Less(L.pending, DOMAIN L.pending \ {loop.active.key})]
  <2>1. loop' = [L EXCEPT !.closed = TRUE, !.queue = <<>>, !.pending = Less(@, DOMAIN @ \ {loop.active.key})]
    BY DEF Close
  <2> QED
    BY <2>1 DEF Close, PreparationInv, LoopOK
<1>2. Follows(loop, L) /\ L.pending = loop.pending
  BY <1>1, CancelledFollows DEF PreparationInv, Cancelled, Loops
<1>3. loop' = X
  <2>1. L \in Loops
    BY <1>2 DEF Follows, LoopOK
  <2> HIDE DEF L
  <2> QED
    BY <1>1, <1>2, <2>1 DEF Requeued, Loops
<1> HIDE DEF L
<1>4. M \in Loops /\ M.queue = L.queue /\ M.pending = L.pending /\ M.active = L.active /\ M.closed
  BY <1>2 DEF Follows, LoopOK, Loops
<1> HIDE DEF M
<1>5. LoopOK(M) /\ M.active.key = loop.active.key /\ M.pending = loop.pending
  BY <1>2, <1>4 DEF Follows, LoopOK
<1>6. pending \in TokenMaps /\ DOMAIN pending \subseteq {M.active.key}
      /\ (M.active.key # NoKey => M.active.key \in DOMAIN pending)
  <2>1. pending \in TokenMaps
    BY <1>1, LoopIs, TokensStay
  <2>2. DOMAIN pending = DOMAIN loop.pending \ (DOMAIN loop.pending \ {loop.active.key})
    BY LessIs
  <2>3. M.active.key # NoKey => M.active.key \in DOMAIN loop.pending
    BY <1>5 DEF LoopOK
  <2> HIDE DEF pending
  <2> QED
    BY <1>5, <2>1, <2>2, <2>3
<1> HIDE DEF pending
<1>7. Follows(M, X)
  <2>1. <<>> \in Seq(Keys) /\ IsInjective(<<>>) /\ ToSet(<<>>) = {} /\ DOMAIN <<>> = {}
    BY DEF IsInjective, ToSet
  <2> QED
    BY <1>5, <1>6, <2>1, RequeuedFollows
<1> HIDE DEF X
<1>8. LoopOK(loop') /\ loop'.closed /\ loop'.active.key = loop.active.key
  BY <1>3, <1>4, <1>5, <1>7 DEF Follows
<1>9. \A w, s : /\ Spent(w, s)' <=> Spent(w, s)
                /\ Past(s)' <=> Past(s)
  BY <1>1 DEF Spent, Times, Past, Snapshot, HighWater
<1>10. SpentInv'
  BY <1>8, <1>9 DEF PreparationInv, SpentInv
<1>11. RunOK(run)'
  BY <1>1, <1>9 DEF PreparationInv, RunnerInv, RunOK, bank
<1>12. BooksTyped' /\ CallsTyped' /\ BankTyped' /\ BoughtOnce'
  BY <1>1 DEF PreparationInv, BooksTyped, CallsTyped, BankTyped, BoughtOnce, bank
<1>13. RunnerInv' /\ LoopOK(loop)'
  BY <1>1, <1>8, <1>11 DEF PreparationInv, RunnerInv, LoopOK
<1> QED
  BY <1>10, <1>12, <1>13 DEF PreparationInv

\* A new loop holds nothing.
LEMMA NewLoopOK == LoopOK(NewLoop) /\ NewLoop.active.key = NoKey /\ RunOK(Waiting) /\ Waiting.pc = "get"
<1>1. Nothing \in TokenMaps /\ DOMAIN Nothing = {}
  <2>1. Nothing \in [{} -> Tokens] /\ DOMAIN Nothing = {} /\ {} \in SUBSET Keys
    BY DEF Nothing
  <2> QED
    BY <2>1 DEF TokenMaps
<1>2. NoActive \in Actives /\ NoActive.key = NoKey
  BY DEF NoActive, Actives, NoToken, Tokens
<1>3. <<>> \in Seq(Keys) /\ IsInjective(<<>>) /\ ToSet(<<>>) = {} /\ DOMAIN <<>> = {}
  BY DEF IsInjective, ToSet
<1>4. /\ NewLoop \in Loops /\ NewLoop.queue = <<>> /\ NewLoop.pending = Nothing /\ NewLoop.active = NoActive
  BY <1>1, <1>2, <1>3 DEF NewLoop, Loops
<1>5. LoopOK(NewLoop)
  BY <1>1, <1>2, <1>3, <1>4 DEF LoopOK
<1>6. RunOK(Waiting) /\ Waiting.pc = "get"
  BY DEF Waiting, RunOK, Runs, Works, Scopes
<1> QED
  BY <1>2, <1>4, <1>5, <1>6

\* Books that have been read, in some order.
LEMMA ReadIs ==
    ASSUME NEW S \in SUBSET Books
    PROVE  SetToSeq(S) \in Seq(S)
<1>1. IsFiniteSet(S)
  BY KeysAssumption, FS_Subset
<1>2. PICK n \in Nat : n = Cardinality(S) /\ ExistsBijection(1..n, S)
  BY <1>1, FS_CardinalityType
<1>3. \E f \in [1..n -> S] : IsInjective(f)
  BY <1>2 DEF ExistsBijection, Bijection, Injection, IsInjective
<1>4. SetToSeq(S) \in [1..n -> S]
  BY <1>2, <1>3 DEF SetToSeq
<1> QED
  BY <1>4

\* What was bought counts for the process that bought it.
LEMMA RestartPreparationKeeps == ASSUME PreparationInv, RestartPreparation PROVE PreparationInv'
<1> DEFINE started == {b \in Books : shelf[b].on /\ shelf[b].mark > 0}
           read == SetToSeq(started)
<1>1. /\ UNCHANGED <<shelf, bank, bought>> /\ restarts' = restarts + 1
      /\ loop' = NewLoop /\ run' = Waiting
      /\ calls' = [i \in DOMAIN read |-> Notice(read[i], FALSE, FALSE)]
  BY DEF RestartPreparation
<1>2. read \in Seq(Books)
  <2>1. started \in SUBSET Books
    OBVIOUS
  <2> HIDE DEF started
  <2> QED
    BY <2>1, ReadIs
<1> HIDE DEF read
<1>3. CallsTyped'
  <2> DEFINE T == [key : Keys, force : BOOLEAN, foreground : BOOLEAN]
  <2>1. \A b \in Books : Notice(b, FALSE, FALSE) \in T
    BY DEF Notice, KeyOf, Keys, PreparationInv, BooksTyped
  <2> HIDE DEF T
  <2>2. PICK n \in Nat : read \in [1..n -> Books]
    BY <1>2
  <2>3. calls' = [i \in 1..n |-> Notice(read[i], FALSE, FALSE)]
    BY <1>1, <2>2
  <2>4. \A i \in 1..n : Notice(read[i], FALSE, FALSE) \in T
    BY <2>1, <2>2
  <2>5. calls' \in [1..n -> T]
    BY <2>3, <2>4
  <2>6. calls' \in Seq(T)
    BY <2>2, <2>5
  <2> QED
    BY <2>6 DEF T, CallsTyped
<1>4. /\ bought \in [DOMAIN bought -> Nat] /\ restarts \in Nat
      /\ \A x \in DOMAIN bought : bought[x] <= 1 + restarts
  BY DEF PreparationInv, BankTyped, BoughtOnce
<1>5. \A x \in DOMAIN bought' : bought'[x] <= restarts' /\ bought'[x] <= 1 + restarts'
  BY <1>1, <1>4
<1>6. BoughtOnce' /\ BankTyped' /\ BooksTyped'
  BY <1>1, <1>4, <1>5 DEF PreparationInv, BankTyped, BoughtOnce, BooksTyped, bank
<1>7. \A w, s : ~Spent(w, s)'
  <2>1. \A x : ~(Times(x)' > restarts')
    BY <1>1, <1>4, <1>5 DEF Times
  <2> QED
    BY <2>1 DEF Spent
<1>8. SpentInv'
  BY <1>7 DEF SpentInv
<1>9. LoopOK(loop)' /\ loop'.active.key = NoKey
  BY <1>1, NewLoopOK DEF LoopOK
<1>10. RunOK(run)' /\ run'.pc = "get"
  BY <1>1, NewLoopOK DEF RunOK, Works
<1> QED
  BY <1>3, <1>6, <1>8, <1>9, <1>10 DEF PreparationInv, RunnerInv

\* The first state of the preparation satisfies the invariant.
LEMMA PreparationInitHolds == PreparationInit => PreparationInv
<1> SUFFICES ASSUME PreparationInit PROVE PreparationInv
  OBVIOUS
<1>1. BooksTyped
  BY ShelfStarts DEF PreparationInit
<1>2. CallsTyped
  BY DEF PreparationInit, CallsTyped
<1>3. DOMAIN Nothing = {} /\ \A S : Nothing \in [{} -> S]
  BY DEF Nothing
<1>4. BankTyped /\ BoughtOnce
  BY <1>3 DEF PreparationInit, BankTyped, BoughtOnce
<1>5. SpentInv
  BY <1>3 DEF PreparationInit, SpentInv, Spent, Times
<1>6. LoopOK(loop) /\ RunnerInv
  BY NewLoopOK DEF PreparationInit, RunnerInv
<1> QED
  BY <1>1, <1>2, <1>4, <1>5, <1>6 DEF PreparationInv

\* Every step of the preparation keeps the invariant.
LEMMA PreparationStepKeeps == PreparationInv /\ [PreparationNext]_preparationVars => PreparationInv'
<1> SUFFICES ASSUME PreparationInv, [PreparationNext]_preparationVars PROVE PreparationInv'
  OBVIOUS
<1>1. CASE Runner
  <2>1. CASE Plan
    BY <2>1, CallKeeps DEF Plan
  <2>2. CASE Review
    BY <2>2, CallKeeps DEF Review
  <2> QED
    BY <1>1, <2>1, <2>2, GetKeeps, CaptureKeeps, WarmRecapKeeps, RecapOverKeeps, SavePlanKeeps,
       SaveReviewKeeps, AskQuestionKeeps, AnswerKeeps, MarkKeeps, SettleKeeps DEF Runner
<1>2. CASE UNCHANGED preparationVars
  <2>1. /\ UNCHANGED <<shelf, calls, loop, run, plans, banked, attempted, bought, restarts>>
    BY <1>2 DEF preparationVars, bank
  <2> QED
    BY <2>1 DEF PreparationInv, BooksTyped, CallsTyped, BankTyped, LoopOK, RunnerInv, RunOK, SpentInv, BoughtOnce,
       Spent, Times, Past, Wanted, Still, Unchanged, Scope, Snapshot, HighWater, Secured
<1> QED
  BY <1>1, <1>2, HearKeeps, CloseKeeps, RestartPreparationKeeps, BookEventsKeep, DeleteBankKeeps DEF PreparationNext

-----------------------------------------------------------------------------
(* Preparation: the theorems *)

\* The queue and its tokens agree, the runner has looked before it pays, and
\* whatever was paid for since the start is in the bank, on its way there or of
\* no use any more.
THEOREM PreparationHolds == PreparationSpec => []PreparationInv
BY PreparationInitHolds, PreparationStepKeeps, PTL DEF PreparationSpec

\* No request for a preparation is lost, and none is paid for twice: the queue of
\* RecapPrewarmer, the checkpoints of reader_prepare.prepare and the AnswerBank.
THEOREM PreparesOnce == PreparationSpec => []PreparedOnce
<1>1. PreparationInv => PreparedOnce
  BY DEF PreparationInv, LoopOK, PreparedOnce, NothingLost
<1> QED
  BY <1>1, PreparationHolds, PTL

=============================================================================
