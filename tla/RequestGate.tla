---------------------------- MODULE RequestGate ----------------------------
(***************************************************************************)
(* The per-book request gate (app/deps.py, book_lifecycle): an async       *)
(* readers/writer lock with a registry of reference-counted entries, all   *)
(* confined to one event loop.  GETs and questions share the book, PUT     *)
(* /position shares it too but one at a time, everything else (delete,     *)
(* reset, corrections) has the book to itself.                             *)
(*                                                                         *)
(* What a coroutine does between two awaits is one action.                 *)
(***************************************************************************)
EXTENDS Naturals, FiniteSets, SequencesExt

CONSTANTS
    Requests,       \* requests of one book, each a coroutine; reused when done
    MaxEntries      \* bound: entry objects alive at once

ASSUME RequestsAssumption == IsFiniteSet(Requests)
ASSUME MaxEntriesAssumption == MaxEntries \in Nat \ {0}
ASSUME NobodyAssumption == "nobody" \notin Requests

VARIABLES
    registry,   \* app.state.book_request_locks[book]: an entry, or 0 for none
    entry,      \* entry[e]: the _BookRequestLockEntry objects
    rq,         \* rq[r]: the coroutine's kind, entry and where it awaits
    ahead       \* history: mutations that were waiting when r arrived

vars == <<registry, entry, rq, ahead>>

Entries == 1..MaxEntries
Kinds   == {"read", "position", "mutation"}

\* "queued" and "posqueued" await entry.lock and entry.position_lock; a
\* "draining" mutation awaits readers_done, which a "drained" one has been
\* woken by; "in" is the handler's body.
PCs == {"idle", "queued", "posqueued", "draining", "drained", "in"}

Fresh == [lock |-> "nobody", queue |-> <<>>, pos |-> "nobody", posq |-> <<>>,
          refs |-> 0, readers |-> 0, done |-> TRUE]
Idle  == [pc |-> "idle", kind |-> "read", e |-> 1]

Holder == Requests \cup {"nobody"}

TypeOK ==
    /\ registry \in 0..MaxEntries
    /\ entry \in [Entries -> [lock : Holder, queue : Seq(Requests), pos : Holder,
                              posq : Seq(Requests), refs : 0..Cardinality(Requests),
                              readers : 0..Cardinality(Requests), done : BOOLEAN]]
    /\ rq \in [Requests -> [pc : PCs, kind : Kinds, e : Entries]]
    /\ ahead \in [Requests -> SUBSET Requests]

Init ==
    /\ registry = 0
    /\ entry = [e \in Entries |-> Fresh]
    /\ rq = [r \in Requests |-> Idle]
    /\ ahead = [r \in Requests |-> {}]

-----------------------------------------------------------------------------
(* What a coroutine does up to its next await, as functions of its entry   *)

\* asyncio.Lock.acquire returns at once only if nobody holds the lock and
\* nobody waits for it.
TakesAtOnce_ignoresQueue(holder, queue) == holder = "nobody"
TakesAtOnce(holder, queue) == holder = "nobody" /\ queue = <<>>

\* A shared request has entry.lock: it counts itself in and gives the lock
\* back; a position report goes on to position_lock.
JoinReaders_keepsEvent(E) == [E EXCEPT !.readers = @ + 1]
JoinReaders(E) == [E EXCEPT !.readers = @ + 1, !.done = FALSE]

\* Where request r of kind k is, and its entry, once it has entry.lock.
Admitted(E, r, k) ==
    IF k = "mutation"
    THEN [pc |-> IF E.done THEN "in" ELSE "draining", E |-> [E EXCEPT !.lock = r]]
    ELSE IF k = "read"
    THEN [pc |-> "in", E |-> JoinReaders(E)]
    ELSE IF TakesAtOnce(E.pos, E.posq)
    THEN [pc |-> "in", E |-> [JoinReaders(E) EXCEPT !.pos = r]]
    ELSE [pc |-> "posqueued", E |-> [JoinReaders(E) EXCEPT !.posq = Append(@, r)]]

\* The finally of a shared request; the last reader sets the event.
LeaveReaders_noEvent(E) == [E EXCEPT !.readers = @ - 1]
LeaveReaders(E) == [E EXCEPT !.readers = @ - 1, !.done = E.readers = 1]

\* r counted itself in and has to count itself out.
Shared_queuedToo(r) == rq[r].kind # "mutation"
Shared(r) == rq[r].kind # "mutation" /\ rq[r].pc # "queued"

\* Everything r gives back on its way out, wherever it was.
GivenBack(E, r) ==
    LET unlocked == [E EXCEPT !.lock  = IF @ = r THEN "nobody" ELSE @,
                              !.queue = RemoveFirst(@, r),
                              !.pos   = IF @ = r THEN "nobody" ELSE @,
                              !.posq  = RemoveFirst(@, r)]
    IN IF Shared(r) THEN LeaveReaders(unlocked) ELSE unlocked

\* The registry forgets an entry without references.
Forget_always(e, E) == IF registry = e THEN 0 ELSE registry
Forget(e, E) == IF E.refs = 0 /\ registry = e THEN 0 ELSE registry

\* readers_done wakes the mutation that awaits it.
Woken(E) ==
    [s \in Requests |->
        IF E.done /\ E.lock = s /\ rq[s].pc = "draining"
        THEN [rq[s] EXCEPT !.pc = "drained"] ELSE rq[s]]

Waiting(s) == rq[s].kind = "mutation" /\ rq[s].pc \in {"queued", "draining", "drained"}

\* s no longer waits: it is ahead of nobody.
Passed(s) == [r \in Requests |-> ahead[r] \ {s}]

-----------------------------------------------------------------------------
(* The coroutine *)

\* Look the entry up or create it, count the reference, ask for entry.lock.
Arrive(r, k) ==
    /\ rq[r].pc = "idle"
    /\ LET unused == {e \in Entries : \A s \in Requests :
                        rq[s].pc # "idle" => rq[s].e # e}
           e == IF registry # 0 THEN registry ELSE CHOOSE x \in unused : TRUE
           E == IF registry # 0 THEN [entry[e] EXCEPT !.refs = @ + 1]
                ELSE [Fresh EXCEPT !.refs = 1]
           at == IF TakesAtOnce(E.lock, E.queue) THEN Admitted(E, r, k)
                 ELSE [pc |-> "queued", E |-> [E EXCEPT !.queue = Append(@, r)]]
       IN /\ registry # 0 \/ unused # {}
          /\ registry' = e
          /\ entry' = [entry EXCEPT ![e] = at.E]
          /\ rq' = [rq EXCEPT ![r] = [pc |-> at.pc, kind |-> k, e |-> e]]
    /\ ahead' = [ahead EXCEPT ![r] = {s \in Requests : Waiting(s)}]

\* entry.lock is free: its first waiter resumes.
Resume(r) ==
    /\ rq[r].pc = "queued"
    /\ LET e  == rq[r].e
           at == Admitted([entry[e] EXCEPT !.queue = Tail(@)], r, rq[r].kind)
       IN /\ entry[e].lock = "nobody"
          /\ Head(entry[e].queue) = r
          /\ entry' = [entry EXCEPT ![e] = at.E]
          /\ rq' = [rq EXCEPT ![r].pc = at.pc]
          /\ ahead' = IF at.pc = "in" THEN Passed(r) ELSE ahead
    /\ UNCHANGED registry

\* position_lock is free: its first waiter resumes.
ResumePosition(r) ==
    /\ rq[r].pc = "posqueued"
    /\ LET e == rq[r].e
       IN /\ entry[e].pos = "nobody"
          /\ Head(entry[e].posq) = r
          /\ entry' = [entry EXCEPT ![e].pos = r, ![e].posq = Tail(@)]
          /\ rq' = [rq EXCEPT ![r].pc = "in"]
    /\ UNCHANGED <<registry, ahead>>

\* A mutation resumes from readers_done.wait(), whatever the event says now.
Enter(r) ==
    /\ rq[r].pc = "drained"
    /\ rq' = [rq EXCEPT ![r].pc = "in"]
    /\ ahead' = Passed(r)
    /\ UNCHANGED <<registry, entry>>

\* Out of the `async with` blocks and the outer finally.
Leave(r) ==
    LET e == rq[r].e
        E == [GivenBack(entry[e], r) EXCEPT !.refs = @ - 1]
    IN /\ entry' = [entry EXCEPT ![e] = E]
       /\ registry' = Forget(e, E)
       /\ rq' = [Woken(E) EXCEPT ![r] = Idle]
       /\ ahead' = [Passed(r) EXCEPT ![r] = {}]

\* The handler returns or raises.
Finish(r) == rq[r].pc = "in" /\ Leave(r)

\* The client disconnects while the request awaits its turn.
Cancel(r) == rq[r].pc \notin {"idle", "in"} /\ Leave(r)

Step(r) == Resume(r) \/ ResumePosition(r) \/ Enter(r) \/ Finish(r)

Next == \E r \in Requests : Step(r) \/ Cancel(r) \/ \E k \in Kinds : Arrive(r, k)

\* The loop runs every ready coroutine and every handler returns; nobody has to
\* call, or to disconnect.
Fairness == \A r \in Requests : WF_vars(Step(r))

Spec == Init /\ [][Next]_vars
FairSpec == Spec /\ Fairness

-----------------------------------------------------------------------------
(* Properties *)

Inside(r) == rq[r].pc = "in"
Active(r) == rq[r].pc # "idle"

\* A mutation has the book to itself, and of the position reports one runs at
\* a time: so at most one request is in a route that takes the worker's
\* lifecycle lock or moves the bookmark.
Compatible ==
    \A r, s \in Requests :
        Inside(r) /\ Inside(s) /\ r # s =>
            /\ rq[r].kind # "mutation"
            /\ ~(rq[r].kind = "position" /\ rq[s].kind = "position")

\* All requests of the book meet at one entry: it is not dropped from the
\* registry while a holder or a waiter still refers to it, and is dropped when
\* the last one has left.
OneEntry ==
    /\ \A r \in Requests : Active(r) => rq[r].e = registry
    /\ registry # 0 => /\ \E r \in Requests : Active(r)
                       /\ entry[registry].refs = Cardinality({r \in Requests : Active(r)})

\* No overtaking: a request never enters before a mutation that was already
\* waiting when it arrived.
NoOvertaking == \A r \in Requests : Inside(r) => ahead[r] = {}

\* The gate keeps order: who excludes whom, by which entry, and in which turn
\* (book_lifecycle).
OrderlyBook == TypeOK /\ Compatible /\ OneEntry /\ NoOvertaking

\* Everybody who asks is served, or gives up: readers that keep coming do not
\* starve a mutation, nor a mutation's wait the readers behind it.
Served == \A r \in Requests : Active(r) ~> (Inside(r) \/ ~Active(r))

=============================================================================
