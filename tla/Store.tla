------------------------------- MODULE Store -------------------------------
(***************************************************************************)
(* The owner of all memory.db connections (app/memory/store.py): a bounded *)
(* LRU of open handles and a registry of reference-counted per-book locks, *)
(* used by request threads, the ingest worker, delete and shutdown.        *)
(*                                                                         *)
(* Every section under `_registry_lock` is one action; a thread may be     *)
(* preempted between any two of them.                                      *)
(***************************************************************************)
EXTENDS Naturals, FiniteSets, SequencesExt

CONSTANTS
    Threads,        \* callers of book(), evict() and close()
    Books,
    MaxHandles      \* max_handles

ASSUME ThreadsAssumption == IsFiniteSet(Threads) /\ "nobody" \notin Threads
ASSUME BooksAssumption == IsFiniteSet(Books)
ASSUME MaxHandlesAssumption == MaxHandles \in Nat \ {0}

VARIABLES
    handles,    \* _handles: books with an open handle, least recently used first
    locks,      \* _locks[b]: a lock entry, or 0 for none
    entry,      \* the _LockEntry objects: who holds the lock, refcount
    opened,     \* opened[b]: sqlite connections of b that are open
    th          \* the threads

storeVars == <<handles, locks, entry, opened, th>>

\* Entry objects: one per thread and per book is always enough.
Entries == 1..(Cardinality(Threads) + Cardinality(Books))
NewEntry == [holder |-> "nobody", refs |-> 0]

\* "lease" .. "release" are the steps of book() and evict(); a thread in
\* close() goes through evict() for each book of `todo`.
PCs == {"idle", "lease", "lock", "handle", "body", "pop", "closing", "release"}

Idle == [pc |-> "idle"]
Runs == [pc : PCs \ {"idle"}, op : {"book", "evict"}, b : Books, e : Entries \cup {0},
         todo : Seq(Books)]

StoreTypeOK ==
    /\ handles \in Seq(Books)
    /\ IsInjective(handles)
    /\ locks \in [Books -> Entries \cup {0}]
    /\ entry \in [Entries -> [holder : Threads \cup {"nobody"}, refs : 0..Cardinality(Threads)]]
    /\ opened \in [Books -> 0..Cardinality(Threads)]
    /\ th \in [Threads -> {Idle} \cup Runs]

StoreInit ==
    /\ handles = <<>>
    /\ locks = [b \in Books |-> 0]
    /\ entry = [e \in Entries |-> NewEntry]
    /\ opened = [b \in Books |-> 0]
    /\ th = [t \in Threads |-> Idle]

-----------------------------------------------------------------------------
(* The registry *)

\* Faulty variants, named <definition>_<what is wrong>, stand before the
\* definitions they would replace; no specification uses them.

Opened == ToSet(handles)

Place(hs, b) == CHOOSE i \in 1..Len(hs) : hs[i] = b

\* Handles nobody has leased, given the entries.
Evictable_anyHandle(hs, ents) == ToSet(hs)
Evictable(hs, ents) == {b \in ToSet(hs) : ents[locks[b]].refs = 0}

\* _evict_idle_locked: the least recently used evictable handles, as many as
\* there are too many.
Victims_oneTooFew(hs, ents) ==
    {b \in Evictable(hs, ents) :
        Cardinality({c \in Evictable(hs, ents) : Place(hs, c) <= Place(hs, b)})
            < Len(hs) - MaxHandles}
Victims(hs, ents) ==
    {b \in Evictable(hs, ents) :
        Cardinality({c \in Evictable(hs, ents) : Place(hs, c) <= Place(hs, b)})
            <= Len(hs) - MaxHandles}

\* What is left of hs without some of its handles: the others, in their order.
Without(hs, gone) ==
    {rest \in [1..(Len(hs) - Cardinality(gone)) -> ToSet(hs) \ gone] :
        /\ ToSet(rest) = ToSet(hs) \ gone
        /\ \A i, j \in DOMAIN rest : i < j => Place(hs, rest[i]) <= Place(hs, rest[j])}

\* A new handle goes to the end of the order, a cached one moves there.
Touched_onlyAdds(b) == {Append(handles, b)}
Touched(b) == {Append(rest, b) : rest \in Without(handles, {b} \cap Opened)}

Unlock(e) == [entry EXCEPT ![e].holder = "nobody"]

\* The caller's reference is gone.
Released(e) == [entry EXCEPT ![e].refs = @ - 1]

\* _release drops an entry without references, unless its handle stays open.
Dropped(e, b, hs, ents) == ents[e].refs = 0 /\ b \notin ToSet(hs) /\ locks[b] = e

-----------------------------------------------------------------------------
(* A thread *)

\* book(b) or evict(b) is called.
Call(t, op, b) ==
    /\ th[t].pc = "idle"
    /\ th' = [th EXCEPT ![t] = [pc |-> "lease", op |-> op, b |-> b, e |-> 0, todo |-> <<>>]]
    /\ UNCHANGED <<handles, locks, entry, opened>>

\* close(): snapshot the open books, then evict them one after the other, in
\* the order of the cache.
Close(t) ==
    /\ th[t].pc = "idle"
    /\ handles # <<>>
    /\ th' = [th EXCEPT ![t] = [pc |-> "lease", op |-> "evict", b |-> Head(handles), e |-> 0,
                                todo |-> Tail(handles)]]
    /\ UNCHANGED <<handles, locks, entry, opened>>

\* _lease: find or create the lock entry and count the reference.
Lease(t) ==
    /\ th[t].pc = "lease"
    /\ LET b == th[t].b
           used == {locks[c] : c \in Books} \cup
                   {th[u].e : u \in {v \in Threads : th[v].pc # "idle"}}
           e == IF locks[b] # 0 THEN locks[b] ELSE CHOOSE x \in Entries \ used : TRUE
           E == IF locks[b] # 0 THEN entry[e] ELSE NewEntry
       IN /\ locks' = [locks EXCEPT ![b] = e]
          /\ entry' = [entry EXCEPT ![e] = [E EXCEPT !.refs = @ + 1]]
          /\ th' = [th EXCEPT ![t].pc = "lock", ![t].e = e]
    /\ UNCHANGED <<handles, opened>>

\* `with entry.lock`
Lock_shared(t) ==
    /\ th[t].pc = "lock"
    /\ entry' = [entry EXCEPT ![th[t].e].holder = t]
    /\ th' = [th EXCEPT ![t].pc = IF th[t].op = "book" THEN "handle" ELSE "pop"]
    /\ UNCHANGED <<handles, locks, opened>>
Lock(t) ==
    /\ th[t].pc = "lock"
    /\ entry[th[t].e].holder = "nobody"
    /\ entry' = [entry EXCEPT ![th[t].e].holder = t]
    /\ th' = [th EXCEPT ![t].pc = IF th[t].op = "book" THEN "handle" ELSE "pop"]
    /\ UNCHANGED <<handles, locks, opened>>

\* _handle: look the handle up or open it, mark it used, evict what is idle.
Handle(t) ==
    /\ th[t].pc = "handle"
    /\ \E hs \in Touched(th[t].b) :
       LET b    == th[t].b
           gone == Victims(hs, entry)
       IN /\ handles' \in Without(hs, gone)
          /\ locks' = [c \in Books |-> IF c \in gone THEN 0 ELSE locks[c]]
          /\ opened' = [c \in Books |-> opened[c] + (IF c = b /\ b \notin Opened THEN 1 ELSE 0)
                                                  - (IF c \in gone THEN 1 ELSE 0)]
    /\ th' = [th EXCEPT ![t].pc = "body"]
    /\ UNCHANGED entry

\* The database cannot be opened: the exception leaves through `_release`.
HandleFails(t) ==
    /\ th[t].pc = "handle"
    /\ th[t].b \notin Opened
    /\ entry' = Unlock(th[t].e)
    /\ th' = [th EXCEPT ![t].pc = "release"]
    /\ UNCHANGED <<handles, locks, opened>>

\* The session ends, normally or not.
Body(t) ==
    /\ th[t].pc = "body"
    /\ entry' = Unlock(th[t].e)
    /\ th' = [th EXCEPT ![t].pc = "release"]
    /\ UNCHANGED <<handles, locks, opened>>

\* evict: the handle leaves the cache ...
Pop(t) ==
    /\ th[t].pc = "pop"
    /\ handles' \in Without(handles, {th[t].b} \cap Opened)
    /\ IF th[t].b \in Opened
       THEN th' = [th EXCEPT ![t].pc = "closing"] /\ UNCHANGED entry
       ELSE th' = [th EXCEPT ![t].pc = "release"] /\ entry' = Unlock(th[t].e)
    /\ UNCHANGED <<locks, opened>>

\* ... and is closed, outside the registry lock but under the book's lock.
CloseHandle(t) ==
    /\ th[t].pc = "closing"
    /\ opened' = [opened EXCEPT ![th[t].b] = @ - 1]
    /\ entry' = Unlock(th[t].e)
    /\ th' = [th EXCEPT ![t].pc = "release"]
    /\ UNCHANGED <<handles, locks>>

Onward_untilEmpty(t) ==
    IF handles = <<>> \/ th[t].op = "book" THEN Idle
    ELSE [pc |-> "lease", op |-> "evict", b |-> Head(handles), e |-> 0, todo |-> <<>>]
\* What the thread does after `_release`: close() goes on to the next book.
Onward(t) ==
    IF th[t].todo = <<>> THEN Idle
    ELSE [pc |-> "lease", op |-> "evict", b |-> Head(th[t].todo), e |-> 0,
          todo |-> Tail(th[t].todo)]

\* _release: count down, evict what is idle, drop an entry nobody needs.
Release(t) ==
    /\ th[t].pc = "release"
    /\ LET e    == th[t].e
           ents == Released(e)
           gone == Victims(handles, ents)
       IN /\ entry' = ents
          /\ handles' \in Without(handles, gone)
          /\ opened' = [c \in Books |-> IF c \in gone THEN opened[c] - 1 ELSE opened[c]]
          /\ locks' = [c \in Books |->
                        IF c \in gone \/ (c = th[t].b /\ Dropped(e, c, handles', ents)) THEN 0
                        ELSE locks[c]]
    /\ th' = [th EXCEPT ![t] = Onward(t)]

Step(t) == \/ Lease(t) \/ Lock(t) \/ Handle(t) \/ HandleFails(t) \/ Body(t)
           \/ Pop(t) \/ CloseHandle(t) \/ Release(t)

StoreNext == \E t \in Threads :
            \/ Step(t)
            \/ Close(t)
            \/ \E b \in Books : Call(t, "book", b) \/ Call(t, "evict", b)

\* Threads run and sessions end; a lock's waiters are let in one after the
\* other, none is passed over for ever.
StoreFairness == \A t \in Threads : WF_storeVars(Step(t)) /\ SF_storeVars(Lock(t))

StoreSpec == StoreInit /\ [][StoreNext]_storeVars
FairStore == StoreSpec /\ StoreFairness

-----------------------------------------------------------------------------
(* Properties *)

Runner(t) == th[t].pc # "idle"

\* Inside a book's lock.
InLock(t) == th[t].pc \in {"handle", "body", "pop", "closing"}

\* One session per book: the authorizer flag of a connection has one user, also
\* while evictions drop and re-create the book's lock entry.
OneSession ==
    \A t, u \in Threads : InLock(t) /\ InLock(u) /\ th[t].b = th[u].b => t = u

\* A book has at most one open connection, and it is the cached one unless an
\* eviction is about to close it; no session works on a connection that
\* eviction, delete or shutdown closed.
SoleConnection ==
    /\ \A b \in Books :
        /\ opened[b] = Cardinality({t \in Threads : th[t].pc = "closing" /\ th[t].b = b})
                       + (IF b \in Opened THEN 1 ELSE 0)
        /\ opened[b] <= 1
    /\ \A t \in Threads : th[t].pc = "body" => th[t].b \in Opened

\* The cache exceeds its limit only by handles that are in use, and not at all
\* once nobody holds a lease.
CacheBounded ==
    Len(handles) > MaxHandles =>
        \A b \in Opened : \E t \in Threads : Runner(t) /\ th[t].pc # "lease" /\ th[t].b = b

\* The cache of handles is safe: one session at a time works on a book, on its
\* only connection, and the cache comes back to its limit (memory.Store).
HandlesAreSafe == StoreTypeOK /\ OneSession /\ SoleConnection /\ CacheBounded

\* Every call returns.
Returns == \A t \in Threads : Runner(t) ~> ~Runner(t)

=============================================================================
