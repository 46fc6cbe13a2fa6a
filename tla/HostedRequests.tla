--------------------------- MODULE HostedRequests ---------------------------
(* How requests are served. One program is started in one of two modes      *)
(* (main.create_app): the local one guards a book with RequestGate, the     *)
(* hosted one with a bounded registry of locks and of cached book data      *)
(* (hosted/runtime.py). Under the hosted lock run the reading helps, which  *)
(* read the reader's frontier, then pay for up to two drafts and their      *)
(* reviews (hosted/tenant/api.py, hosted/provider_runtime.py), while other  *)
(* requests move the frontier or delete the book, the owner changes the     *)
(* provider settings under another lock, and the process shuts down.        *)
(*                                                                          *)
(* One hosted process is modelled, as the registry promises nothing across  *)
(* processes; what a coroutine does between two awaits is one action.       *)
EXTENDS RequestGate

CONSTANTS
  MaxCalls,        \* bound: hosted requests made, numbered as they come
  Chapters,
  MaxLocks,        \* hosted_runtime_lock_max_entries
  MaxConcurrency,  \* owner_limits.max_provider_concurrency
  MaxChanges,      \* bound: changes of the provider settings
  Reconfigured     \* bound: the phases whose settings change

ASSUME HostedAssumption == {MaxCalls, Chapters, MaxLocks, MaxConcurrency} \subseteq Nat \ {0}

VARIABLES
  mode,      \* settings.deployment_mode
  locks,     \* the lock entries, least recently used first: [key, n, leases]
  cache,     \* the cached book: none, or one with the bookmark it was read with
  runtime,   \* HostedRuntimeRegistry._state, or "exited"
  call,      \* the hosted requests
  book,      \* [live, bookmark]
  setting,   \* by phase: [ready, stamp]
  open,      \* the requests whose reservation is in state 'reserved'
  calling,   \* the requests for which the provider is at work
  cut        \* history: the requests cut off in a call, or in a deletion

hosted == <<mode, locks, cache, runtime, call, book, setting, open, calling, cut>>
hvars == <<vars, hosted>>

Calls == 1..MaxCalls

Helps == {"ask", "selection", "closeout"}
Routes == {"help", "metadata", "position", "reset", "delete", "other"}
Phases == {"synthesis", "judge"}

NotMade == [pc |-> "new", route |-> "other", n |-> 0, at |-> 0, sources |-> {}, beyond |-> 0,
            seen |-> [p \in Phases |-> 0], phase |-> "synthesis", try |-> 1]

(* A process that exited may have left a call reserved.                     *)
Earlier == 0

HostedInit ==
  /\ Init
  /\ \/ mode = "local" /\ open = {} /\ book = [live |-> TRUE, bookmark |-> 0]
     \/ /\ mode = "hosted" /\ open \in {{}, {Earlier}}
        /\ book = [live |-> TRUE, bookmark |-> Chapters]
  /\ locks = <<>> /\ cache = {} /\ runtime = "open"
  /\ call = [r \in Calls |-> NotMade]
  /\ setting = [p \in Phases |-> [ready |-> TRUE, stamp |-> 0]]
  /\ calling = {} /\ cut = {}

-----------------------------------------------------------------------------
(* The registry.                                                            *)

KeyOf(route) == IF route = "other" THEN "other" ELSE "book"

Busy == {r \in Calls : call[r].pc \notin {"new", "done"}}

Leases == Cardinality(Busy)

(* The least recently used entries go, but none that is leased.             *)
Idlest_leasedToo(ls) == 1
Idlest(ls) == SelectInSeq(ls, LAMBDA l : l.leases = 0)

TrimOne(ls) == IF Len(ls) <= MaxLocks \/ Idlest(ls) = 0 THEN ls ELSE RemoveAt(ls, Idlest(ls))

(* _trim_idle_locks: no more turns than there are entries.                  *)
Trimmed(ls) ==
  LET after[k \in 0..Len(ls)] == IF k = 0 THEN ls ELSE TrimOne(after[k - 1])
  IN  after[Len(ls)]

(* serialized: the entry of the key moves to the end and is leased. A lock  *)
(* object has the number of the request that made it.                       *)
Enters(r, route, at) ==
  /\ runtime = "open" /\ call[r].pc = "new"
  /\ r > 1 => call[r - 1].pc # "new"
  /\ LET i == SelectInSeq(locks, LAMBDA l : l.key = KeyOf(route))
         leased == IF i = 0 THEN [key |-> KeyOf(route), n |-> r, leases |-> 1]
                   ELSE [locks[i] EXCEPT !.leases = @ + 1]
     IN  /\ locks' = Trimmed(Append(IF i = 0 THEN locks ELSE RemoveAt(locks, i), leased))
         /\ call' = [call EXCEPT ![r] = [NotMade EXCEPT !.pc = "waits", !.route = route, !.at = at,
                                                        !.n = leased.n]]
  /\ UNCHANGED <<cache, runtime, book, setting, open, calling, cut>>

(* The lock object is the request's own entry's, whatever the registry has. *)
Acquires(r) ==
  /\ call[r].pc = "waits"
  /\ \A s \in Calls : call[s].n = call[r].n => call[s].pc = "waits"
  /\ call' = [call EXCEPT ![r].pc = "inside"]
  /\ UNCHANGED <<locks, cache, runtime, book, setting, open, calling, cut>>

(* The finally of serialized, after the answer or a cancelled wait: the     *)
(* last lease that goes closes a registry that is closing.                  *)
Drained_never == FALSE
Drained == runtime = "closing" /\ Leases = 1

Leaves(r) ==
  /\ call[r].pc \in {"waits", "answered", "over"}
  /\ call' = [call EXCEPT ![r] = [NotMade EXCEPT !.pc = "done"]]
  /\ runtime' = IF Drained THEN "closed" ELSE runtime
  /\ locks' = IF Drained THEN <<>>
              ELSE Trimmed([i \in DOMAIN locks |->
                     IF locks[i].n = call[r].n THEN [locks[i] EXCEPT !.leases = @ - 1] ELSE locks[i]])
  /\ UNCHANGED <<cache, book, setting, open, calling, cut>>

(* close: cached content goes at once, and new work is refused.             *)
Closing_atOnce == "closed"
Closing == IF Leases = 0 THEN "closed" ELSE "closing"

Closes ==
  /\ runtime = "open"
  /\ runtime' = Closing
  /\ locks' = IF Leases = 0 THEN <<>> ELSE locks
  /\ cache' = {}
  /\ UNCHANGED <<call, book, setting, open, calling, cut>>

(* The process exits: it is drained, its patience with close is over, or it *)
(* crashes. What its requests were doing is lost, the rows stay.            *)
Exits ==
  /\ runtime # "exited" /\ runtime' = "exited"
  /\ locks' = <<>> /\ cache' = {}
  /\ call' = [r \in Calls |-> IF call[r].pc = "new" THEN call[r] ELSE [NotMade EXCEPT !.pc = "done"]]
  /\ UNCHANGED <<book, setting, open, calling, cut>>

-----------------------------------------------------------------------------
(* The reading helps. What a help may show of the book is fixed by the one  *)
(* transaction that reads its context.                                      *)

Goes(r, pc) == call' = [call EXCEPT ![r].pc = pc]

(* Of a request that has its result only the lease is left, and what a help *)
(* cites.                                                                   *)
Over(c) == [NotMade EXCEPT !.pc = "over", !.n = c.n]
Answered(c) == [Over(c) EXCEPT !.pc = "answered", !.sources = c.sources, !.beyond = c.beyond]

Ends(r) == call' = [call EXCEPT ![r] = Over(@)]

(* ask_context: completed chapters the question finds something in.         *)
AskSources(at) == SUBSET {k \in 1..Chapters : k <= book.bookmark /\ k <= at}

(* selection_action_context: the chapter being read may be selected from.   *)
SelectionSources(at) == {{k \in {at} : k <= book.bookmark + 1}}

(* chapter_closeout_context: one completed chapter.                         *)
CloseoutSources(at) == {{k \in {at} : k <= book.bookmark}}

SourcesOf(route, at) ==
  CASE route = "ask"       -> AskSources(at)
    [] route = "selection" -> SelectionSources(at)
    [] route = "closeout"  -> CloseoutSources(at)

Configured == \A p \in Phases : setting[p].ready

Context(r) ==
  /\ call[r].pc = "inside" /\ call[r].route = "help"
  /\ \E help \in Helps : \E sources \in SourcesOf(help, call[r].at) :
       IF book.live /\ sources # {} /\ Configured
       THEN call' = [call EXCEPT ![r].pc = "reserves", ![r].sources = sources,
                                 ![r].beyond = IF help = "selection" THEN 1 ELSE 0,
                                 ![r].seen = [p \in Phases |-> setting[p].stamp]]
       ELSE Ends(r)   \* not found, refused, or "not enough evidence"
  /\ UNCHANGED <<locks, cache, runtime, book, setting, open, calling, cut>>

(* resolve_credential and reserve_provider_call: the setting must be the    *)
(* one the context read, so a secret that is gone by now was refused anyway.*)
MayReserve(r) ==
  /\ book.live
  /\ setting[call[r].phase] = [ready |-> TRUE, stamp |-> call[r].seen[call[r].phase]]
  /\ Cardinality(open) < MaxConcurrency

Reserves(r) ==
  /\ call[r].pc = "reserves"
  /\ \/ /\ MayReserve(r) /\ Goes(r, "calls")
        /\ open' = open \union {r} /\ calling' = calling \union {r}
     \/ Ends(r) /\ UNCHANGED <<open, calling>>      \* or a ceiling of tokens or of spend
  /\ UNCHANGED <<locks, cache, runtime, book, setting, cut>>

(* Two drafts at most: one that is malformed, or that its review rejects,   *)
(* is drafted once more.                                                    *)
Again(c) ==
  IF c.try = 1 THEN [c EXCEPT !.pc = "reserves", !.phase = "synthesis", !.try = 2]
  ELSE Over(c)

Drafted(c) ==
  { Again(c),                                              \* malformed
    Over(c),                                               \* insufficient evidence
    [c EXCEPT !.pc = "reserves", !.phase = "judge"] }

Reviewed(c) == { Again(c), Answered(c), Over(c) }          \* or no verdict

(* The provider's answer, or failure, comes to the thread that waits for it *)
(* (asyncio.to_thread); whoever awaited the thread may be gone.             *)
Returns(r) ==
  /\ r \in calling /\ calling' = calling \ {r}
  /\ call' = IF call[r].pc = "calls" THEN [call EXCEPT ![r].pc = "settles"] ELSE call
  /\ UNCHANGED <<locks, cache, runtime, book, setting, open, cut>>

(* A call that returned is settled: with its usage, or with all that was    *)
(* reserved when it failed or exceeded its limit.                           *)
Settled_successOnly(r, failed) == IF failed THEN open ELSE open \ {r}
Settled(r, failed) == open \ {r}

CallEnds(r) ==
  /\ call[r].pc = "settles"
  /\ \/ Ends(r) /\ open' = Settled(r, TRUE)
     \/ /\ open' = Settled(r, FALSE)
        /\ \E c \in (IF call[r].phase = "synthesis" THEN Drafted(call[r]) ELSE Reviewed(call[r])) :
             call' = [call EXCEPT ![r] = c]
  /\ UNCHANGED <<locks, cache, runtime, book, setting, calling, cut>>

-----------------------------------------------------------------------------
(* The other routes of the book.                                            *)

(* Each may also be refused: a stale epoch, an object that cannot go.       *)
Refused(r) == call[r].pc = "inside" /\ Ends(r) /\ UNCHANGED book

Position(r) ==
  /\ call[r].route = "position"
  /\ \/ Refused(r)
     \/ /\ call[r].pc = "inside" /\ book.live /\ Ends(r)
        /\ book' = [book EXCEPT !.bookmark = IF @ < call[r].at THEN call[r].at ELSE @]
  /\ UNCHANGED <<locks, cache, runtime, setting, open, calling, cut>>

Reset(r) ==
  /\ call[r].route = "reset"
  /\ \/ Refused(r)
     \/ /\ call[r].pc = "inside" /\ book.live /\ Ends(r)
        /\ book' = [book EXCEPT !.bookmark = 0]
  /\ UNCHANGED <<locks, cache, runtime, setting, open, calling, cut>>

(* delete_book: the row, then what is cached of it; a registry that is      *)
(* closing has no cache and refuses.                                        *)
Delete(r) ==
  /\ call[r].route = "delete"
  /\ \/ Refused(r)
     \/ /\ call[r].pc = "inside" /\ book.live /\ Goes(r, "forgets")
        /\ book' = [book EXCEPT !.live = FALSE]
  /\ UNCHANGED <<locks, cache, runtime, setting, open, calling, cut>>

Invalidated_nothing == cache
Invalidated == {}

Forgets(r) ==
  /\ call[r].pc = "forgets"
  /\ IF runtime = "open" THEN cache' = Invalidated /\ Ends(r)
     ELSE UNCHANGED cache /\ Ends(r)
  /\ UNCHANGED <<locks, runtime, book, setting, open, calling, cut>>

(* get_book: from the cache, or read and then put there.                    *)
Looks(r) ==
  /\ call[r].pc = "inside" /\ call[r].route = "metadata"
  /\ IF runtime # "open" THEN Ends(r)
     ELSE IF cache # {} THEN Ends(r)
     ELSE IF ~book.live THEN Ends(r)
     ELSE call' = [call EXCEPT ![r].pc = "keeps", ![r].at = book.bookmark]
  /\ UNCHANGED <<locks, cache, runtime, book, setting, open, calling, cut>>

Keeps(r) ==
  /\ call[r].pc = "keeps"
  /\ IF runtime = "open" THEN cache' = {call[r].at} /\ Ends(r)
     ELSE UNCHANGED cache /\ Ends(r)
  /\ UNCHANGED <<locks, runtime, book, setting, open, calling, cut>>

(* Another book's metadata, for which the cache may evict this one's.       *)
Other(r) ==
  /\ call[r].pc = "inside" /\ call[r].route = "other"
  /\ cache' \in {cache, {}}
  /\ Ends(r)
  /\ UNCHANGED <<locks, runtime, book, setting, open, calling, cut>>

(* The owner changes a setting, or a validation does, under another key.    *)
Reconfigures(p) ==
  /\ setting["synthesis"].stamp + setting["judge"].stamp < MaxChanges
  /\ \E ready \in BOOLEAN : setting' = [setting EXCEPT ![p] = [ready |-> ready, stamp |-> @.stamp + 1]]
  /\ UNCHANGED <<locks, cache, runtime, call, book, open, calling, cut>>

-----------------------------------------------------------------------------
(* A request is cut off at any of its awaits: it is cancelled, or the       *)
(* transaction it awaits raises. Nobody settles then, as CancelledError     *)
(* passes `except Exception` and a settlement is not tried again; a thread  *)
(* goes on, and a transaction may have been committed all the same.         *)
RowsAfter_finally(r) == {open \ {r}}
RowsAfter(r) ==
  CASE call[r].pc = "reserves" -> {open} \union (IF MayReserve(r) THEN {open \union {r}} ELSE {})
    [] call[r].pc = "settles"  -> {open, open \ {r}}
    [] OTHER                   -> {open}

(* What the cut leaves undone: the row, the cached metadata of a book gone. *)
Unfinished(r, rows) ==
  (IF r \in rows THEN {<<r, "call">>} ELSE {})
    \union (IF call[r].pc = "forgets" THEN {<<r, "deletion">>} ELSE {})

CutOff(r) ==
  /\ call[r].pc \in {"inside", "reserves", "calls", "settles", "forgets", "keeps"}
  /\ \E rows \in RowsAfter(r) : open' = rows /\ cut' = cut \union Unfinished(r, rows)
  /\ Ends(r)
  /\ UNCHANGED <<locks, cache, runtime, book, setting, calling>>

-----------------------------------------------------------------------------
(* Nobody has to cancel, so Serves leaves cancelled requests out.           *)
Serves(r) ==
  \/ Acquires(r) \/ Context(r) \/ Reserves(r) \/ Returns(r) \/ CallEnds(r)
  \/ Position(r) \/ Reset(r) \/ Delete(r) \/ Forgets(r) \/ Looks(r) \/ Keeps(r) \/ Other(r)
  \/ call[r].pc # "waits" /\ Leaves(r)

HostedStep ==
  \/ \E r \in Calls : \/ \E route \in Routes, at \in 1..Chapters : Enters(r, route, at)
                      \/ Serves(r)
                      \/ call[r].pc = "waits" /\ Leaves(r)
                      \/ CutOff(r)
  \/ Closes \/ Exits
  \/ \E p \in Phases \intersect Reconfigured : Reconfigures(p)

HostedNext ==
  \/ mode = "local" /\ Next /\ UNCHANGED hosted
  \/ mode = "hosted" /\ HostedStep /\ UNCHANGED <<vars, mode>>

(* The loop runs every ready coroutine; a provider call ends, by its        *)
(* timeout if need be. Nobody has to call, to shut down or to exit.         *)
HostedFairness ==
  /\ \A r \in Requests : WF_hvars(mode = "local" /\ Step(r) /\ UNCHANGED hosted)
  /\ WF_hvars(mode = "hosted" /\ (\E r \in Calls : Serves(r)) /\ UNCHANGED <<vars, mode>>)

HostedSpec == HostedInit /\ [][HostedNext]_hvars /\ HostedFairness

-----------------------------------------------------------------------------
(* Properties *)

\* While a reading help works, and when it answers, the book is still there and
\* every passage it cites is one the reader has reached: neither a start again
\* nor a deletion nor an evicted lock comes between its context and its answer
\* ("an active lock entry is never evicted", ADR 0022).
AnswerIsCurrent ==
  \A r \in Calls :
    call[r].sources # {} =>
      /\ book.live
      /\ call[r].sources \subseteq 1..(book.bookmark + call[r].beyond)

\* While the provider works for the owner its reservation stays open, also when the
\* request that called is long gone and its thread goes on: so no more calls than
\* the owner may have run at once, and none without its reservation
\* (budgeted_hosted_completion, reserve_provider_call).
CallsCovered == calling \subseteq open /\ Cardinality(calling) <= MaxConcurrency

\* A call that returns, failed or overlong as it may be, is settled: a reservation
\* stays behind only where its process exited or its request was cut off between
\* the reservation and the end of the settlement.
CallsSettled ==
  \A r \in open \ {Earlier} :
    \/ call[r].pc \in {"calls", "settles"}
    \/ <<r, "call">> \in cut
    \/ runtime = "exited"

\* What is reserved of an owner's calls is what runs, and what was cut off.
CallsAccounted == CallsCovered /\ CallsSettled

\* A registry that says it is closed serves nobody any more: only then does the
\* process close its storage (main.lifespan).
ClosedIsIdle == runtime = "closed" => Busy = {}

\* What is cached of a book goes with it: a deleted book is not served from the
\* cache, whatever request was reading it or shutdown was under way, unless the
\* deletion was cut off before it forgot.
DeletedIsForgotten ==
  cache # {} => book.live \/ \E r \in Calls : call[r].pc = "forgets" \/ <<r, "deletion">> \in cut

\* What the service answers of a book is of the book as it is: a reading help by
\* its context, the metadata by its cache.
AnswersAreCurrent == AnswerIsCurrent /\ DeletedIsForgotten /\ ClosedIsIdle

\* A shutdown that began is completed by the last request that leaves.
Drains == runtime = "closing" ~> runtime \in {"closed", "exited"}

\* "It does not cache ... mutable reading state" (ADR 0022): what the cache has
\* of the reading state is current.
CacheIsCurrent == cache \subseteq {book.bookmark}

\* "Failures ... settle conservatively", and "a process crash can leave a
\* reservation" (ADR 0037): nothing else leaves one.
OnlyCrashesLeaveCalls ==
  \A r \in open \ {Earlier} : call[r].pc \in {"calls", "settles"} \/ runtime = "exited"

\* "Delete ... soft-deletes ... and invalidates book metadata cache state" (ADR
\* 0023): a deleted book is served from the cache only until then.
DeletionForgets == cache # {} => book.live \/ \E r \in Calls : call[r].pc = "forgets"
=============================================================================
