--------------------------- MODULE ReaderAnswers ---------------------------
(* What a reader may ask a provider about a book: the recap (single-flight, *)
(* cached, checkpointed: lifecycle_cache.py), a question (shared in flight, *)
(* banked: answer_bank.py), the close of a chapter and help with a          *)
(* selection (views.py). Each is drafted, checked against its evidence and  *)
(* judged, at most twice, and only what was cleared is kept.                *)
(*                                                                         *)
(* A request holds the book's request gate; the background thread, which    *)
(* prepares answers ahead of the reader, holds nothing while it works, and  *)
(* looks at the book again before it pays and before it publishes.          *)
EXTENDS Shelf

CONSTANTS
  Readers,        \* request threads
  Background,     \* the preparation's thread
  MaxFlights,     \* recap_max_inflight
  MaxInflight,    \* the bank's bound on questions in flight (8)
  MaxRecaps       \* recap_cache_max_entries

ASSUME ReadersAssumption == IsFiniteSet(Readers) /\ Background \notin Readers
                            /\ "nobody" \notin Readers \union {Background}
ASSUME LimitsAssumption == {MaxFlights, MaxInflight, MaxRecaps} \subseteq Nat \ {0}

VARIABLES
  recaps,    \* keys of cleared recaps: _cache and its file
  failed,    \* keys rejected twice within the last minute: _failed
  flights,   \* _flights: key -> [holder, refs]
  slots,     \* permits left in _flight_slots
  answers,   \* scopes of the bank's rows
  inflight,  \* the bank's futures: [scope, back] -> [owner, done]
  th         \* the threads

caches == <<recaps, failed, answers>>
answersVars == <<shelf, caches, flights, slots, inflight, th, events>>

Threads == Readers \union {Background}
Nobody == "nobody"

(* A recap outlives the pass: its key has no epoch.                         *)
RecapKey(s) == [s EXCEPT !.epoch = 0]

-----------------------------------------------------------------------------
(* The threads.                                                             *)

Idle == [pc |-> "idle", kind |-> "recap", s |-> NoScope, want |-> NoScope, tries |-> 0,
         owner |-> Nobody]

Resting(t) == [th EXCEPT ![t] = Idle]
To(t, pc) == [th EXCEPT ![t].pc = pc]
Key(t) == RecapKey(th[t].s)
AskKey(t) == [s |-> th[t].s, back |-> t = Background]

AnswersInit ==
  /\ ShelfInit
  /\ recaps = {} /\ failed = {} /\ flights = Nothing /\ slots = MaxFlights
  /\ answers = {} /\ inflight = Nothing
  /\ th = [t \in Threads |-> Idle]
  /\ events = 0

Cached(kind, s) == IF kind = "recap" THEN RecapKey(s) \in recaps
                   ELSE kind = "ask" /\ s \in answers

Opens(kind) == IF kind = "recap" THEN "look" ELSE IF kind = "ask" THEN "share" ELSE "draft"

(* The route up to its first wait: clamp, look in the cache, then among the *)
(* recent failures. `want` is what the preparation was started for.         *)
Begun(kind, b, at, want) ==
  LET s == Scope(b, at)
  IN  IF at = 0 \/ Cached(kind, s) \/ (kind = "recap" /\ RecapKey(s) \in failed) THEN Idle
      ELSE [Idle EXCEPT !.pc = Opens(kind), !.kind = kind, !.s = s, !.want = want]

Exclusive(kind) == kind = "selection"

(* The gate: an exclusive request shares the book with no other.            *)
Inside(b) == {t \in Readers : th[t].pc # "idle" /\ th[t].s.b = b}
Free(b) == Inside(b) = {}
Admits(b, kind) == IF Exclusive(kind) THEN Free(b)
                   ELSE \A t \in Inside(b) : ~Exclusive(th[t].kind)

Request(t, kind, b) ==
  /\ Event
  /\ th[t].pc = "idle" /\ shelf[b].on /\ HighWater(b) > 0
  /\ Admits(b, kind)
  /\ th' = [th EXCEPT ![t] = Begun(kind, b, HighWater(b), NoScope)]
  /\ UNCHANGED <<shelf, recaps, failed, flights, slots, answers, inflight>>

-----------------------------------------------------------------------------
(* RecapRegistry.flight: one flight per key, MaxFlights keys at a time. The *)
(* slot is taken before the key's entry, so it may turn out not to be       *)
(* needed.                                                                  *)

Boarded(k) == [flights EXCEPT ![k].refs = @ + 1]

Look(t) ==
  /\ th[t].pc = "look"
  /\ IF Key(t) \in DOMAIN flights
     THEN flights' = Boarded(Key(t)) /\ th' = To(t, "lock")
     ELSE th' = To(t, "slot") /\ UNCHANGED flights
  /\ UNCHANGED <<shelf, recaps, failed, slots, answers, inflight, events>>

TakeSlot(t) ==
  /\ th[t].pc = "slot" /\ slots > 0
  /\ slots' = slots - 1
  /\ th' = To(t, "claim")
  /\ UNCHANGED <<shelf, recaps, failed, flights, answers, inflight, events>>

Claim_blind(t) ==
  /\ th[t].pc = "claim"
  /\ flights' = With(flights, Key(t), [holder |-> Nobody, refs |-> 1]) /\ th' = To(t, "lock")
  /\ UNCHANGED <<shelf, recaps, failed, slots, answers, inflight, events>>
Claim(t) ==
  /\ th[t].pc = "claim"
  /\ IF Key(t) \in DOMAIN flights
     THEN flights' = Boarded(Key(t)) /\ th' = To(t, "spare")
     ELSE flights' = With(flights, Key(t), [holder |-> Nobody, refs |-> 1]) /\ th' = To(t, "lock")
  /\ UNCHANGED <<shelf, recaps, failed, slots, answers, inflight, events>>

(* The key was in flight after all.                                         *)
GiveSlotBack_never(t) ==
  /\ th[t].pc = "spare"
  /\ th' = To(t, "lock")
  /\ UNCHANGED <<shelf, recaps, failed, flights, slots, answers, inflight, events>>
GiveSlotBack(t) ==
  /\ th[t].pc = "spare"
  /\ slots' = slots + 1
  /\ th' = To(t, "lock")
  /\ UNCHANGED <<shelf, recaps, failed, flights, answers, inflight, events>>

TakeOff(t) ==
  /\ th[t].pc = "lock" /\ flights[Key(t)].holder = Nobody
  /\ flights' = [flights EXCEPT ![Key(t)].holder = t]
  /\ th' = To(t, "again")
  /\ UNCHANGED <<shelf, recaps, failed, slots, answers, inflight, events>>

(* Look again: the flight ahead may have paid already, or failed.           *)
LookAgain_failuresOnly(t) ==
  /\ th[t].pc = "again"
  /\ th' = To(t, IF Key(t) \in failed THEN "land" ELSE "draft")
  /\ UNCHANGED <<shelf, recaps, failed, flights, slots, answers, inflight, events>>
LookAgain(t) ==
  /\ th[t].pc = "again"
  /\ th' = To(t, IF Key(t) \in recaps \union failed THEN "land" ELSE "draft")
  /\ UNCHANGED <<shelf, recaps, failed, flights, slots, answers, inflight, events>>

(* The last one out removes the entry, and then gives its slot back.        *)
Land(t) ==
  /\ th[t].pc = "land"
  /\ LET k == Key(t)
         last == flights[k].refs = 1
     IN  /\ flights' = IF last THEN Less(flights, {k})
                       ELSE [flights EXCEPT ![k] = [holder |-> Nobody, refs |-> @.refs - 1]]
         /\ th' = IF last THEN To(t, "return") ELSE Resting(t)
  /\ UNCHANGED <<shelf, recaps, failed, slots, answers, inflight, events>>

ReturnSlot(t) ==
  /\ th[t].pc = "return"
  /\ slots' = slots + 1
  /\ th' = Resting(t)
  /\ UNCHANGED <<shelf, recaps, failed, flights, answers, inflight, events>>

-----------------------------------------------------------------------------
(* AnswerBank.run_once: whoever asks the same while the answer is prepared  *)
(* shares it, the reader's requests and the preparation's each among        *)
(* themselves.                                                              *)

Share(t) ==
  /\ th[t].pc = "share"
  /\ LET k == AskKey(t)
     IN  IF k \in DOMAIN inflight
         THEN /\ th' = IF inflight[k].done THEN Resting(t)
                       ELSE [th EXCEPT ![t].pc = "wait", ![t].owner = inflight[k].owner]
              /\ UNCHANGED inflight
         ELSE IF Cardinality(DOMAIN inflight) >= MaxInflight
         THEN th' = Resting(t) /\ UNCHANGED inflight
         ELSE /\ inflight' = With(inflight, k, [owner |-> t, done |-> FALSE])
              /\ th' = To(t, "find")
  /\ UNCHANGED <<shelf, recaps, failed, flights, slots, answers, events>>

(* The result or the exception reaches every waiter; a waiter keeps its     *)
(* future when the entry goes.                                              *)
Resolve_onlyForItself(t) ==
  /\ th[t].pc = "resolve"
  /\ inflight' = [inflight EXCEPT ![AskKey(t)].done = TRUE]
  /\ th' = To(t, "pop")
  /\ UNCHANGED <<shelf, recaps, failed, flights, slots, answers, events>>
Resolve(t) ==
  /\ th[t].pc = "resolve"
  /\ inflight' = [inflight EXCEPT ![AskKey(t)].done = TRUE]
  /\ th' = [u \in Threads |-> IF u = t THEN [th[t] EXCEPT !.pc = "pop"]
                              ELSE IF th[u].pc = "wait" /\ th[u].owner = t THEN Idle
                              ELSE th[u]]
  /\ UNCHANGED <<shelf, recaps, failed, flights, slots, answers, events>>

Pop(t) ==
  /\ th[t].pc = "pop"
  /\ inflight' = Less(inflight, {AskKey(t)})
  /\ th' = Resting(t)
  /\ UNCHANGED <<shelf, recaps, failed, flights, slots, answers, events>>

-----------------------------------------------------------------------------
(* The paid stages of each route. "on" goes on, "nothing" is an honest      *)
(* refusal, "reject" starts the second and last attempt, "error" is the     *)
(* cost ceiling, a provider that fails or evidence that cannot be repaired. *)

(* The citations of a draft are completed or the draft is rejected.         *)
Evidence == {"on", "reject", "error"}
Verdict == {"on", "reject", "error"}
(* The recap's sentences are audited one by one.                            *)
PrimaryReview == {"on", "reject", "error"}
(* The one-liner may be missing, it never stops the recap.                  *)
RightNow == {"on"}
(* Embedding, retrieval and selection of the sources.                       *)
Sources == {"on", "nothing", "error"}

RecapCalls == [draft |-> {"on", "reject", "error"}, evidence |-> PrimaryReview,
               judge |-> Verdict, now |-> RightNow]
AskCalls == [find |-> Sources, draft |-> {"on", "error"},
             evidence |-> Evidence \union {"nothing"}, judge |-> Verdict]
CloseoutCalls == [draft |-> {"on", "error"}, evidence |-> Evidence \union {"nothing"},
                  judge |-> Verdict]
SelectionCalls == [draft |-> {"on", "nothing", "reject", "error"}, judge |-> Verdict]

CallsOf(kind) == CASE kind = "recap"     -> RecapCalls
                   [] kind = "ask"       -> AskCalls
                   [] kind = "closeout"  -> CloseoutCalls
                   [] kind = "selection" -> SelectionCalls

Stages == <<"find", "draft", "evidence", "judge", "now">>
Paying == {Stages[i] : i \in 1..5}

(* The next stage the route has, or the end of the attempt.                 *)
After(kind, pc) ==
  LET ahead == {j \in 1..5 : Stages[j] \in DOMAIN CallsOf(kind) /\ \E i \in 1..(j - 1) : Stages[i] = pc}
  IN  IF ahead = {} THEN "keep" ELSE Stages[CHOOSE j \in ahead : \A k \in ahead : j <= k]

(* Where a thread goes when its call is over.                               *)
Over(t) == CASE th[t].kind = "recap" -> To(t, "land")
             [] th[t].kind = "ask"   -> To(t, "resolve")
             [] OTHER                -> Resting(t)

(* The preparation may pay only for where the reader is.                    *)
MayPay(t) == t # Background \/ Wanted(th[t].want)

Stage(t) ==
  /\ th[t].pc \in Paying
  /\ \E out \in CallsOf(th[t].kind)[th[t].pc] :
        LET last == th[t].tries = 1
        IN  /\ MayPay(t) \/ out = "error" \/ th[t].pc = "now"
            /\ th' = CASE out = "on" -> To(t, After(th[t].kind, th[t].pc))
                       [] out = "reject" /\ ~last -> [th EXCEPT ![t].pc = "draft", ![t].tries = 1]
                       [] OTHER -> Over(t)
            /\ failed' = IF th[t].kind = "recap" /\ out = "reject" /\ last
                         THEN failed \union {Key(t)}
                         ELSE IF th[t].kind = "recap" /\ out = "on" /\ th[t].pc = "judge"
                         THEN failed \ {Key(t)} ELSE failed
  /\ UNCHANGED <<shelf, recaps, flights, slots, answers, inflight, events>>

(* GuardedCache: a preparation whose book has changed keeps nothing, one    *)
(* the reader has only moved away from does. The look at the book and the   *)
(* write are two steps.                                                     *)
MayKeep(t) == t # Background \/ Still(th[t].want)

Keep(t) ==
  /\ th[t].pc = "keep"
  /\ th' = IF th[t].kind \notin {"recap", "ask"} THEN Over(t)
           ELSE IF MayKeep(t) THEN To(t, "write") ELSE Over(t)
  /\ UNCHANGED <<shelf, recaps, failed, flights, slots, answers, inflight, events>>

(* The registry forgets another recap when there are too many.              *)
Write(t) ==
  /\ th[t].pc = "write"
  /\ IF th[t].kind = "recap"
     THEN /\ \E gone \in SUBSET (recaps \ {Key(t)}) :
               /\ Cardinality(gone) = (IF Cardinality(recaps \union {Key(t)}) > MaxRecaps THEN 1 ELSE 0)
               /\ recaps' = (recaps \union {Key(t)}) \ gone
          /\ UNCHANGED answers
     ELSE answers' = answers \union {th[t].s} /\ UNCHANGED recaps
  /\ th' = Over(t)
  /\ UNCHANGED <<shelf, failed, flights, slots, inflight, events>>

Step(t) == \/ Look(t) \/ Claim(t) \/ GiveSlotBack(t) \/ LookAgain(t) \/ Land(t) \/ ReturnSlot(t)
           \/ Share(t) \/ Resolve(t) \/ Pop(t) \/ Stage(t) \/ Keep(t) \/ Write(t)

(* A minute passes: the failure is forgotten.                               *)
Expire(k) ==
  /\ failed' = failed \ {k}
  /\ UNCHANGED <<shelf, recaps, answers, flights, slots, inflight, th, events>>

(* The preparation turns to the book the reader is in.                      *)
Prepare(kind, b) ==
  /\ Event /\ th[Background].pc = "idle" /\ shelf[b].on /\ HighWater(b) > 0
  /\ LET s == Scope(b, HighWater(b)) IN th' = [th EXCEPT ![Background] = Begun(kind, b, s.at, s)]
  /\ UNCHANGED <<shelf, caches, flights, slots, inflight>>

(* What happens to the books. A route that changes a book other than by a   *)
(* progress report waits until no request of it is being served.            *)
Report(b) == Event /\ Admits(b, "recap") /\ Reported(b)
             /\ UNCHANGED <<caches, flights, slots, inflight, th>>
Ingested(b) == CaughtUp(b) /\ UNCHANGED <<caches, flights, slots, inflight, th, events>>
StartAgain(b) == Event /\ Free(b) /\ StartedAgain(b) /\ UNCHANGED <<caches, flights, slots, inflight, th>>
Correct(b) == Event /\ Free(b) /\ Corrected(b) /\ UNCHANGED <<caches, flights, slots, inflight, th>>
ImportBook(b) == Event /\ Imported(b) /\ UNCHANGED <<caches, flights, slots, inflight, th>>

(* DELETE drops what the process and its files keep about the book.         *)
DeleteBook(b) ==
  /\ Event /\ Free(b) /\ Removed(b)
  /\ recaps' = recaps \ OfBook(b, recaps)
  /\ failed' = failed \ OfBook(b, failed)
  /\ answers' = answers \ OfBook(b, answers)
  /\ UNCHANGED <<flights, slots, inflight, th>>

(* The process ends and starts: the caches that have a file are read back.  *)
RestartAnswers ==
  /\ Event
  /\ failed' = {} /\ flights' = Nothing /\ slots' = MaxFlights /\ inflight' = Nothing
  /\ th' = [t \in Threads |-> Idle]
  /\ UNCHANGED <<shelf, recaps, answers>>

Kinds == {"recap", "ask", "closeout", "selection"}

AnswersNext ==
  \/ \E t \in Threads : Step(t) \/ TakeSlot(t) \/ TakeOff(t)
  \/ \E t \in Readers, kind \in Kinds, b \in Books : Request(t, kind, b)
  \/ \E kind \in {"recap", "ask"}, b \in Books : Prepare(kind, b)
  \/ \E k \in failed : Expire(k)
  \/ \E b \in Books : Report(b) \/ Ingested(b) \/ StartAgain(b) \/ Correct(b) \/ DeleteBook(b) \/ ImportBook(b)
  \/ RestartAnswers

AnswersSpec == AnswersInit /\ [][AnswersNext]_answersVars
-----------------------------------------------------------------------------
(* Properties.                                                              *)

Refers(t, k) == th[t].kind = "recap" /\ Key(t) = k
                /\ th[t].pc \in {"spare", "lock", "again", "land", "write", "keep"} \union Paying

(* Every slot of the semaphore is free, owned by one key in flight, or in   *)
(* the hands of a thread that is about to use it or give it back; and a key *)
(* is in flight exactly while a thread refers to it. So a thread that found *)
(* its key already in flight leaks no slot, whoever leaves last, and        *)
(* MaxFlights recaps can always be in flight again.                         *)
SlotsAccounted ==
  /\ slots + Cardinality(DOMAIN flights)
       + Cardinality({t \in Threads : th[t].pc \in {"claim", "spare", "return"}}) = MaxFlights
  /\ \A k \in DOMAIN flights :
       /\ flights[k].refs = Cardinality({t \in Threads : Refers(t, k)})
       /\ flights[k].refs > 0

(* Nobody pays for a recap that is already there, that another thread is    *)
(* paying for, or that was rejected twice within the minute; and no two     *)
(* requests pay for the same question at once.                              *)
PaidOnce ==
  \A t \in Threads : th[t].pc \in Paying =>
    /\ th[t].kind = "recap" => Key(t) \notin recaps \union failed
    /\ \A u \in Threads \ {t} :
         th[u].pc \in Paying /\ th[u].kind = th[t].kind =>
           /\ th[t].kind = "recap" => Key(u) # Key(t)
           /\ th[t].kind = "ask" => AskKey(u) # AskKey(t)

(* A thread waits for a slot, for a flight's lock or for the result of      *)
(* another thread's question; everywhere else it can go on.                 *)
MayGo(t) ==
  \/ th[t].pc \notin {"idle", "slot", "lock", "wait"}
  \/ th[t].pc = "slot" /\ slots > 0
  \/ th[t].pc = "lock" /\ flights[Key(t)].holder = Nobody
GuardsAreTrue == \A t \in Threads : MayGo(t) <=> ENABLED (Step(t) \/ TakeSlot(t) \/ TakeOff(t))

(* The threads never all wait for one another: while a request is being     *)
(* served, some thread can go on. Each has finitely many steps, so each     *)
(* request ends.                                                            *)
NoStandstill == (\E t \in Threads : th[t].pc # "idle") => \E t \in Threads : MayGo(t)

(* Slots, flights and locks are given back by everybody who takes them, so  *)
(* that requests go on (RecapRegistry, AnswerBank.run_once, book_lifecycle).*)
AnswersGoOn == SlotsAccounted /\ NoStandstill /\ GuardsAreTrue

(* What two comments of the code say and it does not do: TLC refutes both,  *)
(* and no run checks them (README, Findings).                               *)

(* reader_prepare.py, GuardedCache: "never publish across reset, deletion   *)
(* or source correction".                                                   *)
KeepsOnlyCurrent == th[Background].pc = "write" => Still(th[Background].want)

(* deps.py, book_lifecycle: "without making provider IO block reading or    *)
(* progress".                                                               *)
ProgressNotBlocked ==
  \A t \in Readers : th[t].pc \in Paying => Admits(th[t].s.b, "recap")

=============================================================================
