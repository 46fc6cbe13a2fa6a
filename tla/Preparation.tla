---------------------------- MODULE Preparation ----------------------------
(* The preparation of answers ahead of the reader: the event loop's queue   *)
(* of books to prepare (recap_warm.py), the one runner that works it off in *)
(* a thread (reader_prepare.py), the durable marks that keep it from paying *)
(* again (answer_bank.py), and the routes and the ingest worker that call   *)
(* for it. It shares the caches of ReaderAnswers with the reader's own      *)
(* requests.                                                                *)
EXTENDS Shelf

CONSTANTS
  QueueSize,     \* of the loop's queue (8)
  MaxRestarts,   \* bound on restarts of the process
  MaxCalls       \* bound on notifications under way

ASSUME QueueAssumption == QueueSize \in Nat \ {0}
ASSUME KeysAssumption == IsFiniteSet(Books) /\ "none" \notin Books

VARIABLES
  calls,      \* call_soon_threadsafe: notifications the loop has yet to run
  loop,       \* RecapPrewarmer: [queue, pending, completed, focus, active, closed]
  run,        \* the runner: [pc, s, good, fault]
  plans,      \* the bank's checkpoints: scope -> reviewed
  banked,     \* the bank's rows: scopes whose question has its answer
  attempted,  \* scopes whose preparation was carried through
  bought,     \* history: good answers paid for, by stage and scope
  restarts    \* history

bank == <<plans, banked, attempted>>
preparationVars == <<shelf, calls, loop, run, bank, bought, restarts, events>>

NoKey == <<"none", 0>>
NoToken == [epoch |-> 0, mark |-> 0, n |-> 0]
NoActive == [key |-> NoKey, token |-> NoToken, cancelled |-> FALSE]
NewLoop == [queue |-> <<>>, pending |-> Nothing, completed |-> Nothing, focus |-> NoKey,
            active |-> NoActive, closed |-> FALSE]
Waiting == [pc |-> "get", s |-> NoScope, good |-> TRUE, fault |-> FALSE]

PreparationInit ==
  /\ ShelfInit
  /\ calls = <<>> /\ loop = NewLoop /\ run = Waiting
  /\ plans = Nothing /\ banked = {} /\ attempted = {}
  /\ bought = Nothing /\ restarts = 0 /\ events = 0

-----------------------------------------------------------------------------
(* The loop's side: what a notification does to the queue.                  *)

KeyOf(b) == <<b, shelf[b].inc>>
Notice(b, force, foreground) == [key |-> KeyOf(b), force |-> force, foreground |-> foreground]

(* _focus_queue: only the focus stays queued; what the runner is at keeps   *)
(* its pending token, for the runner looks at it when it is done.           *)
Only(queue, key) == [i \in 1..Cardinality({j \in DOMAIN queue : queue[j] = key}) |-> key]
Focused_forgetsActive(L, key) ==
  LET dropped == ToSet(L.queue) \ {key}
  IN  [L EXCEPT !.queue = Only(@, key),
                !.pending = Less(@, dropped \union {L.active.key})]
Focused(L, key) ==
  LET dropped == ToSet(L.queue) \ {key}
  IN  [L EXCEPT !.queue = Only(@, key),
                !.pending = Less(@, dropped \ {L.active.key})]

Cancelled(L) == [L EXCEPT !.active.cancelled = TRUE]

OnFocus(L, key) ==
  LET F == [L EXCEPT !.focus = key]
      C == IF F.active.key \notin {NoKey, key} THEN Cancelled(F) ELSE F
  IN  Focused(C, key)

Ready(b) == shelf[b].on /\ shelf[b].mark > 0 /\ shelf[b].done >= shelf[b].mark

SameBase(token, b) == token.epoch = shelf[b].epoch /\ token.mark = shelf[b].mark

Prior(L, key) == IF key \in DOMAIN L.pending THEN {L.pending[key]}
                 ELSE IF key \in DOMAIN L.completed THEN {L.completed[key]} ELSE {}

(* A new token for the book as it is; the same one if nothing has changed.  *)
NewToken(L, key, force) ==
  LET b == key[1]
      prior == Prior(L, key)
      last == CHOOSE p \in prior : TRUE
  IN  IF prior # {} /\ ~force /\ SameBase(last, b) THEN last
      ELSE [epoch |-> shelf[b].epoch, mark |-> shelf[b].mark,
            n |-> IF force /\ prior # {} THEN last.n + 1 ELSE 0]

(* The runner's own book: another token cancels it; if it is being          *)
(* cancelled already, a successor must follow even for the same place.      *)
Successor_none(L, key, token) == token
Successor(L, key, token) ==
  IF key = L.active.key /\ token = L.active.token /\ L.active.cancelled
  THEN [token EXCEPT !.n = @ + 1] ELSE token

Queued(L, key, token) ==
  IF key \in DOMAIN L.pending THEN [L EXCEPT !.pending[key] = token]
  ELSE IF Len(L.queue) < QueueSize
  THEN [L EXCEPT !.pending = With(@, key, token), !.queue = Append(@, key)]
  ELSE L

(* _schedule                                                                *)
Scheduled(L, key, force, foreground) ==
  LET F == IF foreground THEN OnFocus(L, key) ELSE L
      token == NewToken(F, key, force)
      next == Successor(F, key, token)
      C == IF key = F.active.key /\ token # F.active.token THEN Cancelled(F) ELSE F
  IN  IF L.closed THEN L
      ELSE IF F.focus \notin {NoKey, key} THEN F
      ELSE IF ~Ready(key[1]) THEN (IF key = F.active.key THEN Cancelled(F) ELSE F)
      ELSE IF ~force /\ key \in DOMAIN C.completed /\ C.completed[key] = next THEN C
      ELSE Queued(C, key, next)

Hear ==
  /\ calls # <<>>
  /\ LET c == Head(calls) IN loop' = Scheduled(loop, c.key, c.force, c.foreground)
  /\ calls' = Tail(calls)
  /\ UNCHANGED <<shelf, run, bank, bought, restarts, events>>

-----------------------------------------------------------------------------
(* The runner. It takes a key, waits, captures what it will work from, and  *)
(* prepares in a thread of its own while the loop goes on.                  *)

At(pc) == [run EXCEPT !.pc = pc]
others == <<shelf, calls, loop, restarts, events>>

Get ==
  /\ run.pc = "get" /\ ~loop.closed /\ loop.queue # <<>>
  /\ LET key == Head(loop.queue)
     IN  /\ loop' = [loop EXCEPT !.queue = Tail(@),
                        !.active = [key |-> key, cancelled |-> FALSE,
                                    token |-> IF key \in DOMAIN loop.pending THEN loop.pending[key]
                                              ELSE NoToken]]
         /\ run' = [Waiting EXCEPT !.pc = "capture"]
  /\ UNCHANGED <<shelf, calls, bank, bought, restarts, events>>

(* After the delay: PreparationScope.capture under a short lease.           *)
Capture ==
  /\ run.pc = "capture"
  /\ LET b == loop.active.key[1]
         fresh == ~loop.active.cancelled /\ shelf[b].on /\ KeyOf(b) = loop.active.key /\ HighWater(b) > 0
     IN  run' = IF fresh THEN [run EXCEPT !.pc = "recap", !.s = Scope(b, HighWater(b))]
                ELSE [run EXCEPT !.pc = "settle", !.good = FALSE]
  /\ UNCHANGED <<others, bank, bought>>

(* scope.check: the priority check, and the one of the source.              *)
StillOpen == ~loop.closed /\ Unchanged(run.s)
First == StillOpen /\ ~loop.active.cancelled /\ shelf[run.s.b].mark = run.s.at
Same == StillOpen /\ Scope(run.s.b, run.s.at) = run.s

Stale == [run EXCEPT !.pc = "settle", !.good = FALSE]
(* Inside the `try` of prepare a stale scope goes through its `finally`.    *)
Abandoned == [run EXCEPT !.pc = "mark", !.good = FALSE]
Unfinished == [run EXCEPT !.pc = "mark", !.good = FALSE]
Failed == [run EXCEPT !.pc = "mark", !.good = FALSE, !.fault = TRUE]

(* The recap first: it is what a returning reader opens. It is a request    *)
(* like the reader's own (ReaderAnswers); if it fails the answers are       *)
(* prepared all the same.                                                   *)
WarmRecap ==
  /\ run.pc = "recap"
  /\ run' = IF First THEN At("recapping") ELSE Stale
  /\ UNCHANGED <<others, bank, bought>>

(* Then, unless it was done before: preparation_facts, of which there may   *)
(* be none, and a plan that an earlier attempt has left.                    *)
RecapOver ==
  /\ run.pc = "recapping"
  /\ run' \in IF ~First THEN {Stale}
              ELSE IF run.s \in attempted THEN {At("end")}
              ELSE IF ~Same THEN {Abandoned}
              ELSE {Unfinished, At(IF run.s \notin DOMAIN plans THEN "plan"
                                   ELSE IF plans[run.s] THEN "question" ELSE "review")}
  /\ UNCHANGED <<others, bank, bought>>

Times(x) == IF x \in DOMAIN bought THEN bought[x] ELSE 0
Paid(what) == bought' = With(bought, <<what, run.s>>, Times(<<what, run.s>>) + 1)

(* The two paid calls: the plan, and its review. The reservation checks the *)
(* scope in the transaction that admits the spend.                          *)
Call(pc, then) ==
  /\ run.pc = pc
  /\ \/ First /\ Same /\ run' = At(then) /\ Paid(pc)
     \/ run' = (IF First /\ Same THEN Failed ELSE Abandoned) /\ UNCHANGED bought
  /\ UNCHANGED <<others, bank>>

Plan == Call("plan", "planned")
Review == Call("review", "reviewed")

(* The checkpoint is for the source it was made from, wherever the reader's *)
(* attention is by now, and only while the reader is at that chapter. One   *)
(* plan per incarnation is kept.                                            *)
MaySave_onlyInFocus == First /\ Same
MaySave == Same
OfLife(s) == {p \in DOMAIN plans : p.b = s.b /\ p.inc = s.inc}
Checkpoint(reviewed) ==
  IF shelf[run.s.b].mark = run.s.at
  THEN plans' = With(Less(plans, OfLife(run.s)), run.s, reviewed)
  ELSE UNCHANGED plans

SavePlan ==
  /\ run.pc = "planned"
  /\ IF MaySave THEN Checkpoint(FALSE) /\ run' \in {At("review"), Unfinished}
     ELSE run' = Abandoned /\ UNCHANGED plans
  /\ UNCHANGED <<others, banked, attempted, bought>>

SaveReview ==
  /\ run.pc = "reviewed"
  /\ IF MaySave THEN Checkpoint(TRUE) /\ run' \in {At("question"), At("mark")}
     ELSE run' = Abandoned /\ UNCHANGED plans
  /\ UNCHANGED <<others, banked, attempted, bought>>

AskQuestion ==
  /\ run.pc = "question"
  /\ run' = IF ~(First /\ Same) THEN Abandoned
            ELSE IF run.s \in banked THEN At("mark") ELSE At("asking")
  /\ UNCHANGED <<others, bank, bought>>

(* The call comes back: cleared, refused, or failed. What was cleared goes  *)
(* to the bank if its source is still the same, whatever the reader reads.  *)
MayBank_onlyInFocus == First /\ Same
MayBank == Same
Answer ==
  /\ run.pc = "asking"
  /\ \/ /\ Paid("answer")
        /\ IF MayBank THEN banked' = banked \union {run.s} /\ run' = At("mark")
           ELSE run' = Abandoned /\ UNCHANGED banked
     \/ run' \in {At("mark"), IF First THEN Unfinished ELSE Abandoned} /\ UNCHANGED <<banked, bought>>
  /\ UNCHANGED <<others, plans, attempted>>

(* The `finally`: the attempt is marked unless the scope is stale; the plan *)
(* of one that did not finish is kept.                                      *)
Mark ==
  /\ run.pc = "mark"
  /\ IF First /\ Same
     THEN /\ attempted' = attempted \union {run.s}
          /\ plans' = IF run.good THEN Less(plans, OfLife(run.s)) ELSE plans
          /\ run' = [run EXCEPT !.pc = IF run.fault THEN "settle" ELSE "end", !.good = TRUE]
     ELSE run' = Stale /\ UNCHANGED <<attempted, plans>>
  /\ UNCHANGED <<others, banked, bought>>

(* What went through or failed is complete, what was cancelled is not.      *)
Good == run.good /\ (run.pc = "end" => First /\ Same)
Rested ==
  LET A == loop.active
      L == [loop EXCEPT !.pending = Less(@, {A.key}), !.active = NoActive]
  IN  IF Good /\ ~A.cancelled THEN [L EXCEPT !.completed = With(@, A.key, A.token)] ELSE L

(* The `finally` of _run: what was asked for meanwhile is scheduled again.  *)
Settled_forgetsLater == Rested
Settled ==
  LET A == loop.active
  IN  IF A.key \in DOMAIN loop.pending /\ loop.pending[A.key] # A.token
      THEN Scheduled(Rested, A.key, TRUE, FALSE) ELSE Rested

Settle ==
  /\ run.pc \in {"end", "settle"}
  /\ loop' = Settled
  /\ run' = Waiting
  /\ UNCHANGED <<shelf, calls, bank, bought, restarts, events>>

Runner == \/ Get \/ Capture \/ WarmRecap \/ RecapOver \/ Plan \/ SavePlan
              \/ Review \/ SaveReview \/ AskQuestion \/ Answer \/ Mark \/ Settle

-----------------------------------------------------------------------------
(* What happens to the books, and whom it wakes.                            *)

Told == Event /\ Len(calls) < MaxCalls
Notify(b, force, foreground) == calls' = Append(calls, Notice(b, force, foreground))
Outside == <<loop, run, bought, restarts>>

ReportCalls(b) == Told /\ Reported(b) /\ Notify(b, FALSE, TRUE) /\ UNCHANGED <<Outside, bank>>
IngestedCalls(b) == CaughtUp(b) /\ Notify(b, FALSE, FALSE) /\ UNCHANGED <<Outside, bank, events>>
StartAgainCalls(b) == Told /\ StartedAgain(b) /\ Notify(b, FALSE, TRUE) /\ UNCHANGED <<Outside, bank>>
CorrectCalls(b) == Told /\ Corrected(b) /\ Notify(b, TRUE, FALSE) /\ UNCHANGED <<Outside, bank>>
ImportAnew(b) == Told /\ Imported(b) /\ UNCHANGED <<Outside, bank, calls>>

(* invalidate_book                                                          *)
DeleteBank(b) ==
  /\ Told /\ Removed(b)
  /\ plans' = Less(plans, OfBook(b, DOMAIN plans))
  /\ banked' = banked \ OfBook(b, banked)
  /\ attempted' = attempted \ OfBook(b, attempted)
  /\ UNCHANGED <<Outside, calls>>

(* RecapPrewarmer.close, after which the process ends.                      *)
Close ==
  /\ Told /\ restarts < MaxRestarts /\ ~loop.closed
  /\ loop' = [Cancelled(loop) EXCEPT !.closed = TRUE, !.queue = <<>>,
                 !.pending = Less(@, DOMAIN @ \ {loop.active.key})]
  /\ UNCHANGED <<shelf, calls, run, bank, bought, restarts>>

(* The process dies or has ended, and starts: the bank is read from its     *)
(* file, every book that has been read is prepared, nothing has focus.      *)
RestartPreparation ==
  /\ Told /\ restarts < MaxRestarts /\ restarts' = restarts + 1
  /\ loop' = NewLoop /\ run' = Waiting
  /\ LET read == SetToSeq({b \in Books : shelf[b].on /\ shelf[b].mark > 0})
     IN  calls' = [i \in DOMAIN read |-> Notice(read[i], FALSE, FALSE)]
  /\ UNCHANGED <<shelf, bank, bought>>

PreparationNext ==
  \/ Hear \/ Runner \/ Close \/ RestartPreparation
  \/ \E b \in Books : \/ ReportCalls(b) \/ IngestedCalls(b) \/ StartAgainCalls(b)
                      \/ CorrectCalls(b) \/ DeleteBank(b) \/ ImportAnew(b)

(* The loop runs what it is given, providers answer or time out, and the    *)
(* worker catches up; nobody has to read.                                   *)
PreparationFairness ==
  /\ WF_preparationVars(Hear) /\ WF_preparationVars(Runner)
  /\ \A b \in Books : WF_preparationVars(IngestedCalls(b))

PreparationSpec == PreparationInit /\ [][PreparationNext]_preparationVars
FairPreparation == PreparationSpec /\ PreparationFairness

-----------------------------------------------------------------------------
(* Properties.                                                              *)

(* A plan, its review and an answer are paid for once for the same book,    *)
(* pass, chapter and memory: a reader who goes back and forth between       *)
(* books, and a preparation that is cancelled at any point, find them in    *)
(* the bank; only a process that ends between the provider's answer and the *)
(* bank's write pays again.                                                 *)
BoughtOnce == \A x \in DOMAIN bought : bought[x] <= 1 + restarts

(* No request is lost between the queue and its pending token: what is      *)
(* pending is queued or being worked on, once.                              *)
NothingLost ==
  /\ \A key \in DOMAIN loop.pending :
        key = loop.active.key \/ key \in ToSet(loop.queue)
  /\ IsInjective(loop.queue)
  /\ \A i \in DOMAIN loop.queue : loop.queue[i] \in DOMAIN loop.pending

(* No request for a preparation is lost, and none is paid for twice        *)
(* (RecapPrewarmer, reader_prepare.prepare, AnswerBank).                   *)
PreparedOnce == BoughtOnce /\ NothingLost

Behind(b) ==
  LET key == KeyOf(b)
  IN  /\ loop.focus = key /\ Ready(b) /\ ~loop.closed /\ calls = <<>>
      /\ key \notin DOMAIN loop.completed \/ ~SameBase(loop.completed[key], b)

(* The book the reader is in gets prepared for where the reader is, or an   *)
(* attempt has failed, whatever was scheduled, cancelled and scheduled      *)
(* again before.                                                            *)
FocusPrepared == \A b \in Books : Behind(b) ~> ~Behind(b)

=============================================================================
