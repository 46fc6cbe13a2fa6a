----------------------------- MODULE HostedJobs -----------------------------
(***************************************************************************)
(* The hosted ingestion queue: the rows of `jobs`, `job_attempts`,         *)
(* `cost_reservations` and `cost_ledger`, the worker processes that lease  *)
(* jobs from them (app/hosted/jobs.py, app/hosted/worker.py), and the      *)
(* owner's requests that change the same rows (app/hosted/tenant).         *)
(*                                                                         *)
(* One repository method is one PostgreSQL transaction.  Its `now()` is    *)
(* the time the transaction began, which is before it gets the row locks:  *)
(* so a method of a worker is two actions, Begin, which holds the lease    *)
(* against the clock, and the method's body.  `run_after` only delays and  *)
(* is left out: a retry may be claimed at once, as a delay of zero allows. *)
(***************************************************************************)
EXTENDS Naturals, Sequences, FiniteSets, Functions

CONSTANTS
    Workers,            \* worker processes
    Jobs,               \* ingest_book jobs, one per uploaded book
    Asks,               \* interactive provider calls, each made once
    Owners,
    Owner,              \* whose job or call it is
    Chapters,           \* chapters a handler may commit
    MaxAttempts,        \* jobs.max_attempts
    MaxConcurrency,     \* owner_limits.max_provider_concurrency
    MaxActiveJobs,      \* owner_limits.max_active_jobs
    Ceiling,            \* owner_limits.max_spend_usd
    ChapterUsd,         \* what a handler reserves for a chapter
    AskUsd,             \* what an interactive call reserves
    Bills               \* bound: what a chapter can cost in the end

ASSUME SetsAssumption == IsFiniteSet(Jobs) /\ IsFiniteSet(Asks) /\ IsFiniteSet(Chapters)
ASSUME OwnerAssumption == Owner \in [Jobs \cup Asks -> Owners] /\ Jobs \cap Asks = {}
ASSUME LimitsAssumption == /\ {MaxAttempts, MaxConcurrency, MaxActiveJobs} \subseteq Nat \ {0}
                           /\ {Ceiling, ChapterUsd, AskUsd} \cup Bills \subseteq Nat

ASSUME NoChapterAssumption == 0 \notin Chapters

VARIABLES
    job,        \* jobs: state, cancellation_requested_at
    tries,      \* job_attempts: the outcomes of a job's attempts, in order
    lease,      \* lease_expires_at > now() for the open attempt
    rsv,        \* cost_reservations of a job, by chapter
    bill,       \* cost_ledger: usd of a job's rows, by chapter
    receipts,   \* ingested_chapters of the job's book
    deleted,    \* jobs whose book is soft-deleted
    ask,        \* the interactive calls' reservation and ledger rows
    wk          \* the worker processes

vars == <<job, tries, lease, rsv, bill, receipts, deleted, ask, wk>>

spendVars == <<rsv, bill, receipts>>
jobVars   == <<job, tries, lease>>

-----------------------------------------------------------------------------
(* Types *)

Terminal == {"succeeded", "failed", "cancelled"}
Leased   == {"leased", "running"}
Queued   == {"waiting_configuration", "pending"}
States   == {"none"} \cup Queued \cup Leased \cup Terminal

\* Bodies that follow a Begin.
Bodies == {"start", "heartbeat", "reserve", "commit", "succeed", "retry", "abort"}

\* "claimed" is between claim_next and start, "handling" in the handler;
\* "conflict" and "overlimit" are exceptions on their way out of it.
WorkerPC == {"idle", "claimed", "handling", "conflict", "overlimit"} \cup Bodies

IdleWorker == [pc |-> "idle"]

Claims == [pc : WorkerPC \ {"idle"}, j : Jobs, n : 1..MaxAttempts,
           ch : Chapters \cup {0}]

TypeOK ==
    /\ job \in [Jobs -> [state : States, cancel : BOOLEAN]]
    /\ \A j \in Jobs : /\ tries[j] \in Seq({"open", "succeeded", "failed", "expired", "cancelled"})
                       /\ Len(tries[j]) <= MaxAttempts
    /\ lease \in [Jobs -> BOOLEAN]
    /\ rsv \in [Jobs -> [Chapters -> {"none", "reserved", "settled"}]]
    /\ bill \in [Jobs -> [Chapters -> Bills \cup {0}]]
    /\ receipts \in [Jobs -> SUBSET Chapters]
    /\ deleted \in SUBSET Jobs
    /\ ask \in [Asks -> [state : {"none", "open", "settled", "lost"}, usd : 0..AskUsd]]
    /\ wk \in [Workers -> {IdleWorker} \cup Claims]

Init ==
    /\ job = [j \in Jobs |-> [state |-> "none", cancel |-> FALSE]]
    /\ tries = [j \in Jobs |-> <<>>]
    /\ lease = [j \in Jobs |-> FALSE]
    /\ rsv = [j \in Jobs |-> [c \in Chapters |-> "none"]]
    /\ bill = [j \in Jobs |-> [c \in Chapters |-> 0]]
    /\ receipts = [j \in Jobs |-> {}]
    /\ deleted = {}
    /\ ask = [k \in Asks |-> [state |-> "none", usd |-> 0]]
    /\ wk = [w \in Workers |-> IdleWorker]

-----------------------------------------------------------------------------
(* What the queries read *)

\* Faulty variants, named <definition>_<what is wrong>, stand before the
\* definitions they would replace; no specification uses them.

OwnedJobs(o) == {j \in Jobs : Owner[j] = o}
OwnedAsks(o) == {k \in Asks : Owner[k] = o}

\* The owner's jobs that count as provider concurrency, given the job rows.
Active(o, rows) == {j \in OwnedJobs(o) : rows[j].state \in Leased}

\* The jobs that count against max_active_jobs.
Admitted(o) == {j \in OwnedJobs(o) : job[j].state \in Queued \cup Leased}

Reserved(o) == {x \in OwnedJobs(o) \X Chapters : rsv[x[1]][x[2]] = "reserved"}
OpenAsks(o) == {k \in OwnedAsks(o) : ask[k].state \in {"open", "lost"}}

\* What the ledger says the owner has spent.
Ledger(o) ==
    SumFunction([x \in OwnedJobs(o) \X Chapters |-> bill[x[1]][x[2]]])
    + SumFunction([k \in {a \in OwnedAsks(o) : ask[a].state = "settled"} |-> ask[k].usd])

\* Ledger and open reservations together.
Usage(o) == Ledger(o) + ChapterUsd * Cardinality(Reserved(o)) + AskUsd * Cardinality(OpenAsks(o))

\* _locked_lease, once the row locks are granted: the attempt is still open.
HoldsLease(w) == tries[wk[w].j][wk[w].n] = "open"

\* The attempt of worker w is finished with this outcome.
Finish_leftOpen(w, outcome) == tries
Finish(w, outcome) == [tries EXCEPT ![wk[w].j][wk[w].n] = outcome]

Close(j, state) == [job EXCEPT ![j].state = state]

Goto(w, pc) == wk' = [wk EXCEPT ![w].pc = pc]
Return(w)   == wk' = [wk EXCEPT ![w] = IdleWorker]

-----------------------------------------------------------------------------
(* claim_next *)

\* Attempts whose lease has run out, and what _recover_expired makes of one.
Expired_leasedOnly == {j \in Jobs : job[j].state = "leased" /\ ~lease[j]}
Expired == {j \in Jobs : job[j].state \in Leased /\ ~lease[j]}

Recovered(j) ==
    IF job[j].cancel THEN [job[j] EXCEPT !.state = "cancelled"]
    ELSE IF Len(tries[j]) >= MaxAttempts THEN [job[j] EXCEPT !.state = "failed"]
    ELSE [job[j] EXCEPT !.state = "pending"]

\* The jobs claim_next may pick, given the job rows after recovery.
Claimable_anyOwnerLoad(rows) ==
    {j \in Jobs : rows[j].state = "pending" /\ ~rows[j].cancel
                  /\ Len(tries[j]) < MaxAttempts}
Claimable(rows) ==
    {j \in Jobs : /\ rows[j].state = "pending" /\ ~rows[j].cancel
                  /\ Len(tries[j]) < MaxAttempts
                  /\ Cardinality(Active(Owner[j], rows)) < MaxConcurrency}

\* Rows another worker's transaction may hold: SKIP LOCKED passes them over.
Locked(w) == {wk[v].j : v \in {u \in Workers \ {w} : wk[u].pc \in Bodies}}

\* Recover what has expired and lease one job.  `R` are the expired jobs no
\* other transaction holds; the order among claimable jobs is left open.
Claim(w) ==
    /\ wk[w].pc = "idle"
    /\ \E skipped \in SUBSET (Locked(w) \cap Expired) :
        LET R    == Expired \ skipped
            rows == [j \in Jobs |-> IF j \in R THEN Recovered(j) ELSE job[j]]
            ended == [j \in Jobs |->
                        IF j \in R THEN [tries[j] EXCEPT ![Len(tries[j])] = "expired"]
                        ELSE tries[j]]
        IN IF Claimable(rows) = {}
           THEN /\ job' = rows
                /\ tries' = ended
                /\ UNCHANGED <<lease, wk>>
           ELSE \E j \in Claimable(rows) :
                /\ job' = [rows EXCEPT ![j].state = "leased"]
                /\ tries' = [ended EXCEPT ![j] = Append(@, "open")]
                /\ lease' = [lease EXCEPT ![j] = TRUE]
                /\ wk' = [wk EXCEPT ![w] = [pc |-> "claimed", j |-> j, n |-> Len(tries[j]) + 1,
                                            ch |-> 0]]
    /\ UNCHANGED <<spendVars, deleted, ask>>

-----------------------------------------------------------------------------
(* run_once after the claim.  The handler is external: it may reserve and  *)
(* commit chapters in any order, heartbeat, return, or raise.              *)

\* The transaction of the next method begins; its now() is fixed.  With the
\* lease run out by then, or the attempt closed, it can only end in
\* LostLeaseError, which run_once swallows.
Begin(w, body, c) ==
    /\ \/ wk[w].pc = "claimed" /\ body = "start"
       \/ wk[w].pc = "handling" /\ body \in Bodies \ {"start"}
       \/ wk[w].pc = "conflict" /\ body = "retry"
       \/ wk[w].pc = "overlimit" /\ body = "abort"
    /\ (c # 0) <=> (body \in {"reserve", "commit"})
    /\ IF HoldsLease(w) /\ lease[wk[w].j]
       THEN wk' = [wk EXCEPT ![w].pc = body, ![w].ch = c]
       ELSE Return(w)
    /\ UNCHANGED <<jobVars, spendVars, deleted, ask>>

\* The attempt was closed while the transaction waited: LostLeaseError.
LoseLease(w) ==
    /\ wk[w].pc \in Bodies
    /\ ~HoldsLease(w)
    /\ Return(w)
    /\ UNCHANGED <<jobVars, spendVars, deleted, ask>>

\* The same error for a job that is no longer running, or being cancelled:
\* reserve_spend and commit_chapter refuse it.
Refused_onlyState(w) == job[wk[w].j].state # "running"
Refused(w) == job[wk[w].j].state # "running" \/ job[wk[w].j].cancel
Ineligible(w) ==
    /\ wk[w].pc \in {"reserve", "commit"}
    /\ HoldsLease(w)
    /\ Refused(w)
    /\ Return(w)
    /\ UNCHANGED <<jobVars, spendVars, deleted, ask>>

\* start
Start(w) ==
    /\ wk[w].pc = "start"
    /\ HoldsLease(w)
    /\ LET j == wk[w].j
       IN IF job[j].cancel
          THEN /\ job' = Close(j, "cancelled")
               /\ tries' = Finish(w, "cancelled")
               /\ lease' = [lease EXCEPT ![j] = FALSE]
               /\ Return(w)
          ELSE /\ job[j].state = "leased"
               /\ job' = [job EXCEPT ![j].state = "running"]
               /\ Goto(w, "handling")
               /\ UNCHANGED <<tries, lease>>
    /\ UNCHANGED <<spendVars, deleted, ask>>

\* heartbeat: the lease is renewed, the handler learns of a cancellation.
Heartbeat(w) ==
    /\ wk[w].pc = "heartbeat"
    /\ HoldsLease(w)
    /\ lease' = [lease EXCEPT ![wk[w].j] = TRUE]
    /\ Goto(w, "handling")
    /\ UNCHANGED <<job, tries, spendVars, deleted, ask>>

\* The owner can pay for usd more.
Affordable(o, usd) == Usage(o) + usd <= Ceiling

\* reserve_spend: a reservation of this key is reused while it is open.
ReserveSpend(w) ==
    /\ wk[w].pc = "reserve"
    /\ HoldsLease(w)
    /\ ~Refused(w)
    /\ LET j == wk[w].j
           c == wk[w].ch
       IN CASE rsv[j][c] = "reserved" -> Goto(w, "handling") /\ UNCHANGED rsv
            [] rsv[j][c] = "settled" -> Goto(w, "conflict") /\ UNCHANGED rsv
            [] OTHER ->
                 IF Affordable(Owner[j], ChapterUsd)
                 THEN rsv' = [rsv EXCEPT ![j][c] = "reserved"] /\ Goto(w, "handling")
                 ELSE Goto(w, "overlimit") /\ UNCHANGED rsv
    /\ UNCHANGED <<jobVars, bill, receipts, deleted, ask>>

\* The actual bill fits under the ceiling in place of the reservation.
BillFits_unchecked(o, usd) == TRUE
BillFits(o, usd) == Usage(o) - ChapterUsd + usd <= Ceiling

\* What commit_chapter's transaction leaves of the reservation.
SettledBy_keepsOpen(w) == rsv
SettledBy(w) == [rsv EXCEPT ![wk[w].j][wk[w].ch] = "settled"]

\* commit_chapter: a receipt makes it a no-op; otherwise chapter, ledger row,
\* settlement and, last, the receipt are one transaction.
CommitChapter(w) ==
    /\ wk[w].pc = "commit"
    /\ HoldsLease(w)
    /\ ~Refused(w)
    /\ LET j == wk[w].j
           c == wk[w].ch
       IN IF c \in receipts[j]
          THEN Goto(w, "handling") /\ UNCHANGED spendVars
          ELSE IF rsv[j][c] # "reserved"
          THEN /\ Goto(w, IF rsv[j][c] = "none" THEN "overlimit" ELSE "conflict")
               /\ UNCHANGED spendVars
          ELSE \E usd \in Bills :
               IF BillFits(Owner[j], usd)
               THEN /\ rsv' = SettledBy(w)
                    /\ bill' = [bill EXCEPT ![j][c] = usd]
                    /\ receipts' = [receipts EXCEPT ![j] = @ \cup {c}]
                    /\ Goto(w, "handling")
               ELSE Goto(w, "overlimit") /\ UNCHANGED spendVars
    /\ UNCHANGED <<jobVars, deleted, ask>>

\* succeed
Succeed(w) ==
    /\ wk[w].pc = "succeed"
    /\ HoldsLease(w)
    /\ LET end == IF job[wk[w].j].cancel THEN "cancelled" ELSE "succeeded"
       IN /\ job' = Close(wk[w].j, end)
          /\ tries' = Finish(w, end)
    /\ lease' = [lease EXCEPT ![wk[w].j] = FALSE]
    /\ Return(w)
    /\ UNCHANGED <<spendVars, deleted, ask>>

\* fail: a retryable failure with attempts left goes back to the queue, later.
Failed_retriesCancelled(j, retryable) ==
    IF retryable /\ Len(tries[j]) < MaxAttempts THEN [job[j] EXCEPT !.state = "pending"]
    ELSE IF job[j].cancel THEN [job[j] EXCEPT !.state = "cancelled"]
    ELSE [job[j] EXCEPT !.state = "failed"]
Failed(j, retryable) ==
    IF job[j].cancel THEN [job[j] EXCEPT !.state = "cancelled"]
    ELSE IF retryable /\ Len(tries[j]) < MaxAttempts
    THEN [job[j] EXCEPT !.state = "pending"]
    ELSE [job[j] EXCEPT !.state = "failed"]
Fail(w) ==
    /\ wk[w].pc \in {"retry", "abort"}
    /\ HoldsLease(w)
    /\ job' = [job EXCEPT ![wk[w].j] = Failed(wk[w].j, wk[w].pc = "retry")]
    /\ tries' = Finish(w, "failed")
    /\ lease' = [lease EXCEPT ![wk[w].j] = FALSE]
    /\ Return(w)
    /\ UNCHANGED <<spendVars, deleted, ask>>

\* The worker process dies; a transaction it had begun is rolled back.
Crash(w) ==
    /\ wk[w].pc # "idle"
    /\ Return(w)
    /\ UNCHANGED <<jobVars, spendVars, deleted, ask>>

-----------------------------------------------------------------------------
(* Time *)

\* lease_expires_at passes.
Lapse(j) ==
    /\ job[j].state \in Leased
    /\ lease[j]
    /\ lease' = [lease EXCEPT ![j] = FALSE]
    /\ UNCHANGED <<job, tries, spendVars, deleted, ask, wk>>

-----------------------------------------------------------------------------
(* The owner's requests, each one transaction *)

\* create_uploaded_book: the book's job is made with it, ready to run if an
\* extraction credential is.
Upload(j, ready) ==
    /\ job[j].state = "none"
    /\ Cardinality(Admitted(Owner[j])) < MaxActiveJobs
    /\ job' = Close(j, IF ready THEN "pending" ELSE "waiting_configuration")
    /\ UNCHANGED <<tries, lease, spendVars, deleted, ask, wk>>

\* record_provider_validation: the owner's waiting jobs are released.
Configure(o) ==
    /\ \E j \in OwnedJobs(o) : job[j].state = "waiting_configuration"
    /\ job' = [j \in Jobs |->
                IF Owner[j] = o /\ job[j].state = "waiting_configuration" /\ ~job[j].cancel
                THEN [job[j] EXCEPT !.state = "pending"] ELSE job[j]]
    /\ UNCHANGED <<tries, lease, spendVars, deleted, ask, wk>>

\* replace_credential, delete_credential, upsert_provider_setting: the owner's
\* pending jobs wait for a configuration again.
Reconfigure(o) ==
    /\ \E j \in OwnedJobs(o) : job[j].state = "pending"
    /\ job' = [j \in Jobs |->
                IF Owner[j] = o /\ job[j].state = "pending"
                THEN [job[j] EXCEPT !.state = "waiting_configuration"] ELSE job[j]]
    /\ UNCHANGED <<tries, lease, spendVars, deleted, ask, wk>>

\* A job nobody runs is cancelled at once, a leased one is asked to stop.
CancelRequested(j) ==
    IF job[j].state \in Queued THEN [job[j] EXCEPT !.state = "cancelled", !.cancel = TRUE]
    ELSE [job[j] EXCEPT !.cancel = TRUE]

\* cancel_job
Cancel_alsoFinished(j) ==
    /\ job[j].state # "none"
    /\ job' = IF job[j].state \in Terminal THEN Close(j, "cancelled")
              ELSE [job EXCEPT ![j] = CancelRequested(j)]
    /\ UNCHANGED <<tries, lease, spendVars, deleted, ask, wk>>
Cancel(j) ==
    /\ job[j].state \in Queued \cup Leased
    /\ job' = [job EXCEPT ![j] = CancelRequested(j)]
    /\ UNCHANGED <<tries, lease, spendVars, deleted, ask, wk>>

\* soft_delete_book
Delete(j) ==
    /\ job[j].state # "none"
    /\ j \notin deleted
    /\ deleted' = deleted \cup {j}
    /\ job' = IF job[j].state \in Terminal THEN job
              ELSE [job EXCEPT ![j] = CancelRequested(j)]
    /\ UNCHANGED <<tries, lease, spendVars, ask, wk>>

\* reserve_provider_call: the owner's open reservations of either kind count.
AskAdmitted(o) ==
    /\ Cardinality(Reserved(o)) + Cardinality(OpenAsks(o)) < MaxConcurrency
    /\ Affordable(o, AskUsd)
ReserveCall(k) ==
    /\ ask[k].state = "none"
    /\ AskAdmitted(Owner[k])
    /\ ask' = [ask EXCEPT ![k].state = "open"]
    /\ UNCHANGED <<jobVars, spendVars, deleted, wk>>

\* settle_provider_call: at most what was reserved; a failed call and one that
\* exceeded its reservation are settled at the whole of it.
SettleCall_overrun(k) ==
    /\ ask[k].state = "open"
    /\ \E usd \in 0..(AskUsd + 1) : ask' = [ask EXCEPT ![k] = [state |-> "settled", usd |-> usd]]
    /\ UNCHANGED <<jobVars, spendVars, deleted, wk>>
SettleCall(k) ==
    /\ ask[k].state = "open"
    /\ \E usd \in 0..AskUsd : ask' = [ask EXCEPT ![k] = [state |-> "settled", usd |-> usd]]
    /\ UNCHANGED <<jobVars, spendVars, deleted, wk>>

\* The web process dies, or the request is cancelled, during the call: the
\* reservation stays open for good.
LoseCall(k) ==
    /\ ask[k].state = "open"
    /\ ask' = [ask EXCEPT ![k].state = "lost"]
    /\ UNCHANGED <<jobVars, spendVars, deleted, wk>>

-----------------------------------------------------------------------------
(* Specification *)

Body(w) == \/ LoseLease(w) \/ Ineligible(w) \/ Start(w) \/ Heartbeat(w) \/ ReserveSpend(w)
           \/ CommitChapter(w) \/ Succeed(w) \/ Fail(w)

\* The handler returns or raises, or run_once goes on to start or fail.
Conclude(w) == \E body \in {"start", "succeed", "retry", "abort"} : Begin(w, body, 0)

Work(w) == \/ Claim(w)
           \/ \E body \in Bodies, c \in Chapters \cup {0} : Begin(w, body, c)
           \/ Body(w)
           \/ Crash(w)

Request == \/ \E j \in Jobs : Cancel(j) \/ Delete(j) \/ \E ready \in BOOLEAN : Upload(j, ready)
           \/ \E o \in Owners : Configure(o) \/ Reconfigure(o)
           \/ \E k \in Asks : ReserveCall(k) \/ SettleCall(k) \/ LoseCall(k)

Next == \/ \E w \in Workers : Work(w)
        \/ \E j \in Jobs : Lapse(j)
        \/ Request

\* A lease nobody can renew any more.
Unattended(j) ==
    ~\E w \in Workers : wk[w].pc # "idle" /\ wk[w].j = j /\ wk[w].n = Len(tries[j])

\* run_forever polls; a transaction that began ends; a handler call returns or
\* raises sooner or later, however often it heartbeats; a lease whose worker is
\* gone expires.  Owners owe nothing.
Fairness ==
    /\ \A w \in Workers : WF_vars(Claim(w)) /\ WF_vars(Body(w)) /\ SF_vars(Conclude(w))
    /\ \A j \in Jobs : WF_vars(Unattended(j) /\ Lapse(j))

Spec == Init /\ [][Next]_vars
FairSpec == Spec /\ Fairness

-----------------------------------------------------------------------------
(* Properties *)

\* One worker at a time: a job is leased or running exactly while its latest
\* attempt, and no other, is open (the partial unique index of job_attempts).
OneOpenLease ==
    \A j \in Jobs :
        /\ job[j].state \in Leased <=> (tries[j] # <<>> /\ tries[j][Len(tries[j])] = "open")
        /\ \A n \in 1..Len(tries[j]) : tries[j][n] = "open" => n = Len(tries[j])

\* Across all worker processes an owner never has more jobs leased than
\* max_provider_concurrency, and uploads, retries, recoveries and
\* reconfigurations together never leave it with more unfinished jobs than
\* max_active_jobs admits.
LimitsHold ==
    \A o \in Owners : /\ Cardinality(Active(o, job)) <= MaxConcurrency
                     /\ Cardinality(Admitted(o)) <= MaxActiveJobs

\* Leases are held by one worker each, and are no more than the owner may have
\* (claim_next, _recover_expired).
LeasesHold == OneOpenLease /\ LimitsHold

\* The spend ceiling holds at every moment for what is billed and what may
\* still be billed, whoever crashed in between.
CeilingHolds == \A o \in Owners : Usage(o) <= Ceiling

\* A chapter is published if and only if it was paid for, once: its reservation
\* is settled exactly when it has its receipt, over all attempts of the job.
PaidOnce ==
    \A j \in Jobs, c \in Chapters :
        /\ c \in receipts[j] <=> rsv[j][c] = "settled"
        /\ c \notin receipts[j] => bill[j][c] = 0

\* What the provider may bill stays below the ceiling, and a published chapter is
\* paid for once (reserve_spend, commit_chapter).
SpendHolds == TypeOK /\ CeilingHolds /\ PaidOnce

\* A cancellation is never lost: the job ends cancelled, whichever of start,
\* succeed, fail, recovery and delete gets to it.
CancelledEndsCancelled ==
    \A j \in Jobs : job[j].cancel /\ job[j].state \notin Leased => job[j].state = "cancelled"

\* Once a cancellation is recorded or the book is deleted, nothing of the job is
\* reserved, billed or published any more.
NothingAfterCancel ==
    [][\A j \in Jobs : job[j].cancel \/ j \in deleted =>
            /\ receipts'[j] = receipts[j]
            /\ bill'[j] = bill[j]
            /\ rsv'[j] = rsv[j]]_vars

\* What is finished stays finished: no straggler's fail or succeed changes a
\* terminal job, or rewrites how an earlier attempt ended.
FinishedStays ==
    \A j \in Jobs :
        /\ job[j].state \in Terminal => job'[j].state = job[j].state
        /\ \A n \in 1..Len(tries[j]) : tries[j][n] # "open" => tries'[j][n] = tries[j][n]

\* How a job ended is final, and a cancelled one ends cancelled (_cancel_locked,
\* succeed, fail, _recover_expired).
EndsHold == [][CancelledEndsCancelled' /\ FinishedStays]_vars

\* Every job that is queued with a configuration comes to an end, or its owner
\* takes the configuration away; whatever workers crash on the way.
EveryJobEnds ==
    \A j \in Jobs : job[j].state \in {"pending"} \cup Leased
                        ~> job[j].state \in Terminal \cup {"waiting_configuration"}

\* What docs/DECISIONS.md says of "worker/provider concurrency": "separate web
\* and worker processes cannot each consume the final unit".  TLC refutes it (README,
\* Findings): no run checks it.
FinalUnitOnce ==
    \A o \in Owners :
        Cardinality({x \in Reserved(o) : job[x[1]].state = "running"})
        + Cardinality({k \in OwnedAsks(o) : ask[k].state = "open"}) <= MaxConcurrency

=============================================================================
