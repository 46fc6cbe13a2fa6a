----------------------------- MODULE CostLedger -----------------------------
(***************************************************************************)
(* Provider spend of one book: the durable reservations and ledger of the  *)
(* catalog (app/catalog/catalog.py), the reserve-call-settle protocol of   *)
(* every provider call (app/cost/limits.py), the chapter extraction that   *)
(* defers its settlement to one receipt (app/ingest/worker.py), and the    *)
(* operator's reconcile (app/cost/__main__.py).                            *)
(*                                                                         *)
(* One amount stands for the three that are limited alike (input tokens,   *)
(* output tokens, USD).  Each catalog transaction is one action.           *)
(***************************************************************************)
EXTENDS Naturals, FiniteSets, FiniteSetsExt, Functions

CONSTANTS
    Ceiling,            \* cost_max_*_per_book
    PrepareCeiling,     \* reader_prepare's own ceiling
    Worst,              \* worst-case estimates a call may reserve
    MaxBilled,          \* most a provider bills for one call
    NumChunks,          \* provider pieces of the chapter
    MaxAttempts,        \* attempts per piece, len(_MALFORMED_RETRY_DELAYS) + 1
    MaxCalls,           \* bound: provider calls
    MaxIncarnations,    \* bound: imports of the book
    MaxCrashes          \* bound: process crashes

ASSUME AmountsAssumption ==
    /\ Ceiling \in Nat /\ PrepareCeiling \in Nat /\ MaxBilled \in Nat
    /\ Worst \subseteq Nat \ {0}
ASSUME CountsAssumption ==
    /\ NumChunks \in Nat \ {0} /\ MaxAttempts \in Nat \ {0}
    /\ MaxCalls \in Nat /\ MaxIncarnations \in Nat /\ MaxCrashes \in Nat

VARIABLES
    shelf,      \* incarnation on the shelf, or 0
    imports,    \* incarnations handed out so far
    reserved,   \* cost_reservations: amount of reservation i, or 0 for no row
    ledger,     \* cost_ledger: amount settled for reservation i, or 0
    receiptRow, \* cost_ledger: the chapter's one 'extraction' row, or 0
    marker,     \* memory.db: the chapter's completion receipt
    call,       \* call[i]: the provider call made under reservation i
    used,       \* reservation ids handed out
    job,        \* the chapter's ingestion, at most one (SingleFlight)
    up,         \* the process runs
    crashes,    \* crashes so far (bound)
    orphaned    \* history: reservations a crash of this shelf lifetime left open

vars == <<shelf, imports, reserved, ledger, receiptRow, marker, call, used, job,
          up, crashes, orphaned>>
tables == <<shelf, imports, reserved, ledger, receiptRow>>

Ids    == 1..MaxCalls
Phases == {"extraction", "reader", "prepare"}

\* A call is "calling" until the provider has "answered"; "noted" when its
\* usage is on the reservation, "over" when that is more than was reserved.
CallPC == {"none", "calling", "answered", "noted", "over", "done"}

NoCall   == [pc |-> "none", phase |-> "reader", inc |-> 0, pass |-> 0,
             worst |-> 0, billed |-> 0]
NoMarker == [ids |-> {}, cost |-> 0]
NoJob    == [pc |-> "idle", inc |-> 0, chunk |-> 1, attempt |-> 1, repair |-> FALSE,
             again |-> FALSE, cur |-> 0, held |-> {}]

TypeOK ==
    /\ shelf \in 0..MaxIncarnations /\ imports \in 0..MaxIncarnations
    /\ reserved \in [Ids -> Nat] /\ ledger \in [Ids -> Nat]
    /\ receiptRow \in Nat
    /\ marker \in [ids : SUBSET Ids, cost : Nat]
    /\ call \in [Ids -> [pc : CallPC, phase : Phases, inc : 0..MaxIncarnations,
                         pass : 0..MaxIncarnations, worst : Worst \cup {0}, billed : 0..MaxBilled]]
    /\ used \in 0..MaxCalls
    /\ job \in [pc : {"idle", "extract", "calling", "review", "abort", "prepare",
                      "commit", "finalize"},
                inc : 0..MaxIncarnations, chunk : 1..NumChunks, attempt : 1..MaxAttempts,
                repair : BOOLEAN, again : BOOLEAN, cur : 0..MaxCalls, held : SUBSET Ids]
    /\ up \in BOOLEAN /\ crashes \in 0..MaxCrashes /\ orphaned \in SUBSET Ids

Init ==
    /\ shelf = 0 /\ imports = 0
    /\ reserved = [i \in Ids |-> 0] /\ ledger = [i \in Ids |-> 0]
    /\ receiptRow = 0 /\ marker = NoMarker
    /\ call = [i \in Ids |-> NoCall] /\ used = 0
    /\ job = NoJob
    /\ up = TRUE /\ crashes = 0 /\ orphaned = {}

-----------------------------------------------------------------------------
(* The catalog's transactions *)

Spent   == receiptRow + SumFunctionOnSet(ledger, Ids)
Pending == SumFunctionOnSet(reserved, Ids)

Preparing == {i \in Ids : call[i].phase = "prepare"}
Prepared  == SumFunctionOnSet(ledger, Preparing) + SumFunctionOnSet(reserved, Preparing)

\* reserve_cost's checks, in the transaction that inserts the row.
Fits_noPrepareCeiling(phase, amount) == Spent + Pending + amount <= Ceiling
Fits(phase, amount) ==
    /\ Spent + Pending + amount <= Ceiling
    /\ phase = "prepare" => Prepared + amount <= PrepareCeiling

\* reserve_cost: the caller has reservation `used + 1` and calls the provider.
Reserve(phase, amount) ==
    /\ used < MaxCalls
    /\ used' = used + 1
    /\ reserved' = [reserved EXCEPT ![used + 1] = amount]
    /\ call' = [call EXCEPT ![used + 1] =
                  [NoCall EXCEPT !.pc = "calling", !.phase = phase,
                                 !.inc = shelf, !.worst = amount,
                                 !.pass = IF phase = "extraction" THEN job.inc ELSE shelf]]

\* settle_cost: the reservation's amount moves to the ledger, row and all; a
\* reservation that is gone raises.
Settle_keepsRow(i) ==
    /\ ledger' = [ledger EXCEPT ![i] = reserved[i]]
    /\ UNCHANGED reserved
Settle(i) ==
    /\ ledger' = [ledger EXCEPT ![i] = IF reserved[i] # 0 THEN reserved[i] ELSE @]
    /\ reserved' = [reserved EXCEPT ![i] = 0]

\* finalize_ingest: the receipt's aggregated row is inserted or replaced, and
\* every extraction reservation of the chapter deleted.
FinalRow      == marker.cost
AfterFinalize == [i \in Ids |-> IF call[i].phase = "extraction" THEN 0 ELSE reserved[i]]

-----------------------------------------------------------------------------
(* The shelf *)

Import ==
    /\ up /\ shelf = 0 /\ imports < MaxIncarnations
    /\ imports' = imports + 1
    /\ shelf' = imports + 1
    /\ UNCHANGED <<reserved, ledger, receiptRow, marker, call, used, job, up, crashes, orphaned>>

\* remove_book: reservations and ledger go with the row; memory.db stays.
Delete ==
    /\ up /\ shelf # 0
    /\ shelf' = 0
    /\ reserved' = [i \in Ids |-> 0]
    /\ ledger' = [i \in Ids |-> 0]
    /\ receiptRow' = 0
    /\ orphaned' = {}
    /\ UNCHANGED <<imports, marker, call, used, job, up, crashes>>

-----------------------------------------------------------------------------
(* One budgeted call, whoever makes it *)

\* The provider has done the work and bills it; the answer may still be lost.
Answer(i) ==
    /\ up /\ call[i].pc = "calling"
    /\ \E b \in 0..MaxBilled : call' = [call EXCEPT ![i].pc = "answered", ![i].billed = b]
    /\ UNCHANGED <<tables, marker, used, job, up, crashes, orphaned>>

\* note_reservation_actual: the estimate gives way to the usage; a provider
\* that reports none is charged the estimate.
Noted(i) == IF call[i].billed = 0 THEN reserved[i] ELSE call[i].billed

CallGoes(i, pc) == call' = [call EXCEPT ![i].pc = pc]

-----------------------------------------------------------------------------
(* Calls of readers and of the preparation: settled as soon as noted *)

ReaderReserve ==
    /\ up /\ shelf # 0
    /\ \E phase \in {"reader", "prepare"}, amount \in Worst :
         Fits(phase, amount) /\ Reserve(phase, amount)
    /\ UNCHANGED <<shelf, imports, ledger, receiptRow, marker, job, up, crashes, orphaned>>

Readers(i) == up /\ call[i].phase # "extraction"

\* The call raises, billed or not: settled at the estimate.
ReaderFails(i) ==
    /\ Readers(i) /\ call[i].pc \in {"calling", "answered"}
    /\ Settle(i)
    /\ CallGoes(i, "done")
    /\ UNCHANGED <<shelf, imports, receiptRow, marker, used, job, up, crashes, orphaned>>

ReaderNotes(i) ==
    /\ Readers(i) /\ call[i].pc = "answered"
    /\ IF reserved[i] = 0
       THEN CallGoes(i, "done") /\ UNCHANGED reserved
       ELSE /\ reserved' = [reserved EXCEPT ![i] = Noted(i)]
            /\ CallGoes(i, IF Noted(i) > call[i].worst THEN "over" ELSE "noted")
    /\ UNCHANGED <<shelf, imports, ledger, receiptRow, marker, used, job, up, crashes, orphaned>>

ReaderSettles(i) ==
    /\ Readers(i) /\ call[i].pc \in {"noted", "over"}
    /\ Settle(i)
    /\ CallGoes(i, "done")
    /\ UNCHANGED <<shelf, imports, receiptRow, marker, used, job, up, crashes, orphaned>>

-----------------------------------------------------------------------------
(* The chapter's ingestion *)

\* _ingest_upto for the chapter: a durable receipt is replayed, an interrupted
\* attempt's reservations refuse the chapter.
Leftover_ignored == FALSE
Leftover == \E i \in Ids : call[i].phase = "extraction" /\ reserved[i] # 0
JobStart ==
    /\ up /\ shelf # 0 /\ job.pc = "idle"
    /\ \/ /\ marker # NoMarker
          /\ job' = [NoJob EXCEPT !.pc = "finalize", !.inc = shelf]
       \/ /\ marker = NoMarker
          /\ ~Leftover
          /\ job' = [NoJob EXCEPT !.pc = "extract", !.inc = shelf]
    /\ UNCHANGED <<tables, marker, call, used, up, crashes, orphaned>>

\* After a malformed piece: once more, or the pass is aborted.
Retried_onceMore(j) ==
    IF j.attempt <= MaxAttempts THEN [j EXCEPT !.pc = "extract", !.attempt = @ + 1, !.cur = 0]
    ELSE [j EXCEPT !.pc = "abort", !.cur = 0]
Retried(j) ==
    IF j.attempt < MaxAttempts THEN [j EXCEPT !.pc = "extract", !.attempt = @ + 1, !.cur = 0]
    ELSE [j EXCEPT !.pc = "abort", !.cur = 0]

Aborted(j) == [j EXCEPT !.pc = "abort", !.cur = 0]

\* reserve_cost asks whether the book exists, not which incarnation it is.
JobReserve ==
    /\ up /\ job.pc = "extract"
    /\ \/ /\ shelf # 0
          /\ \E amount \in Worst : Fits("extraction", amount) /\ Reserve("extraction", amount)
          /\ job' = [job EXCEPT !.pc = "calling", !.cur = used + 1]
       \/ /\ shelf # 0
          /\ \E amount \in Worst : ~Fits("extraction", amount)
          /\ job' = Aborted(job)
          /\ UNCHANGED <<used, reserved, call>>
       \/ /\ shelf = 0
          /\ job' = Retried(job)
          /\ UNCHANGED <<used, reserved, call>>
    /\ UNCHANGED <<shelf, imports, ledger, receiptRow, marker, up, crashes, orphaned>>

\* The call raises: settled at the estimate, then retried or aborted.
JobCallFails ==
    /\ up /\ job.pc = "calling"
    /\ call[job.cur].pc \in {"calling", "answered"}
    /\ Settle(job.cur)
    /\ CallGoes(job.cur, "done")
    /\ job' \in {Retried(job), Aborted(job)}
    /\ UNCHANGED <<shelf, imports, receiptRow, marker, used, up, crashes, orphaned>>

\* The answer is noted; the reservation stays, for the receipt to settle.
JobNotes ==
    /\ up /\ job.pc = "calling"
    /\ call[job.cur].pc = "answered"
    /\ LET i == job.cur
       IN IF reserved[i] = 0
          THEN /\ CallGoes(i, "done")
               /\ job' = Aborted(job)
               /\ UNCHANGED reserved
          ELSE /\ reserved' = [reserved EXCEPT ![i] = Noted(i)]
               /\ IF Noted(i) > call[i].worst
                  THEN CallGoes(i, "over") /\ UNCHANGED job
                  ELSE /\ CallGoes(i, "done")
                       /\ job' = [job EXCEPT !.pc = "review", !.held = @ \cup {i}]
    /\ UNCHANGED <<shelf, imports, ledger, receiptRow, marker, used, up, crashes, orphaned>>

JobOverrun ==
    /\ up /\ job.pc = "calling"
    /\ call[job.cur].pc = "over"
    /\ Settle(job.cur)
    /\ CallGoes(job.cur, "done")
    /\ job' = Aborted(job)
    /\ UNCHANGED <<shelf, imports, receiptRow, marker, used, up, crashes, orphaned>>

\* Validated and cleared by the review: next piece, or prepare the chapter.
JobReviewed ==
    /\ up /\ job.pc = "review"
    /\ job' = IF job.chunk < NumChunks
              THEN [job EXCEPT !.pc = "extract", !.chunk = @ + 1, !.attempt = 1, !.cur = 0]
              ELSE [job EXCEPT !.pc = "prepare", !.cur = 0]
    /\ UNCHANGED <<tables, marker, call, used, up, crashes, orphaned>>

\* Malformed: settled by itself as "extraction-invalid", and no longer held; if
\* it is gone the settlement raises and the pass is aborted with it held.
JobInvalid ==
    /\ up /\ job.pc = "review"
    /\ IF reserved[job.cur] = 0
       THEN job' = Aborted(job) /\ UNCHANGED <<ledger, reserved>>
       ELSE /\ Settle(job.cur)
            /\ job' = Retried([job EXCEPT !.held = @ \ {job.cur}])
    /\ UNCHANGED <<shelf, imports, receiptRow, marker, call, used, up, crashes, orphaned>>

\* The review rejects the grounding (one fresh pass is allowed) or fails.
JobRejected ==
    /\ up /\ job.pc = "review"
    /\ job' \in {[Aborted(job) EXCEPT !.again = ~job.repair], Aborted(job)}
    /\ UNCHANGED <<tables, marker, call, used, up, crashes, orphaned>>

\* The settlement loop of an aborted pass, one transaction at a time, in the
\* order of reservation; the first reservation that is gone ends it.
JobAbort ==
    /\ up /\ job.pc = "abort"
    /\ IF job.held = {}
       THEN /\ job' = IF job.again
                      THEN [NoJob EXCEPT !.pc = "extract", !.inc = job.inc, !.repair = TRUE]
                      ELSE NoJob
            /\ UNCHANGED <<ledger, reserved>>
       ELSE LET i == Min(job.held)
            IN /\ Settle(i)
               /\ job' = IF reserved[i] = 0 THEN NoJob ELSE [job EXCEPT !.held = @ \ {i}]
    /\ UNCHANGED <<shelf, imports, receiptRow, marker, call, used, up, crashes, orphaned>>

\* prepare_chapter, or the commit, raises: the held reservations are settled.
\* A commit of a stale incarnation always does.
JobFails ==
    /\ up /\ job.pc \in {"prepare", "commit"}
    /\ job' = Aborted(job)
    /\ UNCHANGED <<tables, marker, call, used, up, crashes, orphaned>>

JobPrepared ==
    /\ up /\ job.pc = "prepare"
    /\ job' = [job EXCEPT !.pc = "commit"]
    /\ UNCHANGED <<tables, marker, call, used, up, crashes, orphaned>>

\* ingest_chapter: the completion marker carries the aggregated usage.
JobCommits ==
    /\ up /\ job.pc = "commit"
    /\ shelf = job.inc
    /\ marker' = [ids |-> job.held,
                  cost |-> SumFunctionOnSet([i \in Ids |-> IF call[i].billed = 0 THEN call[i].worst
                                                  ELSE call[i].billed], job.held)]
    /\ job' = [job EXCEPT !.pc = "finalize"]
    /\ UNCHANGED <<tables, call, used, up, crashes, orphaned>>

\* finalize_ingest of a current incarnation; a stale one, or a database error,
\* leaves it to the next pass.
JobFinalizes ==
    /\ up /\ job.pc = "finalize"
    /\ \/ /\ shelf # 0 /\ shelf = job.inc
          /\ receiptRow' = FinalRow
          /\ reserved' = AfterFinalize
       \/ UNCHANGED <<receiptRow, reserved>>
    /\ job' = NoJob
    /\ UNCHANGED <<shelf, imports, ledger, marker, call, used, up, crashes, orphaned>>

-----------------------------------------------------------------------------
(* The process *)

\* Whoever was calling is gone; the tables keep what was committed.
Crash ==
    /\ up /\ crashes < MaxCrashes
    /\ up' = FALSE
    /\ crashes' = crashes + 1
    /\ call' = [i \in Ids |-> IF call[i].pc = "none" THEN call[i]
                              ELSE [call[i] EXCEPT !.pc = "done"]]
    /\ job' = NoJob
    /\ orphaned' = orphaned \cup {i \in Ids : reserved[i] # 0}
    /\ UNCHANGED <<tables, marker, used>>

Restart ==
    /\ ~up
    /\ up' = TRUE
    /\ UNCHANGED <<tables, marker, call, used, job, crashes, orphaned>>

\* `python -m app.cost reconcile`, one settlement after the other.
Reconcile(i) ==
    /\ ~up /\ reserved[i] # 0
    /\ Settle(i)
    /\ UNCHANGED <<shelf, imports, receiptRow, marker, call, used, job, up, crashes, orphaned>>

Next ==
    \/ Import \/ Delete \/ Crash \/ Restart
    \/ ReaderReserve
    \/ \E i \in Ids : \/ Answer(i) \/ ReaderFails(i) \/ ReaderNotes(i) \/ ReaderSettles(i)
                      \/ Reconcile(i)
    \/ JobStart \/ JobReserve \/ JobCallFails \/ JobNotes \/ JobOverrun \/ JobReviewed
    \/ JobInvalid \/ JobRejected \/ JobAbort \/ JobFails \/ JobPrepared \/ JobCommits
    \/ JobFinalizes

Spec == Init /\ [][Next]_vars

-----------------------------------------------------------------------------
(* Properties *)

\* Calls of the shelved incarnation, and what the provider billed for them.
Ours   == {i \in Ids : call[i].pc # "none" /\ call[i].inc = shelf}
Billed == [i \in Ids |-> call[i].billed]

\* A provider that bills no more than it was allowed to.
Honest(i) == call[i].billed <= call[i].worst

\* Both ceilings hold for what is really billed, over every interleaving of
\* readers, preparation and ingestion: as long as no provider breaks its limit,
\* the calls made in one shelf lifetime cost at most the book's ceiling, and the
\* preparation at most its own, whatever the rest spends.
CeilingsHold ==
    /\ (\A i \in Ours : Honest(i)) => SumFunctionOnSet(Billed, Ours) <= Ceiling
    /\ (\A i \in Ours \cap Preparing : Honest(i)) =>
            SumFunctionOnSet(Billed, Ours \cap Preparing) <= PrepareCeiling

\* Fail closed: a call within its limit is covered by its reservation, its
\* ledger row or the chapter's receipt at every moment, crashes included.
SpendIsCovered ==
    shelf # 0 =>
        \A i \in Ours : Honest(i) =>
            \/ call[i].billed <= reserved[i] + ledger[i]
            \/ i \in marker.ids /\ receiptRow = marker.cost

\* Exactly once: a reservation counts in one place only, and the receipt's
\* reservations are never settled on their own as well.
CountedOnce ==
    \A i \in Ids : /\ reserved[i] = 0 \/ ledger[i] = 0
                   /\ i \in marker.ids => ledger[i] = 0 \/ i \in orphaned

\* Whatever was billed is counted, is counted once, and keeps the ceilings
\* (budgeted_completion, Catalog.reserve_cost, finalize_ingest and settle_cost).
LedgerHolds == TypeOK /\ SpendIsCovered /\ CountedOnce /\ CeilingsHold

\* _complete_extraction: "Each failed pass settles its own reservations".  TLC
\* refutes it (README, Findings): no run checks it.
FailedPassSettles ==
    job.pc = "idle" /\ up =>
        \A i \in Ids : call[i].phase = "extraction" /\ reserved[i] # 0 =>
                           i \in orphaned \cup marker.ids

=============================================================================
