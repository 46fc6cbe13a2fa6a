--------------------------- MODULE HostedJobsProofs ---------------------------
(***************************************************************************)
(* Proofs about HostedJobs for any number of workers, jobs, interactive    *)
(* calls, owners and chapters, and any limits.                             *)
(***************************************************************************)
EXTENDS HostedJobs, SumTheorems, FiniteSetTheorems, TLAPS

Outcomes == {"open", "succeeded", "failed", "expired", "cancelled"}
Rows     == [state : States, cancel : BOOLEAN]

\* A job's row and its attempts tell the same story; a cancellation recorded on a
\* job nobody leases has ended it.
RowOK(row, attempts) ==
    /\ row.state \in Leased <=> attempts # <<>> /\ attempts[Len(attempts)] = "open"
    /\ \A n \in 1..Len(attempts) : attempts[n] = "open" => n = Len(attempts)
    /\ row.cancel /\ row.state \notin Leased => row.state = "cancelled"

RowsInv == \A j \in Jobs : RowOK(job[j], tries[j])

\* What a worker believes of its job is or was true: its attempt is one of the
\* job's, and a chapter is named for as long as one is needed.
ClaimsInv ==
    \A w \in Workers : wk[w].pc # "idle" =>
        /\ wk[w].n <= Len(tries[wk[w].j])
        /\ wk[w].pc \in {"reserve", "commit"} => wk[w].ch \in Chapters

\* The job of a deleted book is over, or has been asked to stop.
DeletedInv == \A j \in deleted : job[j].cancel \/ job[j].state \in Terminal

Typing == TypeOK /\ tries \in [Jobs -> Seq(Outcomes)]

\* Nothing of a job is spent once it is to stop (what NothingAfterCancel says of a step).
Spared == \A j \in Jobs : job[j].cancel \/ j \in deleted =>
                /\ receipts'[j] = receipts[j]
                /\ bill'[j] = bill[j]
                /\ rsv'[j] = rsv[j]

\* How one job's row and attempts may change in a step.
Advance(row, t, row1, t1) ==
    /\ row1 \in Rows /\ t1 \in Seq(Outcomes) /\ RowOK(row1, t1)
    /\ Len(t) <= Len(t1) /\ Len(t1) <= MaxAttempts
    /\ row.state \in Terminal => row1.state = row.state
    /\ row.cancel => row1.cancel
    /\ \A n \in 1..Len(t) : t[n] # "open" => t1[n] = t[n]

IInv == Typing /\ RowsInv /\ ClaimsInv /\ DeletedInv /\ LimitsHold /\ PaidOnce

-----------------------------------------------------------------------------
(* What the steps do to one job *)

\* A worker that holds its lease has the latest attempt of a leased job.
LEMMA LeaseIsLatest ==
    ASSUME Typing, RowsInv, ClaimsInv, NEW w \in Workers, wk[w].pc # "idle", HoldsLease(w)
    PROVE  /\ wk[w].j \in Jobs /\ wk[w].n \in 1..MaxAttempts
           /\ wk[w].n = Len(tries[wk[w].j]) /\ wk[w].n \in 1..Len(tries[wk[w].j])
           /\ job[wk[w].j].state \in Leased
<1>1. wk[w] \in Claims
  BY DEF Typing, TypeOK, IdleWorker
<1>2. wk[w].j \in Jobs /\ wk[w].n \in 1..MaxAttempts /\ wk[w].n <= Len(tries[wk[w].j])
  BY <1>1 DEF Claims, ClaimsInv
<1>3. tries[wk[w].j] \in Seq(Outcomes) /\ Len(tries[wk[w].j]) \in Nat
  BY <1>2 DEF Typing
<1>4. wk[w].n \in 1..Len(tries[wk[w].j]) /\ MaxAttempts \in Nat
  BY <1>2, <1>3, LimitsAssumption
<1>5. RowOK(job[wk[w].j], tries[wk[w].j])
  BY <1>2 DEF RowsInv
<1>6. wk[w].n = Len(tries[wk[w].j])
  BY <1>4, <1>5 DEF RowOK, HoldsLease
<1>7. tries[wk[w].j] # <<>>
  BY <1>3, <1>4
<1> QED
  BY <1>2, <1>4, <1>5, <1>6, <1>7 DEF RowOK, HoldsLease

\* A job that does not change.
LEMMA RestKeeps ==
    ASSUME Typing, RowsInv, NEW j \in Jobs
    PROVE  /\ Advance(job[j], tries[j], job[j], tries[j])
           /\ job[j] \in Rows /\ tries[j] \in Seq(Outcomes) /\ Len(tries[j]) \in Nat
           /\ Len(tries[j]) <= MaxAttempts /\ RowOK(job[j], tries[j])
<1>1. job[j] \in Rows /\ tries[j] \in Seq(Outcomes) /\ Len(tries[j]) <= MaxAttempts /\ Len(tries[j]) \in Nat
  BY DEF Typing, TypeOK, Rows
<1>2. RowOK(job[j], tries[j])
  BY DEF RowsInv
<1> QED
  BY <1>1, <1>2 DEF Advance

\* Two changes in one step.
LEMMA TwiceKeeps ==
    ASSUME NEW row, NEW t \in Seq(Outcomes), NEW row1, NEW t1, NEW row2, NEW t2,
           Advance(row, t, row1, t1), Advance(row1, t1, row2, t2)
    PROVE  Advance(row, t, row2, t2)
<1>1. t1 \in Seq(Outcomes) /\ t2 \in Seq(Outcomes)
  BY DEF Advance
<1>2. Len(t) \in Nat /\ Len(t1) \in Nat /\ Len(t2) \in Nat
  BY <1>1
<1>3. \A n \in 1..Len(t) : t[n] # "open" => t2[n] = t[n]
  <2> SUFFICES ASSUME NEW n \in 1..Len(t), t[n] # "open" PROVE t2[n] = t[n]
    OBVIOUS
  <2>1. t1[n] = t[n] /\ n \in 1..Len(t1)
    BY <1>2 DEF Advance
  <2> QED
    BY <2>1 DEF Advance
<1>4. Len(t) <= Len(t2)
  BY <1>2 DEF Advance
<1>5. row.state \in Terminal => row2.state = row.state
  BY DEF Advance
<1> QED
  BY <1>3, <1>4, <1>5 DEF Advance

\* The row changes, the attempts do not: between two states that are both leased,
\* or both not.
LEMMA MoveKeeps ==
    ASSUME NEW row \in Rows, NEW t \in Seq(Outcomes), Len(t) <= MaxAttempts, RowOK(row, t),
           NEW next \in Rows,
           row.state \in Leased <=> next.state \in Leased,
           row.state \in Terminal => next.state = row.state,
           row.cancel => next.cancel,
           next.cancel /\ next.state \notin Leased => next.state = "cancelled"
    PROVE  Advance(row, t, next, t)
<1>1. RowOK(next, t)
  BY DEF RowOK
<1> QED
  BY <1>1 DEF Advance

\* Closing the open attempt together with the job keeps them in agreement.
LEMMA CloseKeeps ==
    ASSUME NEW row \in Rows, NEW t \in Seq(Outcomes), Len(t) <= MaxAttempts, RowOK(row, t),
           row.state \in Leased, NEW next \in Rows, NEW outcome \in Outcomes \ {"open"},
           next.state \notin Leased, next.cancel = row.cancel,
           next.cancel => next.state = "cancelled"
    PROVE  /\ Advance(row, t, next, [t EXCEPT ![Len(t)] = outcome])
           /\ Len([t EXCEPT ![Len(t)] = outcome]) = Len(t)
<1> DEFINE u == [t EXCEPT ![Len(t)] = outcome]
<1>1. t # <<>> /\ Len(t) \in Nat \ {0} /\ t[Len(t)] = "open"
  BY DEF RowOK
<1>2. u \in Seq(Outcomes) /\ Len(u) = Len(t) /\ \A n \in 1..Len(t) : u[n] = IF n = Len(t) THEN outcome ELSE t[n]
  BY <1>1
<1> HIDE DEF u
<1>3. RowOK(next, u)
  BY <1>1, <1>2 DEF RowOK
<1>4. \A n \in 1..Len(t) : t[n] # "open" => u[n] = t[n]
  BY <1>1, <1>2
<1>5. row.state \notin Terminal
  BY DEF Terminal, Leased
<1>6. Advance(row, t, next, u)
  BY <1>1, <1>2, <1>3, <1>4, <1>5 DEF Advance
<1> QED
  BY <1>2, <1>6 DEF u

\* A new attempt of a job nobody leases.
LEMMA LeaseKeeps ==
    ASSUME NEW row \in Rows, NEW t \in Seq(Outcomes), Len(t) < MaxAttempts, RowOK(row, t),
           row.state = "pending"
    PROVE  /\ Advance(row, t, [row EXCEPT !.state = "leased"], Append(t, "open"))
           /\ Len(Append(t, "open")) = Len(t) + 1
<1> DEFINE u == Append(t, "open")
           r == [row EXCEPT !.state = "leased"]
<1>1. /\ u \in Seq(Outcomes) /\ Len(t) \in Nat /\ Len(u) = Len(t) + 1 /\ u # <<>>
      /\ \A n \in 1..Len(t) : u[n] = t[n]
      /\ u[Len(t) + 1] = "open"
  BY DEF Outcomes
<1>2. \A n \in 1..Len(t) : t[n] # "open"
  BY <1>1 DEF RowOK, Leased
<1>3. r \in Rows /\ r.state = "leased" /\ r.cancel = row.cancel
  BY DEF Rows, States, Leased
<1> HIDE DEF u, r
<1>4. RowOK(r, u)
  BY <1>1, <1>2, <1>3 DEF RowOK, Leased
<1>5. row.state \notin Terminal /\ Len(u) <= MaxAttempts /\ Len(t) <= Len(u)
  BY <1>1, LimitsAssumption DEF Terminal
<1>6. Advance(row, t, r, u)
  BY <1>1, <1>3, <1>4, <1>5 DEF Advance
<1> QED
  BY <1>1, <1>6 DEF u, r

-----------------------------------------------------------------------------
(* Frames *)

\* An owner has no more active jobs than before when no further job is leased.
LEMMA ActiveShrinks ==
    ASSUME NEW o, NEW a, NEW b,
           \A j \in Jobs : b[j].state \in Leased => a[j].state \in Leased
    PROVE  /\ IsFiniteSet(Active(o, b)) /\ Cardinality(Active(o, b)) \in Nat
           /\ Cardinality(Active(o, a)) \in Nat
           /\ Cardinality(Active(o, b)) <= Cardinality(Active(o, a))
<1>1. IsFiniteSet(Active(o, a)) /\ IsFiniteSet(Active(o, b))
  BY SetsAssumption, FS_Subset DEF Active, OwnedJobs
<1>2. Active(o, b) \subseteq Active(o, a)
  BY DEF Active, OwnedJobs
<1> QED
  BY <1>1, <1>2, FS_Subset, FS_CardinalityType

\* The same of its admitted jobs.
LEMMA AdmittedShrinks ==
    ASSUME NEW o,
           \A j \in Jobs : job'[j].state \in Queued \cup Leased => job[j].state \in Queued \cup Leased
    PROVE  /\ Cardinality(Admitted(o)) \in Nat /\ Cardinality(Admitted(o)') \in Nat
           /\ Cardinality(Admitted(o)') <= Cardinality(Admitted(o))
<1>1. IsFiniteSet(Admitted(o)) /\ IsFiniteSet(Admitted(o)')
  BY SetsAssumption, FS_Subset DEF Admitted, OwnedJobs
<1>2. Admitted(o)' \subseteq Admitted(o)
  BY DEF Admitted, OwnedJobs
<1> QED
  BY <1>1, <1>2, FS_Subset, FS_CardinalityType

\* The owner's limits survive a step that leases no further job and admits none.
LEMMA LimitsStep ==
    ASSUME LimitsHold,
           \A j \in Jobs : /\ job'[j].state \in Leased => job[j].state \in Leased
                           /\ job'[j].state \in Queued \cup Leased => job[j].state \in Queued \cup Leased
    PROVE  LimitsHold'
<1> SUFFICES ASSUME NEW o \in Owners
             PROVE  /\ Cardinality(Active(o, job')) <= MaxConcurrency
                    /\ Cardinality(Admitted(o)') <= MaxActiveJobs
  BY DEF LimitsHold
<1>1. /\ Cardinality(Active(o, job)) \in Nat /\ Cardinality(Active(o, job')) \in Nat
      /\ Cardinality(Active(o, job')) <= Cardinality(Active(o, job))
  BY ActiveShrinks
<1>2. /\ Cardinality(Admitted(o)) \in Nat /\ Cardinality(Admitted(o)') \in Nat
      /\ Cardinality(Admitted(o)') <= Cardinality(Admitted(o))
  BY AdmittedShrinks
<1> QED
  BY <1>1, <1>2, LimitsAssumption DEF LimitsHold

\* One worker goes on with claim c, or returns; no job loses an attempt.
LEMMA ClaimsStep ==
    ASSUME Typing, ClaimsInv, NEW w \in Workers, NEW c, wk' = [wk EXCEPT ![w] = c],
           tries' \in [Jobs -> Seq(Outcomes)],
           \A j \in Jobs : Len(tries'[j]) >= Len(tries[j]),
           c = IdleWorker \/ (/\ c \in Claims
                              /\ c.n <= Len(tries'[c.j])
                              /\ c.pc \in {"reserve", "commit"} => c.ch \in Chapters)
    PROVE  ClaimsInv' /\ wk' \in [Workers -> {IdleWorker} \cup Claims]
<1>1. wk \in [Workers -> {IdleWorker} \cup Claims] /\ tries \in [Jobs -> Seq(Outcomes)]
  BY DEF Typing, TypeOK
<1>2. wk' \in [Workers -> {IdleWorker} \cup Claims]
  BY <1>1
<1>3. ASSUME NEW v \in Workers, wk'[v].pc # "idle"
      PROVE  /\ wk'[v].n <= Len(tries'[wk'[v].j])
             /\ wk'[v].pc \in {"reserve", "commit"} => wk'[v].ch \in Chapters
  <2>1. CASE v = w
    BY <1>1, <1>3, <2>1 DEF IdleWorker
  <2>2. CASE v # w
    <3>1. wk'[v] = wk[v] /\ wk[v] \in Claims
      BY <1>1, <1>3, <2>2 DEF IdleWorker
    <3>2. wk[v].n \in 1..MaxAttempts /\ wk[v].j \in Jobs /\ wk[v].n <= Len(tries[wk[v].j])
      BY <1>3, <3>1 DEF Claims, ClaimsInv
    <3>3. Len(tries[wk[v].j]) \in Nat /\ Len(tries'[wk[v].j]) \in Nat /\ MaxAttempts \in Nat
      BY <1>1, <3>2, LimitsAssumption
    <3>4. Len(tries'[wk[v].j]) >= Len(tries[wk[v].j])
      BY <3>2
    <3> QED
      BY <1>3, <3>1, <3>2, <3>3, <3>4 DEF ClaimsInv
  <2> QED
    BY <2>1, <2>2
<1> QED
  BY <1>2, <1>3 DEF ClaimsInv

\* A claim that goes on to another label is still one.
LEMMA GotoClaim ==
    ASSUME Typing, ClaimsInv, NEW w \in Workers, wk[w].pc # "idle", NEW pc \in WorkerPC \ {"idle"}
    PROVE  /\ [wk[w] EXCEPT !.pc = pc] \in Claims
           /\ [wk[w] EXCEPT !.pc = pc].pc = pc
           /\ [wk[w] EXCEPT !.pc = pc].n <= Len(tries[[wk[w] EXCEPT !.pc = pc].j])
<1>1. wk[w] \in Claims
  BY DEF Typing, TypeOK, IdleWorker
<1> DEFINE c == [wk[w] EXCEPT !.pc = pc]
<1>2. c \in Claims /\ c.pc = pc /\ c.j = wk[w].j /\ c.n = wk[w].n
  BY <1>1 DEF Claims
<1> QED
  BY <1>2 DEF ClaimsInv

\* Worker w at another label, with a chapter.
Onward(w, pc, ch) == [wk[w] EXCEPT !.pc = pc, !.ch = ch]

\* The same with a chapter.
LEMMA GotoChapter ==
    ASSUME Typing, ClaimsInv, NEW w \in Workers, wk[w].pc # "idle", NEW pc \in WorkerPC \ {"idle"},
           NEW ch \in Chapters \cup {0}
    PROVE  /\ Onward(w, pc, ch) \in Claims
           /\ Onward(w, pc, ch).pc = pc /\ Onward(w, pc, ch).ch = ch
           /\ Onward(w, pc, ch).n <= Len(tries[Onward(w, pc, ch).j])
<1> DEFINE c == Onward(w, pc, ch)
<1>1. wk[w] \in Claims
  BY DEF Typing, TypeOK, IdleWorker
<1>2. c \in Claims /\ c.pc = pc /\ c.j = wk[w].j /\ c.n = wk[w].n /\ c.ch = ch
  BY <1>1 DEF Claims, Onward
<1> QED
  BY <1>2 DEF ClaimsInv

\* A step that moves one worker, and nothing the other parts speak of.
LEMMA WorkerOnly ==
    ASSUME IInv, NEW w \in Workers, UNCHANGED <<job, tries, spendVars, deleted, ask>>,
           lease' \in [Jobs -> BOOLEAN], NEW c, wk' = [wk EXCEPT ![w] = c],
           c = IdleWorker \/ (/\ c \in Claims
                              /\ c.n <= Len(tries[c.j])
                              /\ c.pc \in {"reserve", "commit"} => c.ch \in Chapters)
    PROVE  IInv' /\ FinishedStays /\ Spared
<1>1. ClaimsInv' /\ wk' \in [Workers -> {IdleWorker} \cup Claims]
  <2>1. tries' \in [Jobs -> Seq(Outcomes)] /\ \A j \in Jobs : Len(tries'[j]) >= Len(tries[j])
    BY DEF IInv, Typing
  <2>2. c = IdleWorker \/ (/\ c \in Claims /\ c.n <= Len(tries'[c.j])
                           /\ c.pc \in {"reserve", "commit"} => c.ch \in Chapters)
    OBVIOUS
  <2> QED
    BY <2>1, <2>2, ClaimsStep DEF IInv
<1>2. Typing'
  BY <1>1 DEF IInv, Typing, TypeOK, spendVars
<1>3. RowsInv' /\ DeletedInv' /\ PaidOnce'
  BY DEF IInv, RowsInv, DeletedInv, PaidOnce, spendVars
<1>4. LimitsHold'
  BY LimitsStep DEF IInv
<1>5. FinishedStays /\ Spared
  BY DEF FinishedStays, Spared, spendVars
<1> QED
  BY <1>1, <1>2, <1>3, <1>4, <1>5 DEF IInv

\* A step that changes rows and attempts of jobs, but no money.
LEMMA JobStep ==
    ASSUME IInv, UNCHANGED <<spendVars, ask>>,
           job' \in [Jobs -> Rows], tries' \in [Jobs -> Seq(Outcomes)], lease' \in [Jobs -> BOOLEAN],
           \A j \in Jobs : Advance(job[j], tries[j], job'[j], tries'[j]),
           deleted' \in SUBSET Jobs,
           \A j \in deleted' \ deleted : job'[j].cancel \/ job'[j].state \in Terminal,
           ClaimsInv', wk' \in [Workers -> {IdleWorker} \cup Claims], LimitsHold'
    PROVE  IInv' /\ FinishedStays /\ Spared
<1>1. Typing'
  <2>1. \A j \in Jobs : tries'[j] \in Seq(Outcomes) /\ Len(tries'[j]) <= MaxAttempts
    BY DEF Advance
  <2> QED
    BY <2>1 DEF IInv, Typing, TypeOK, spendVars, Outcomes, Rows
<1>2. RowsInv'
  BY DEF RowsInv, Advance
<1>3. PaidOnce' /\ Spared
  BY DEF IInv, PaidOnce, Spared, spendVars
<1>4. DeletedInv'
  <2> SUFFICES ASSUME NEW j \in deleted' PROVE job'[j].cancel \/ job'[j].state \in Terminal
    BY DEF DeletedInv
  <2>1. CASE j \in deleted
    BY <2>1 DEF IInv, DeletedInv, Advance
  <2>2. CASE j \notin deleted
    BY <2>2
  <2> QED
    BY <2>1, <2>2
<1>5. FinishedStays
  BY DEF FinishedStays, Advance
<1> QED
  BY <1>1, <1>2, <1>3, <1>4, <1>5 DEF IInv

-----------------------------------------------------------------------------
(* The steps of a worker *)

\* What is known of every job in a state of the invariant.
LEMMA Known ==
    ASSUME IInv
    PROVE  /\ job \in [Jobs -> Rows] /\ tries \in [Jobs -> Seq(Outcomes)]
           /\ lease \in [Jobs -> BOOLEAN] /\ deleted \in SUBSET Jobs
           /\ wk \in [Workers -> {IdleWorker} \cup Claims]
           /\ Typing /\ RowsInv /\ ClaimsInv /\ LimitsHold
BY DEF IInv, Typing, TypeOK, Rows

\* A worker process that returns to its poll, or dies.
LEMMA ReturnKeeps ==
    ASSUME IInv, NEW w \in Workers, Return(w),
           UNCHANGED <<jobVars, spendVars, deleted, ask>>
    PROVE  IInv' /\ FinishedStays /\ Spared
<1>1. UNCHANGED <<job, tries, spendVars, deleted, ask>> /\ lease' \in [Jobs -> BOOLEAN]
  BY Known DEF jobVars
<1>2. wk' = [wk EXCEPT ![w] = IdleWorker]
  BY DEF Return
<1> QED
  BY <1>1, <1>2, WorkerOnly

\* A worker that goes on, with the lease perhaps renewed.
LEMMA GotoKeeps ==
    ASSUME IInv, NEW w \in Workers, wk[w].pc # "idle", NEW pc \in WorkerPC \ {"idle", "reserve", "commit"},
           Goto(w, pc), lease' \in [Jobs -> BOOLEAN],
           UNCHANGED <<job, tries, spendVars, deleted, ask>>
    PROVE  IInv' /\ FinishedStays /\ Spared
<1> DEFINE c == [wk[w] EXCEPT !.pc = pc]
<1>1. wk' = [wk EXCEPT ![w] = c]
  BY DEF Goto
<1>2. c \in Claims /\ c.pc = pc /\ c.n <= Len(tries[c.j])
  BY Known, GotoClaim
<1> HIDE DEF c
<1> QED
  BY <1>1, <1>2, WorkerOnly

\* A worker that begins a transaction of its handler changes only its own place,
\* or lets go of a lease it no longer holds.
LEMMA BeginKeeps ==
    ASSUME IInv, NEW w \in Workers, NEW body \in Bodies, NEW ch \in Chapters \cup {0}, Begin(w, body, ch)
    PROVE  IInv' /\ FinishedStays /\ Spared
<1>1. wk[w].pc # "idle"
  BY DEF Begin
<1>2. CASE HoldsLease(w) /\ lease[wk[w].j]
  <2> DEFINE c == Onward(w, body, ch)
  <2>1. wk' = [wk EXCEPT ![w] = c]
    BY <1>2, Known DEF Begin, Onward
  <2>2. body \in WorkerPC \ {"idle"}
    BY DEF Bodies, WorkerPC
  <2>3. c \in Claims /\ c.pc = body /\ c.n <= Len(tries[c.j]) /\ c.ch = ch
    BY <1>1, <2>2, Known, GotoChapter
  <2>4. c.pc \in {"reserve", "commit"} => c.ch \in Chapters
    BY <2>3 DEF Begin
  <2>5. UNCHANGED <<job, tries, spendVars, deleted, ask>> /\ lease' \in [Jobs -> BOOLEAN]
    BY Known DEF Begin, jobVars
  <2> HIDE DEF c
  <2> QED
    BY <2>1, <2>3, <2>4, <2>5, WorkerOnly
<1>3. CASE ~(HoldsLease(w) /\ lease[wk[w].j])
  BY <1>3, ReturnKeeps DEF Begin
<1> QED
  BY <1>2, <1>3

\* A worker that holds its lease ends its attempt, and the job goes to `next`.
LEMMA EndKeeps ==
    ASSUME IInv, NEW w \in Workers, wk[w].pc # "idle", HoldsLease(w),
           NEW next \in Rows, NEW outcome \in Outcomes \ {"open"},
           next.state \notin Leased, next.state # "none",
           next.cancel = job[wk[w].j].cancel, next.cancel => next.state = "cancelled",
           job' = [job EXCEPT ![wk[w].j] = next],
           tries' = Finish(w, outcome),
           lease' = [lease EXCEPT ![wk[w].j] = FALSE],
           Return(w), UNCHANGED <<spendVars, deleted, ask>>
    PROVE  IInv' /\ FinishedStays /\ Spared
<1> DEFINE k == wk[w].j
           t == [tries[k] EXCEPT ![Len(tries[k])] = outcome]
<1>1. /\ k \in Jobs /\ wk[w].n = Len(tries[k]) /\ job[k].state \in Leased
  BY Known, LeaseIsLatest
<1>2. tries' = [tries EXCEPT ![k] = t]
  BY <1>1, Known DEF Finish
<1>3. Advance(job[k], tries[k], next, t) /\ Len(t) = Len(tries[k])
  BY <1>1, Known, RestKeeps, CloseKeeps
<1> HIDE DEF t
<1>4. t \in Seq(Outcomes) /\ Len(tries[k]) \in Nat
  BY <1>1, <1>3, Known, RestKeeps DEF Advance
<1>5. job' \in [Jobs -> Rows] /\ tries' \in [Jobs -> Seq(Outcomes)] /\ lease' \in [Jobs -> BOOLEAN]
  BY <1>1, <1>2, <1>4, Known
<1>6. ASSUME NEW j \in Jobs
      PROVE  Advance(job[j], tries[j], job'[j], tries'[j]) /\ Len(tries'[j]) >= Len(tries[j])
  <2>1. CASE j = k
    <3>1. job'[j] = next /\ tries'[j] = t
      BY <1>1, <1>2, <2>1, Known
    <3> QED
      BY <1>3, <1>4, <2>1, <3>1
  <2>2. CASE j # k
    <3>1. job'[j] = job[j] /\ tries'[j] = tries[j]
      BY <1>1, <1>2, <2>2, Known
    <3> QED
      BY <3>1, Known, RestKeeps
  <2> QED
    BY <2>1, <2>2
<1>7. ClaimsInv' /\ wk' \in [Workers -> {IdleWorker} \cup Claims]
  BY <1>5, <1>6, Known, ClaimsStep DEF Return
<1>8. LimitsHold'
  <2>1. ASSUME NEW j \in Jobs
        PROVE  /\ job'[j].state \in Leased => job[j].state \in Leased
               /\ job'[j].state \in Queued \cup Leased => job[j].state \in Queued \cup Leased
    <3>1. CASE j = k
      BY <1>1, <3>1, Known
    <3>2. CASE j # k
      BY <1>1, <3>2, Known
    <3> QED
      BY <3>1, <3>2
  <2> QED
    BY <2>1, Known, LimitsStep
<1>9. deleted' = deleted
  OBVIOUS
<1> QED
  BY <1>5, <1>6, <1>7, <1>8, <1>9, Known, JobStep


\* What _recover_expired makes of one job.
LEMMA RecoverKeeps ==
    ASSUME IInv, NEW j \in Expired
    PROVE  LET t == [tries[j] EXCEPT ![Len(tries[j])] = "expired"]
           IN  /\ j \in Jobs /\ Recovered(j) \in Rows
               /\ Advance(job[j], tries[j], Recovered(j), t)
               /\ Len(t) = Len(tries[j])
               /\ Recovered(j).state \notin Leased
               /\ job[j].state \in Leased
<1>1. j \in Jobs /\ job[j].state \in Leased
  BY DEF Expired
<1>2. /\ job[j] \in Rows /\ tries[j] \in Seq(Outcomes) /\ Len(tries[j]) <= MaxAttempts
      /\ RowOK(job[j], tries[j])
  BY <1>1, Known, RestKeeps
<1>3. /\ Recovered(j) \in Rows /\ Recovered(j).state \notin Leased
      /\ Recovered(j).cancel = job[j].cancel
      /\ Recovered(j).cancel => Recovered(j).state = "cancelled"
  BY <1>2 DEF Recovered, Rows, States, Leased, Queued, Terminal
<1>4. "expired" \in Outcomes \ {"open"}
  BY DEF Outcomes
<1> QED
  BY <1>1, <1>2, <1>3, <1>4, CloseKeeps

\* A job more is leased to a worker, and its owner has room for it.
LEMMA LeaseOne ==
    ASSUME IInv, NEW rows \in [Jobs -> Rows], NEW j \in Claimable(rows),
           \A i \in Jobs : rows[i].state \in Leased => job[i].state \in Leased,
           \A i \in Jobs : rows[i].state \in Queued \cup Leased => job[i].state \in Queued \cup Leased,
           job' = [rows EXCEPT ![j].state = "leased"]
    PROVE  LimitsHold'
<1>1. /\ j \in Jobs /\ rows[j].state = "pending"
      /\ Cardinality(Active(Owner[j], rows)) < MaxConcurrency
  BY DEF Claimable
<1>2. \A i \in Jobs \ {j} : job'[i] = rows[i]
  BY <1>1
<1>3. \A i \in Jobs : job'[i].state \in Queued \cup Leased => rows[i].state \in Queued \cup Leased
  <2>1. "pending" \in Queued \cup Leased
    BY DEF Queued
  <2> QED
    BY <1>1, <1>2, <2>1
<1> SUFFICES ASSUME NEW o \in Owners
             PROVE  /\ Cardinality(Active(o, job')) <= MaxConcurrency
                    /\ Cardinality(Admitted(o)') <= MaxActiveJobs
  BY DEF LimitsHold
<1>4. Cardinality(Admitted(o)') <= MaxActiveJobs
  <2>1. /\ Cardinality(Admitted(o)) \in Nat /\ Cardinality(Admitted(o)') \in Nat
        /\ Cardinality(Admitted(o)') <= Cardinality(Admitted(o))
    BY <1>3, AdmittedShrinks
  <2> QED
    BY <2>1, LimitsAssumption, Known DEF LimitsHold
<1>5. /\ IsFiniteSet(Active(o, rows)) /\ Cardinality(Active(o, rows)) \in Nat
      /\ Cardinality(Active(o, job)) \in Nat
      /\ Cardinality(Active(o, rows)) <= Cardinality(Active(o, job))
  BY ActiveShrinks
<1>6. IsFiniteSet(Active(o, job')) /\ Cardinality(Active(o, job')) \in Nat
  BY SetsAssumption, FS_Subset, FS_CardinalityType DEF Active, OwnedJobs
<1>7. Cardinality(Active(o, job)) <= MaxConcurrency /\ MaxConcurrency \in Nat
  BY LimitsAssumption, Known DEF LimitsHold
<1>8. CASE Owner[j] = o
  <2>1. Active(o, job') \subseteq Active(o, rows) \cup {j}
    BY <1>2 DEF Active, OwnedJobs
  <2>2. /\ IsFiniteSet(Active(o, rows) \cup {j})
        /\ Cardinality(Active(o, rows) \cup {j}) <= Cardinality(Active(o, rows)) + 1
        /\ Cardinality(Active(o, rows) \cup {j}) \in Nat
    <3>1. /\ IsFiniteSet(Active(o, rows) \cup {j})
          /\ \/ Cardinality(Active(o, rows) \cup {j}) = Cardinality(Active(o, rows))
             \/ Cardinality(Active(o, rows) \cup {j}) = Cardinality(Active(o, rows)) + 1
      BY <1>5, FS_AddElement, Zenon
    <3> QED
      BY <1>5, <3>1
  <2>3. Cardinality(Active(o, job')) <= Cardinality(Active(o, rows) \cup {j})
    BY <2>1, <2>2, FS_Subset
  <2>4. Cardinality(Active(o, rows)) < MaxConcurrency
    BY <1>1, <1>8
  <2> QED
    BY <1>4, <1>5, <1>6, <1>7, <2>2, <2>3, <2>4
<1>9. CASE Owner[j] # o
  <2>1. Active(o, job') \subseteq Active(o, rows)
    BY <1>2, <1>9 DEF Active, OwnedJobs
  <2>2. Cardinality(Active(o, job')) <= Cardinality(Active(o, rows))
    BY <1>5, <2>1, FS_Subset
  <2> QED
    BY <1>4, <1>5, <1>6, <1>7, <2>2
<1> QED
  BY <1>8, <1>9

\* claim_next leases one job more, if the owner's leases are below the limit.
LEMMA ClaimKeeps ==
    ASSUME IInv, NEW w \in Workers, Claim(w)
    PROVE  IInv' /\ FinishedStays /\ Spared
<1> DEFINE Claiming(R, rows, ended) ==
        IF Claimable(rows) = {}
        THEN /\ job' = rows
             /\ tries' = ended
             /\ UNCHANGED <<lease, wk>>
        ELSE \E j \in Claimable(rows) :
             /\ job' = [rows EXCEPT ![j].state = "leased"]
             /\ tries' = [ended EXCEPT ![j] = Append(@, "open")]
             /\ lease' = [lease EXCEPT ![j] = TRUE]
             /\ wk' = [wk EXCEPT ![w] = [pc |-> "claimed", j |-> j, n |-> Len(tries[j]) + 1, ch |-> 0]]
<1>1. PICK R \in SUBSET Expired :
        Claiming(R, [j \in Jobs |-> IF j \in R THEN Recovered(j) ELSE job[j]],
                 [j \in Jobs |-> IF j \in R THEN [tries[j] EXCEPT ![Len(tries[j])] = "expired"]
                                 ELSE tries[j]])
  BY DEF Claim
<1> DEFINE rows == [j \in Jobs |-> IF j \in R THEN Recovered(j) ELSE job[j]]
           ended == [j \in Jobs |-> IF j \in R THEN [tries[j] EXCEPT ![Len(tries[j])] = "expired"]
                                    ELSE tries[j]]
<1>2. ASSUME NEW j \in Jobs
      PROVE  /\ rows[j] \in Rows /\ ended[j] \in Seq(Outcomes)
             /\ Advance(job[j], tries[j], rows[j], ended[j])
             /\ Len(ended[j]) = Len(tries[j]) /\ Len(tries[j]) \in Nat
             /\ rows[j].state \in Leased => job[j].state \in Leased
             /\ rows[j].state \in Queued \cup Leased => job[j].state \in Queued \cup Leased
  <2>1. CASE j \in R
    <3>1. j \in Expired
      BY <2>1
    <3>2. rows[j] = Recovered(j) /\ ended[j] = [tries[j] EXCEPT ![Len(tries[j])] = "expired"]
      BY <2>1
    <3> HIDE DEF rows, ended
    <3>3. /\ Advance(job[j], tries[j], rows[j], ended[j]) /\ Len(ended[j]) = Len(tries[j])
          /\ rows[j].state \notin Leased /\ job[j].state \in Leased
      BY <3>1, <3>2, RecoverKeeps
    <3> QED
      BY <3>3, Known, RestKeeps DEF Advance
  <2>2. CASE j \notin R
    <3>1. rows[j] = job[j] /\ ended[j] = tries[j]
      BY <2>2
    <3> HIDE DEF rows, ended
    <3> QED
      BY <3>1, Known, RestKeeps
  <2> QED
    BY <2>1, <2>2
<1>3. rows \in [Jobs -> Rows] /\ ended \in [Jobs -> Seq(Outcomes)]
  <2>1. /\ \A j \in Jobs : rows[j] \in Rows
        /\ \A j \in Jobs : ended[j] \in Seq(Outcomes)
    BY <1>2
  <2> QED
    BY <2>1
<1>4. Claiming(R, rows, ended) /\ UNCHANGED <<spendVars, deleted, ask>> /\ wk[w].pc = "idle"
  BY <1>1 DEF Claim
<1>5. wk[w] = IdleWorker
  BY <1>4, Known DEF Claims, IdleWorker
<1> HIDE DEF rows, ended
<1>6. CASE Claimable(rows) = {}
  <2>1. job' = rows /\ tries' = ended /\ lease' = lease /\ wk' = wk
    BY <1>4, <1>6
  <2>2. ClaimsInv' /\ wk' \in [Workers -> {IdleWorker} \cup Claims]
    <3>1. wk' = [wk EXCEPT ![w] = IdleWorker]
      BY <1>5, <2>1, Known
    <3>2. \A j \in Jobs : Len(tries'[j]) >= Len(tries[j])
      BY <1>2, <2>1
    <3> QED
      BY <1>3, <2>1, <3>1, <3>2, Known, ClaimsStep
  <2>3. LimitsHold'
    BY <1>2, <2>1, Known, LimitsStep
  <2>4. /\ job' \in [Jobs -> Rows] /\ tries' \in [Jobs -> Seq(Outcomes)] /\ lease' \in [Jobs -> BOOLEAN]
        /\ \A j \in Jobs : Advance(job[j], tries[j], job'[j], tries'[j])
        /\ deleted' = deleted
    BY <1>2, <1>3, <1>4, <2>1, Known
  <2> QED
    BY <1>4, <2>2, <2>3, <2>4, Known, JobStep
<1>7. CASE Claimable(rows) # {}
  <2>1. PICK j \in Claimable(rows) :
             /\ job' = [rows EXCEPT ![j].state = "leased"]
             /\ tries' = [ended EXCEPT ![j] = Append(@, "open")]
             /\ lease' = [lease EXCEPT ![j] = TRUE]
             /\ wk' = [wk EXCEPT ![w] = [pc |-> "claimed", j |-> j, n |-> Len(tries[j]) + 1, ch |-> 0]]
    BY <1>4, <1>7
  <2>2. j \in Jobs /\ rows[j].state = "pending" /\ Len(tries[j]) < MaxAttempts
    BY DEF Claimable
  <2> DEFINE row1 == [rows[j] EXCEPT !.state = "leased"]
             t1 == Append(ended[j], "open")
             c == [pc |-> "claimed", j |-> j, n |-> Len(tries[j]) + 1, ch |-> 0]
  <2>3. job' = [rows EXCEPT ![j] = row1] /\ tries' = [ended EXCEPT ![j] = t1] /\ wk' = [wk EXCEPT ![w] = c]
    BY <1>3, <2>1, <2>2
  <2>4. Advance(job[j], tries[j], row1, t1) /\ Len(t1) = Len(tries[j]) + 1
    <3>1. /\ Advance(job[j], tries[j], rows[j], ended[j]) /\ Len(ended[j]) = Len(tries[j])
          /\ rows[j] \in Rows /\ ended[j] \in Seq(Outcomes) /\ tries[j] \in Seq(Outcomes)
      BY <1>2, <2>2, Known
    <3>2. RowOK(rows[j], ended[j])
      BY <3>1 DEF Advance
    <3>3. Advance(rows[j], ended[j], row1, t1) /\ Len(t1) = Len(ended[j]) + 1
      BY <2>2, <3>1, <3>2, LeaseKeeps
    <3> HIDE DEF row1, t1
    <3> QED
      BY <3>1, <3>3, TwiceKeeps
  <2>5. /\ c \in Claims /\ c.pc = "claimed" /\ c.j = j /\ c.n = Len(tries[j]) + 1
    BY <1>2, <2>2, LimitsAssumption DEF Claims, WorkerPC
  <2> HIDE DEF row1, t1, c
  <2>6. row1 \in Rows /\ t1 \in Seq(Outcomes)
    BY <2>4 DEF Advance
  <2>7. job' \in [Jobs -> Rows] /\ tries' \in [Jobs -> Seq(Outcomes)] /\ lease' \in [Jobs -> BOOLEAN]
    <3>1. job' \in [Jobs -> Rows]
      BY <1>3, <2>3, <2>6
    <3>2. tries' \in [Jobs -> Seq(Outcomes)]
      BY <1>3, <2>3, <2>6
    <3>3. lease' \in [Jobs -> BOOLEAN]
      BY <2>1, Known
    <3> QED
      BY <3>1, <3>2, <3>3
  <2>8. ASSUME NEW i \in Jobs
        PROVE  Advance(job[i], tries[i], job'[i], tries'[i]) /\ Len(tries'[i]) >= Len(tries[i])
    <3>1. CASE i = j
      <4>1. job'[i] = row1 /\ tries'[i] = t1
        BY <1>3, <2>3, <3>1
      <4> QED
        BY <1>2, <2>4, <3>1, <4>1
    <3>2. CASE i # j
      <4>1. job'[i] = rows[i] /\ tries'[i] = ended[i]
        BY <1>3, <2>3, <3>2
      <4> QED
        BY <1>2, <4>1
    <3> QED
      BY <3>1, <3>2
  <2>9. ClaimsInv' /\ wk' \in [Workers -> {IdleWorker} \cup Claims]
    <3>1. c.n <= Len(tries'[c.j])
      BY <1>2, <1>3, <2>2, <2>3, <2>4, <2>5
    <3>2. c.pc \in {"reserve", "commit"} => c.ch \in Chapters
      BY <2>5
    <3> QED
      BY <2>3, <2>5, <2>7, <2>8, <3>1, <3>2, Known, ClaimsStep
  <2>10. LimitsHold'
    BY <1>2, <1>3, <2>1, LeaseOne
  <2>11. deleted' = deleted /\ UNCHANGED <<spendVars, ask>>
    BY <1>4
  <2> QED
    BY <2>7, <2>8, <2>9, <2>10, <2>11, Known, JobStep
<1> QED
  BY <1>6, <1>7


\* A leased job starts running, or is cancelled on its way.
LEMMA StartKeeps ==
    ASSUME IInv, NEW w \in Workers, Start(w)
    PROVE  IInv' /\ FinishedStays /\ Spared
<1> DEFINE k == wk[w].j
<1>1. /\ wk[w].pc # "idle" /\ HoldsLease(w) /\ UNCHANGED <<spendVars, deleted, ask>>
  BY DEF Start
<1>2. k \in Jobs /\ job[k].state \in Leased /\ job[k] \in Rows
  BY <1>1, Known, LeaseIsLatest
<1>3. CASE job[k].cancel
  <2> DEFINE next == [job[k] EXCEPT !.state = "cancelled"]
  <2>1. job' = [job EXCEPT ![k] = next] /\ tries' = Finish(w, "cancelled")
        /\ lease' = [lease EXCEPT ![k] = FALSE] /\ Return(w)
    BY <1>3, <1>2, Known DEF Start, Close
  <2>2. /\ next \in Rows /\ next.cancel = job[k].cancel /\ next.state = "cancelled"
        /\ "cancelled" \in Outcomes \ {"open"} /\ "cancelled" \notin Leased
    BY <1>2 DEF Rows, States, Terminal, Outcomes, Leased
  <2> HIDE DEF next
  <2> QED
    BY <1>1, <2>1, <2>2, EndKeeps
<1>4. CASE ~job[k].cancel
  <2> DEFINE next == [job[k] EXCEPT !.state = "running"]
  <2>1. job' = [job EXCEPT ![k] = next] /\ tries' = tries /\ lease' = lease /\ Goto(w, "handling")
    BY <1>4, <1>2, Known DEF Start
  <2>2. /\ next \in Rows /\ next.cancel = job[k].cancel /\ next.state = "running"
    BY <1>2 DEF Rows, States, Leased
  <2>3. Advance(job[k], tries[k], next, tries[k])
    <3>1. next.state \in Leased /\ job[k].state \notin Terminal
      BY <1>2, <2>2 DEF Leased, Terminal
    <3> HIDE DEF next
    <3> QED
      BY <1>2, <1>4, <2>2, <3>1, Known, RestKeeps, MoveKeeps
  <2> HIDE DEF next
  <2>4. job' \in [Jobs -> Rows] /\ tries' \in [Jobs -> Seq(Outcomes)] /\ lease' \in [Jobs -> BOOLEAN]
    BY <1>2, <2>1, <2>2, Known
  <2>5. ASSUME NEW j \in Jobs
        PROVE  /\ Advance(job[j], tries[j], job'[j], tries'[j])
               /\ Len(tries'[j]) >= Len(tries[j])
               /\ job'[j].state \in Leased => job[j].state \in Leased
               /\ job'[j].state \in Queued \cup Leased => job[j].state \in Queued \cup Leased
    <3>1. Len(tries'[j]) >= Len(tries[j])
      BY <2>1, Known, RestKeeps
    <3>2. CASE j = k
      <4>1. job'[j] = next /\ tries'[j] = tries[j]
        BY <1>2, <2>1, <3>2, Known
      <4> QED
        BY <1>2, <2>3, <3>1, <3>2, <4>1
    <3>3. CASE j # k
      <4>1. job'[j] = job[j] /\ tries'[j] = tries[j]
        BY <1>2, <2>1, <3>3, Known
      <4> QED
        BY <3>1, <4>1, Known, RestKeeps
    <3> QED
      BY <3>2, <3>3
  <2>6. LimitsHold'
    BY <2>5, Known, LimitsStep
  <2>7. ClaimsInv' /\ wk' \in [Workers -> {IdleWorker} \cup Claims]
    <3> DEFINE c == [wk[w] EXCEPT !.pc = "handling"]
    <3>1. "handling" \in WorkerPC \ {"idle"} /\ wk' = [wk EXCEPT ![w] = c]
      BY <2>1 DEF WorkerPC, Goto
    <3>2. c \in Claims /\ c.pc = "handling" /\ c.n <= Len(tries[c.j])
      BY <1>1, <3>1, Known, GotoClaim
    <3> HIDE DEF c
    <3> QED
      BY <2>1, <2>4, <2>5, <3>1, <3>2, Known, ClaimsStep
  <2>8. deleted' = deleted /\ UNCHANGED <<spendVars, ask>>
    BY <1>1
  <2> QED
    BY <2>4, <2>5, <2>6, <2>7, <2>8, Known, JobStep
<1> QED
  BY <1>3, <1>4

\* succeed ends the attempt and the job.
LEMMA SucceedKeeps ==
    ASSUME IInv, NEW w \in Workers, Succeed(w)
    PROVE  IInv' /\ FinishedStays /\ Spared
<1> DEFINE k == wk[w].j
           end == IF job[k].cancel THEN "cancelled" ELSE "succeeded"
           next == [job[k] EXCEPT !.state = end]
<1>1. /\ wk[w].pc # "idle" /\ HoldsLease(w) /\ UNCHANGED <<spendVars, deleted, ask>>
  BY DEF Succeed
<1>2. k \in Jobs /\ job[k].state \in Leased /\ job[k] \in Rows
  BY <1>1, Known, LeaseIsLatest
<1>3. job' = [job EXCEPT ![k] = next] /\ tries' = Finish(w, end)
      /\ lease' = [lease EXCEPT ![k] = FALSE] /\ Return(w)
  BY <1>2, Known DEF Succeed, Close
<1>4. end \in {"succeeded", "cancelled"} /\ (job[k].cancel => end = "cancelled")
  OBVIOUS
<1> HIDE DEF end
<1>5. /\ next \in Rows /\ next.cancel = job[k].cancel /\ next.state = end
      /\ end \in Outcomes \ {"open"} /\ end \notin Leased /\ end # "none"
  BY <1>2, <1>4 DEF Rows, States, Terminal, Outcomes, Leased
<1> HIDE DEF next
<1> QED
  BY <1>1, <1>3, <1>4, <1>5, EndKeeps

\* fail ends the attempt, and the job is retried, cancelled or failed.
LEMMA FailKeeps ==
    ASSUME IInv, NEW w \in Workers, Fail(w)
    PROVE  IInv' /\ FinishedStays /\ Spared
<1> DEFINE k == wk[w].j
           next == Failed(k, wk[w].pc = "retry")
<1>1. /\ wk[w].pc # "idle" /\ HoldsLease(w) /\ UNCHANGED <<spendVars, deleted, ask>>
      /\ job' = [job EXCEPT ![k] = next] /\ tries' = Finish(w, "failed")
      /\ lease' = [lease EXCEPT ![k] = FALSE] /\ Return(w)
  BY DEF Fail
<1>2. k \in Jobs /\ job[k].state \in Leased /\ job[k] \in Rows
  BY <1>1, Known, LeaseIsLatest
<1>3. /\ next \in Rows /\ next.cancel = job[k].cancel /\ next.state \notin Leased /\ next.state # "none"
      /\ next.cancel => next.state = "cancelled"
  BY <1>2 DEF Failed, Rows, States, Terminal, Queued, Leased
<1>4. "failed" \in Outcomes \ {"open"}
  BY DEF Outcomes
<1> HIDE DEF next
<1> QED
  BY <1>1, <1>3, <1>4, EndKeeps

-----------------------------------------------------------------------------
(* Time and the owner's requests *)

\* Nobody but a worker moves a worker, and attempts are the workers'.
LEMMA RequestStep ==
    ASSUME IInv, UNCHANGED <<tries, spendVars, ask, wk>>,
           job' \in [Jobs -> Rows], lease' \in [Jobs -> BOOLEAN],
           \A j \in Jobs : Advance(job[j], tries[j], job'[j], tries[j]),
           deleted' \in SUBSET Jobs,
           \A j \in deleted' \ deleted : job'[j].cancel \/ job'[j].state \in Terminal,
           LimitsHold'
    PROVE  IInv' /\ FinishedStays /\ Spared
<1>1. ClaimsInv' /\ wk' \in [Workers -> {IdleWorker} \cup Claims]
  BY Known DEF ClaimsInv
<1>2. tries' \in [Jobs -> Seq(Outcomes)] /\ \A j \in Jobs : Advance(job[j], tries[j], job'[j], tries'[j])
  BY Known
<1> QED
  BY <1>1, <1>2, JobStep

\* A lease that nobody renewed ends, as one that failed.
LEMMA LapseKeeps ==
    ASSUME IInv, NEW j \in Jobs, Lapse(j)
    PROVE  IInv' /\ FinishedStays /\ Spared
<1>1. /\ UNCHANGED <<job, tries, spendVars, deleted, ask, wk>> /\ lease' \in [Jobs -> BOOLEAN]
  BY Known DEF Lapse
<1>2. LimitsHold'
  BY <1>1, Known, LimitsStep
<1>3. \A i \in Jobs : Advance(job[i], tries[i], job'[i], tries[i])
  BY <1>1, Known, RestKeeps
<1> QED
  BY <1>1, <1>2, <1>3, Known, RequestStep


\* Rows a request may change: none begins or ends to be leased, none is admitted.
Moved(row, next) ==
    /\ next \in Rows
    /\ row.state \in Leased <=> next.state \in Leased
    /\ next.state \in Queued => row.state \in Queued
    /\ row.state \in Terminal => next.state = row.state
    /\ row.cancel => next.cancel
    /\ next.cancel /\ next.state \notin Leased => next.state = "cancelled"

\* Requests of the owner that move jobs without an attempt keep the invariant.
LEMMA MovedKeeps ==
    ASSUME IInv, UNCHANGED <<tries, lease, spendVars, ask, wk>>,
           job' \in [Jobs -> Rows],
           \A j \in Jobs : job'[j] = job[j] \/ Moved(job[j], job'[j]),
           deleted' \in SUBSET Jobs,
           \A j \in deleted' \ deleted : job'[j].cancel \/ job'[j].state \in Terminal
    PROVE  IInv' /\ FinishedStays /\ Spared
<1>1. ASSUME NEW j \in Jobs
      PROVE  /\ Advance(job[j], tries[j], job'[j], tries[j])
             /\ job'[j].state \in Leased => job[j].state \in Leased
             /\ job'[j].state \in Queued \cup Leased => job[j].state \in Queued \cup Leased
  <2>1. CASE job'[j] = job[j]
    BY <2>1, Known, RestKeeps
  <2>2. CASE Moved(job[j], job'[j])
    BY <2>2, Known, RestKeeps, MoveKeeps DEF Moved
  <2> QED
    BY <2>1, <2>2
<1>2. LimitsHold'
  BY <1>1, Known, LimitsStep
<1>3. lease' \in [Jobs -> BOOLEAN]
  BY Known
<1> QED
  BY <1>1, <1>2, <1>3, RequestStep

\* A row in a state of the invariant.
LEMMA RowTyped ==
    ASSUME IInv, NEW j \in Jobs
    PROVE  /\ job[j] \in Rows
           /\ job[j].cancel /\ job[j].state \notin Leased => job[j].state = "cancelled"
BY Known, RestKeeps DEF RowOK

\* A validated configuration releases the jobs that waited for it.
LEMMA ConfigureKeeps ==
    ASSUME IInv, NEW o \in Owners, Configure(o)
    PROVE  IInv' /\ FinishedStays /\ Spared
<1>1. UNCHANGED <<tries, lease, spendVars, ask, wk>> /\ deleted' = deleted
  BY DEF Configure
<1>2. ASSUME NEW j \in Jobs
      PROVE  job'[j] \in Rows /\ (job'[j] = job[j] \/ Moved(job[j], job'[j]))
  <2>1. job'[j] = job[j] \/ (/\ job[j].state = "waiting_configuration" /\ ~job[j].cancel
                             /\ job'[j] = [job[j] EXCEPT !.state = "pending"])
    BY DEF Configure
  <2> QED
    BY <2>1, RowTyped DEF Moved, Rows, States, Queued, Leased, Terminal
<1>3. job' \in [Jobs -> Rows]
  BY <1>2 DEF Configure
<1> QED
  BY <1>1, <1>2, <1>3, Known, MovedKeeps

\* A configuration taken away makes the pending jobs wait.
LEMMA ReconfigureKeeps ==
    ASSUME IInv, NEW o \in Owners, Reconfigure(o)
    PROVE  IInv' /\ FinishedStays /\ Spared
<1>1. UNCHANGED <<tries, lease, spendVars, ask, wk>> /\ deleted' = deleted
  BY DEF Reconfigure
<1>2. ASSUME NEW j \in Jobs
      PROVE  job'[j] \in Rows /\ (job'[j] = job[j] \/ Moved(job[j], job'[j]))
  <2>1. job'[j] = job[j] \/ (/\ job[j].state = "pending"
                             /\ job'[j] = [job[j] EXCEPT !.state = "waiting_configuration"])
    BY DEF Reconfigure
  <2> QED
    BY <2>1, RowTyped DEF Moved, Rows, States, Queued, Leased, Terminal
<1>3. job' \in [Jobs -> Rows]
  BY <1>2 DEF Reconfigure
<1> QED
  BY <1>1, <1>2, <1>3, Known, MovedKeeps

\* What a request to stop makes of a job that is not over.
LEMMA CancelMoves ==
    ASSUME IInv, NEW j \in Jobs, job[j].state \in Queued \cup Leased
    PROVE  Moved(job[j], CancelRequested(j)) /\ CancelRequested(j).cancel
BY RowTyped DEF CancelRequested, Moved, Rows, States, Queued, Leased, Terminal

\* A cancellation ends a job nobody leases, and marks a leased one.
LEMMA CancelKeeps ==
    ASSUME IInv, NEW j \in Jobs, Cancel(j)
    PROVE  IInv' /\ FinishedStays /\ Spared
<1>1. /\ UNCHANGED <<tries, lease, spendVars, ask, wk>> /\ deleted' = deleted
      /\ job' = [job EXCEPT ![j] = CancelRequested(j)]
  BY DEF Cancel
<1>2. Moved(job[j], CancelRequested(j))
  BY CancelMoves DEF Cancel
<1>3. CancelRequested(j) \in Rows
  BY <1>2 DEF Moved
<1>4. job' \in [Jobs -> Rows] /\ \A i \in Jobs : job'[i] = job[i] \/ Moved(job[i], job'[i])
  BY <1>1, <1>2, <1>3, Known
<1> QED
  BY <1>1, <1>4, Known, MovedKeeps

\* A deletion cancels the jobs of the book.
LEMMA DeleteKeeps ==
    ASSUME IInv, NEW j \in Jobs, Delete(j)
    PROVE  IInv' /\ FinishedStays /\ Spared
<1>1. UNCHANGED <<tries, lease, spendVars, ask, wk>> /\ deleted' = deleted \cup {j}
  BY DEF Delete
<1>2. CASE job[j].state \in Terminal
  <2>1. job' = job
    BY <1>2 DEF Delete
  <2> QED
    BY <1>1, <1>2, <2>1, Known, MovedKeeps
<1>3. CASE job[j].state \notin Terminal
  <2>1. job' = [job EXCEPT ![j] = CancelRequested(j)]
    BY <1>3 DEF Delete
  <2>2. job[j].state \in Queued \cup Leased
    BY <1>3, RowTyped DEF Delete, Rows, States
  <2>3. Moved(job[j], CancelRequested(j)) /\ CancelRequested(j).cancel
    BY <2>2, CancelMoves
  <2>4. CancelRequested(j) \in Rows
    BY <2>3 DEF Moved
  <2>5. job' \in [Jobs -> Rows] /\ \A i \in Jobs : job'[i] = job[i] \/ Moved(job[i], job'[i])
    BY <2>1, <2>3, <2>4, Known
  <2>6. job'[j].cancel
    BY <2>1, <2>3, Known
  <2> QED
    BY <1>1, <2>5, <2>6, Known, MovedKeeps
<1> QED
  BY <1>2, <1>3

\* An upload adds a job while the owner has fewer than max_active_jobs.
LEMMA UploadKeeps ==
    ASSUME IInv, NEW j \in Jobs, NEW ready \in BOOLEAN, Upload(j, ready)
    PROVE  IInv' /\ FinishedStays /\ Spared
<1> DEFINE next == [job[j] EXCEPT !.state = IF ready THEN "pending" ELSE "waiting_configuration"]
<1>1. /\ UNCHANGED <<tries, lease, spendVars, ask, wk>> /\ deleted' = deleted
      /\ job[j].state = "none" /\ Cardinality(Admitted(Owner[j])) < MaxActiveJobs
      /\ job' = [job EXCEPT ![j] = next]
  BY Known DEF Upload, Close
<1>2. /\ next \in Rows /\ next.state \in Queued /\ ~next.cancel /\ ~job[j].cancel
      /\ next.state \notin Leased /\ job[j].state \notin Leased \cup Terminal
  BY <1>1, RowTyped DEF Rows, States, Queued, Leased, Terminal
<1> HIDE DEF next
<1>3. Advance(job[j], tries[j], next, tries[j])
  BY <1>2, Known, RestKeeps, MoveKeeps
<1>4. ASSUME NEW i \in Jobs, i # j PROVE job'[i] = job[i]
  BY <1>1, <1>4, Known
<1>5. job'[j] = next /\ job' \in [Jobs -> Rows] /\ lease' \in [Jobs -> BOOLEAN]
  BY <1>1, <1>2, Known
<1>6. \A i \in Jobs : Advance(job[i], tries[i], job'[i], tries[i])
  BY <1>3, <1>4, <1>5, Known, RestKeeps
<1>7. LimitsHold'
  <2> SUFFICES ASSUME NEW o \in Owners
               PROVE  /\ Cardinality(Active(o, job')) <= MaxConcurrency
                      /\ Cardinality(Admitted(o)') <= MaxActiveJobs
    BY DEF LimitsHold
  <2>1. /\ Cardinality(Active(o, job)) \in Nat /\ Cardinality(Active(o, job')) \in Nat
        /\ Cardinality(Active(o, job')) <= Cardinality(Active(o, job))
    BY <1>2, <1>4, <1>5, ActiveShrinks
  <2>2. /\ Cardinality(Active(o, job)) <= MaxConcurrency /\ Cardinality(Admitted(o)) <= MaxActiveJobs
        /\ MaxConcurrency \in Nat /\ MaxActiveJobs \in Nat
    BY LimitsAssumption, Known DEF LimitsHold
  <2>3. /\ IsFiniteSet(Admitted(o)) /\ Cardinality(Admitted(o)) \in Nat
        /\ IsFiniteSet(Admitted(o)') /\ Cardinality(Admitted(o)') \in Nat
    BY SetsAssumption, FS_Subset, FS_CardinalityType DEF Admitted, OwnedJobs
  <2>4. Cardinality(Admitted(o)') <= MaxActiveJobs
    <3>1. CASE Owner[j] = o
      <4>1. Admitted(o)' \subseteq Admitted(o) \cup {j}
        BY <1>4 DEF Admitted, OwnedJobs
      <4>2. /\ IsFiniteSet(Admitted(o) \cup {j})
            /\ \/ Cardinality(Admitted(o) \cup {j}) = Cardinality(Admitted(o))
               \/ Cardinality(Admitted(o) \cup {j}) = Cardinality(Admitted(o)) + 1
        BY <2>3, FS_AddElement, Zenon
      <4>3. Cardinality(Admitted(o)') <= Cardinality(Admitted(o) \cup {j})
        BY <4>1, <4>2, FS_Subset
      <4> QED
        BY <1>1, <2>2, <2>3, <3>1, <4>2, <4>3
    <3>2. CASE Owner[j] # o
      <4>1. Admitted(o)' \subseteq Admitted(o)
        BY <1>4, <3>2 DEF Admitted, OwnedJobs
      <4> QED
        BY <2>2, <2>3, <4>1, FS_Subset
    <3> QED
      BY <3>1, <3>2
  <2> QED
    BY <2>1, <2>2, <2>4
<1> QED
  BY <1>1, <1>5, <1>6, <1>7, Known, RequestStep


-----------------------------------------------------------------------------
(* Money *)

\* A worker that spends for its job and goes on.
LEMMA SpendStep ==
    ASSUME IInv, NEW w \in Workers, wk[w].pc # "idle", Goto(w, "handling"),
           UNCHANGED <<jobVars, deleted, ask>>,
           rsv' \in [Jobs -> [Chapters -> {"none", "reserved", "settled"}]],
           bill' \in [Jobs -> [Chapters -> Bills \cup {0}]],
           receipts' \in [Jobs -> SUBSET Chapters],
           PaidOnce', Spared
    PROVE  IInv' /\ FinishedStays /\ Spared
<1> DEFINE c == [wk[w] EXCEPT !.pc = "handling"]
<1>1. "handling" \in WorkerPC \ {"idle"} /\ wk' = [wk EXCEPT ![w] = c]
  BY DEF WorkerPC, Goto
<1>2. c \in Claims /\ c.pc = "handling" /\ c.n <= Len(tries[c.j])
  BY <1>1, Known, GotoClaim
<1> HIDE DEF c
<1>3. ClaimsInv' /\ wk' \in [Workers -> {IdleWorker} \cup Claims]
  <2>1. tries' = tries /\ \A j \in Jobs : Len(tries[j]) >= Len(tries[j])
    BY Known, RestKeeps DEF jobVars
  <2> QED
    BY <1>1, <1>2, <2>1, Known, ClaimsStep
<1>4. Typing'
  BY <1>3 DEF IInv, Typing, TypeOK, jobVars
<1>5. RowsInv' /\ DeletedInv' /\ FinishedStays
  BY DEF IInv, RowsInv, DeletedInv, FinishedStays, jobVars
<1>6. LimitsHold'
  BY Known, LimitsStep DEF jobVars
<1> QED
  BY <1>3, <1>4, <1>5, <1>6 DEF IInv

\* A job whose chapter a worker may reserve or commit is running, not cancelled,
\* and its book is not deleted.
LEMMA SpendsForItsJob ==
    ASSUME IInv, NEW w \in Workers, wk[w].pc \in {"reserve", "commit"}, HoldsLease(w), ~Refused(w)
    PROVE  /\ wk[w].j \in Jobs /\ wk[w].ch \in Chapters
           /\ ~job[wk[w].j].cancel /\ wk[w].j \notin deleted
<1>1. wk[w].pc # "idle"
  OBVIOUS
<1>2. wk[w].j \in Jobs /\ wk[w].ch \in Chapters
  BY <1>1, Known, LeaseIsLatest DEF ClaimsInv
<1>3. ~job[wk[w].j].cancel /\ job[wk[w].j].state \notin Terminal
  BY DEF Refused, Terminal
<1> QED
  BY <1>2, <1>3 DEF IInv, DeletedInv

\* A reservation leaves the states of the jobs alone.
LEMMA ReserveSpendKeeps ==
    ASSUME IInv, NEW w \in Workers, ReserveSpend(w)
    PROVE  IInv' /\ FinishedStays /\ Spared
<1> DEFINE k == wk[w].j
           c == wk[w].ch
<1>1. /\ wk[w].pc = "reserve" /\ HoldsLease(w) /\ ~Refused(w)
      /\ UNCHANGED <<jobVars, bill, receipts, deleted, ask>>
  BY DEF ReserveSpend
<1>2. k \in Jobs /\ c \in Chapters /\ ~job[k].cancel /\ k \notin deleted
  BY <1>1, SpendsForItsJob
<1>3. \/ UNCHANGED rsv /\ \E pc \in {"handling", "conflict", "overlimit"} : Goto(w, pc)
      \/ rsv[k][c] \notin {"reserved", "settled"} /\ rsv' = [rsv EXCEPT ![k][c] = "reserved"]
         /\ Goto(w, "handling")
  BY DEF ReserveSpend
<1>4. CASE UNCHANGED rsv /\ \E pc \in {"handling", "conflict", "overlimit"} : Goto(w, pc)
  <2>1. PICK pc \in {"handling", "conflict", "overlimit"} : Goto(w, pc)
    BY <1>4
  <2>2. pc \in WorkerPC \ {"idle", "reserve", "commit"}
    BY DEF WorkerPC
  <2>3. UNCHANGED <<job, tries, spendVars, deleted, ask>> /\ lease' \in [Jobs -> BOOLEAN]
    BY <1>1, <1>4, Known DEF jobVars, spendVars
  <2> QED
    BY <1>1, <2>1, <2>2, <2>3, GotoKeeps
<1>5. CASE rsv[k][c] \notin {"reserved", "settled"} /\ rsv' = [rsv EXCEPT ![k][c] = "reserved"]
           /\ Goto(w, "handling")
  <2>1. rsv \in [Jobs -> [Chapters -> {"none", "reserved", "settled"}]]
    BY DEF IInv, Typing, TypeOK
  <2>2. /\ bill' = bill /\ receipts' = receipts
        /\ bill' \in [Jobs -> [Chapters -> Bills \cup {0}]] /\ receipts' \in [Jobs -> SUBSET Chapters]
    BY <1>1 DEF IInv, Typing, TypeOK
  <2>3. rsv' \in [Jobs -> [Chapters -> {"none", "reserved", "settled"}]]
    BY <1>2, <1>5, <2>1
  <2>4. \A j \in Jobs, d \in Chapters :
            rsv'[j][d] = IF j = k /\ d = c THEN "reserved" ELSE rsv[j][d]
    BY <1>2, <1>5, <2>1
  <2>5. PaidOnce'
    BY <1>5, <2>2, <2>4 DEF IInv, PaidOnce
  <2>6. Spared
    <3>1. \A j \in Jobs \ {k} : rsv'[j] = rsv[j]
      BY <1>2, <1>5, <2>1
    <3> QED
      BY <1>2, <2>2, <3>1 DEF Spared
  <2> QED
    BY <1>1, <1>5, <2>2, <2>3, <2>5, <2>6, SpendStep
<1> QED
  BY <1>3, <1>4, <1>5

\* A commit settles the chapter's reservation and writes its receipt in one.
LEMMA CommitChapterKeeps ==
    ASSUME IInv, NEW w \in Workers, CommitChapter(w)
    PROVE  IInv' /\ FinishedStays /\ Spared
<1> DEFINE k == wk[w].j
           c == wk[w].ch
           Paid(usd) == /\ rsv' = [rsv EXCEPT ![k][c] = "settled"]
                        /\ bill' = [bill EXCEPT ![k][c] = usd]
                        /\ receipts' = [receipts EXCEPT ![k] = @ \cup {c}]
                        /\ Goto(w, "handling")
<1>1. /\ wk[w].pc = "commit" /\ HoldsLease(w) /\ ~Refused(w)
      /\ UNCHANGED <<jobVars, deleted, ask>>
  BY DEF CommitChapter
<1>2. k \in Jobs /\ c \in Chapters /\ ~job[k].cancel /\ k \notin deleted
  BY <1>1, SpendsForItsJob
<1>3. \/ UNCHANGED spendVars /\ \E pc \in {"handling", "conflict", "overlimit"} : Goto(w, pc)
      \/ \E usd \in Bills : Paid(usd)
  BY DEF CommitChapter, SettledBy
<1>4. CASE UNCHANGED spendVars /\ \E pc \in {"handling", "conflict", "overlimit"} : Goto(w, pc)
  <2>1. PICK pc \in {"handling", "conflict", "overlimit"} : Goto(w, pc)
    BY <1>4
  <2>2. pc \in WorkerPC \ {"idle", "reserve", "commit"}
    BY DEF WorkerPC
  <2>3. UNCHANGED <<job, tries, spendVars, deleted, ask>> /\ lease' \in [Jobs -> BOOLEAN]
    BY <1>1, <1>4, Known DEF jobVars
  <2> QED
    BY <1>1, <2>1, <2>2, <2>3, GotoKeeps
<1>5. CASE \E usd \in Bills : Paid(usd)
  <2>1. PICK usd \in Bills : Paid(usd)
    BY <1>5
  <2>2. /\ rsv \in [Jobs -> [Chapters -> {"none", "reserved", "settled"}]]
        /\ bill \in [Jobs -> [Chapters -> Bills \cup {0}]] /\ receipts \in [Jobs -> SUBSET Chapters]
    BY DEF IInv, Typing, TypeOK
  <2>3. rsv' \in [Jobs -> [Chapters -> {"none", "reserved", "settled"}]]
    BY <1>2, <2>1, <2>2
  <2>4. bill' \in [Jobs -> [Chapters -> Bills \cup {0}]]
    BY <1>2, <2>1, <2>2
  <2>5. receipts' \in [Jobs -> SUBSET Chapters]
    BY <1>2, <2>1, <2>2
  <2>6. \A j \in Jobs, d \in Chapters :
            rsv'[j][d] = IF j = k /\ d = c THEN "settled" ELSE rsv[j][d]
    BY <1>2, <2>1, <2>2
  <2>7. \A j \in Jobs, d \in Chapters :
            bill'[j][d] = IF j = k /\ d = c THEN usd ELSE bill[j][d]
    BY <1>2, <2>1, <2>2
  <2>8. \A j \in Jobs, d \in Chapters : d \in receipts'[j] <=> (j = k /\ d = c) \/ d \in receipts[j]
    BY <1>2, <2>1, <2>2
  <2>9. PaidOnce'
    BY <2>6, <2>7, <2>8 DEF IInv, PaidOnce
  <2>10. Spared
    <3>1. \A j \in Jobs \ {k} : rsv'[j] = rsv[j] /\ bill'[j] = bill[j] /\ receipts'[j] = receipts[j]
      BY <1>2, <2>1, <2>2
    <3> QED
      BY <1>2, <3>1 DEF Spared
  <2> QED
    BY <1>1, <2>1, <2>3, <2>4, <2>5, <2>9, <2>10, SpendStep
<1> QED
  BY <1>3, <1>4, <1>5

\* The interactive calls touch no job.
LEMMA AskStep ==
    ASSUME IInv, UNCHANGED <<jobVars, spendVars, deleted, wk>>,
           ask' \in [Asks -> [state : {"none", "open", "settled", "lost"}, usd : 0..AskUsd]]
    PROVE  IInv' /\ FinishedStays /\ Spared
<1>1. Typing'
  BY DEF IInv, Typing, TypeOK, jobVars, spendVars
<1>2. RowsInv' /\ ClaimsInv' /\ DeletedInv' /\ PaidOnce'
  BY DEF IInv, RowsInv, ClaimsInv, DeletedInv, PaidOnce, jobVars, spendVars
<1>3. LimitsHold'
  BY Known, LimitsStep DEF jobVars
<1>4. FinishedStays /\ Spared
  BY DEF FinishedStays, Spared, jobVars, spendVars
<1> QED
  BY <1>1, <1>2, <1>3, <1>4 DEF IInv

\* Provider calls of readers leave the jobs alone.
LEMMA AskKeeps ==
    ASSUME IInv, NEW k \in Asks, ReserveCall(k) \/ SettleCall(k) \/ LoseCall(k)
    PROVE  IInv' /\ FinishedStays /\ Spared
<1> DEFINE CallRows == [state : {"none", "open", "settled", "lost"}, usd : 0..AskUsd]
<1>1. ask \in [Asks -> CallRows]
  BY DEF IInv, Typing, TypeOK
<1>2. \E next \in CallRows : ask' = [ask EXCEPT ![k] = next]
  <2>1. CASE ReserveCall(k)
    <3>1. [ask[k] EXCEPT !.state = "open"] \in CallRows
      BY <1>1
    <3>2. ask' = [ask EXCEPT ![k] = [ask[k] EXCEPT !.state = "open"]]
      BY <1>1, <2>1 DEF ReserveCall
    <3> QED
      BY <3>1, <3>2
  <2>2. CASE SettleCall(k)
    BY <2>2 DEF SettleCall
  <2>3. CASE LoseCall(k)
    <3>1. [ask[k] EXCEPT !.state = "lost"] \in CallRows
      BY <1>1
    <3>2. ask' = [ask EXCEPT ![k] = [ask[k] EXCEPT !.state = "lost"]]
      BY <1>1, <2>3 DEF LoseCall
    <3> QED
      BY <3>1, <3>2
  <2> QED
    BY <2>1, <2>2, <2>3
<1>3. ask' \in [Asks -> CallRows]
  BY <1>1, <1>2
<1>4. UNCHANGED <<jobVars, spendVars, deleted, wk>>
  BY DEF ReserveCall, SettleCall, LoseCall
<1> QED
  BY <1>3, <1>4, AskStep

-----------------------------------------------------------------------------
(* The specification *)

\* The invariant holds at first.
LEMMA InitHolds == Init => IInv
<1> SUFFICES ASSUME Init PROVE IInv
  OBVIOUS
<1>1. /\ job \in [Jobs -> Rows] /\ tries \in [Jobs -> Seq(Outcomes)]
      /\ \A j \in Jobs : job[j].state = "none" /\ ~job[j].cancel /\ tries[j] = <<>>
  BY DEF Init, Rows, States
<1>2. Typing
  <2>1. \A j \in Jobs : tries[j] \in Seq(Outcomes) /\ Len(tries[j]) = 0
    BY <1>1
  <2>2. rsv \in [Jobs -> [Chapters -> {"none", "reserved", "settled"}]]
        /\ bill \in [Jobs -> [Chapters -> Bills \cup {0}]] /\ receipts \in [Jobs -> SUBSET Chapters]
    BY DEF Init
  <2>3. ask \in [Asks -> [state : {"none", "open", "settled", "lost"}, usd : 0..AskUsd]]
    BY LimitsAssumption DEF Init
  <2>4. lease \in [Jobs -> BOOLEAN] /\ deleted \in SUBSET Jobs /\ wk \in [Workers -> {IdleWorker} \cup Claims]
    BY DEF Init
  <2> QED
    BY <1>1, <2>1, <2>2, <2>3, <2>4, LimitsAssumption DEF Typing, TypeOK, Rows, Outcomes
<1>3. RowsInv
  BY <1>1 DEF RowsInv, RowOK, Leased
<1>4. ClaimsInv /\ DeletedInv
  BY DEF Init, ClaimsInv, DeletedInv, IdleWorker
<1>5. PaidOnce
  BY DEF Init, PaidOnce
<1>6. LimitsHold
  <2> SUFFICES ASSUME NEW o \in Owners
               PROVE  Cardinality(Active(o, job)) <= MaxConcurrency /\ Cardinality(Admitted(o)) <= MaxActiveJobs
    BY DEF LimitsHold
  <2>1. Active(o, job) = {} /\ Admitted(o) = {}
    BY <1>1 DEF Active, Admitted, OwnedJobs, Queued, Leased
  <2> QED
    BY <2>1, FS_EmptySet, LimitsAssumption
<1> QED
  BY <1>2, <1>3, <1>4, <1>5, <1>6 DEF IInv

\* Every call of a worker keeps the invariant.
LEMMA WorkKeeps ==
    ASSUME IInv, NEW w \in Workers, Work(w)
    PROVE  IInv' /\ FinishedStays /\ Spared
<1>1. CASE Claim(w)
  BY <1>1, ClaimKeeps
<1>2. CASE \E body \in Bodies, c \in Chapters \cup {0} : Begin(w, body, c)
  BY <1>2, BeginKeeps
<1>3. CASE LoseLease(w)
  BY <1>3, ReturnKeeps DEF LoseLease
<1>4. CASE Ineligible(w)
  BY <1>4, ReturnKeeps DEF Ineligible
<1>5. CASE Start(w)
  BY <1>5, StartKeeps
<1>6. CASE Heartbeat(w)
  <2>1. "handling" \in WorkerPC \ {"idle", "reserve", "commit"}
    BY DEF WorkerPC
  <2>2. wk[w].pc # "idle" /\ Goto(w, "handling") /\ UNCHANGED <<job, tries, spendVars, deleted, ask>>
    BY <1>6 DEF Heartbeat
  <2>3. lease' \in [Jobs -> BOOLEAN]
    BY <1>6, Known DEF Heartbeat
  <2> QED
    BY <2>1, <2>2, <2>3, GotoKeeps
<1>7. CASE ReserveSpend(w)
  BY <1>7, ReserveSpendKeeps
<1>8. CASE CommitChapter(w)
  BY <1>8, CommitChapterKeeps
<1>9. CASE Succeed(w)
  BY <1>9, SucceedKeeps
<1>10. CASE Fail(w)
  BY <1>10, FailKeeps
<1>11. CASE Crash(w)
  BY <1>11, ReturnKeeps DEF Crash
<1> QED
  BY <1>1, <1>2, <1>3, <1>4, <1>5, <1>6, <1>7, <1>8, <1>9, <1>10, <1>11 DEF Work, Body

\* Every step keeps the invariant.
LEMMA StepKeeps ==
    ASSUME IInv, [Next]_vars
    PROVE  IInv' /\ FinishedStays /\ Spared
<1>1. CASE \E w \in Workers : Work(w)
  BY <1>1, WorkKeeps
<1>2. CASE \E j \in Jobs : Lapse(j)
  BY <1>2, LapseKeeps
<1>3. CASE Request
  <2>1. CASE \E j \in Jobs : Cancel(j) \/ Delete(j) \/ \E ready \in BOOLEAN : Upload(j, ready)
    BY <2>1, CancelKeeps, DeleteKeeps, UploadKeeps
  <2>2. CASE \E o \in Owners : Configure(o) \/ Reconfigure(o)
    BY <2>2, ConfigureKeeps, ReconfigureKeeps
  <2>3. CASE \E k \in Asks : ReserveCall(k) \/ SettleCall(k) \/ LoseCall(k)
    BY <2>3, AskKeeps
  <2> QED
    BY <1>3, <2>1, <2>2, <2>3 DEF Request
<1>4. CASE UNCHANGED vars
  <2>1. /\ UNCHANGED <<jobVars, spendVars, deleted, wk>>
        /\ ask' \in [Asks -> [state : {"none", "open", "settled", "lost"}, usd : 0..AskUsd]]
    BY <1>4 DEF vars, jobVars, spendVars, IInv, Typing, TypeOK
  <2> QED
    BY <2>1, AskStep
<1> QED
  BY <1>1, <1>2, <1>3, <1>4 DEF Next

\* The inductive invariant: besides what the queue promises, that a row and its
\* attempts agree, that every worker's attempt is one of its job's, and that the job
\* of a deleted book is over or stopping.
THEOREM QueueInductive == Spec => []IInv
<1>1. IInv /\ [Next]_vars => IInv'
  BY StepKeeps
<1> QED
  BY <1>1, InitHolds, PTL DEF Spec

\* A job's latest attempt alone is open, exactly while the job is leased, and no
\* owner exceeds its concurrency or its unfinished jobs (claim_next,
\* _recover_expired, create_uploaded_book), whatever crashes and lapses.
THEOREM Leases == Spec => []LeasesHold
<1>1. IInv => LeasesHold
  BY DEF IInv, RowsInv, RowOK, LeasesHold, OneOpenLease
<1> QED
  BY <1>1, QueueInductive, PTL

\* A chapter is published exactly when it is paid for (commit_chapter).
THEOREM Paid == Spec => []PaidOnce
<1>1. IInv => PaidOnce
  BY DEF IInv
<1> QED
  BY <1>1, QueueInductive, PTL

\* No step reopens a finished job or rewrites an attempt that was closed, and a
\* cancelled job ends cancelled (start, succeed, fail, _recover_expired,
\* _cancel_locked).
THEOREM Ends == Spec => EndsHold
<1>1. IInv => CancelledEndsCancelled
  BY DEF IInv, RowsInv, RowOK, CancelledEndsCancelled
<1>2. IInv /\ [Next]_vars => FinishedStays
  BY StepKeeps
<1> QED
  BY <1>1, <1>2, QueueInductive, PTL DEF Spec, EndsHold

\* No step reserves, bills or publishes for a job that is cancelled or whose book is
\* deleted (reserve_spend, commit_chapter).
THEOREM SpentBeforeCancel == Spec => NothingAfterCancel
<1>1. IInv /\ [Next]_vars => Spared
  BY StepKeeps
<1>2. Spared =>  \A j \in Jobs : job[j].cancel \/ j \in deleted =>
                        /\ receipts'[j] = receipts[j]
                        /\ bill'[j] = bill[j]
                        /\ rsv'[j] = rsv[j]
  BY DEF Spared
<1> QED
  BY <1>1, <1>2, QueueInductive, PTL DEF Spec, NothingAfterCancel

-----------------------------------------------------------------------------
(* The spend ceiling *)

Reservations == [Jobs -> [Chapters -> {"none", "reserved", "settled"}]]
Costs        == [Jobs -> [Chapters -> Nat]]
Calls        == [Asks -> [state : {"none", "open", "settled", "lost"}, usd : 0..AskUsd]]

Cells(o)         == OwnedJobs(o) \X Chapters
ReservedIn(o, r) == {x \in Cells(o) : r[x[1]][x[2]] = "reserved"}
OpenIn(o, a)     == {k \in OwnedAsks(o) : a[k].state \in {"open", "lost"}}
SettledIn(o, a)  == {k \in OwnedAsks(o) : a[k].state = "settled"}
JobBills(o, b)   == SumFunctionOnSet([x \in Cells(o) |-> b[x[1]][x[2]]], Cells(o))
AskBills(o, a)   == SumFunctionOnSet([k \in SettledIn(o, a) |-> a[k].usd], SettledIn(o, a))

\* The owner's usage with reservations r, ledger rows b and calls a.
UsageOf(o, r, b, a) == JobBills(o, b) + AskBills(o, a) + ChapterUsd * Cardinality(ReservedIn(o, r))
                       + AskUsd * Cardinality(OpenIn(o, a))

\* What belongs to an owner is finitely much.
LEMMA OwnedIsFinite ==
    ASSUME NEW o
    PROVE  /\ IsFiniteSet(Cells(o)) /\ IsFiniteSet(OwnedAsks(o))
           /\ \A x \in Cells(o) : x[1] \in Jobs /\ x[2] \in Chapters
           /\ \A x \in Cells(o) : \A j, c : x = <<j, c>> <=> x[1] = j /\ x[2] = c
<1>1. IsFiniteSet(OwnedJobs(o)) /\ IsFiniteSet(OwnedAsks(o)) /\ IsFiniteSet(Chapters)
  BY SetsAssumption, FS_Subset DEF OwnedJobs, OwnedAsks
<1>2. IsFiniteSet(Cells(o))
  BY <1>1, FS_Product DEF Cells
<1> QED
  BY <1>1, <1>2 DEF Cells, OwnedJobs

\* Counting what is reserved.
LEMMA CountsReserved ==
    ASSUME NEW o, NEW r
    PROVE  IsFiniteSet(ReservedIn(o, r)) /\ Cardinality(ReservedIn(o, r)) \in Nat
<1>1. ReservedIn(o, r) \subseteq Cells(o)
  BY DEF ReservedIn
<1> QED
  BY <1>1, OwnedIsFinite, FS_Subset, FS_CardinalityType

\* Counting the calls that are open, and those that are settled.
LEMMA CountsCalls ==
    ASSUME NEW o, NEW a
    PROVE  /\ IsFiniteSet(OpenIn(o, a)) /\ Cardinality(OpenIn(o, a)) \in Nat
           /\ IsFiniteSet(SettledIn(o, a))
<1>1. OpenIn(o, a) \subseteq OwnedAsks(o) /\ SettledIn(o, a) \subseteq OwnedAsks(o)
  BY DEF OpenIn, SettledIn
<1> QED
  BY <1>1, OwnedIsFinite, FS_Subset, FS_CardinalityType

\* The ledger rows of jobs add up to a natural number.
LEMMA AddsJobBills ==
    ASSUME NEW o, NEW b \in Costs
    PROVE  JobBills(o, b) \in Nat
<1>1. \A x \in Cells(o) : b[x[1]][x[2]] \in Nat
  BY OwnedIsFinite DEF Costs
<1> QED
  BY <1>1, OwnedIsFinite, SumIsNat DEF JobBills

\* So do those of calls.
LEMMA AddsAskBills ==
    ASSUME NEW o, NEW a \in Calls
    PROVE  AskBills(o, a) \in Nat
<1>1. \A k \in SettledIn(o, a) : a[k].usd \in Nat
  BY LimitsAssumption DEF SettledIn, OwnedAsks, Calls
<1> QED
  BY <1>1, CountsCalls, SumIsNat DEF AskBills

\* An owner's usage is the sum of its parts, before and after a step.
LEMMA UsageIs ==
    ASSUME NEW o
    PROVE  /\ Usage(o) = UsageOf(o, rsv, bill, ask)
           /\ Usage(o)' = UsageOf(o, rsv', bill', ask')
BY DEF Usage, UsageOf, Ledger, SumFunction, JobBills, AskBills, Cells, SettledIn, ReservedIn, Reserved,
       OpenAsks, OpenIn

\* A new reservation is one more of its owner's, and no other's.
LEMMA ReservesOne ==
    ASSUME NEW o, NEW r \in Reservations, NEW j \in Jobs, NEW c \in Chapters, r[j][c] # "reserved"
    PROVE  Cardinality(ReservedIn(o, [r EXCEPT ![j][c] = "reserved"]))
           = Cardinality(ReservedIn(o, r)) + (IF Owner[j] = o THEN 1 ELSE 0)
<1> DEFINE s == [r EXCEPT ![j][c] = "reserved"]
<1>1. \A i \in Jobs, d \in Chapters : s[i][d] = IF i = j /\ d = c THEN "reserved" ELSE r[i][d]
  BY DEF Reservations
<1> HIDE DEF s
<1>2. CASE Owner[j] = o
  <2>1. <<j, c>> \in Cells(o) /\ <<j, c>> \notin ReservedIn(o, r)
    BY <1>2 DEF Cells, OwnedJobs, ReservedIn
  <2>2. ReservedIn(o, s) = ReservedIn(o, r) \union {<<j, c>>}
    BY <1>1, <2>1, OwnedIsFinite DEF ReservedIn
  <2> QED
    BY <1>2, <2>1, <2>2, CountsReserved, FS_AddElement DEF s
<1>3. CASE Owner[j] # o
  <2>1. ReservedIn(o, s) = ReservedIn(o, r)
    BY <1>1, <1>3, OwnedIsFinite DEF ReservedIn, Cells, OwnedJobs
  <2> QED
    BY <1>3, <2>1, CountsReserved DEF s
<1> QED
  BY <1>2, <1>3

\* A settled reservation is one less.
LEMMA SettlesOne ==
    ASSUME NEW o, NEW r \in Reservations, NEW j \in Jobs, NEW c \in Chapters, r[j][c] = "reserved"
    PROVE  Cardinality(ReservedIn(o, [r EXCEPT ![j][c] = "settled"]))
           = Cardinality(ReservedIn(o, r)) - (IF Owner[j] = o THEN 1 ELSE 0)
<1> DEFINE s == [r EXCEPT ![j][c] = "settled"]
<1>1. \A i \in Jobs, d \in Chapters : s[i][d] = IF i = j /\ d = c THEN "settled" ELSE r[i][d]
  BY DEF Reservations
<1> HIDE DEF s
<1>2. CASE Owner[j] = o
  <2>1. <<j, c>> \in ReservedIn(o, r)
    BY <1>2 DEF Cells, OwnedJobs, ReservedIn
  <2>2. ReservedIn(o, s) = ReservedIn(o, r) \ {<<j, c>>}
    BY <1>1, <2>1, OwnedIsFinite DEF ReservedIn
  <2> QED
    BY <1>2, <2>1, <2>2, CountsReserved, FS_RemoveElement DEF s
<1>3. CASE Owner[j] # o
  <2>1. ReservedIn(o, s) = ReservedIn(o, r)
    BY <1>1, <1>3, OwnedIsFinite DEF ReservedIn, Cells, OwnedJobs
  <2> QED
    BY <1>3, <2>1, CountsReserved DEF s
<1> QED
  BY <1>2, <1>3

\* The ledger b with the row of one chapter.
Billed(b, j, c, usd) == [b EXCEPT ![j][c] = usd]

\* A ledger row of a chapter without one adds its amount to its owner's.
LEMMA BillsOne ==
    ASSUME NEW o, NEW b \in Costs, NEW j \in Jobs, NEW c \in Chapters, b[j][c] = 0, NEW usd \in Nat
    PROVE  JobBills(o, Billed(b, j, c, usd)) = JobBills(o, b) + (IF Owner[j] = o THEN usd ELSE 0)
<1> USE DEF Billed
<1> DEFINE e == [b EXCEPT ![j][c] = usd]
           f == [x \in Cells(o) |-> b[x[1]][x[2]]]
           g == [x \in Cells(o) |-> e[x[1]][x[2]]]
<1>1. \A i \in Jobs, d \in Chapters : e[i][d] = IF i = j /\ d = c THEN usd ELSE b[i][d]
  BY DEF Costs
<1> HIDE DEF e
<1>2. \A x \in Cells(o) : /\ f[x] \in Nat /\ g[x] \in Nat
                          /\ f[x] = b[x[1]][x[2]] /\ g[x] = e[x[1]][x[2]]
  BY <1>1, OwnedIsFinite DEF Costs
<1>3. JobBills(o, b) = SumFunctionOnSet(f, Cells(o)) /\ JobBills(o, e) = SumFunctionOnSet(g, Cells(o))
  BY DEF JobBills
<1> HIDE DEF f, g
<1>4. JobBills(o, b) \in Nat
  BY AddsJobBills
<1>5. CASE Owner[j] = o
  <2>1. <<j, c>> \in Cells(o)
    BY <1>5 DEF Cells, OwnedJobs
  <2>2. \A x \in Cells(o) \ {<<j, c>>} : f[x] = g[x]
    BY <1>1, <1>2, OwnedIsFinite
  <2>3. f[<<j, c>>] = 0 /\ g[<<j, c>>] = usd
    BY <1>1, <1>2, <2>1
  <2>4. SumFunctionOnSet(g, Cells(o)) = SumFunctionOnSet(f, Cells(o)) - f[<<j, c>>] + g[<<j, c>>]
    BY <1>2, <2>1, <2>2, OwnedIsFinite, SumChanges
  <2> QED
    BY <1>3, <1>4, <1>5, <2>3, <2>4 DEF e
<1>6. CASE Owner[j] # o
  <2>1. \A x \in Cells(o) : f[x] = g[x]
    BY <1>1, <1>2, <1>6, OwnedIsFinite DEF Cells, OwnedJobs
  <2>2. SumFunctionOnSet(f, Cells(o)) = SumFunctionOnSet(g, Cells(o))
    BY <2>1, OwnedIsFinite, SumDepends
  <2> QED
    BY <1>3, <1>4, <1>6, <2>2 DEF e
<1> QED
  BY <1>5, <1>6

\* A call that is neither settled before nor after leaves its owner's bills as they were.
LEMMA BillsNoCall ==
    ASSUME NEW o, NEW a \in Calls, NEW k \in Asks, NEW state \in {"open", "lost"}, a[k].state \in {"none", "open"}
    PROVE  AskBills(o, [a EXCEPT ![k].state = state]) = AskBills(o, a)
<1> DEFINE e == [a EXCEPT ![k].state = state]
           f == [i \in SettledIn(o, a) |-> a[i].usd]
           g == [i \in SettledIn(o, a) |-> e[i].usd]
<1>1. \A i \in Asks : e[i] = IF i = k THEN [a[k] EXCEPT !.state = state] ELSE a[i]
  BY DEF Calls
<1>2. e[k].state = state
  BY <1>1 DEF Calls
<1> HIDE DEF e
<1>3. SettledIn(o, e) = SettledIn(o, a) /\ k \notin SettledIn(o, a)
  BY <1>1, <1>2 DEF SettledIn, OwnedAsks
<1>4. \A i \in SettledIn(o, a) : f[i] = g[i]
  BY <1>1, <1>3 DEF SettledIn, OwnedAsks
<1>5. AskBills(o, a) = SumFunctionOnSet(f, SettledIn(o, a))
      /\ AskBills(o, e) = SumFunctionOnSet(g, SettledIn(o, a))
  BY <1>3 DEF AskBills
<1> HIDE DEF f, g
<1> QED
  BY <1>4, <1>5, CountsCalls, SumDepends DEF e

\* A call that is made takes one more place of its owner's, a call that is lost keeps it.
LEMMA OpensOne ==
    ASSUME NEW o, NEW a \in Calls, NEW k \in Asks, NEW state \in {"open", "lost"}, a[k].state \in {"none", "open"}
    PROVE  Cardinality(OpenIn(o, [a EXCEPT ![k].state = state]))
           = Cardinality(OpenIn(o, a)) + (IF Owner[k] = o /\ a[k].state = "none" THEN 1 ELSE 0)
<1> DEFINE e == [a EXCEPT ![k].state = state]
<1>1. \A i \in Asks : e[i] = IF i = k THEN [a[k] EXCEPT !.state = state] ELSE a[i]
  BY DEF Calls
<1>2. e[k].state = state
  BY <1>1 DEF Calls
<1> HIDE DEF e
<1>3. CASE Owner[k] = o /\ a[k].state = "none"
  <2>1. k \notin OpenIn(o, a)
    BY <1>3 DEF OpenIn
  <2>2. OpenIn(o, e) = OpenIn(o, a) \union {k}
    BY <1>1, <1>2, <1>3 DEF OpenIn, OwnedAsks
  <2> QED
    BY <1>3, <2>1, <2>2, CountsCalls, FS_AddElement DEF e
<1>4. CASE ~(Owner[k] = o /\ a[k].state = "none")
  <2>1. OpenIn(o, e) = OpenIn(o, a)
    BY <1>1, <1>2, <1>4 DEF OpenIn, OwnedAsks
  <2> QED
    BY <1>4, <2>1, CountsCalls DEF e
<1> QED
  BY <1>3, <1>4

\* A call that is settled gives its place back and bills its owner.
LEMMA SettlesCall ==
    ASSUME NEW o, NEW a \in Calls, NEW k \in Asks, NEW usd \in 0..AskUsd, a[k].state = "open"
    PROVE  LET e == [a EXCEPT ![k] = [state |-> "settled", usd |-> usd]]
           IN  /\ Cardinality(OpenIn(o, e)) = Cardinality(OpenIn(o, a)) - (IF Owner[k] = o THEN 1 ELSE 0)
               /\ AskBills(o, e) = AskBills(o, a) + (IF Owner[k] = o THEN usd ELSE 0)
<1> DEFINE e == [a EXCEPT ![k] = [state |-> "settled", usd |-> usd]]
           f == [i \in SettledIn(o, a) |-> a[i].usd]
           g == [i \in SettledIn(o, e) |-> e[i].usd]
<1>1. \A i \in Asks : e[i] = IF i = k THEN [state |-> "settled", usd |-> usd] ELSE a[i]
  BY DEF Calls
<1>2. e[k].state = "settled" /\ e[k].usd = usd
  BY <1>1
<1>3. e \in Calls
  BY DEF Calls
<1> HIDE DEF e
<1>4. k \notin SettledIn(o, a)
  BY DEF SettledIn
<1>5. AskBills(o, a) = SumFunctionOnSet(f, SettledIn(o, a)) /\ AskBills(o, e) = SumFunctionOnSet(g, SettledIn(o, e))
  BY DEF AskBills
<1>6. AskBills(o, a) \in Nat /\ usd \in Nat
  BY AddsAskBills, LimitsAssumption
<1>7. CASE Owner[k] = o
  <2>1. k \in OpenIn(o, a) /\ OpenIn(o, e) = OpenIn(o, a) \ {k}
    BY <1>1, <1>2, <1>7 DEF OpenIn, OwnedAsks
  <2>2. SettledIn(o, e) = SettledIn(o, a) \union {k}
    BY <1>1, <1>2, <1>7 DEF SettledIn, OwnedAsks
  <2>3. \A i \in SettledIn(o, a) : f[i] = g[i]
    BY <1>1, <1>4, <2>2 DEF SettledIn, OwnedAsks
  <2>4. g[k] = usd /\ \A i \in SettledIn(o, a) \union {k} : g[i] \in Nat
    BY <1>2, <1>3, <2>2, LimitsAssumption DEF SettledIn, OwnedAsks, Calls
  <2> HIDE DEF f, g
  <2>5. SumFunctionOnSet(f, SettledIn(o, a)) = SumFunctionOnSet(g, SettledIn(o, a))
    BY <2>3, CountsCalls, SumDepends
  <2>6. SumFunctionOnSet(g, SettledIn(o, a) \union {k}) = g[k] + SumFunctionOnSet(g, SettledIn(o, a))
    BY <1>4, <2>4, CountsCalls, SumAdds
  <2>7. AskBills(o, e) = AskBills(o, a) + usd
    BY <1>5, <1>6, <2>2, <2>4, <2>5, <2>6
  <2>8. Cardinality(OpenIn(o, e)) = Cardinality(OpenIn(o, a)) - 1
    BY <2>1, CountsCalls, FS_RemoveElement
  <2> QED
    BY <1>7, <2>7, <2>8 DEF e
<1>8. CASE Owner[k] # o
  <2>1. OpenIn(o, e) = OpenIn(o, a) /\ SettledIn(o, e) = SettledIn(o, a)
    BY <1>1, <1>8 DEF OpenIn, SettledIn, OwnedAsks
  <2>2. \A i \in SettledIn(o, a) : f[i] = g[i]
    BY <1>1, <1>4, <2>1 DEF SettledIn, OwnedAsks
  <2> HIDE DEF f, g
  <2>3. AskBills(o, e) = AskBills(o, a)
    BY <1>5, <2>1, <2>2, CountsCalls, SumDepends
  <2> QED
    BY <1>6, <1>8, <2>1, <2>3, CountsCalls DEF e
<1> QED
  BY <1>7, <1>8

\* The ceiling survives a step that touches no reservation, ledger row or call.
LEMMA CeilingRests ==
    ASSUME CeilingHolds, UNCHANGED <<rsv, bill, ask>>
    PROVE  CeilingHolds'
BY UsageIs DEF CeilingHolds

\* The parts of an owner's usage, each a natural number.
LEMMA Parts ==
    ASSUME IInv, NEW o
    PROVE  /\ rsv \in Reservations /\ bill \in Costs /\ ask \in Calls
           /\ JobBills(o, bill) \in Nat /\ AskBills(o, ask) \in Nat
           /\ Cardinality(ReservedIn(o, rsv)) \in Nat /\ Cardinality(OpenIn(o, ask)) \in Nat
           /\ ChapterUsd * Cardinality(ReservedIn(o, rsv)) \in Nat
           /\ AskUsd * Cardinality(OpenIn(o, ask)) \in Nat
           /\ Usage(o) \in Nat
<1>1. rsv \in Reservations /\ ask \in Calls
  BY DEF IInv, Typing, TypeOK, Reservations, Calls
<1>2. bill \in Costs
  <2>1. bill \in [Jobs -> [Chapters -> Bills \cup {0}]] /\ Bills \cup {0} \subseteq Nat
    BY LimitsAssumption DEF IInv, Typing, TypeOK
  <2> QED
    BY <2>1 DEF Costs
<1>3. /\ JobBills(o, bill) \in Nat /\ AskBills(o, ask) \in Nat
      /\ Cardinality(ReservedIn(o, rsv)) \in Nat /\ Cardinality(OpenIn(o, ask)) \in Nat
  BY <1>1, <1>2, AddsJobBills, AddsAskBills, CountsReserved, CountsCalls
<1>4. \A x, n \in Nat : x * n \in Nat
  OBVIOUS
<1>5. ChapterUsd \in Nat /\ AskUsd \in Nat
  BY LimitsAssumption
<1> QED
  BY <1>1, <1>2, <1>3, <1>4, <1>5, UsageIs DEF UsageOf

\* One place more, or one less, at a price.
LEMMA OneMore ==
    ASSUME NEW x \in Nat, NEW n \in Nat
    PROVE  x * (n + 1) = x * n + x /\ (n > 0 => x * (n - 1) = x * n - x) /\ x * n \in Nat
OBVIOUS

\* A reservation is made only when its owner can pay for all of it.
LEMMA ReserveSpendFits ==
    ASSUME IInv, CeilingHolds, NEW w \in Workers, ReserveSpend(w)
    PROVE  CeilingHolds'
<1> DEFINE j == wk[w].j
           c == wk[w].ch
<1>1. UNCHANGED <<bill, ask>>
  BY DEF ReserveSpend
<1>2. \/ UNCHANGED rsv
      \/ rsv[j][c] # "reserved" /\ Affordable(Owner[j], ChapterUsd) /\ rsv' = [rsv EXCEPT ![j][c] = "reserved"]
  BY DEF ReserveSpend
<1>3. CASE UNCHANGED rsv
  BY <1>1, <1>3, CeilingRests
<1>4. CASE rsv[j][c] # "reserved" /\ Affordable(Owner[j], ChapterUsd) /\ rsv' = [rsv EXCEPT ![j][c] = "reserved"]
  <2>1. j \in Jobs /\ c \in Chapters
    BY SpendsForItsJob DEF ReserveSpend
  <2> SUFFICES ASSUME NEW o \in Owners PROVE Usage(o)' <= Ceiling
    BY DEF CeilingHolds
  <2> DEFINE n == Cardinality(ReservedIn(o, rsv))
  <2>2. Cardinality(ReservedIn(o, rsv')) = n + (IF Owner[j] = o THEN 1 ELSE 0)
    BY <1>4, <2>1, Parts, ReservesOne
  <2>3. n \in Nat /\ ChapterUsd \in Nat /\ Ceiling \in Nat
    BY Parts, LimitsAssumption
  <2>4. ChapterUsd * Cardinality(ReservedIn(o, rsv')) = ChapterUsd * n + (IF Owner[j] = o THEN ChapterUsd ELSE 0)
    BY <2>2, <2>3, OneMore
  <2>5. Usage(o)' = Usage(o) + (IF Owner[j] = o THEN ChapterUsd ELSE 0)
    BY <1>1, <2>3, <2>4, Parts, UsageIs DEF UsageOf
  <2> HIDE DEF n
  <2>6. Usage(o) <= Ceiling /\ Usage(o) \in Nat
    BY Parts DEF CeilingHolds
  <2> QED
    BY <1>4, <2>3, <2>5, <2>6 DEF Affordable
<1> QED
  BY <1>2, <1>3, <1>4

\* A chapter's bill takes the place of its reservation when it fits.
LEMMA CommitChapterFits ==
    ASSUME IInv, CeilingHolds, NEW w \in Workers, CommitChapter(w)
    PROVE  CeilingHolds'
<1> DEFINE j == wk[w].j
           c == wk[w].ch
           Pays(usd) == /\ rsv[j][c] = "reserved" /\ BillFits(Owner[j], usd)
                        /\ rsv' = [rsv EXCEPT ![j][c] = "settled"]
                        /\ bill' = [bill EXCEPT ![j][c] = usd]
<1>1. UNCHANGED ask
  BY DEF CommitChapter
<1>2. UNCHANGED <<rsv, bill>> \/ \E usd \in Bills : Pays(usd)
  BY DEF CommitChapter, SettledBy, spendVars
<1>3. CASE UNCHANGED <<rsv, bill>>
  BY <1>1, <1>3, CeilingRests
<1>4. CASE \E usd \in Bills : Pays(usd)
  <2>1. PICK usd \in Bills : Pays(usd)
    BY <1>4
  <2>2. j \in Jobs /\ c \in Chapters
    BY SpendsForItsJob DEF CommitChapter
  <2>3. bill[j][c] = 0
    BY <2>1, <2>2 DEF IInv, PaidOnce
  <2> SUFFICES ASSUME NEW o \in Owners PROVE Usage(o)' <= Ceiling
    BY DEF CeilingHolds
  <2> DEFINE n == Cardinality(ReservedIn(o, rsv))
             m == Cardinality(ReservedIn(o, rsv'))
  <2>4. n \in Nat /\ ChapterUsd \in Nat /\ Ceiling \in Nat /\ usd \in Nat
    BY Parts, LimitsAssumption
  <2>5. m \in Nat /\ m = n - (IF Owner[j] = o THEN 1 ELSE 0)
    BY <2>1, <2>2, Parts, SettlesOne, CountsReserved
  <2>6. JobBills(o, bill') = JobBills(o, bill) + (IF Owner[j] = o THEN usd ELSE 0)
    <3>1. bill \in Costs /\ bill' = Billed(bill, j, c, usd)
      BY <2>1, Parts DEF Billed
    <3> HIDE DEF n, m, j, c, Pays
    <3>2. usd \in Nat
      BY <2>4
    <3>3. JobBills(o, Billed(bill, j, c, usd)) = JobBills(o, bill) + (IF Owner[j] = o THEN usd ELSE 0)
      BY <2>2, <2>3, <3>1, <3>2, BillsOne
    <3> QED
      BY <3>1, <3>3
  <2>7. Usage(o) <= Ceiling /\ Usage(o) \in Nat
    BY Parts DEF CeilingHolds
  <2>8. Usage(o) = JobBills(o, bill) + AskBills(o, ask) + ChapterUsd * n + AskUsd * Cardinality(OpenIn(o, ask))
    BY UsageIs DEF UsageOf
  <2>9. Usage(o)' = JobBills(o, bill') + AskBills(o, ask) + ChapterUsd * m + AskUsd * Cardinality(OpenIn(o, ask))
    BY <1>1, UsageIs DEF UsageOf
  <2>10. /\ JobBills(o, bill) \in Nat /\ AskBills(o, ask) \in Nat /\ AskUsd * Cardinality(OpenIn(o, ask)) \in Nat
         /\ ChapterUsd * n \in Nat
    BY Parts
  <2> HIDE DEF n, m, j, c
  <2>11. CASE Owner[j] = o
    <3>1. n > 0 /\ m = n - 1
      BY <2>4, <2>5, <2>11
    <3>2. ChapterUsd * m = ChapterUsd * n - ChapterUsd
      BY <2>4, <3>1, OneMore
    <3>3. Usage(o)' = Usage(o) - ChapterUsd + usd
      BY <2>4, <2>6, <2>8, <2>9, <2>10, <2>11, <3>2
    <3> QED
      BY <2>1, <2>11, <3>3 DEF BillFits
  <2>12. CASE Owner[j] # o
    <3>1. m = n
      BY <2>4, <2>5, <2>12
    <3>2. Usage(o)' = Usage(o)
      BY <2>6, <2>8, <2>9, <2>10, <2>12, <3>1
    <3> QED
      BY <2>7, <3>2
  <2> QED
    BY <2>11, <2>12
<1> QED
  BY <1>2, <1>3, <1>4

\* A call is admitted when its owner can pay for all of it, and costs at most that.
LEMMA CallsFit ==
    ASSUME IInv, CeilingHolds, NEW k \in Asks, ReserveCall(k) \/ SettleCall(k) \/ LoseCall(k)
    PROVE  CeilingHolds'
<1>1. UNCHANGED <<rsv, bill>>
  BY DEF ReserveCall, SettleCall, LoseCall, spendVars
<1> SUFFICES ASSUME NEW o \in Owners PROVE Usage(o)' <= Ceiling
  BY DEF CeilingHolds
<1> DEFINE n == Cardinality(OpenIn(o, ask))
           m == Cardinality(OpenIn(o, ask'))
           rest == JobBills(o, bill) + ChapterUsd * Cardinality(ReservedIn(o, rsv))
<1>2. n \in Nat /\ m \in Nat /\ AskUsd \in Nat /\ Ceiling \in Nat /\ AskBills(o, ask) \in Nat
      /\ AskUsd * n \in Nat /\ rest \in Nat
  BY Parts, CountsCalls, LimitsAssumption
<1>3. Usage(o) <= Ceiling /\ Usage(o) \in Nat
  BY Parts DEF CeilingHolds
<1>4. Usage(o) = rest + AskBills(o, ask) + AskUsd * n
  BY Parts, UsageIs DEF UsageOf
<1>5. AskBills(o, ask') \in Nat /\ AskUsd * m \in Nat => Usage(o)' = rest + AskBills(o, ask') + AskUsd * m
  BY <1>1, Parts, UsageIs DEF UsageOf
<1> HIDE DEF rest
<1>6. CASE ReserveCall(k)
  <2>1. ask[k].state = "none" /\ Affordable(Owner[k], AskUsd) /\ ask' = [ask EXCEPT ![k].state = "open"]
    BY <1>6 DEF ReserveCall, AskAdmitted
  <2>2. m = n + (IF Owner[k] = o THEN 1 ELSE 0) /\ AskBills(o, ask') = AskBills(o, ask)
    <3>1. ask \in Calls
      BY Parts
    <3>2. m = n + (IF Owner[k] = o THEN 1 ELSE 0)
      BY <2>1, <3>1, OpensOne
    <3>3. AskBills(o, ask') = AskBills(o, ask)
      BY <2>1, <3>1, BillsNoCall
    <3> QED
      BY <3>2, <3>3
  <2> HIDE DEF n, m
  <2>3. AskUsd * m = AskUsd * n + (IF Owner[k] = o THEN AskUsd ELSE 0)
    BY <1>2, <2>2, OneMore
  <2>4. Usage(o)' = Usage(o) + (IF Owner[k] = o THEN AskUsd ELSE 0)
    BY <1>2, <1>4, <1>5, <2>2, <2>3
  <2> QED
    BY <1>2, <1>3, <2>1, <2>4 DEF Affordable
<1>7. CASE SettleCall(k)
  <2>1. PICK usd \in 0..AskUsd : ask' = [ask EXCEPT ![k] = [state |-> "settled", usd |-> usd]]
    BY <1>7 DEF SettleCall
  <2>2. ask[k].state = "open"
    BY <1>7 DEF SettleCall
  <2>3. /\ m = n - (IF Owner[k] = o THEN 1 ELSE 0)
        /\ AskBills(o, ask') = AskBills(o, ask) + (IF Owner[k] = o THEN usd ELSE 0)
    BY <2>1, <2>2, Parts, SettlesCall
  <2> HIDE DEF n, m
  <2>4. CASE Owner[k] = o
    <3>1. AskUsd * m = AskUsd * n - AskUsd /\ AskUsd * m \in Nat
      BY <1>2, <2>3, <2>4, OneMore
    <3>2. Usage(o)' = Usage(o) + usd - AskUsd
      BY <1>2, <1>4, <1>5, <2>3, <2>4, <3>1
    <3> QED
      BY <1>2, <1>3, <3>2
  <2>5. CASE Owner[k] # o
    <3>1. m = n /\ AskBills(o, ask') = AskBills(o, ask)
      BY <1>2, <2>3, <2>5
    <3> QED
      BY <1>2, <1>3, <1>4, <1>5, <3>1
  <2> QED
    BY <2>4, <2>5
<1>8. CASE LoseCall(k)
  <2>1. ask[k].state = "open" /\ ask' = [ask EXCEPT ![k].state = "lost"]
    BY <1>8 DEF LoseCall
  <2>2. m = n /\ AskBills(o, ask') = AskBills(o, ask)
    <3>1. ask \in Calls
      BY Parts
    <3>2. AskBills(o, ask') = AskBills(o, ask)
      BY <2>1, <3>1, BillsNoCall
    <3>3. m = n + 0
      BY <2>1, <3>1, OpensOne
    <3> QED
      BY <1>2, <3>2, <3>3
  <2> QED
    BY <1>2, <1>3, <1>4, <1>5, <2>2
<1> QED
  BY <1>6, <1>7, <1>8

\* Nothing is used before the first reservation.
LEMMA NothingUsed == Init => CeilingHolds
<1> SUFFICES ASSUME Init, NEW o \in Owners PROVE Usage(o) <= Ceiling
  BY DEF CeilingHolds
<1>1. ReservedIn(o, rsv) = {} /\ OpenIn(o, ask) = {} /\ SettledIn(o, ask) = {}
  BY OwnedIsFinite DEF Init, ReservedIn, OpenIn, SettledIn, OwnedAsks
<1>2. JobBills(o, bill) = 0
  <2> DEFINE f == [x \in Cells(o) |-> bill[x[1]][x[2]]]
  <2>1. \A x \in Cells(o) : f[x] = 0
    BY OwnedIsFinite DEF Init
  <2> HIDE DEF f
  <2>2. SumFunctionOnSet(f, Cells(o)) = 0
    BY <2>1, OwnedIsFinite, SumZero
  <2> QED
    BY <2>2 DEF JobBills, f
<1>3. AskBills(o, ask) = 0
  BY <1>1, SumEmpty DEF AskBills
<1>4. ChapterUsd * 0 = 0 /\ AskUsd * 0 = 0 /\ 0 <= Ceiling
  <2>1. \A x \in Nat : x * 0 = 0 /\ 0 <= x
    OBVIOUS
  <2> QED
    BY <2>1, LimitsAssumption
<1> QED
  BY <1>1, <1>2, <1>3, <1>4, UsageIs, FS_EmptySet DEF UsageOf

\* Only reservations, commits and calls change what is used.
LEMMA StepFits ==
    ASSUME IInv, CeilingHolds, [Next]_vars
    PROVE  CeilingHolds'
<1>1. CASE \E w \in Workers : ReserveSpend(w)
  BY <1>1, ReserveSpendFits
<1>2. CASE \E w \in Workers : CommitChapter(w)
  BY <1>2, CommitChapterFits
<1>3. CASE \E k \in Asks : ReserveCall(k) \/ SettleCall(k) \/ LoseCall(k)
  BY <1>3, CallsFit
<1>4. CASE ~(\E w \in Workers : ReserveSpend(w)) /\ ~(\E w \in Workers : CommitChapter(w))
           /\ ~(\E k \in Asks : ReserveCall(k) \/ SettleCall(k) \/ LoseCall(k))
  <2>1. UNCHANGED <<rsv, bill, ask>>
    BY <1>4 DEF Next, Work, Body, Request, Claim, Begin, LoseLease, Ineligible, Start, Heartbeat, Succeed, Fail,
                Crash, Lapse, Cancel, Delete, Upload, Configure, Reconfigure, vars, spendVars
  <2> QED
    BY <2>1, CeilingRests
<1> QED
  BY <1>1, <1>2, <1>3, <1>4

\* An owner's bills and what may still be billed never exceed its ceiling, over jobs
\* and interactive calls together (reserve_spend, commit_chapter,
\* reserve_provider_call, settle_provider_call).
THEOREM Ceilings == Spec => []CeilingHolds
<1>1. IInv /\ CeilingHolds /\ [Next]_vars => CeilingHolds'
  BY StepFits
<1> QED
  BY <1>1, NothingUsed, QueueInductive, PTL DEF Spec

\* What the run checks of spending: types, the ceiling, and that a chapter is
\* published exactly when it is paid for.
THEOREM Spend == Spec => []SpendHolds
<1>1. IInv /\ CeilingHolds => SpendHolds
  BY DEF IInv, Typing, SpendHolds
<1> QED
  BY <1>1, QueueInductive, Ceilings, PTL

=============================================================================
