-------------------------- MODULE CostLedgerProofs --------------------------
(***************************************************************************)
(* The proof that CostLedger keeps LedgerHolds, for every ceiling, every   *)
(* set of estimates and any number of calls, crashes and imports.          *)
(*                                                                         *)
(* A call is followed from its reservation to the place where it counts:   *)
(* RowsInv and CallsInv say where the money of a call of this shelf        *)
(* lifetime is, JobInv which reservations the chapter's pass is            *)
(* answerable for, MarkerInv that the receipt speaks for all of them, and  *)
(* CeilingInv that what the calls may still cost fits the ceilings.        *)
(***************************************************************************)
EXTENDS CostLedger, SumTheorems

\* A call of the chapter's extraction.
Extracts(i) == call[i].phase = "extraction"

\* The job has found no receipt and works towards one.
Working == {"extract", "calling", "review", "abort", "prepare", "commit"}

\* What a call costs at most from here on: its estimate until it is answered.
Due  == [i \in Ids |-> IF call[i].pc = "calling" THEN call[i].worst ELSE call[i].billed]

\* What the receipt charges for a call.
Cost == [i \in Ids |-> IF call[i].billed = 0 THEN call[i].worst ELSE call[i].billed]

\* A reservation or a ledger row belongs to one call of the shelved lifetime.
RowOK(i) ==
    /\ i > used => call[i] = NoCall /\ reserved[i] = 0 /\ ledger[i] = 0
    /\ i \notin Ours => reserved[i] = 0 /\ ledger[i] = 0
    /\ reserved[i] = 0 \/ ledger[i] = 0
RowsInv == \A i \in Ids : RowOK(i)

\* Where the money of a call is, by how far the call has come.
CallOK(i) ==
    /\ call[i].pc # "none" => call[i].inc \in 1..imports /\ call[i].worst # 0
    /\ call[i].pc \in {"none", "calling"} => call[i].billed = 0
    /\ i \in Ours /\ call[i].pc \in {"calling", "answered"} => reserved[i] = call[i].worst
    /\ i \in Ours /\ call[i].pc \in {"noted", "over"} => call[i].billed <= reserved[i]
    /\ i \in Ours /\ call[i].pc = "done" /\ Honest(i) =>
          \/ call[i].billed <= reserved[i] + ledger[i]
          \/ i \in marker.ids /\ receiptRow = marker.cost
    /\ Extracts(i) => call[i].pc # "noted"
    /\ Extracts(i) /\ call[i].pc \in {"calling", "answered", "over"} =>
          job.pc = "calling" /\ job.cur = i
    /\ ~up => call[i].pc \in {"none", "done"} /\ (reserved[i] # 0 => i \in orphaned)
CallsInv == \A i \in Ids : CallOK(i)

\* The pass holds every reservation the chapter's extraction has on the shelf,
\* unless the shelf is not the one it started on.
JobInv ==
    /\ job.inc <= imports
    /\ job.pc # "idle" => job.inc # 0
    /\ ~up => job = NoJob
    /\ job.pc \in Working => marker = NoMarker
    /\ job.pc = "finalize" => marker.ids # {}
    /\ job.pc = "calling" => /\ job.cur \in Ids /\ Extracts(job.cur)
                             /\ call[job.cur].pc \in {"calling", "answered", "over"}
    /\ job.pc = "review" => job.cur \in job.held
    /\ job.pc \in {"prepare", "commit"} => job.held # {}
    /\ \A i \in job.held : Extracts(i) /\ call[i].pc = "done"
    /\ job.pc \in Working /\ job.inc = shelf =>
          /\ \A i \in job.held : reserved[i] # 0
          /\ \A i \in Ids : Extracts(i) /\ reserved[i] # 0 =>
                               i \in job.held \/ (job.pc = "calling" /\ job.cur = i)

\* Once there is a receipt, it speaks for every reservation of the extraction.
ReceiptInv ==
    /\ marker.ids = {} => marker = NoMarker
    /\ \A i \in marker.ids : /\ Extracts(i) /\ call[i].pc = "done"
                             /\ ledger[i] = 0 \/ i \in orphaned
    /\ marker.ids # {} => \A i \in Ids : Extracts(i) /\ reserved[i] # 0 => i \in marker.ids
CostInv == marker.cost = SumFunctionOnSet(Cost, marker.ids)

ShelfInv == shelf \in {0, imports}

CeilingInv ==
    /\ (\A i \in Ours : Honest(i)) => SumFunctionOnSet(Due, Ours) <= Ceiling
    /\ (\A i \in Ours \cap Preparing : Honest(i)) =>
            SumFunctionOnSet(Due, Ours \cap Preparing) <= PrepareCeiling

IInv == TypeOK /\ ShelfInv /\ RowsInv /\ CallsInv /\ JobInv /\ ReceiptInv /\ CostInv /\ CeilingInv

-----------------------------------------------------------------------------
(* Sums *)

Calls == [pc : CallPC, phase : Phases, inc : 0..MaxIncarnations, pass : 0..MaxIncarnations,
          worst : Worst \cup {0}, billed : 0..MaxBilled]

\* There are finitely many reservations.
LEMMA IdsFinite ==
    /\ IsFiniteSet(Ids)
    /\ \A S \in SUBSET Ids : IsFiniteSet(S)
<1>1. IsFiniteSet(Ids)
  BY CountsAssumption, FS_Interval DEF Ids
<1> QED
  BY <1>1, FS_Subset

\* The amounts of a typed state are naturals.
LEMMA AmountsTyped ==
    ASSUME TypeOK
    PROVE  \A i \in Ids : /\ call[i] \in Calls /\ call[i].worst \in Nat /\ call[i].billed \in Nat
                          /\ reserved[i] \in Nat /\ ledger[i] \in Nat
                          /\ Due[i] \in Nat /\ Cost[i] \in Nat /\ Billed[i] \in Nat
                          /\ Billed[i] = call[i].billed
                          /\ Due[i] = IF call[i].pc = "calling" THEN call[i].worst ELSE call[i].billed
                          /\ Cost[i] = IF call[i].billed = 0 THEN call[i].worst ELSE call[i].billed
<1> SUFFICES ASSUME NEW i \in Ids
             PROVE  /\ call[i] \in Calls /\ reserved[i] \in Nat /\ ledger[i] \in Nat
                    /\ call[i].worst \in Nat /\ call[i].billed \in Nat
  BY DEF Due, Cost, Billed
<1>1. call[i] \in Calls /\ reserved[i] \in Nat /\ ledger[i] \in Nat
  BY DEF TypeOK, Calls
<1>2. call[i].worst \in Worst \cup {0} /\ call[i].billed \in 0..MaxBilled
  BY <1>1 DEF Calls
<1>3. call[i].worst \in Nat
  <2>1. \A w \in Worst : w \in Nat
    BY AmountsAssumption
  <2>2. call[i].worst \in Worst \/ call[i].worst = 0
    BY <1>2
  <2> QED
    BY <2>1, <2>2
<1>4. call[i].billed \in Nat
  BY <1>2, AmountsAssumption
<1> QED
  BY <1>1, <1>3, <1>4

\* What an honest call may still cost is reserved, on the ledger or on the receipt.
LEMMA DueIsCovered ==
    ASSUME TypeOK, CallsInv, NEW i \in Ours, Honest(i)
    PROVE  \/ Due[i] <= reserved[i] + ledger[i]
           \/ i \in marker.ids /\ receiptRow = marker.cost
<1>1. i \in Ids /\ call[i].pc # "none"
  BY DEF Ours
<1>2. CallOK(i)
  BY <1>1 DEF CallsInv
<1>3. call[i].pc \in {"calling", "answered", "noted", "over", "done"}
  BY <1>1 DEF TypeOK, CallPC
<1>4. /\ call[i].worst \in Nat /\ call[i].billed \in Nat /\ reserved[i] \in Nat /\ ledger[i] \in Nat
      /\ Due[i] = IF call[i].pc = "calling" THEN call[i].worst ELSE call[i].billed
  BY <1>1, AmountsTyped
<1> QED
  BY <1>2, <1>3, <1>4 DEF CallOK, Honest

\* What the honest calls of a part of the shelf's calls may still cost is
\* covered by the rows of that part, as long as the receipt is not among them.
LEMMA RowsCover ==
    ASSUME TypeOK, CallsInv, NEW S \in SUBSET Ours, NEW R \in SUBSET Ids, S \subseteq R,
           \A i \in S : Honest(i) /\ ~(i \in marker.ids /\ receiptRow = marker.cost)
    PROVE  SumFunctionOnSet(Due, S) <= SumFunctionOnSet(ledger, R) + SumFunctionOnSet(reserved, R)
<1>1. IsFiniteSet(S) /\ IsFiniteSet(R) /\ S \subseteq Ids
  BY IdsFinite DEF Ours
<1>2. \A i \in Ids : Due[i] \in Nat /\ reserved[i] \in Nat /\ ledger[i] \in Nat
  BY AmountsTyped
<1>3. ASSUME NEW i \in S PROVE Due[i] <= ledger[i] + reserved[i]
  <2>1. Due[i] <= reserved[i] + ledger[i]
    BY DueIsCovered
  <2> QED
    BY <1>1, <1>2, <2>1
<1>4. SumFunctionOnSet(Due, S) <= SumFunctionOnSet(ledger, S) + SumFunctionOnSet(reserved, S)
  <2>1. \A i \in S : Due[i] \in Nat /\ ledger[i] \in Nat /\ reserved[i] \in Nat /\ Due[i] <= ledger[i] + reserved[i]
    BY <1>1, <1>2, <1>3
  <2> QED
    BY <1>1, <2>1, SumCovered
<1>5. /\ SumFunctionOnSet(ledger, S) <= SumFunctionOnSet(ledger, R)
      /\ SumFunctionOnSet(reserved, S) <= SumFunctionOnSet(reserved, R)
  <2>1. \A i \in R : ledger[i] \in Nat /\ reserved[i] \in Nat
    BY <1>2
  <2> QED
    BY <1>1, <2>1, SumOfPart
<1>6. /\ SumFunctionOnSet(Due, S) \in Nat
      /\ SumFunctionOnSet(ledger, S) \in Nat /\ SumFunctionOnSet(ledger, R) \in Nat
      /\ SumFunctionOnSet(reserved, S) \in Nat /\ SumFunctionOnSet(reserved, R) \in Nat
  <2>1. /\ \A i \in S : Due[i] \in Nat /\ ledger[i] \in Nat /\ reserved[i] \in Nat
        /\ \A i \in R : ledger[i] \in Nat /\ reserved[i] \in Nat
    BY <1>1, <1>2
  <2> QED
    BY <1>1, <2>1, SumIsNat
<1> QED
  BY <1>4, <1>5, <1>6

\* Everything together is what reserve_cost reads as spent and pending.
LEMMA AllIsCounted ==
    ASSUME IInv, \A i \in Ours : Honest(i)
    PROVE  SumFunctionOnSet(Due, Ours) <= Spent + Pending
<1> DEFINE R == {i \in Ours : i \in marker.ids /\ receiptRow = marker.cost}
<1>1. TypeOK /\ CallsInv /\ ReceiptInv /\ CostInv
  BY DEF IInv
<1>2. /\ Ours \subseteq Ids /\ R \subseteq Ours /\ marker.ids \subseteq Ids /\ Ours \ R \subseteq Ids
      /\ receiptRow \in Nat
  BY <1>1 DEF TypeOK, Ours
<1>3. IsFiniteSet(Ours) /\ IsFiniteSet(R) /\ IsFiniteSet(Ours \ R) /\ IsFiniteSet(marker.ids)
  BY <1>2, IdsFinite, FS_Subset
<1>4. \A i \in Ids : Due[i] \in Nat /\ Cost[i] \in Nat /\ reserved[i] \in Nat /\ ledger[i] \in Nat
  BY <1>1, AmountsTyped
<1>5. SumFunctionOnSet(Due, Ours) = SumFunctionOnSet(Due, R) + SumFunctionOnSet(Due, Ours \ R)
  <2>1. \A i \in Ours : Due[i] \in Nat
    BY <1>2, <1>4
  <2> QED
    BY <1>2, <1>3, <2>1, SumSplits
<1>6. SumFunctionOnSet(Due, Ours \ R) <= SumFunctionOnSet(ledger, Ids) + SumFunctionOnSet(reserved, Ids)
  <2>1. \A i \in Ours \ R : Honest(i) /\ ~(i \in marker.ids /\ receiptRow = marker.cost)
    OBVIOUS
  <2> QED
    BY <1>1, <1>2, <2>1, RowsCover
<1>7. SumFunctionOnSet(Due, R) <= receiptRow
  <2>1. CASE R = {}
    <3>1. SumFunctionOnSet(Due, R) = 0
      BY <2>1, SumEmpty
    <3> QED
      BY <1>2, <3>1
  <2>2. CASE R # {}
    <3>1. R \subseteq marker.ids /\ receiptRow = marker.cost
      BY <2>2
    <3>2. \A i \in marker.ids : Due[i] \in Nat /\ Cost[i] \in Nat /\ Due[i] <= Cost[i]
      <4> SUFFICES ASSUME NEW i \in marker.ids PROVE Due[i] <= Cost[i]
        BY <1>2, <1>4
      <4>1. call[i].pc = "done" /\ i \in Ids
        BY <1>1, <1>2 DEF ReceiptInv
      <4>2. /\ call[i].billed \in Nat /\ call[i].worst \in Nat
            /\ Due[i] = IF call[i].pc = "calling" THEN call[i].worst ELSE call[i].billed
            /\ Cost[i] = IF call[i].billed = 0 THEN call[i].worst ELSE call[i].billed
        BY <1>1, <4>1, AmountsTyped
      <4> QED
        BY <4>1, <4>2
    <3>3. SumFunctionOnSet(Due, R) <= SumFunctionOnSet(Due, marker.ids)
      BY <1>3, <3>1, <3>2, SumOfPart
    <3>4. SumFunctionOnSet(Due, marker.ids) <= SumFunctionOnSet(Cost, marker.ids)
      BY <1>3, <3>2, SumAtMost
    <3>5. /\ SumFunctionOnSet(Due, R) \in Nat /\ SumFunctionOnSet(Due, marker.ids) \in Nat
          /\ SumFunctionOnSet(Cost, marker.ids) \in Nat
      BY <1>3, <3>1, <3>2, SumIsNat
    <3> QED
      BY <1>1, <3>1, <3>3, <3>4, <3>5 DEF CostInv
  <2> QED
    BY <2>1, <2>2
<1>8. /\ SumFunctionOnSet(Due, R) \in Nat /\ SumFunctionOnSet(Due, Ours \ R) \in Nat
      /\ SumFunctionOnSet(ledger, Ids) \in Nat /\ SumFunctionOnSet(reserved, Ids) \in Nat
  <2>1. \A i \in R : Due[i] \in Nat
    BY <1>2, <1>4
  <2>2. \A i \in Ours \ R : Due[i] \in Nat
    BY <1>2, <1>4
  <2>3. \A i \in Ids : ledger[i] \in Nat /\ reserved[i] \in Nat
    BY <1>4
  <2> QED
    BY <1>3, <2>1, <2>2, <2>3, IdsFinite, SumIsNat
<1> HIDE DEF R
<1> QED
  BY <1>2, <1>5, <1>6, <1>7, <1>8 DEF Spent, Pending

\* The preparation's part is what reserve_cost reads as prepared.
LEMMA PreparedIsCounted ==
    ASSUME IInv, \A i \in Ours \cap Preparing : Honest(i)
    PROVE  SumFunctionOnSet(Due, Ours \cap Preparing) <= Prepared
<1>1. TypeOK /\ CallsInv /\ ReceiptInv
  BY DEF IInv
<1>2. Ours \cap Preparing \subseteq Ours /\ Ours \cap Preparing \subseteq Preparing /\ Preparing \subseteq Ids
  BY DEF Preparing
<1>3. \A i \in Ours \cap Preparing : Honest(i) /\ ~(i \in marker.ids /\ receiptRow = marker.cost)
  <2>1. \A i \in Preparing : i \notin marker.ids
    BY <1>1 DEF ReceiptInv, Preparing, Extracts
  <2> QED
    BY <2>1
<1>4. SumFunctionOnSet(Due, Ours \cap Preparing) <= SumFunctionOnSet(ledger, Preparing) + SumFunctionOnSet(reserved, Preparing)
  BY <1>1, <1>2, <1>3, RowsCover
<1> QED
  BY <1>4 DEF Prepared


\* The same of the next state.
LEMMA AmountsTypedNext ==
    ASSUME TypeOK'
    PROVE  \A i \in Ids : /\ call'[i] \in Calls /\ call'[i].worst \in Nat /\ call'[i].billed \in Nat
                          /\ reserved'[i] \in Nat /\ ledger'[i] \in Nat
                          /\ Due'[i] \in Nat /\ Cost'[i] \in Nat
                          /\ Due'[i] = IF call'[i].pc = "calling" THEN call'[i].worst ELSE call'[i].billed
                          /\ Cost'[i] = IF call'[i].billed = 0 THEN call'[i].worst ELSE call'[i].billed
<1> SUFFICES ASSUME NEW i \in Ids
             PROVE  /\ call'[i] \in Calls /\ reserved'[i] \in Nat /\ ledger'[i] \in Nat
                    /\ call'[i].worst \in Nat /\ call'[i].billed \in Nat
  BY DEF Due, Cost
<1>1. call'[i] \in Calls /\ reserved'[i] \in Nat /\ ledger'[i] \in Nat
  BY DEF TypeOK, Calls
<1>2. call'[i].worst \in Worst \cup {0} /\ call'[i].billed \in 0..MaxBilled
  BY <1>1 DEF Calls
<1>3. call'[i].worst \in Nat
  <2>1. \A w \in Worst : w \in Nat
    BY AmountsAssumption
  <2>2. call'[i].worst \in Worst \/ call'[i].worst = 0
    BY <1>2
  <2> QED
    BY <2>1, <2>2
<1>4. call'[i].billed \in Nat
  BY <1>2, AmountsAssumption
<1> QED
  BY <1>1, <1>3, <1>4

-----------------------------------------------------------------------------
(* Steps that reserve nothing *)

\* A call stays what it is, and its bill is settled when it leaves "calling".
Moves(i) ==
    /\ call'[i].phase = call[i].phase /\ call'[i].inc = call[i].inc /\ call'[i].worst = call[i].worst
    /\ call'[i].pc = "none" <=> call[i].pc = "none"
    /\ call'[i].pc = "calling" => call[i].pc = "calling"
    /\ call'[i].billed = call[i].billed \/ (call[i].pc = "calling" /\ call'[i].pc = "answered")

\* No such step lets the calls cost more than before.
LEMMA CeilingsKept ==
    ASSUME IInv, TypeOK', shelf' = shelf, \A i \in Ids : Moves(i)
    PROVE  CeilingInv'
<1>1. TypeOK /\ CallsInv /\ CeilingInv
  BY DEF IInv
<1>2. Ours' = Ours /\ Preparing' = Preparing
  BY DEF Ours, Preparing, Moves
<1>3. ASSUME NEW i \in Ours, Honest(i)' PROVE Honest(i) /\ Due'[i] <= Due[i]
  <2>1. i \in Ids /\ Moves(i) /\ CallOK(i)
    BY <1>1 DEF Ours, CallsInv
  <2>2. /\ call[i].worst \in Nat /\ call[i].billed \in Nat
        /\ Due[i] = IF call[i].pc = "calling" THEN call[i].worst ELSE call[i].billed
    BY <1>1, <2>1, AmountsTyped
  <2>3. /\ call'[i].billed \in Nat
        /\ Due'[i] = IF call'[i].pc = "calling" THEN call'[i].worst ELSE call'[i].billed
    BY <2>1, AmountsTypedNext
  <2>4. call[i].pc = "calling" => call[i].billed = 0
    BY <2>1 DEF CallOK
  <2>5. call'[i].billed <= call'[i].worst
    BY <1>3 DEF Honest
  <2> QED
    BY <2>1, <2>2, <2>3, <2>4, <2>5 DEF Moves, Honest
<1>4. ASSUME NEW S \in SUBSET Ours, \A i \in S : Honest(i)'
      PROVE  /\ \A i \in S : Honest(i)
             /\ SumFunctionOnSet(Due', S) <= SumFunctionOnSet(Due, S)
             /\ SumFunctionOnSet(Due', S) \in Nat /\ SumFunctionOnSet(Due, S) \in Nat
  <2>1. IsFiniteSet(S) /\ S \subseteq Ids
    BY IdsFinite DEF Ours
  <2>2. \A i \in S : Due'[i] \in Nat /\ Due[i] \in Nat /\ Due'[i] <= Due[i] /\ Honest(i)
    BY <1>1, <1>3, <1>4, <2>1, AmountsTyped, AmountsTypedNext
  <2> DEFINE f == Due'
             g == Due
  <2>3. \A i \in S : f[i] \in Nat /\ g[i] \in Nat /\ f[i] <= g[i]
    BY <2>2
  <2> HIDE DEF f, g
  <2>4. SumFunctionOnSet(f, S) <= SumFunctionOnSet(g, S) /\ SumFunctionOnSet(f, S) \in Nat /\ SumFunctionOnSet(g, S) \in Nat
    BY <2>1, <2>3, SumAtMost, SumIsNat
  <2> QED
    BY <2>2, <2>4 DEF f, g
<1>5. Ceiling \in Nat /\ PrepareCeiling \in Nat
  BY AmountsAssumption
<1>6. ASSUME \A i \in Ours : Honest(i)' PROVE SumFunctionOnSet(Due', Ours) <= Ceiling
  <2>1. /\ \A i \in Ours : Honest(i)
        /\ SumFunctionOnSet(Due', Ours) <= SumFunctionOnSet(Due, Ours)
        /\ SumFunctionOnSet(Due', Ours) \in Nat /\ SumFunctionOnSet(Due, Ours) \in Nat
    BY <1>4, <1>6
  <2>2. SumFunctionOnSet(Due, Ours) <= Ceiling
    BY <1>1, <2>1 DEF CeilingInv
  <2> QED
    BY <1>5, <2>1, <2>2
<1>7. ASSUME \A i \in Ours \cap Preparing : Honest(i)'
      PROVE  SumFunctionOnSet(Due', Ours \cap Preparing) <= PrepareCeiling
  <2> DEFINE P == Ours \cap Preparing
  <2>1. /\ \A i \in P : Honest(i)
        /\ SumFunctionOnSet(Due', P) <= SumFunctionOnSet(Due, P)
        /\ SumFunctionOnSet(Due', P) \in Nat /\ SumFunctionOnSet(Due, P) \in Nat
    BY <1>4, <1>7
  <2>2. SumFunctionOnSet(Due, P) <= PrepareCeiling
    BY <1>1, <2>1 DEF CeilingInv
  <2> QED
    BY <1>5, <2>1, <2>2
<1>8. /\ (\A i \in Ours' : Honest(i)') => SumFunctionOnSet(Due', Ours') <= Ceiling
      /\ (\A i \in Ours' \cap Preparing' : Honest(i)') => SumFunctionOnSet(Due', Ours' \cap Preparing') <= PrepareCeiling
  BY <1>2, <1>6, <1>7
<1> QED
  BY <1>8 DEF CeilingInv

\* Nor does it change what the receipt charges for.
LEMMA CostKept ==
    ASSUME IInv, TypeOK', marker' = marker, \A i \in Ids : Moves(i)
    PROVE  CostInv'
<1>1. TypeOK /\ ReceiptInv /\ CostInv
  BY DEF IInv
<1>2. marker.ids \subseteq Ids /\ IsFiniteSet(marker.ids)
  BY <1>1, IdsFinite DEF TypeOK
<1>3. ASSUME NEW i \in marker.ids PROVE Cost'[i] = Cost[i]
  <2>1. call[i].pc = "done" /\ Moves(i) /\ i \in Ids
    BY <1>1, <1>2 DEF ReceiptInv
  <2> QED
    BY <2>1 DEF Moves, Cost
<1> DEFINE f == Cost'
           g == Cost
<1>4. \A i \in marker.ids : f[i] = g[i]
  BY <1>3
<1>5. CostInv' <=> marker.cost = SumFunctionOnSet(f, marker.ids)
  BY DEF CostInv
<1>6. marker.cost = SumFunctionOnSet(g, marker.ids)
  BY <1>1 DEF CostInv
<1> HIDE DEF f, g
<1>7. SumFunctionOnSet(f, marker.ids) = SumFunctionOnSet(g, marker.ids)
  BY <1>2, <1>4, SumDepends
<1> QED
  BY <1>5, <1>6, <1>7

\* Without a call of the shelf there is nothing to pay.
LEMMA NothingDue ==
    ASSUME Ours' = {}
    PROVE  CeilingInv'
<1>1. SumFunctionOnSet(Due', {}) = 0
  BY SumEmpty
<1>2. Ceiling \in Nat /\ PrepareCeiling \in Nat
  BY AmountsAssumption
<1>3. SumFunctionOnSet(Due', Ours') = 0 /\ SumFunctionOnSet(Due', Ours' \cap Preparing') = 0
  <2>1. Ours' \cap Preparing' = {}
    OBVIOUS
  <2> QED
    BY <1>1, <2>1
<1> QED
  BY <1>2, <1>3 DEF CeilingInv


\* A step of the chapter's job that touches nothing else.
LEMMA JobOnly ==
    ASSUME IInv, UNCHANGED <<tables, marker, call, used, up, orphaned>>, job.pc # "calling"
    PROVE  /\ ShelfInv' /\ RowsInv' /\ CallsInv' /\ ReceiptInv'
           /\ \A i \in Ids : Moves(i)
<1>1. ShelfInv /\ RowsInv /\ CallsInv /\ ReceiptInv
  BY DEF IInv
<1>2. Ours' = Ours
  BY DEF Ours, tables
<1>3. ShelfInv' /\ ReceiptInv'
  BY <1>1 DEF ShelfInv, ReceiptInv, tables, Extracts
<1>4. RowsInv'
  BY <1>1, <1>2 DEF RowsInv, RowOK, tables
<1>5. ASSUME NEW i \in Ids PROVE CallOK(i)'
  <2>1. CallOK(i)
    BY <1>1 DEF CallsInv
  <2>2. UNCHANGED <<reserved, ledger, receiptRow, marker, imports, call, up, orphaned>>
    BY DEF tables
  <2> QED
    BY <1>2, <2>1, <2>2 DEF CallOK, Extracts, Honest
<1>6. CallsInv'
  BY <1>5 DEF CallsInv
<1>7. \A i \in Ids : Moves(i)
  BY DEF Moves
<1> QED
  BY <1>3, <1>4, <1>6, <1>7

\* What settle_cost does to the rows, and the end of a call to the call.
LEMMA SettlePointwise ==
    ASSUME TypeOK, NEW i \in Ids, Settle(i), CallGoes(i, "done")
    PROVE  /\ reserved' \in [Ids -> Nat] /\ ledger' \in [Ids -> Nat] /\ call' \in [Ids -> Calls]
           /\ reserved'[i] = 0
           /\ ledger'[i] = IF reserved[i] # 0 THEN reserved[i] ELSE ledger[i]
           /\ \A k \in Ids \ {i} : reserved'[k] = reserved[k] /\ ledger'[k] = ledger[k] /\ call'[k] = call[k]
           /\ call'[i].pc = "done"
           /\ \A k \in Ids : /\ call'[k].phase = call[k].phase /\ call'[k].inc = call[k].inc
                             /\ call'[k].worst = call[k].worst /\ call'[k].billed = call[k].billed
                             /\ call'[k].pc \in {call[k].pc, "done"}
<1>1. reserved \in [Ids -> Nat] /\ ledger \in [Ids -> Nat] /\ call \in [Ids -> Calls]
  BY DEF TypeOK, Calls
<1>2. /\ reserved' \in [Ids -> Nat] /\ ledger' \in [Ids -> Nat] /\ reserved'[i] = 0
      /\ ledger'[i] = IF reserved[i] # 0 THEN reserved[i] ELSE ledger[i]
      /\ \A k \in Ids \ {i} : reserved'[k] = reserved[k] /\ ledger'[k] = ledger[k]
  BY <1>1 DEF Settle
<1>3. call[i] \in Calls /\ "done" \in CallPC
  BY <1>1 DEF CallPC
<1>4. call'[i] = [call[i] EXCEPT !.pc = "done"] /\ \A k \in Ids \ {i} : call'[k] = call[k]
  BY <1>1 DEF CallGoes
<1>5. /\ [call[i] EXCEPT !.pc = "done"] \in Calls
      /\ [call[i] EXCEPT !.pc = "done"].pc = "done"
      /\ [call[i] EXCEPT !.pc = "done"].phase = call[i].phase
      /\ [call[i] EXCEPT !.pc = "done"].inc = call[i].inc
      /\ [call[i] EXCEPT !.pc = "done"].worst = call[i].worst
      /\ [call[i] EXCEPT !.pc = "done"].billed = call[i].billed
  BY <1>3 DEF Calls
<1>6. call' \in [Ids -> Calls]
  BY <1>1, <1>4, <1>5 DEF CallGoes
<1> QED
  BY <1>2, <1>4, <1>5, <1>6

\* Whoever settles a call that has been made: its money moves from the
\* reservation to the ledger, and everything else stays where it is.
LEMMA SettleKeeps ==
    ASSUME IInv, NEW i \in Ids, Settle(i), CallGoes(i, "done"), call[i].pc # "none",
           UNCHANGED <<shelf, imports, receiptRow, marker, used, up, orphaned>>,
           i \in marker.ids => i \in orphaned,
           job' = job \/ job.pc # "calling" \/ job.cur = i
    PROVE  /\ ShelfInv' /\ RowsInv' /\ CallsInv' /\ ReceiptInv'
           /\ \A k \in Ids : Moves(k)
<1>1. TypeOK /\ ShelfInv /\ RowsInv /\ CallsInv /\ ReceiptInv
  BY DEF IInv
<1>2. /\ reserved'[i] = 0
      /\ ledger'[i] = IF reserved[i] # 0 THEN reserved[i] ELSE ledger[i]
      /\ \A k \in Ids \ {i} : reserved'[k] = reserved[k] /\ ledger'[k] = ledger[k] /\ call'[k] = call[k]
      /\ call'[i].pc = "done"
      /\ \A k \in Ids : /\ call'[k].phase = call[k].phase /\ call'[k].inc = call[k].inc
                        /\ call'[k].worst = call[k].worst /\ call'[k].billed = call[k].billed
                        /\ call'[k].pc \in {call[k].pc, "done"}
  BY <1>1, SettlePointwise
<1>3. Ours' = Ours
  <2>1. \A k \in Ids : call'[k].pc # "none" <=> call[k].pc # "none"
    BY <1>2
  <2> QED
    BY <1>2, <2>1 DEF Ours
<1>4. \A k \in Ids : Moves(k)
  <2> SUFFICES ASSUME NEW k \in Ids PROVE Moves(k)
    OBVIOUS
  <2>1. CASE k = i
    BY <1>2, <2>1 DEF Moves
  <2>2. CASE k # i
    BY <1>2, <2>2 DEF Moves
  <2> QED
    BY <2>1, <2>2
<1>5. ShelfInv'
  BY <1>1 DEF ShelfInv
<1>6. ASSUME NEW k \in Ids PROVE RowOK(k)'
  <2>1. RowOK(k) /\ CallOK(k) /\ call[k] \in Calls
    BY <1>1, AmountsTyped DEF RowsInv, CallsInv
  <2>2. CASE k # i
    BY <1>2, <1>3, <2>1, <2>2 DEF RowOK
  <2>3. CASE k = i
    <3>1. ~(k > used)
      BY <2>1, <2>3 DEF RowOK, NoCall
    <3> QED
      BY <1>2, <1>3, <2>1, <2>3, <3>1 DEF RowOK
  <2> QED
    BY <2>2, <2>3
<1>7. ASSUME NEW k \in Ids PROVE CallOK(k)'
  <2>1. RowOK(k) /\ CallOK(k)
    BY <1>1 DEF RowsInv, CallsInv
  <2>2. CASE k # i
    <3>1. call'[k] = call[k] /\ reserved'[k] = reserved[k] /\ ledger'[k] = ledger[k]
      BY <1>2, <2>2
    <3>2. Extracts(k) /\ call[k].pc \in {"calling", "answered", "over"} => job' = job
      BY <2>1, <2>2 DEF CallOK
    <3> QED
      BY <1>3, <2>1, <3>1, <3>2 DEF CallOK, Extracts, Honest
  <2>3. CASE k = i
    <3>1. /\ call[i].worst \in Nat /\ call[i].billed \in Nat /\ reserved[i] \in Nat /\ ledger[i] \in Nat
          /\ call[i] \in Calls
      BY <1>1, AmountsTyped
    <3>2. i \in Ours /\ Honest(i) =>
             \/ call[i].billed <= reserved[i] + ledger[i]
             \/ i \in marker.ids /\ receiptRow = marker.cost
      <4>1. call[i].pc \in {"calling", "answered", "noted", "over", "done"}
        BY <3>1 DEF Calls, CallPC
      <4>2. CallOK(i)
        BY <2>1, <2>3
      <4>3. CASE call[i].pc \in {"calling", "answered"}
        BY <3>1, <4>2, <4>3 DEF CallOK, Honest
      <4>4. CASE call[i].pc \in {"noted", "over"}
        BY <3>1, <4>2, <4>4 DEF CallOK, Honest
      <4>5. CASE call[i].pc = "done"
        BY <3>1, <4>2, <4>5 DEF CallOK, Honest
      <4> QED
        BY <4>1, <4>3, <4>4, <4>5
    <3>3. reserved'[i] + ledger'[i] = reserved[i] + ledger[i]
      BY <1>2, <2>1, <2>3, <3>1 DEF RowOK
    <3>4. /\ call'[i].pc = "done" /\ reserved'[i] = 0
          /\ call'[i].inc = call[i].inc /\ call'[i].worst = call[i].worst /\ call'[i].billed = call[i].billed
      BY <1>2
    <3>5. call[i].inc \in 1..imports /\ call[i].worst # 0
      BY <2>1, <2>3 DEF CallOK
    <3> QED
      BY <1>3, <2>3, <3>2, <3>3, <3>4, <3>5 DEF CallOK, Extracts, Honest
  <2> QED
    BY <2>2, <2>3
<1>8. ReceiptInv'
  <2>1. \A k \in marker.ids : call'[k].pc = "done" /\ Extracts(k)' /\ (ledger'[k] = 0 \/ k \in orphaned)
    <3> SUFFICES ASSUME NEW k \in marker.ids
                 PROVE  call'[k].pc = "done" /\ Extracts(k)' /\ (ledger'[k] = 0 \/ k \in orphaned)
      OBVIOUS
    <3>1. k \in Ids /\ call[k].pc = "done" /\ Extracts(k) /\ (ledger[k] = 0 \/ k \in orphaned)
      BY <1>1 DEF ReceiptInv, TypeOK
    <3> QED
      BY <1>2, <3>1 DEF Extracts
  <2>2. \A k \in Ids : reserved'[k] # 0 => reserved[k] # 0
    BY <1>2
  <2>3. \A k \in Ids : Extracts(k)' <=> Extracts(k)
    BY <1>2 DEF Extracts
  <2> QED
    BY <1>1, <2>1, <2>2, <2>3 DEF ReceiptInv
<1> QED
  BY <1>4, <1>5, <1>6, <1>7, <1>8 DEF RowsInv, CallsInv


\* The parts of the invariant that a step without a reservation or a receipt
\* has to be asked about.
LEMMA StepKeeps ==
    ASSUME IInv, TypeOK', shelf' = shelf, marker' = marker, \A i \in Ids : Moves(i),
           ShelfInv', RowsInv', CallsInv', JobInv', ReceiptInv'
    PROVE  IInv'
BY CeilingsKept, CostKept DEF IInv

\* The states of the chapter's job.
Jobs == [pc : {"idle", "extract", "calling", "review", "abort", "prepare", "commit", "finalize"},
         inc : 0..MaxIncarnations, chunk : 1..NumChunks, attempt : 1..MaxAttempts,
         repair : BOOLEAN, again : BOOLEAN, cur : 0..MaxCalls, held : SUBSET Ids]

-----------------------------------------------------------------------------
(* A reservation *)

\* What reserve_cost reads are naturals.
LEMMA TotalsTyped ==
    ASSUME TypeOK
    PROVE  Spent \in Nat /\ Pending \in Nat /\ Prepared \in Nat
<1>1. \A i \in Ids : ledger[i] \in Nat /\ reserved[i] \in Nat
  BY AmountsTyped
<1>2. IsFiniteSet(Ids) /\ Preparing \subseteq Ids /\ IsFiniteSet(Preparing)
  BY IdsFinite DEF Preparing
<1>3. /\ SumFunctionOnSet(ledger, Ids) \in Nat /\ SumFunctionOnSet(reserved, Ids) \in Nat
      /\ SumFunctionOnSet(ledger, Preparing) \in Nat /\ SumFunctionOnSet(reserved, Preparing) \in Nat
  <2>1. \A i \in Preparing : ledger[i] \in Nat /\ reserved[i] \in Nat
    BY <1>1, <1>2
  <2> QED
    BY <1>1, <1>2, <2>1, SumIsNat
<1>4. receiptRow \in Nat
  BY DEF TypeOK
<1> QED
  BY <1>3, <1>4 DEF Spent, Pending, Prepared

\* The new call, and the others as they were.
LEMMA ReservePointwise ==
    ASSUME TypeOK, RowsInv, CallsInv, NEW phase \in Phases, NEW amount \in Worst, Reserve(phase, amount),
           shelf' = shelf, shelf # 0
    PROVE  LET n == used + 1
           IN  /\ n \in Ids /\ used' = n /\ call[n] = NoCall /\ ledger[n] = 0 /\ n \notin Ours
               /\ amount \in Nat /\ amount # 0
               /\ reserved' \in [Ids -> Nat] /\ call' \in [Ids -> Calls] /\ used' \in 0..MaxCalls
               /\ reserved'[n] = amount
               /\ call'[n].pc = "calling" /\ call'[n].phase = phase /\ call'[n].inc = shelf
               /\ call'[n].worst = amount /\ call'[n].billed = 0
               /\ \A k \in Ids \ {n} : reserved'[k] = reserved[k] /\ call'[k] = call[k]
               /\ Ours' = Ours \cup {n}
               /\ Preparing' = IF phase = "prepare" THEN Preparing \cup {n} ELSE Preparing
<1> DEFINE n == used + 1
           c == [NoCall EXCEPT !.pc = "calling", !.phase = phase, !.inc = shelf, !.worst = amount,
                               !.pass = IF phase = "extraction" THEN job.inc ELSE shelf]
<1>1. /\ reserved \in [Ids -> Nat] /\ call \in [Ids -> Calls] /\ used \in 0..MaxCalls
      /\ shelf \in 0..MaxIncarnations /\ job.inc \in 0..MaxIncarnations
  BY DEF TypeOK, Calls
<1>2. n \in Ids /\ used' = n /\ used' \in 0..MaxCalls /\ used \in Nat
  BY <1>1, CountsAssumption DEF Reserve, Ids
<1>3. RowOK(n) /\ n > used
  BY <1>2 DEF RowsInv
<1>4. call[n] = NoCall /\ ledger[n] = 0 /\ call[n].pc = "none" /\ call[n].phase = "reader"
  BY <1>3 DEF RowOK, NoCall
<1>5. n \notin Ours
  BY <1>4 DEF Ours
<1>6. amount \in Nat /\ amount # 0
  BY AmountsAssumption
<1>7. /\ c \in Calls /\ c.pc = "calling" /\ c.phase = phase /\ c.inc = shelf /\ c.worst = amount /\ c.billed = 0
  <2>1. 0 \in 0..MaxBilled
    BY AmountsAssumption
  <2> QED
    BY <1>1, <2>1 DEF Calls, NoCall, CallPC
<1>8. reserved' = [reserved EXCEPT ![n] = amount] /\ call' = [call EXCEPT ![n] = c]
  BY DEF Reserve
<1> HIDE DEF c
<1>9. /\ reserved' \in [Ids -> Nat] /\ reserved'[n] = amount
      /\ \A k \in Ids \ {n} : reserved'[k] = reserved[k]
  BY <1>1, <1>2, <1>6, <1>8
<1>10. /\ call' \in [Ids -> Calls] /\ call'[n] = c
       /\ \A k \in Ids \ {n} : call'[k] = call[k]
  BY <1>1, <1>2, <1>7, <1>8
<1>11. Ours' = Ours \cup {n}
  BY <1>2, <1>7, <1>10 DEF Ours
<1>12. Preparing' = IF phase = "prepare" THEN Preparing \cup {n} ELSE Preparing
  <2>1. CASE phase = "prepare"
    BY <1>2, <1>7, <1>10, <2>1 DEF Preparing
  <2>2. CASE phase # "prepare"
    BY <1>2, <1>4, <1>7, <1>10, <2>2 DEF Preparing
  <2> QED
    BY <2>1, <2>2
<1> QED
  BY <1>2, <1>4, <1>5, <1>6, <1>7, <1>9, <1>10, <1>11, <1>12

\* A reservation that fits keeps the ceilings: it counts what the calls before
\* it may still cost.
LEMMA ReserveFits ==
    ASSUME IInv, TypeOK', NEW phase \in Phases, NEW amount \in Worst, Fits(phase, amount), Reserve(phase, amount),
           shelf' = shelf, shelf # 0
    PROVE  CeilingInv'
<1> DEFINE n == used + 1
           f == Due'
<1>1. TypeOK /\ RowsInv /\ CallsInv
  BY DEF IInv
<1>2. /\ n \in Ids /\ n \notin Ours /\ amount \in Nat
      /\ call'[n].pc = "calling" /\ call'[n].worst = amount /\ call'[n].billed = 0
      /\ \A k \in Ids \ {n} : call'[k] = call[k]
      /\ Ours' = Ours \cup {n}
      /\ Preparing' = IF phase = "prepare" THEN Preparing \cup {n} ELSE Preparing
  BY <1>1, ReservePointwise
<1>3. f[n] = amount /\ \A k \in Ids : f[k] \in Nat
  BY <1>2, AmountsTypedNext
<1>4. \A k \in Ours : k \in Ids /\ k # n /\ f[k] = Due[k] /\ Due[k] \in Nat /\ (Honest(k)' <=> Honest(k))
  <2> SUFFICES ASSUME NEW k \in Ours PROVE k \in Ids /\ k # n /\ f[k] = Due[k] /\ Due[k] \in Nat /\ (Honest(k)' <=> Honest(k))
    OBVIOUS
  <2>1. k \in Ids /\ k # n /\ call'[k] = call[k]
    BY <1>2 DEF Ours
  <2>2. /\ Due[k] \in Nat
        /\ Due[k] = IF call[k].pc = "calling" THEN call[k].worst ELSE call[k].billed
        /\ f[k] = IF call'[k].pc = "calling" THEN call'[k].worst ELSE call'[k].billed
    BY <1>1, <2>1, AmountsTyped, AmountsTypedNext
  <2> QED
    BY <2>1, <2>2 DEF Honest
<1> HIDE DEF f
<1>5. ASSUME NEW S \in SUBSET Ours
      PROVE  /\ SumFunctionOnSet(f, S) = SumFunctionOnSet(Due, S)
             /\ SumFunctionOnSet(f, S \cup {n}) = amount + SumFunctionOnSet(Due, S)
             /\ SumFunctionOnSet(Due, S) \in Nat
  <2>1. S \subseteq Ids /\ IsFiniteSet(S) /\ n \notin S
    BY <1>2, <1>4, IdsFinite
  <2>2. \A k \in S : f[k] = Due[k] /\ Due[k] \in Nat
    BY <1>4
  <2>3. SumFunctionOnSet(f, S) = SumFunctionOnSet(Due, S)
    BY <2>1, <2>2, SumDepends
  <2>4. SumFunctionOnSet(Due, S) \in Nat
    BY <2>1, <2>2, SumIsNat
  <2>5. SumFunctionOnSet(f, S \cup {n}) = f[n] + SumFunctionOnSet(f, S)
    <3>1. \A k \in S \cup {n} : f[k] \in Nat
      BY <1>2, <1>3, <2>1
    <3> QED
      BY <2>1, <3>1, SumAdds
  <2> QED
    BY <1>3, <2>3, <2>4, <2>5
<1>6. Spent \in Nat /\ Pending \in Nat /\ Prepared \in Nat /\ Ceiling \in Nat /\ PrepareCeiling \in Nat
  BY <1>1, TotalsTyped, AmountsAssumption
<1>7. ASSUME \A k \in Ours' : Honest(k)' PROVE SumFunctionOnSet(f, Ours') <= Ceiling
  <2>1. \A k \in Ours : Honest(k)
    BY <1>2, <1>4, <1>7
  <2>2. SumFunctionOnSet(Due, Ours) <= Spent + Pending
    BY <2>1, AllIsCounted
  <2>3. Spent + Pending + amount <= Ceiling
    BY DEF Fits
  <2>4. SumFunctionOnSet(f, Ours') = amount + SumFunctionOnSet(Due, Ours) /\ SumFunctionOnSet(Due, Ours) \in Nat
    BY <1>2, <1>5
  <2> QED
    BY <1>2, <1>6, <2>2, <2>3, <2>4
<1>8. ASSUME \A k \in Ours' \cap Preparing' : Honest(k)'
      PROVE  SumFunctionOnSet(f, Ours' \cap Preparing') <= PrepareCeiling
  <2> DEFINE P == Ours \cap Preparing
  <2>1. P \in SUBSET Ours /\ P \subseteq Ours' \cap Preparing'
    BY <1>2
  <2>2. \A k \in P : Honest(k)
    BY <1>4, <1>8, <2>1
  <2>3. SumFunctionOnSet(Due, P) <= Prepared
    BY <2>2, PreparedIsCounted
  <2>4. /\ SumFunctionOnSet(f, P) = SumFunctionOnSet(Due, P) /\ SumFunctionOnSet(Due, P) \in Nat
        /\ SumFunctionOnSet(f, P \cup {n}) = amount + SumFunctionOnSet(Due, P)
    BY <1>5, <2>1
  <2>5. CASE phase = "prepare"
    <3>1. Ours' \cap Preparing' = P \cup {n}
      BY <1>2, <2>5
    <3>2. Prepared + amount <= PrepareCeiling
      BY <2>5 DEF Fits
    <3> HIDE DEF P
    <3> QED
      BY <1>2, <1>6, <2>3, <2>4, <3>1, <3>2
  <2>6. CASE phase # "prepare"
    <3>1. n \notin Preparing
      <4>1. call[n].phase = "reader"
        BY <1>1, ReservePointwise DEF NoCall
      <4> QED
        BY <4>1 DEF Preparing
    <3>2. Ours' \cap Preparing' = P
      BY <1>2, <2>6, <3>1
    <3>3. SumFunctionOnSet(Due, P) <= PrepareCeiling
      BY <2>2 DEF IInv, CeilingInv
    <3> QED
      BY <2>4, <3>2, <3>3
  <2> QED
    BY <2>5, <2>6
<1> QED
  BY <1>7, <1>8 DEF f, CeilingInv


\* The rest of a reservation: the row covers the call's estimate, and only the
\* chapter's own pass reserves for the extraction.
LEMMA ReserveKeeps ==
    ASSUME IInv, TypeOK', NEW phase \in Phases, NEW amount \in Worst, Fits(phase, amount), Reserve(phase, amount),
           UNCHANGED <<shelf, imports, ledger, receiptRow, marker, up, crashes, orphaned>>,
           shelf # 0, up,
           phase # "extraction" => job' = job,
           phase = "extraction" => job.pc = "extract" /\ job'.pc = "calling" /\ job'.cur = used + 1
    PROVE  /\ ShelfInv' /\ RowsInv' /\ CallsInv' /\ ReceiptInv' /\ CostInv' /\ CeilingInv'
<1> DEFINE n == used + 1
<1>1. /\ TypeOK /\ ShelfInv /\ RowsInv /\ CallsInv /\ JobInv /\ ReceiptInv /\ CostInv
  BY DEF IInv
<1>2. /\ n \in Ids /\ used' = n /\ call[n] = NoCall /\ ledger[n] = 0 /\ n \notin Ours
      /\ amount \in Nat /\ amount # 0
      /\ reserved'[n] = amount
      /\ call'[n].pc = "calling" /\ call'[n].phase = phase /\ call'[n].inc = shelf
      /\ call'[n].worst = amount /\ call'[n].billed = 0
      /\ \A k \in Ids \ {n} : reserved'[k] = reserved[k] /\ call'[k] = call[k]
      /\ Ours' = Ours \cup {n}
  BY <1>1, ReservePointwise
<1>3. CeilingInv' /\ ShelfInv'
  BY <1>1, ReserveFits DEF ShelfInv
<1>4. RowsInv'
  <2> SUFFICES ASSUME NEW k \in Ids PROVE RowOK(k)'
    BY DEF RowsInv
  <2>1. RowOK(k) /\ used \in Nat /\ k \in Nat
    BY <1>1, CountsAssumption DEF RowsInv, TypeOK, Ids
  <2>2. CASE k = n
    BY <1>2, <2>1, <2>2 DEF RowOK
  <2>3. CASE k # n
    BY <1>2, <2>1, <2>3 DEF RowOK
  <2> QED
    BY <2>2, <2>3
<1>5. CallsInv'
  <2> SUFFICES ASSUME NEW k \in Ids PROVE CallOK(k)'
    BY DEF CallsInv
  <2>1. CallOK(k)
    BY <1>1 DEF CallsInv
  <2>2. CASE k = n
    <3>1. shelf \in 1..imports /\ Extracts(k)' = (phase = "extraction")
      BY <1>1, <1>2, <2>2 DEF ShelfInv, TypeOK, Extracts
    <3> QED
      BY <1>2, <2>2, <3>1 DEF CallOK
  <2>3. CASE k # n
    <3>1. call'[k] = call[k] /\ reserved'[k] = reserved[k] /\ (k \in Ours' <=> k \in Ours)
      BY <1>2, <2>3
    <3>2. Extracts(k) /\ call[k].pc \in {"calling", "answered", "over"} => job' = job
      BY <2>1 DEF CallOK
    <3> QED
      BY <2>1, <3>1, <3>2 DEF CallOK, Extracts, Honest
  <2> QED
    BY <2>2, <2>3
<1>6. n \notin marker.ids /\ marker.ids \subseteq Ids
  <2>1. call[n].pc = "none"
    BY <1>2 DEF NoCall
  <2> QED
    BY <1>1, <2>1 DEF ReceiptInv, TypeOK
<1>7. ReceiptInv'
  <2>1. \A k \in marker.ids : Extracts(k)' /\ call'[k].pc = "done" /\ (ledger[k] = 0 \/ k \in orphaned)
    BY <1>1, <1>2, <1>6 DEF ReceiptInv, Extracts
  <2>2. marker.ids # {} => \A k \in Ids : Extracts(k)' /\ reserved'[k] # 0 => k \in marker.ids
    <3> SUFFICES ASSUME marker.ids # {}, NEW k \in Ids, Extracts(k)', reserved'[k] # 0 PROVE k \in marker.ids
      OBVIOUS
    <3>1. CASE k = n
      <4>1. phase = "extraction"
        BY <1>2, <3>1 DEF Extracts
      <4>2. marker = NoMarker
        BY <1>1, <4>1 DEF JobInv, Working
      <4> QED
        BY <4>2 DEF NoMarker
    <3>2. CASE k # n
      BY <1>1, <1>2, <3>2 DEF ReceiptInv, Extracts
    <3> QED
      BY <3>1, <3>2
  <2> QED
    BY <1>1, <2>1, <2>2 DEF ReceiptInv
<1>8. CostInv'
  <2> DEFINE f == Cost'
             g == Cost
  <2>1. \A k \in marker.ids : f[k] = g[k]
    BY <1>2, <1>6 DEF Cost
  <2>2. CostInv' <=> marker.cost = SumFunctionOnSet(f, marker.ids)
    BY DEF CostInv
  <2>3. marker.cost = SumFunctionOnSet(g, marker.ids)
    BY <1>1 DEF CostInv
  <2> HIDE DEF f, g
  <2>4. SumFunctionOnSet(f, marker.ids) = SumFunctionOnSet(g, marker.ids)
    BY <1>6, <2>1, IdsFinite, SumDepends
  <2> QED
    BY <2>2, <2>3, <2>4
<1> QED
  BY <1>3, <1>4, <1>5, <1>7, <1>8

-----------------------------------------------------------------------------
(* The shelf and the process *)

\* A shelf lifetime begins: no call is of it yet.
LEMMA ImportKeeps ==
    ASSUME IInv, Import
    PROVE  IInv'
<1>1. /\ TypeOK /\ ShelfInv /\ RowsInv /\ CallsInv /\ JobInv /\ ReceiptInv /\ CostInv
  BY DEF IInv
<1>2. /\ shelf = 0 /\ imports' = imports + 1 /\ shelf' = imports + 1 /\ imports < MaxIncarnations
      /\ imports \in Nat /\ job.inc \in Nat
      /\ UNCHANGED <<reserved, ledger, receiptRow, marker, call, used, job, up, crashes, orphaned>>
  BY <1>1, CountsAssumption DEF Import, TypeOK
<1>3. TypeOK'
  <2>1. shelf' \in 0..MaxIncarnations /\ imports' \in 0..MaxIncarnations
    BY <1>2, CountsAssumption
  <2> QED
    BY <1>1, <1>2, <2>1 DEF TypeOK
<1>4. Ours = {} /\ Ours' = {}
  <2>1. \A i \in Ids : call[i].pc # "none" => call[i].inc \in 1..imports
    BY <1>1 DEF CallsInv, CallOK
  <2> QED
    BY <1>2, <2>1 DEF Ours
<1>5. RowsInv'
  BY <1>1, <1>2, <1>4 DEF RowsInv, RowOK
<1>6. CallsInv'
  <2> SUFFICES ASSUME NEW i \in Ids PROVE CallOK(i)'
    BY DEF CallsInv
  <2>1. CallOK(i)
    BY <1>1 DEF CallsInv
  <2>2. call[i].inc \in 1..imports => call[i].inc \in 1..imports'
    BY <1>2
  <2> QED
    BY <1>2, <1>4, <2>1, <2>2 DEF CallOK, Extracts
<1>7. JobInv'
  <2>1. job.inc <= imports /\ job.inc <= imports' /\ job.inc # shelf'
    BY <1>1, <1>2 DEF JobInv
  <2> QED
    BY <1>1, <1>2, <2>1 DEF JobInv, Extracts, NoJob
<1>8. ReceiptInv'
  BY <1>1, <1>2 DEF ReceiptInv, Extracts
<1>9. CostInv'
  <2>1. \A i \in Ids : Moves(i)
    BY <1>2 DEF Moves
  <2> QED
    BY <1>2, <1>3, <2>1, CostKept
<1>10. ShelfInv' /\ CeilingInv'
  BY <1>2, <1>4, NothingDue DEF ShelfInv
<1> QED
  BY <1>3, <1>5, <1>6, <1>7, <1>8, <1>9, <1>10 DEF IInv

\* A shelf lifetime ends, and its rows with it.
LEMMA DeleteKeeps ==
    ASSUME IInv, Delete
    PROVE  IInv'
<1>1. /\ TypeOK /\ ShelfInv /\ RowsInv /\ CallsInv /\ JobInv /\ ReceiptInv /\ CostInv
  BY DEF IInv
<1>2. /\ up /\ shelf' = 0 /\ receiptRow' = 0 /\ orphaned' = {}
      /\ reserved' = [i \in Ids |-> 0] /\ ledger' = [i \in Ids |-> 0]
      /\ UNCHANGED <<imports, marker, call, used, job, up, crashes>>
  BY DEF Delete
<1>3. TypeOK'
  BY <1>1, <1>2, CountsAssumption DEF TypeOK
<1>4. Ours' = {}
  <2>1. \A i \in Ids : call[i].pc # "none" => call[i].inc \in 1..imports
    BY <1>1 DEF CallsInv, CallOK
  <2>2. \A i \in Ids : call'[i].pc # "none" => call'[i].inc # shelf'
    BY <1>2, <2>1
  <2> QED
    BY <2>2 DEF Ours
<1>5. \A i \in Ids : reserved'[i] = 0 /\ ledger'[i] = 0
  BY <1>2
<1>6. RowsInv'
  BY <1>1, <1>2, <1>5 DEF RowsInv, RowOK
<1>7. CallsInv'
  <2> SUFFICES ASSUME NEW i \in Ids PROVE CallOK(i)'
    BY DEF CallsInv
  <2>1. CallOK(i)
    BY <1>1 DEF CallsInv
  <2> QED
    BY <1>2, <1>4, <1>5, <2>1 DEF CallOK, Extracts
<1>8. JobInv'
  <2>1. job.pc \in Working => job.inc # shelf'
    BY <1>1, <1>2 DEF JobInv, Working
  <2> QED
    BY <1>1, <1>2, <2>1 DEF JobInv, Extracts, NoJob
<1>9. ReceiptInv'
  BY <1>1, <1>2, <1>5 DEF ReceiptInv, Extracts, TypeOK
<1>10. CostInv'
  <2>1. \A i \in Ids : Moves(i)
    BY <1>2 DEF Moves
  <2> QED
    BY <1>2, <1>3, <2>1, CostKept
<1>11. ShelfInv' /\ CeilingInv'
  BY <1>2, <1>4, NothingDue DEF ShelfInv
<1> QED
  BY <1>3, <1>6, <1>7, <1>8, <1>9, <1>10, <1>11 DEF IInv

\* A crash ends every call where it stands; reservations stay, and are known.
LEMMA CrashKeeps ==
    ASSUME IInv, Crash
    PROVE  IInv'
<1>1. /\ TypeOK /\ ShelfInv /\ RowsInv /\ CallsInv /\ JobInv /\ ReceiptInv
  BY DEF IInv
<1>2. /\ up' = FALSE /\ crashes < MaxCrashes /\ crashes' = crashes + 1 /\ job' = NoJob
      /\ orphaned' = orphaned \cup {i \in Ids : reserved[i] # 0}
      /\ UNCHANGED <<shelf, imports, reserved, ledger, receiptRow, marker, used>>
  BY DEF Crash, tables
<1>3. ASSUME NEW i \in Ids
      PROVE  /\ call'[i] \in Calls
             /\ call'[i].phase = call[i].phase /\ call'[i].inc = call[i].inc
             /\ call'[i].worst = call[i].worst /\ call'[i].billed = call[i].billed
             /\ call'[i].pc = IF call[i].pc = "none" THEN "none" ELSE "done"
             /\ call[i].pc = "none" => call'[i] = call[i]
  <2>1. call[i] \in Calls
    BY <1>1, AmountsTyped
  <2>2. call'[i] = IF call[i].pc = "none" THEN call[i] ELSE [call[i] EXCEPT !.pc = "done"]
    BY DEF Crash
  <2>3. CASE call[i].pc = "none"
    BY <2>1, <2>2, <2>3
  <2>4. CASE call[i].pc # "none"
    BY <2>1, <2>2, <2>4 DEF Calls, CallPC
  <2> QED
    BY <2>3, <2>4
<1>4. call' \in [Ids -> Calls]
  <2>1. call' = [i \in Ids |-> IF call[i].pc = "none" THEN call[i] ELSE [call[i] EXCEPT !.pc = "done"]]
    BY DEF Crash
  <2> QED
    BY <1>3, <2>1
<1>5. NoJob \in Jobs /\ NoJob.pc = "idle" /\ NoJob.held = {} /\ NoJob.inc = 0
  BY CountsAssumption DEF NoJob, Jobs
<1>6. TypeOK'
  <2>1. crashes' \in 0..MaxCrashes
    BY <1>1, <1>2, CountsAssumption DEF TypeOK
  <2>2. orphaned' \subseteq Ids
    BY <1>1, <1>2 DEF TypeOK
  <2> QED
    BY <1>1, <1>2, <1>4, <1>5, <2>1, <2>2 DEF TypeOK, Calls, Jobs
<1>7. Ours' = Ours
  BY <1>2, <1>3 DEF Ours
<1>8. RowsInv'
  <2> SUFFICES ASSUME NEW i \in Ids PROVE RowOK(i)'
    BY DEF RowsInv
  <2>1. RowOK(i)
    BY <1>1 DEF RowsInv
  <2>2. i > used => call'[i] = call[i]
    BY <1>3, <2>1 DEF RowOK, NoCall
  <2> QED
    BY <1>2, <1>7, <2>1, <2>2 DEF RowOK
<1>9. CallsInv'
  <2> SUFFICES ASSUME NEW i \in Ids PROVE CallOK(i)'
    BY DEF CallsInv
  <2>1. CallOK(i) /\ call[i] \in Calls /\ call[i].billed \in Nat /\ call[i].worst \in Nat
        /\ reserved[i] \in Nat /\ ledger[i] \in Nat
    BY <1>1, AmountsTyped DEF CallsInv
  <2>2. i \in Ours /\ Honest(i) =>
           \/ call[i].billed <= reserved[i] + ledger[i]
           \/ i \in marker.ids /\ receiptRow = marker.cost
    <3>1. i \in Ours => call[i].pc \in {"calling", "answered", "noted", "over", "done"}
      BY <2>1 DEF Calls, CallPC, Ours
    <3>2. CASE call[i].pc \in {"calling", "answered"}
      BY <2>1, <3>2 DEF CallOK, Honest
    <3>3. CASE call[i].pc \in {"noted", "over"}
      BY <2>1, <3>3 DEF CallOK
    <3>4. CASE call[i].pc = "done"
      BY <2>1, <3>4 DEF CallOK
    <3> QED
      BY <3>1, <3>2, <3>3, <3>4
  <2>3. Honest(i)' <=> Honest(i)
    BY <1>3 DEF Honest
  <2> QED
    BY <1>2, <1>3, <1>7, <2>1, <2>2, <2>3 DEF CallOK, Extracts
<1>10. JobInv'
  BY <1>1, <1>2, <1>5 DEF JobInv, Working, TypeOK
<1>11. ReceiptInv'
  <2>1. \A i \in Ids : Extracts(i)' <=> Extracts(i)
    BY <1>3 DEF Extracts
  <2>2. \A i \in marker.ids : i \in Ids /\ call'[i].pc = "done"
    BY <1>1, <1>3 DEF ReceiptInv, TypeOK
  <2> QED
    BY <1>1, <1>2, <2>1, <2>2 DEF ReceiptInv
<1>12. \A i \in Ids : Moves(i)
  BY <1>3 DEF Moves
<1>13. ShelfInv'
  BY <1>1, <1>2 DEF ShelfInv
<1> QED
  BY <1>2, <1>6, <1>8, <1>9, <1>10, <1>11, <1>12, <1>13, StepKeeps

\* A restart finds everything as the crash left it.
LEMMA RestartKeeps ==
    ASSUME IInv, Restart
    PROVE  IInv'
<1>1. /\ TypeOK /\ JobInv /\ CallsInv
      /\ up' = TRUE /\ UNCHANGED <<tables, marker, call, used, job, crashes, orphaned>>
  BY DEF IInv, Restart
<1>2. UNCHANGED <<shelf, imports, reserved, ledger, receiptRow>>
  BY <1>1 DEF tables
<1>3. TypeOK'
  BY <1>1, <1>2 DEF TypeOK
<1>4. ShelfInv' /\ RowsInv' /\ ReceiptInv'
  BY <1>1, <1>2 DEF IInv, ShelfInv, RowsInv, RowOK, Ours, ReceiptInv, Extracts
<1>5. CallsInv'
  BY <1>1, <1>2 DEF CallsInv, CallOK, Ours, Extracts, Honest
<1>6. JobInv'
  BY <1>1, <1>2 DEF JobInv, Extracts
<1>7. \A i \in Ids : Moves(i)
  BY <1>1 DEF Moves
<1> QED
  BY <1>1, <1>2, <1>3, <1>4, <1>5, <1>6, <1>7, StepKeeps

\* A call that was over before stays as it is.
LEMMA DoneAlready ==
    ASSUME TypeOK, NEW i \in Ids, call[i].pc = "done", UNCHANGED call
    PROVE  CallGoes(i, "done")
<1>1. call \in [Ids -> Calls]
  BY DEF TypeOK, Calls
<1> DEFINE c == [call EXCEPT ![i].pc = "done"]
<1>2. c[i] = call[i]
  <2>1. c[i] = [call[i] EXCEPT !.pc = "done"] /\ call[i] \in Calls
    BY <1>1
  <2> QED
    BY <2>1 DEF Calls
<1>3. c = call
  BY <1>1, <1>2
<1> QED
  BY <1>3 DEF CallGoes

\* The operator's reconcile settles what a crash left open.
LEMMA ReconcileKeeps ==
    ASSUME IInv, NEW i \in Ids, Reconcile(i)
    PROVE  IInv'
<1>1. /\ TypeOK /\ RowsInv /\ CallsInv /\ JobInv
      /\ ~up /\ reserved[i] # 0 /\ Settle(i)
      /\ UNCHANGED <<shelf, imports, receiptRow, marker, call, used, job, up, crashes, orphaned>>
  BY DEF IInv, Reconcile
<1>2. call[i].pc = "done" /\ i \in orphaned
  <2>1. i \in Ours
    BY <1>1 DEF RowsInv, RowOK
  <2> QED
    BY <1>1, <2>1 DEF CallsInv, CallOK, Ours
<1>3. CallGoes(i, "done")
  BY <1>1, <1>2, DoneAlready
<1>4. /\ ShelfInv' /\ RowsInv' /\ CallsInv' /\ ReceiptInv'
      /\ \A k \in Ids : Moves(k)
  BY <1>1, <1>2, <1>3, SettleKeeps
<1>5. TypeOK'
  <2>1. reserved' \in [Ids -> Nat] /\ ledger' \in [Ids -> Nat]
    BY <1>1, <1>3, SettlePointwise
  <2> QED
    BY <1>1, <2>1 DEF TypeOK
<1>6. JobInv'
  BY <1>1 DEF JobInv, Extracts, NoJob, Working
<1> QED
  BY <1>1, <1>4, <1>5, <1>6, StepKeeps


-----------------------------------------------------------------------------
(* Calls of readers and of the preparation *)

\* The job and the receipt know nothing of a call that is not the extraction's.
LEMMA JobUntouched ==
    ASSUME IInv, TypeOK', UNCHANGED <<shelf, imports, marker, job, up>>,
           \A k \in Ids : /\ Moves(k)
                          /\ Extracts(k) => call'[k] = call[k] /\ reserved'[k] = reserved[k]
    PROVE  JobInv'
<1>1. JobInv /\ TypeOK
  BY DEF IInv
<1>2. \A k \in Ids : /\ Extracts(k)' <=> Extracts(k)
                     /\ Extracts(k) => call'[k] = call[k] /\ reserved'[k] = reserved[k]
  BY DEF Extracts, Moves
<1>3. job.held \subseteq Ids
  BY <1>1 DEF TypeOK
<1> QED
  BY <1>1, <1>2, <1>3 DEF JobInv

\* A reader, or the preparation, reserves what fits.
LEMMA ReaderReserveKeeps ==
    ASSUME IInv, ReaderReserve
    PROVE  IInv'
<1>1. /\ up /\ shelf # 0 /\ TypeOK /\ RowsInv /\ CallsInv
      /\ UNCHANGED <<shelf, imports, ledger, receiptRow, marker, job, up, crashes, orphaned>>
  BY DEF ReaderReserve, IInv
<1>2. PICK phase \in {"reader", "prepare"}, amount \in Worst : Fits(phase, amount) /\ Reserve(phase, amount)
  BY DEF ReaderReserve
<1>3. phase \in Phases /\ phase # "extraction"
  BY <1>2 DEF Phases
<1> DEFINE n == used + 1
<1>4. /\ n \in Ids /\ call[n] = NoCall
      /\ reserved' \in [Ids -> Nat] /\ call' \in [Ids -> Calls] /\ used' \in 0..MaxCalls
      /\ call'[n].phase = phase
      /\ \A k \in Ids \ {n} : reserved'[k] = reserved[k] /\ call'[k] = call[k]
  BY <1>1, <1>2, <1>3, ReservePointwise
<1>5. TypeOK'
  BY <1>1, <1>4 DEF TypeOK, Calls
<1>6. /\ ShelfInv' /\ RowsInv' /\ CallsInv' /\ ReceiptInv' /\ CostInv' /\ CeilingInv'
  BY <1>1, <1>2, <1>3, <1>5, ReserveKeeps
<1>7. JobInv'
  <2>1. \A k \in Ids : /\ Extracts(k)' <=> Extracts(k)
                       /\ Extracts(k) => call'[k] = call[k] /\ reserved'[k] = reserved[k]
    BY <1>3, <1>4 DEF Extracts, NoCall
  <2>2. job.held \subseteq Ids /\ JobInv
    BY <1>1 DEF TypeOK, IInv
  <2> QED
    BY <1>1, <2>1, <2>2 DEF JobInv
<1> QED
  BY <1>5, <1>6, <1>7 DEF IInv

\* The provider answers, whoever asked; what it bills is within MaxBilled.
LEMMA AnswerKeeps ==
    ASSUME IInv, NEW i \in Ids, Answer(i)
    PROVE  IInv'
<1>1. /\ TypeOK /\ ShelfInv /\ RowsInv /\ CallsInv /\ JobInv /\ ReceiptInv
      /\ up /\ call[i].pc = "calling"
      /\ UNCHANGED <<tables, marker, used, job, up, crashes, orphaned>>
  BY DEF IInv, Answer
<1>2. UNCHANGED <<shelf, imports, reserved, ledger, receiptRow>>
  BY <1>1 DEF tables
<1>3. PICK b \in 0..MaxBilled : call' = [call EXCEPT ![i].pc = "answered", ![i].billed = b]
  BY DEF Answer
<1>4. call \in [Ids -> Calls] /\ call[i] \in Calls
  BY <1>1 DEF TypeOK, Calls
<1> DEFINE c == [call[i] EXCEPT !.pc = "answered", !.billed = b]
<1>5. /\ c \in Calls /\ c.pc = "answered" /\ c.phase = call[i].phase /\ c.inc = call[i].inc
      /\ c.worst = call[i].worst /\ c.billed = b
  BY <1>4 DEF Calls, CallPC
<1>6. call' = [call EXCEPT ![i] = c]
  BY <1>3, <1>4
<1> HIDE DEF c
<1>7. /\ call' \in [Ids -> Calls] /\ call'[i] = c
      /\ \A k \in Ids \ {i} : call'[k] = call[k]
  BY <1>4, <1>5, <1>6
<1>8. TypeOK'
  BY <1>1, <1>2, <1>7 DEF TypeOK, Calls
<1>9. \A k \in Ids : Moves(k)
  <2> SUFFICES ASSUME NEW k \in Ids PROVE Moves(k)
    OBVIOUS
  <2>1. CASE k = i
    BY <1>1, <1>5, <1>7, <2>1 DEF Moves
  <2>2. CASE k # i
    BY <1>7, <2>2 DEF Moves
  <2> QED
    BY <2>1, <2>2
<1>10. Ours' = Ours
  BY <1>2, <1>9 DEF Ours, Moves
<1>11. \A k \in Ids : Extracts(k)' <=> Extracts(k)
  BY <1>9 DEF Extracts, Moves
<1>12. RowsInv'
  <2> SUFFICES ASSUME NEW k \in Ids PROVE RowOK(k)'
    BY DEF RowsInv
  <2>1. RowOK(k)
    BY <1>1 DEF RowsInv
  <2>2. k > used => k # i
    BY <1>1, <2>1 DEF RowOK, NoCall
  <2> QED
    BY <1>1, <1>2, <1>7, <1>10, <2>1, <2>2 DEF RowOK
<1>13. CallsInv'
  <2> SUFFICES ASSUME NEW k \in Ids PROVE CallOK(k)'
    BY DEF CallsInv
  <2>1. CallOK(k)
    BY <1>1 DEF CallsInv
  <2>2. CASE k = i
    BY <1>1, <1>2, <1>5, <1>7, <1>10, <1>11, <2>1, <2>2 DEF CallOK
  <2>3. CASE k # i
    BY <1>1, <1>2, <1>7, <1>10, <1>11, <2>1, <2>3 DEF CallOK, Honest
  <2> QED
    BY <2>2, <2>3
<1>14. JobInv'
  <2>1. \A k \in Ids : call[k].pc = "done" => call'[k] = call[k]
    BY <1>1, <1>7
  <2>2. job.held \subseteq Ids
    BY <1>1 DEF TypeOK
  <2>3. job.pc = "calling" => job.cur \in Ids /\ Extracts(job.cur)' /\ call'[job.cur].pc \in {"calling", "answered", "over"}
    BY <1>1, <1>5, <1>7, <1>11 DEF JobInv
  <2> QED
    BY <1>1, <1>2, <1>11, <2>1, <2>2, <2>3 DEF JobInv
<1>15. ReceiptInv'
  <2>1. \A k \in marker.ids : k \in Ids /\ call'[k] = call[k]
    BY <1>1, <1>7 DEF ReceiptInv, TypeOK
  <2> QED
    BY <1>1, <1>2, <1>11, <2>1 DEF ReceiptInv
<1>16. ShelfInv'
  BY <1>1, <1>2 DEF ShelfInv
<1> QED
  BY <1>1, <1>2, <1>8, <1>9, <1>12, <1>13, <1>14, <1>15, <1>16, StepKeeps

\* A reader's call is over: failed, or noted before.
LEMMA ReaderEndsKeeps ==
    ASSUME IInv, NEW i \in Ids, ReaderFails(i) \/ ReaderSettles(i)
    PROVE  IInv'
<1>1. /\ TypeOK /\ ReceiptInv
      /\ ~Extracts(i) /\ call[i].pc # "none" /\ Settle(i) /\ CallGoes(i, "done")
      /\ UNCHANGED <<shelf, imports, receiptRow, marker, used, job, up, crashes, orphaned>>
  BY DEF IInv, ReaderFails, ReaderSettles, Readers, Extracts
<1>2. i \notin marker.ids
  BY <1>1 DEF ReceiptInv
<1>3. /\ ShelfInv' /\ RowsInv' /\ CallsInv' /\ ReceiptInv'
      /\ \A k \in Ids : Moves(k)
  BY <1>1, <1>2, SettleKeeps
<1>4. /\ reserved' \in [Ids -> Nat] /\ ledger' \in [Ids -> Nat] /\ call' \in [Ids -> Calls]
      /\ \A k \in Ids \ {i} : reserved'[k] = reserved[k] /\ call'[k] = call[k]
  BY <1>1, SettlePointwise
<1>5. TypeOK'
  BY <1>1, <1>4 DEF TypeOK, Calls
<1>6. JobInv'
  BY <1>1, <1>3, <1>4, <1>5, JobUntouched
<1> QED
  BY <1>1, <1>3, <1>5, <1>6, StepKeeps

\* The usage is what is noted, or the estimate of a provider that reports none.
LEMMA NotedCovers ==
    ASSUME TypeOK, CallsInv, NEW i \in Ids
    PROVE  /\ Noted(i) \in Nat
           /\ reserved[i] # 0 => Noted(i) # 0
           /\ call[i].billed <= Noted(i)
<1>1. reserved[i] \in Nat /\ call[i].billed \in Nat
  BY AmountsTyped
<1> QED
  BY <1>1 DEF Noted

\* The usage of a call replaces its estimate on the reservation; the call is
\* the chapter's, and over, or a reader's, and to be settled next.
LEMMA NotingKeeps ==
    ASSUME IInv, NEW i \in Ids, NEW pc \in CallPC, call[i].pc = "answered", up,
           reserved[i] # 0, reserved' = [reserved EXCEPT ![i] = Noted(i)], CallGoes(i, pc),
           UNCHANGED <<shelf, imports, ledger, receiptRow, marker, used, up, orphaned>>,
           pc \in {"noted", "over", "done"}, Extracts(i) => pc # "noted",
           Extracts(i) /\ pc = "over" => job' = job,
           ~Extracts(i) => job' = job
    PROVE  /\ ShelfInv' /\ RowsInv' /\ CallsInv' /\ ReceiptInv'
           /\ \A k \in Ids : Moves(k)
           /\ reserved' \in [Ids -> Nat] /\ call' \in [Ids -> Calls]
           /\ reserved'[i] # 0 /\ call'[i].pc = pc /\ call'[i].phase = call[i].phase
           /\ \A k \in Ids \ {i} : reserved'[k] = reserved[k] /\ call'[k] = call[k]
<1>1. /\ TypeOK /\ ShelfInv /\ RowsInv /\ CallsInv /\ ReceiptInv
  BY DEF IInv
<1>2. /\ Noted(i) \in Nat /\ Noted(i) # 0 /\ call[i].billed <= Noted(i)
  BY <1>1, NotedCovers
<1>3. reserved \in [Ids -> Nat] /\ call \in [Ids -> Calls] /\ call[i] \in Calls
  BY <1>1 DEF TypeOK, Calls
<1> DEFINE c == [call[i] EXCEPT !.pc = pc]
<1>4. /\ c \in Calls /\ c.pc = pc /\ c.phase = call[i].phase /\ c.inc = call[i].inc
      /\ c.worst = call[i].worst /\ c.billed = call[i].billed
  BY <1>3 DEF Calls
<1>5. call' = [call EXCEPT ![i] = c]
  BY <1>3 DEF CallGoes
<1> HIDE DEF c
<1>6. /\ reserved' \in [Ids -> Nat] /\ call' \in [Ids -> Calls]
      /\ reserved'[i] = Noted(i) /\ call'[i] = c
      /\ \A k \in Ids \ {i} : reserved'[k] = reserved[k] /\ call'[k] = call[k]
  BY <1>2, <1>3, <1>4, <1>5
<1>7. \A k \in Ids : Moves(k)
  <2> SUFFICES ASSUME NEW k \in Ids PROVE Moves(k)
    OBVIOUS
  <2>1. CASE k = i
    BY <1>4, <1>6, <2>1 DEF Moves
  <2>2. CASE k # i
    BY <1>6, <2>2 DEF Moves
  <2> QED
    BY <2>1, <2>2
<1>8. Ours' = Ours
  BY <1>7 DEF Ours, Moves
<1>9. \A k \in Ids : Extracts(k)' <=> Extracts(k)
  BY <1>7 DEF Extracts, Moves
<1>10. i \in Ours
  BY <1>1 DEF RowsInv, RowOK
<1>11. RowsInv'
  <2> SUFFICES ASSUME NEW k \in Ids PROVE RowOK(k)'
    BY DEF RowsInv
  <2>1. RowOK(k)
    BY <1>1 DEF RowsInv
  <2>2. CASE k = i
    <3>1. ~(k > used)
      BY <2>1, <2>2 DEF RowOK
    <3> QED
      BY <1>6, <1>8, <1>10, <2>1, <2>2, <3>1 DEF RowOK
  <2>3. CASE k # i
    BY <1>6, <1>8, <2>1, <2>3 DEF RowOK
  <2> QED
    BY <2>2, <2>3
<1>12. CallsInv'
  <2> SUFFICES ASSUME NEW k \in Ids PROVE CallOK(k)'
    BY DEF CallsInv
  <2>1. CallOK(k)
    BY <1>1 DEF CallsInv
  <2>2. CASE k = i
    <3>1. ledger[i] \in Nat /\ call[i].billed \in Nat
      BY <1>1, AmountsTyped
    <3>2. call'[i].billed <= reserved'[i] /\ call'[i].billed <= reserved'[i] + ledger'[i]
      BY <1>2, <1>4, <1>6, <3>1
    <3> QED
      BY <1>4, <1>6, <1>9, <2>1, <2>2, <3>2 DEF CallOK
  <2>3. CASE k # i
    <3>1. Extracts(k) /\ call[k].pc \in {"calling", "answered", "over"} => job' = job
      <4> SUFFICES ASSUME Extracts(k), call[k].pc \in {"calling", "answered", "over"} PROVE ~Extracts(i)
        OBVIOUS
      <4>1. job.cur = k
        BY <2>1 DEF CallOK
      <4> QED
        BY <1>1, <2>3, <4>1 DEF CallsInv, CallOK
    <3> QED
      BY <1>6, <1>8, <1>9, <2>1, <2>3, <3>1 DEF CallOK, Honest
  <2> QED
    BY <2>2, <2>3
<1>13. ReceiptInv'
  <2>1. \A k \in marker.ids : k \in Ids /\ call'[k] = call[k]
    BY <1>1, <1>6 DEF ReceiptInv, TypeOK
  <2>2. \A k \in Ids : reserved'[k] # 0 => reserved[k] # 0
    BY <1>6
  <2> QED
    BY <1>1, <1>9, <2>1, <2>2 DEF ReceiptInv
<1>14. ShelfInv'
  BY <1>1 DEF ShelfInv
<1> QED
  BY <1>2, <1>4, <1>6, <1>7, <1>11, <1>12, <1>13, <1>14

\* A call of an earlier lifetime, whose row went with the book, just ends.
LEMMA LostCallKeeps ==
    ASSUME IInv, NEW i \in Ids, call[i].pc = "answered", reserved[i] = 0, CallGoes(i, "done"), up,
           UNCHANGED <<shelf, imports, reserved, ledger, receiptRow, marker, used, up, orphaned>>,
           job' = job \/ job.pc # "calling" \/ job.cur = i
    PROVE  /\ ShelfInv' /\ RowsInv' /\ CallsInv' /\ ReceiptInv'
           /\ \A k \in Ids : Moves(k)
           /\ call' \in [Ids -> Calls]
           /\ \A k \in Ids \ {i} : call'[k] = call[k]
<1>1. TypeOK /\ ReceiptInv /\ reserved \in [Ids -> Nat] /\ ledger \in [Ids -> Nat]
  BY DEF IInv, TypeOK
<1>2. Settle(i)
  <2>1. [reserved EXCEPT ![i] = 0] = reserved
    BY <1>1
  <2>2. [ledger EXCEPT ![i] = IF reserved[i] # 0 THEN reserved[i] ELSE @] = ledger
    BY <1>1
  <2> QED
    BY <2>1, <2>2 DEF Settle
<1>3. i \notin marker.ids
  BY <1>1 DEF ReceiptInv
<1> QED
  BY <1>1, <1>2, <1>3, SettleKeeps, SettlePointwise

\* A reader's answer is noted.
LEMMA ReaderNotesKeeps ==
    ASSUME IInv, NEW i \in Ids, ReaderNotes(i)
    PROVE  IInv'
<1>1. /\ TypeOK /\ up /\ ~Extracts(i) /\ call[i].pc = "answered"
      /\ UNCHANGED <<shelf, imports, ledger, receiptRow, marker, used, job, up, crashes, orphaned>>
  BY DEF IInv, ReaderNotes, Readers, Extracts
<1>2. /\ ShelfInv' /\ RowsInv' /\ CallsInv' /\ ReceiptInv'
      /\ \A k \in Ids : Moves(k)
      /\ reserved' \in [Ids -> Nat] /\ call' \in [Ids -> Calls]
      /\ \A k \in Ids \ {i} : reserved'[k] = reserved[k] /\ call'[k] = call[k]
  <2>1. CASE reserved[i] = 0
    <3>1. CallGoes(i, "done") /\ UNCHANGED reserved
      BY <2>1 DEF ReaderNotes
    <3>2. reserved \in [Ids -> Nat]
      BY <1>1 DEF TypeOK
    <3> QED
      BY <1>1, <2>1, <3>1, <3>2, LostCallKeeps
  <2>2. CASE reserved[i] # 0
    <3>1. PICK pc \in {"noted", "over"} : CallGoes(i, pc)
      BY <2>2 DEF ReaderNotes
    <3>2. reserved' = [reserved EXCEPT ![i] = Noted(i)]
      BY <2>2 DEF ReaderNotes
    <3>3. pc \in CallPC /\ pc \in {"noted", "over", "done"}
      BY <3>1 DEF CallPC
    <3> QED
      BY <1>1, <2>2, <3>1, <3>2, <3>3, NotingKeeps
  <2> QED
    BY <2>1, <2>2
<1>3. TypeOK'
  BY <1>1, <1>2 DEF TypeOK, Calls
<1>4. JobInv'
  BY <1>1, <1>2, <1>3, JobUntouched
<1> QED
  BY <1>1, <1>2, <1>3, <1>4, StepKeeps


-----------------------------------------------------------------------------
(* The chapter's job *)

\* The job of a typed state, and where a piece may leave it.
LEMMA JobTyped ==
    ASSUME TypeOK
    PROVE  /\ job \in Jobs /\ NoJob \in Jobs
           /\ \A j \in Jobs : /\ Aborted(j) \in Jobs /\ Aborted(j).pc = "abort"
                              /\ Aborted(j).inc = j.inc /\ Aborted(j).held = j.held
                              /\ Retried(j) \in Jobs /\ Retried(j).pc \in {"extract", "abort"}
                              /\ Retried(j).inc = j.inc /\ Retried(j).held = j.held
<1>1. 1 \in 1..NumChunks /\ 1 \in 1..MaxAttempts /\ 0 \in 0..MaxCalls /\ 0 \in 0..MaxIncarnations
  BY CountsAssumption
<1>2. job \in Jobs /\ NoJob \in Jobs
  BY <1>1 DEF TypeOK, Jobs, NoJob
<1> SUFFICES ASSUME NEW j \in Jobs
             PROVE  /\ Aborted(j) \in Jobs /\ Aborted(j).pc = "abort"
                    /\ Aborted(j).inc = j.inc /\ Aborted(j).held = j.held
                    /\ Retried(j) \in Jobs /\ Retried(j).pc \in {"extract", "abort"}
                    /\ Retried(j).inc = j.inc /\ Retried(j).held = j.held
  BY <1>2
<1>3. Aborted(j) \in Jobs /\ Aborted(j).pc = "abort" /\ Aborted(j).inc = j.inc /\ Aborted(j).held = j.held
  BY <1>1 DEF Jobs, Aborted
<1>4. CASE j.attempt < MaxAttempts
  <2>1. j.attempt + 1 \in 1..MaxAttempts
    BY <1>4, CountsAssumption DEF Jobs
  <2>2. Retried(j) = [j EXCEPT !.pc = "extract", !.attempt = j.attempt + 1, !.cur = 0]
    BY <1>4 DEF Retried, Jobs
  <2> QED
    BY <1>1, <1>3, <2>1, <2>2 DEF Jobs
<1>5. CASE ~(j.attempt < MaxAttempts)
  <2>1. Retried(j) = Aborted(j)
    BY <1>5 DEF Retried, Aborted
  <2> QED
    BY <1>3, <2>1
<1> QED
  BY <1>4, <1>5

\* A step of the job that changes nothing else keeps the invariant when the
\* job's new state does.
LEMMA JobStepKeeps ==
    ASSUME IInv, UNCHANGED <<tables, marker, call, used, up, crashes, orphaned>>,
           job.pc # "calling", job' \in Jobs, JobInv'
    PROVE  IInv'
<1>1. TypeOK /\ UNCHANGED <<shelf, imports, reserved, ledger, receiptRow>>
  BY DEF IInv, tables
<1>2. TypeOK'
  BY <1>1 DEF TypeOK, Jobs
<1>3. /\ ShelfInv' /\ RowsInv' /\ CallsInv' /\ ReceiptInv'
      /\ \A i \in Ids : Moves(i)
  BY JobOnly
<1> QED
  BY <1>1, <1>2, <1>3, StepKeeps

\* A working job that goes on working, with what it held.
LEMMA StillWorking ==
    ASSUME IInv, UNCHANGED <<tables, marker, call, used, up, crashes, orphaned>>, up,
           job.pc \in Working \ {"calling"}, job' \in Jobs, job'.pc \in {"extract", "abort", "prepare", "commit"},
           job'.inc = job.inc, job'.held = job.held,
           job'.pc \in {"prepare", "commit"} => job.held # {}
    PROVE  IInv'
<1>1. JobInv /\ UNCHANGED <<shelf, imports, reserved, ledger, receiptRow>>
  BY DEF IInv, tables
<1>2. job.pc # "idle" /\ job.pc # "calling"
  BY DEF Working
<1>3. JobInv'
  BY <1>1, <1>2 DEF JobInv, Extracts, Working
<1> QED
  BY <1>2, <1>3, JobStepKeeps

\* The pass begins: with the receipt, or with nothing reserved.
LEMMA JobStartKeeps ==
    ASSUME IInv, JobStart
    PROVE  IInv'
<1>1. /\ TypeOK /\ ShelfInv /\ JobInv /\ ReceiptInv
      /\ up /\ shelf # 0 /\ job.pc = "idle"
      /\ UNCHANGED <<tables, marker, call, used, up, crashes, orphaned>>
  BY DEF IInv, JobStart
<1>2. UNCHANGED <<shelf, imports, reserved, ledger, receiptRow>>
  BY <1>1 DEF tables
<1>3. PICK pc \in {"finalize", "extract"} :
         /\ job' = [NoJob EXCEPT !.pc = pc, !.inc = shelf]
         /\ pc = "finalize" => marker # NoMarker
         /\ pc = "extract" => marker = NoMarker /\ ~Leftover
  BY DEF JobStart
<1>4. /\ job' \in Jobs /\ job'.pc = pc /\ job'.inc = shelf /\ job'.held = {}
  <2>1. NoJob \in Jobs /\ shelf \in 0..MaxIncarnations
    BY <1>1, JobTyped DEF TypeOK
  <2> QED
    BY <1>3, <2>1 DEF Jobs, NoJob
<1>5. shelf <= imports
  BY <1>1 DEF ShelfInv, TypeOK
<1>6. pc = "extract" => \A i \in Ids : ~(Extracts(i) /\ reserved[i] # 0)
  BY <1>3 DEF Leftover, Extracts
<1>7. pc = "finalize" => marker.ids # {}
  BY <1>1, <1>3 DEF ReceiptInv
<1>8. JobInv'
  BY <1>1, <1>2, <1>3, <1>4, <1>5, <1>6, <1>7 DEF JobInv, Extracts, Working
<1> QED
  BY <1>1, <1>4, <1>8, JobStepKeeps

\* The next piece's call is reserved, refused by a ceiling, or by a shelf that
\* is empty.
LEMMA JobReserveKeeps ==
    ASSUME IInv, JobReserve
    PROVE  IInv'
<1>1. /\ TypeOK /\ RowsInv /\ CallsInv /\ JobInv /\ up /\ job.pc = "extract"
      /\ UNCHANGED <<shelf, imports, ledger, receiptRow, marker, up, crashes, orphaned>>
  BY DEF IInv, JobReserve
<1>2. job \in Jobs
  BY <1>1, JobTyped
<1>3. ASSUME job' \in {Aborted(job), Retried(job)}, UNCHANGED <<used, reserved, call>>
      PROVE  IInv'
  <2>1. /\ job' \in Jobs /\ job'.pc \in {"extract", "abort"}
        /\ job'.inc = job.inc /\ job'.held = job.held
    BY <1>1, <1>2, <1>3, JobTyped
  <2>2. UNCHANGED <<tables, marker, call, used, up, crashes, orphaned>>
    BY <1>1, <1>3 DEF tables
  <2>3. job.pc \in Working \ {"calling"}
    BY <1>1 DEF Working
  <2> QED
    BY <1>1, <2>1, <2>2, <2>3, StillWorking
<1>4. ASSUME shelf # 0, NEW amount \in Worst, Fits("extraction", amount), Reserve("extraction", amount),
             job' = [job EXCEPT !.pc = "calling", !.cur = used + 1]
      PROVE  IInv'
  <2>0. PICK n \in {used + 1} : TRUE
    OBVIOUS
  <2>1. "extraction" \in Phases
    BY DEF Phases
  <2>2. /\ n = used + 1
        /\ n \in Ids /\ call[n] = NoCall
        /\ reserved' \in [Ids -> Nat] /\ call' \in [Ids -> Calls] /\ used' \in 0..MaxCalls
        /\ call'[n].phase = "extraction" /\ call'[n].pc = "calling"
        /\ \A k \in Ids \ {n} : reserved'[k] = reserved[k] /\ call'[k] = call[k]
    BY <1>1, <1>4, <2>0, <2>1, ReservePointwise
  <2>3. /\ job' \in Jobs /\ job'.pc = "calling" /\ job'.cur = n
        /\ job'.inc = job.inc /\ job'.held = job.held
    <3>1. n \in 0..MaxCalls
      BY <2>2 DEF Ids
    <3> QED
      BY <1>2, <1>4, <3>1 DEF Jobs
  <2>4. TypeOK'
    BY <1>1, <2>2, <2>3 DEF TypeOK, Calls, Jobs
  <2>5. /\ ShelfInv' /\ RowsInv' /\ CallsInv' /\ ReceiptInv' /\ CostInv' /\ CeilingInv'
    BY <1>1, <1>4, <2>1, <2>3, <2>4, ReserveKeeps
  <2>6. JobInv'
    <3>1. /\ Extracts(n)' /\ job.held \subseteq Ids /\ n \notin job.held
      <4>1. job.held \subseteq Ids
        BY <1>2 DEF Jobs
      <4>2. call[n].pc = "none"
        BY <2>2 DEF NoCall
      <4>3. \A k \in job.held : call[k].pc = "done"
        BY <1>1 DEF JobInv
      <4> QED
        BY <2>2, <4>1, <4>2, <4>3 DEF Extracts
    <3>2. \A k \in Ids \ {n} : Extracts(k)' <=> Extracts(k)
      BY <2>2 DEF Extracts
    <3>3. \A k \in job.held : k \in Ids \ {n}
      BY <3>1
    <3>4. \A k \in job.held : Extracts(k)' /\ call'[k].pc = "done"
      BY <1>1, <2>2, <3>2, <3>3 DEF JobInv
    <3>5. job.inc = shelf => /\ \A k \in job.held : reserved'[k] # 0
                             /\ \A k \in Ids : Extracts(k)' /\ reserved'[k] # 0 => k \in job.held \/ k = n
      BY <1>1, <2>2, <3>2, <3>3 DEF JobInv, Working
    <3>6. marker = NoMarker /\ job.inc # 0 /\ job.inc <= imports
      BY <1>1 DEF JobInv, Working
    <3> QED
      BY <1>1, <2>2, <2>3, <3>1, <3>4, <3>5, <3>6 DEF JobInv, Working
  <2> QED
    BY <2>4, <2>5, <2>6 DEF IInv
<1> QED
  BY <1>3, <1>4 DEF JobReserve


\* Settling a call of the job ends the job's answer for it: what it still holds
\* is settled as little as before.
LEMMA JobSettles ==
    ASSUME IInv, NEW i \in Ids, Settle(i), CallGoes(i, "done"), Extracts(i), call[i].pc # "none",
           job.pc \in Working, job.pc = "calling" => job.cur = i, up,
           UNCHANGED <<shelf, imports, receiptRow, marker, used, up, crashes, orphaned>>,
           job' \in Jobs, job'.pc \in {"idle", "extract", "abort"}, job'.inc \in {0, job.inc},
           job'.pc # "idle" => job'.inc = job.inc,
           job'.held \subseteq job.held \ {i},
           job'.pc # "idle" => job.held \ {i} \subseteq job'.held
    PROVE  IInv'
<1>1. TypeOK /\ JobInv
  BY DEF IInv
<1>2. i \notin marker.ids
  BY <1>1 DEF JobInv, NoMarker
<1>3. job' = job \/ job.pc # "calling" \/ job.cur = i
  OBVIOUS
<1>4. /\ ShelfInv' /\ RowsInv' /\ CallsInv' /\ ReceiptInv'
      /\ \A k \in Ids : Moves(k)
  BY <1>2, <1>3, SettleKeeps
<1>5. /\ reserved' \in [Ids -> Nat] /\ ledger' \in [Ids -> Nat] /\ call' \in [Ids -> Calls]
      /\ reserved'[i] = 0
      /\ \A k \in Ids \ {i} : reserved'[k] = reserved[k] /\ call'[k] = call[k]
  BY <1>1, SettlePointwise
<1>6. TypeOK'
  BY <1>1, <1>5 DEF TypeOK, Calls, Jobs
<1>7. job.held \subseteq Ids /\ \A k \in Ids : Extracts(k)' <=> Extracts(k)
  BY <1>1, <1>4 DEF TypeOK, Extracts, Moves
<1>8. \A k \in job'.held : k \in job.held /\ k \in Ids \ {i} /\ Extracts(k)' /\ call'[k].pc = "done"
  BY <1>1, <1>5, <1>7 DEF JobInv
<1>9. job'.pc \in Working /\ job'.inc = shelf =>
         /\ \A k \in job'.held : reserved'[k] # 0
         /\ \A k \in Ids : Extracts(k)' /\ reserved'[k] # 0 => k \in job'.held
  <2> SUFFICES ASSUME job'.pc \in Working, job'.inc = shelf
               PROVE  /\ \A k \in job'.held : reserved'[k] # 0
                      /\ \A k \in Ids : Extracts(k)' /\ reserved'[k] # 0 => k \in job'.held
    OBVIOUS
  <2>1. job'.pc # "idle" /\ job.inc = shelf
    BY DEF Working
  <2>2. \A k \in job.held : reserved[k] # 0
    BY <1>1, <2>1 DEF JobInv
  <2>3. \A k \in Ids : Extracts(k) /\ reserved[k] # 0 => k \in job.held \/ k = i
    BY <1>1, <2>1 DEF JobInv
  <2>4. ASSUME NEW k \in Ids, Extracts(k)', reserved'[k] # 0 PROVE k \in job'.held
    <3>1. k # i
      BY <1>5, <2>4
    <3>2. reserved[k] # 0 /\ Extracts(k)
      BY <1>5, <1>7, <2>4, <3>1
    <3> QED
      BY <2>1, <2>3, <3>1, <3>2
  <2>5. \A k \in job'.held : reserved'[k] # 0
    BY <1>5, <1>8, <2>2
  <2> QED
    BY <2>4, <2>5
<1>10. /\ job'.inc <= imports /\ (job'.pc # "idle" => job'.inc # 0) /\ marker = NoMarker
  <2>1. job.inc # 0 /\ job.inc <= imports /\ marker = NoMarker
    BY <1>1 DEF JobInv, Working
  <2>2. imports \in Nat
    BY <1>1, CountsAssumption DEF TypeOK
  <2> QED
    BY <2>1, <2>2
<1>11. JobInv'
  BY <1>8, <1>9, <1>10 DEF JobInv
<1> QED
  BY <1>4, <1>6, <1>11, StepKeeps

\* A piece's call of the extraction that its job waits for.
LEMMA JobsCall ==
    ASSUME IInv, job.pc = "calling"
    PROVE  /\ job.cur \in Ids /\ Extracts(job.cur) /\ call[job.cur].pc \in {"calling", "answered", "over"}
           /\ job.cur \notin job.held /\ job \in Jobs
<1>1. TypeOK /\ JobInv
  BY DEF IInv
<1> QED
  BY <1>1, JobTyped DEF JobInv

\* The call fails, or its bill is over the estimate.
LEMMA JobCallEndsKeeps ==
    ASSUME IInv, JobCallFails \/ JobOverrun
    PROVE  IInv'
<1>1. /\ TypeOK /\ up /\ job.pc = "calling" /\ Settle(job.cur) /\ CallGoes(job.cur, "done")
      /\ job' \in {Retried(job), Aborted(job)}
      /\ UNCHANGED <<shelf, imports, receiptRow, marker, used, up, crashes, orphaned>>
  BY DEF IInv, JobCallFails, JobOverrun
<1>2. PICK i \in Ids : i = job.cur
  BY <1>1, JobsCall
<1>3. Extracts(i) /\ call[i].pc # "none" /\ i \notin job.held /\ job \in Jobs
  BY <1>1, <1>2, JobsCall
<1>4. job' \in Jobs /\ job'.pc \in {"extract", "abort"} /\ job'.inc = job.inc /\ job'.held = job.held
  BY <1>1, <1>3, JobTyped
<1>5. Settle(i) /\ CallGoes(i, "done") /\ job.pc \in Working
  BY <1>1, <1>2 DEF Working
<1> QED
  BY <1>1, <1>2, <1>3, <1>4, <1>5, JobSettles

\* The answer is noted on the reservation, which the pass now holds.
LEMMA JobNotesKeeps ==
    ASSUME IInv, JobNotes
    PROVE  IInv'
<1>1. /\ TypeOK /\ JobInv /\ up /\ job.pc = "calling" /\ call[job.cur].pc = "answered"
      /\ UNCHANGED <<shelf, imports, ledger, receiptRow, marker, used, up, crashes, orphaned>>
  BY DEF IInv, JobNotes
<1>2. PICK i \in Ids : i = job.cur
  BY <1>1, JobsCall
<1>3. Extracts(i) /\ call[i].pc = "answered" /\ i \notin job.held /\ job \in Jobs
  BY <1>1, <1>2, JobsCall
<1>4. CASE reserved[i] = 0
  <2>1. CallGoes(i, "done") /\ job' = Aborted(job) /\ UNCHANGED reserved
    BY <1>2, <1>4 DEF JobNotes
  <2>2. /\ job' \in Jobs /\ job'.pc = "abort" /\ job'.inc = job.inc /\ job'.held = job.held
    BY <1>1, <1>3, <2>1, JobTyped
  <2>3. Settle(i)
    <3>1. reserved \in [Ids -> Nat] /\ ledger \in [Ids -> Nat]
      BY <1>1 DEF TypeOK
    <3>2. [reserved EXCEPT ![i] = 0] = reserved
      BY <1>4, <3>1
    <3>3. [ledger EXCEPT ![i] = IF reserved[i] # 0 THEN reserved[i] ELSE @] = ledger
      BY <1>4, <3>1
    <3> QED
      BY <1>1, <2>1, <3>2, <3>3 DEF Settle
  <2>4. job.pc \in Working /\ call[i].pc # "none"
    BY <1>1, <1>3 DEF Working
  <2> QED
    BY <1>1, <1>2, <1>3, <2>1, <2>2, <2>3, <2>4, JobSettles
<1>5. CASE reserved[i] # 0
  <2>1. /\ reserved' = [reserved EXCEPT ![i] = Noted(i)]
        /\ \/ CallGoes(i, "over") /\ job' = job
           \/ CallGoes(i, "done") /\ job' = [job EXCEPT !.pc = "review", !.held = @ \cup {i}]
    BY <1>2, <1>5 DEF JobNotes
  <2>2. PICK pc \in {"over", "done"} :
           /\ CallGoes(i, pc)
           /\ pc = "over" => job' = job
           /\ pc = "done" => job' = [job EXCEPT !.pc = "review", !.held = @ \cup {i}]
    BY <2>1
  <2>3. pc \in CallPC /\ pc \in {"noted", "over", "done"} /\ pc # "noted"
    BY DEF CallPC
  <2>4. /\ ShelfInv' /\ RowsInv' /\ CallsInv' /\ ReceiptInv'
        /\ \A k \in Ids : Moves(k)
        /\ reserved' \in [Ids -> Nat] /\ call' \in [Ids -> Calls]
        /\ reserved'[i] # 0 /\ call'[i].pc = pc /\ call'[i].phase = call[i].phase
        /\ \A k \in Ids \ {i} : reserved'[k] = reserved[k] /\ call'[k] = call[k]
    BY <1>1, <1>3, <1>5, <2>1, <2>2, <2>3, NotingKeeps
  <2>5. /\ job' \in Jobs /\ job'.inc = job.inc /\ job'.cur = i
        /\ job'.pc = IF pc = "over" THEN "calling" ELSE "review"
        /\ job'.held = IF pc = "over" THEN job.held ELSE job.held \cup {i}
    <3>1. CASE pc = "over"
      BY <1>1, <1>2, <1>3, <2>2, <3>1
    <3>2. CASE pc = "done"
      <4>1. job' = [job EXCEPT !.pc = "review", !.held = job.held \cup {i}]
        BY <1>3, <2>2, <3>2 DEF Jobs
      <4>2. job.held \cup {i} \in SUBSET Ids
        BY <1>3 DEF Jobs
      <4>3. /\ job' \in Jobs /\ job'.pc = "review" /\ job'.inc = job.inc /\ job'.cur = job.cur
            /\ job'.held = job.held \cup {i}
        BY <1>3, <4>1, <4>2 DEF Jobs
      <4> QED
        BY <1>2, <3>2, <4>3
    <3> QED
      BY <2>2, <3>1, <3>2
  <2>6. TypeOK'
    BY <1>1, <2>4, <2>5 DEF TypeOK, Calls, Jobs
  <2>7. JobInv'
    <3>1. job.held \subseteq Ids /\ \A k \in Ids : Extracts(k)' <=> Extracts(k)
      BY <1>1, <2>4 DEF TypeOK, Extracts, Moves
    <3>2. \A k \in job'.held : Extracts(k)' /\ call'[k].pc = "done"
      <4>1. \A k \in job.held : Extracts(k)' /\ call'[k].pc = "done"
        BY <1>1, <1>3, <2>4, <3>1 DEF JobInv
      <4>2. pc = "done" => Extracts(i)' /\ call'[i].pc = "done"
        BY <1>3, <2>4, <3>1
      <4> QED
        BY <2>2, <2>5, <4>1, <4>2
    <3>3. job.inc = shelf =>
             /\ \A k \in job'.held : reserved'[k] # 0
             /\ \A k \in Ids : Extracts(k)' /\ reserved'[k] # 0 => k \in job'.held \/ (pc = "over" /\ i = k)
      <4> SUFFICES ASSUME job.inc = shelf
                   PROVE  /\ \A k \in job'.held : reserved'[k] # 0
                          /\ \A k \in Ids : Extracts(k)' /\ reserved'[k] # 0 => k \in job'.held \/ (pc = "over" /\ i = k)
        OBVIOUS
      <4>1. /\ \A k \in job.held : reserved[k] # 0
            /\ \A k \in Ids : Extracts(k) /\ reserved[k] # 0 => k \in job.held \/ k = i
        BY <1>1, <1>2 DEF JobInv, Working
      <4> QED
        BY <1>3, <2>2, <2>4, <2>5, <3>1, <4>1
    <3>4. /\ job.inc <= imports /\ job.inc # 0 /\ marker = NoMarker
      BY <1>1 DEF JobInv, Working
    <3>5. pc = "over" => Extracts(i)' /\ call'[i].pc = "over"
      BY <1>3, <2>4, <3>1
    <3>6. pc = "done" => i \in job'.held
      BY <2>5
    <3> QED
      BY <1>1, <2>2, <2>5, <3>2, <3>3, <3>4, <3>5, <3>6 DEF JobInv, Working
  <2> QED
    BY <1>1, <2>4, <2>6, <2>7, StepKeeps
<1> QED
  BY <1>4, <1>5

\* A piece is accepted, or rejected; the chapter is prepared, or it fails.
LEMMA JobGoesOnKeeps ==
    ASSUME IInv, JobReviewed \/ JobRejected \/ JobFails \/ JobPrepared
    PROVE  IInv'
<1>1. /\ TypeOK /\ JobInv /\ up /\ job.pc \in {"review", "prepare", "commit"}
      /\ UNCHANGED <<tables, marker, call, used, up, crashes, orphaned>>
  BY DEF IInv, JobReviewed, JobRejected, JobFails, JobPrepared
<1>2. job \in Jobs /\ Aborted(job) \in Jobs /\ Aborted(job).inc = job.inc /\ Aborted(job).held = job.held /\ Aborted(job).pc = "abort"
  BY <1>1, JobTyped
<1>3. job.held # {}
  BY <1>1 DEF JobInv
<1>4. job.pc \in Working \ {"calling"}
  BY <1>1 DEF Working
<1>5. /\ job' \in Jobs /\ job'.inc = job.inc /\ job'.held = job.held
      /\ job'.pc \in {"extract", "abort", "prepare", "commit"}
  <2>1. CASE JobReviewed
    <3>0. 1 \in 1..MaxAttempts /\ 0 \in 0..MaxCalls
      BY CountsAssumption
    <3>1. CASE job.chunk < NumChunks
      <4>1. job.chunk + 1 \in 1..NumChunks
        BY <1>2, <3>1, CountsAssumption DEF Jobs
      <4>2. job' = [job EXCEPT !.pc = "extract", !.chunk = job.chunk + 1, !.attempt = 1, !.cur = 0]
        BY <1>2, <2>1, <3>1 DEF JobReviewed, Jobs
      <4> QED
        BY <1>2, <3>0, <4>1, <4>2 DEF Jobs
    <3>2. CASE ~(job.chunk < NumChunks)
      <4>1. job' = [job EXCEPT !.pc = "prepare", !.cur = 0]
        BY <2>1, <3>2 DEF JobReviewed
      <4> QED
        BY <1>2, <3>0, <4>1 DEF Jobs
    <3> QED
      BY <3>1, <3>2
  <2>2. CASE JobRejected
    <3>1. (~job.repair) \in BOOLEAN
      OBVIOUS
    <3>2. job' = [Aborted(job) EXCEPT !.again = ~job.repair] \/ job' = Aborted(job)
      BY <2>2 DEF JobRejected
    <3>3. CASE job' = [Aborted(job) EXCEPT !.again = ~job.repair]
      BY <1>2, <3>1, <3>3 DEF Jobs
    <3>4. CASE job' = Aborted(job)
      BY <1>2, <3>4
    <3> QED
      BY <3>2, <3>3, <3>4
  <2>3. CASE JobFails
    BY <1>2, <2>3 DEF JobFails
  <2>4. CASE JobPrepared
    BY <1>2, <2>4 DEF JobPrepared, Jobs
  <2> QED
    BY <2>1, <2>2, <2>3, <2>4
<1> QED
  BY <1>1, <1>3, <1>4, <1>5, StillWorking

\* A malformed piece is settled by itself.
LEMMA JobInvalidKeeps ==
    ASSUME IInv, JobInvalid
    PROVE  IInv'
<1>1. /\ TypeOK /\ JobInv /\ up /\ job.pc = "review"
      /\ UNCHANGED <<shelf, imports, receiptRow, marker, call, used, up, crashes, orphaned>>
  BY DEF IInv, JobInvalid
<1>2. job \in Jobs /\ job.cur \in job.held /\ job.held \subseteq Ids /\ job.pc \in Working \ {"calling"}
  BY <1>1, JobTyped DEF JobInv, Working, Jobs
<1>3. PICK i \in Ids : i = job.cur
  BY <1>2
<1>4. i \in job.held /\ Extracts(i) /\ call[i].pc = "done"
  BY <1>1, <1>2, <1>3 DEF JobInv
<1>5. CASE reserved[i] = 0
  <2>1. job' = Aborted(job) /\ UNCHANGED <<ledger, reserved>>
    BY <1>3, <1>5 DEF JobInvalid
  <2>2. job' \in Jobs /\ job'.pc = "abort" /\ job'.inc = job.inc /\ job'.held = job.held
    BY <1>1, <1>2, <2>1, JobTyped
  <2>3. UNCHANGED <<tables, marker, call, used, up, crashes, orphaned>>
    BY <1>1, <2>1 DEF tables
  <2> QED
    BY <1>1, <1>2, <2>2, <2>3, StillWorking
<1>6. CASE reserved[i] # 0
  <2> DEFINE j == [job EXCEPT !.held = @ \ {job.cur}]
  <2>1. Settle(i) /\ job' = Retried(j)
    BY <1>3, <1>6 DEF JobInvalid
  <2>2. j \in Jobs /\ j.inc = job.inc /\ j.held = job.held \ {i}
    BY <1>2, <1>3 DEF Jobs
  <2> HIDE DEF j
  <2>3. job' \in Jobs /\ job'.pc \in {"extract", "abort"} /\ job'.inc = job.inc /\ job'.held = job.held \ {i}
    BY <1>1, <2>1, <2>2, JobTyped
  <2>4. CallGoes(i, "done")
    BY <1>1, <1>4, DoneAlready
  <2> QED
    BY <1>1, <1>2, <1>4, <2>1, <2>3, <2>4, JobSettles
<1> QED
  BY <1>5, <1>6


\* The settlement loop of a pass that was aborted.
LEMMA JobAbortKeeps ==
    ASSUME IInv, JobAbort
    PROVE  IInv'
<1>1. /\ TypeOK /\ JobInv /\ up /\ job.pc = "abort"
      /\ UNCHANGED <<shelf, imports, receiptRow, marker, call, used, up, crashes, orphaned>>
  BY DEF IInv, JobAbort
<1>2. /\ job \in Jobs /\ NoJob \in Jobs /\ job.held \subseteq Ids /\ job.pc \in Working \ {"calling"}
      /\ NoJob.pc = "idle" /\ NoJob.inc = 0 /\ NoJob.held = {}
  BY <1>1, JobTyped DEF Working, Jobs, NoJob
<1>3. CASE job.held = {}
  <2>1. UNCHANGED <<tables, marker, call, used, up, crashes, orphaned>>
    BY <1>1, <1>3 DEF JobAbort, tables
  <2>2. CASE job.again
    <3>1. job' = [NoJob EXCEPT !.pc = "extract", !.inc = job.inc, !.repair = TRUE]
      BY <1>3, <2>2 DEF JobAbort
    <3>2. job' \in Jobs /\ job'.pc = "extract" /\ job'.inc = job.inc /\ job'.held = job.held
      BY <1>2, <1>3, <3>1 DEF Jobs, NoJob
    <3> QED
      BY <1>1, <1>2, <2>1, <3>2, StillWorking
  <2>3. CASE ~job.again
    <3>1. job' = NoJob
      BY <1>3, <2>3 DEF JobAbort
    <3>2. JobInv'
      BY <1>1, <1>2, <3>1 DEF JobInv, Working, TypeOK
    <3> QED
      BY <1>1, <1>2, <2>1, <3>1, <3>2, JobStepKeeps
  <2> QED
    BY <2>2, <2>3
<1>4. CASE job.held # {}
  <2>1. PICK i \in Ids : i = Min(job.held) /\ i \in job.held
    <3>1. job.held \subseteq Nat
      BY <1>2 DEF Ids
    <3>2. \E x \in job.held : \A y \in job.held : x <= y
      BY <1>4, <3>1, LeastNat
    <3> QED
      BY <1>2, <3>2 DEF Min
  <2>2. /\ Settle(i)
        /\ job' = IF reserved[i] = 0 THEN NoJob ELSE [job EXCEPT !.held = @ \ {i}]
    BY <1>4, <2>1 DEF JobAbort
  <2>3. Extracts(i) /\ call[i].pc = "done"
    BY <1>1, <2>1 DEF JobInv
  <2>4. CallGoes(i, "done")
    BY <1>1, <2>3, DoneAlready
  <2>5. /\ job' \in Jobs /\ job'.pc \in {"idle", "extract", "abort"} /\ job'.inc \in {0, job.inc}
        /\ (job'.pc # "idle" => job'.inc = job.inc)
        /\ job'.held \subseteq job.held \ {i}
        /\ (job'.pc # "idle" => job.held \ {i} \subseteq job'.held)
    <3>1. CASE reserved[i] = 0
      BY <1>2, <2>2, <3>1
    <3>2. CASE reserved[i] # 0
      <4>1. job' = [job EXCEPT !.held = job.held \ {i}]
        BY <1>2, <2>2, <3>2 DEF Jobs
      <4>2. job' \in Jobs /\ job'.pc = "abort" /\ job'.inc = job.inc /\ job'.held = job.held \ {i}
        BY <1>1, <1>2, <4>1 DEF Jobs
      <4> QED
        BY <4>2
    <3> QED
      BY <3>1, <3>2
  <2> QED
    BY <1>1, <1>2, <2>2, <2>3, <2>4, <2>5, JobSettles
<1> QED
  BY <1>3, <1>4

\* The commit: the receipt speaks for what the pass holds, which is everything
\* the extraction has reserved.
LEMMA JobCommitsKeeps ==
    ASSUME IInv, JobCommits
    PROVE  IInv'
<1>1. /\ TypeOK /\ ShelfInv /\ RowsInv /\ CallsInv /\ JobInv /\ ReceiptInv /\ CeilingInv
      /\ up /\ job.pc = "commit" /\ shelf = job.inc
      /\ UNCHANGED <<tables, call, used, up, crashes, orphaned>>
  BY DEF IInv, JobCommits
<1>2. UNCHANGED <<shelf, imports, reserved, ledger, receiptRow>>
  BY <1>1 DEF tables
<1>3. job \in Jobs /\ job.held \subseteq Ids /\ job.held # {} /\ marker = NoMarker
  BY <1>1, JobTyped DEF JobInv, Working, Jobs
<1>4. /\ marker'.ids = job.held
      /\ marker'.cost = SumFunctionOnSet(Cost, job.held)
      /\ marker' = [ids |-> job.held, cost |-> SumFunctionOnSet(Cost, job.held)]
  BY DEF JobCommits, Cost
<1>5. SumFunctionOnSet(Cost, job.held) \in Nat
  <2>1. \A i \in job.held : Cost[i] \in Nat
    BY <1>1, <1>3, AmountsTyped
  <2> QED
    BY <1>3, <2>1, IdsFinite, SumIsNat
<1>6. job' \in Jobs /\ job'.pc = "finalize" /\ job'.inc = job.inc /\ job'.held = job.held
  BY <1>3 DEF JobCommits, Jobs
<1>7. TypeOK'
  BY <1>1, <1>2, <1>3, <1>4, <1>5, <1>6 DEF TypeOK, Jobs
<1>8. Ours' = Ours /\ Preparing' = Preparing /\ Due' = Due /\ Cost' = Cost
  BY <1>1, <1>2 DEF Ours, Preparing, Due, Cost
<1>9. ShelfInv' /\ RowsInv'
  BY <1>1, <1>2, <1>8 DEF ShelfInv, RowsInv, RowOK
<1>10. CallsInv'
  <2> SUFFICES ASSUME NEW i \in Ids PROVE CallOK(i)'
    BY DEF CallsInv
  <2>1. CallOK(i)
    BY <1>1 DEF CallsInv
  <2>2. i \notin marker.ids
    BY <1>3 DEF NoMarker
  <2> QED
    BY <1>1, <1>2, <1>8, <2>1, <2>2 DEF CallOK, Extracts, Honest
<1>11. JobInv'
  BY <1>1, <1>2, <1>3, <1>4, <1>6 DEF JobInv, Extracts, Working
<1>12. ReceiptInv'
  <2>1. \A i \in job.held : Extracts(i) /\ call[i].pc = "done" /\ ledger[i] = 0
    <3> SUFFICES ASSUME NEW i \in job.held PROVE Extracts(i) /\ call[i].pc = "done" /\ ledger[i] = 0
      OBVIOUS
    <3>1. Extracts(i) /\ call[i].pc = "done" /\ reserved[i] # 0 /\ i \in Ids
      BY <1>1, <1>3 DEF JobInv, Working
    <3> QED
      BY <1>1, <3>1 DEF RowsInv, RowOK
  <2>2. \A i \in Ids : Extracts(i) /\ reserved[i] # 0 => i \in job.held
    BY <1>1 DEF JobInv, Working
  <2> QED
    BY <1>1, <1>2, <1>3, <1>4, <2>1, <2>2 DEF ReceiptInv, Extracts
<1>13. CostInv'
  BY <1>4, <1>8 DEF CostInv
<1>14. CeilingInv'
  <2>1. \A i \in Ids : Honest(i)' <=> Honest(i)
    BY <1>1 DEF Honest
  <2>2. Ours \subseteq Ids
    BY DEF Ours
  <2> QED
    BY <1>1, <1>8, <2>1, <2>2 DEF CeilingInv
<1> QED
  BY <1>7, <1>9, <1>10, <1>11, <1>12, <1>13, <1>14 DEF IInv

\* finalize_ingest: the receipt's row takes the place of the reservations, or
\* nothing happens.
LEMMA JobFinalizesKeeps ==
    ASSUME IInv, JobFinalizes
    PROVE  IInv'
<1>1. /\ TypeOK /\ ShelfInv /\ RowsInv /\ CallsInv /\ JobInv /\ ReceiptInv
      /\ up /\ job.pc = "finalize" /\ job' = NoJob
      /\ UNCHANGED <<shelf, imports, ledger, marker, call, used, up, crashes, orphaned>>
  BY DEF IInv, JobFinalizes
<1>2. NoJob \in Jobs /\ NoJob.pc = "idle" /\ NoJob.inc = 0 /\ NoJob.held = {}
  BY <1>1, JobTyped DEF NoJob
<1>3. JobInv'
  BY <1>1, <1>2 DEF JobInv, Working, TypeOK
<1>4. CASE UNCHANGED <<receiptRow, reserved>>
  <2>1. UNCHANGED <<tables, marker, call, used, up, crashes, orphaned>>
    BY <1>1, <1>4 DEF tables
  <2> QED
    BY <1>1, <1>2, <1>3, <2>1, JobStepKeeps
<1>5. CASE receiptRow' = FinalRow /\ reserved' = AfterFinalize
  <2>1. /\ receiptRow' = marker.cost
        /\ \A i \in Ids : reserved'[i] = IF Extracts(i) THEN 0 ELSE reserved[i]
    BY <1>5 DEF FinalRow, AfterFinalize, Extracts
  <2>2. reserved' \in [Ids -> Nat]
    BY <1>1, <1>5 DEF AfterFinalize, TypeOK
  <2>3. TypeOK'
    BY <1>1, <1>2, <2>1, <2>2 DEF TypeOK, Jobs
  <2>4. Ours' = Ours /\ \A i \in Ids : Moves(i)
    BY <1>1 DEF Ours, Moves
  <2>5. \A i \in Ids : Extracts(i)' <=> Extracts(i)
    BY <1>1 DEF Extracts
  <2>6. RowsInv'
    <3> SUFFICES ASSUME NEW i \in Ids PROVE RowOK(i)'
      BY DEF RowsInv
    <3>1. RowOK(i)
      BY <1>1 DEF RowsInv
    <3> QED
      BY <1>1, <2>1, <2>4, <3>1 DEF RowOK
  <2>7. CallsInv'
    <3> SUFFICES ASSUME NEW i \in Ids PROVE CallOK(i)'
      BY DEF CallsInv
    <3>1. CallOK(i)
      BY <1>1 DEF CallsInv
    <3>2. CASE Extracts(i)
      <4>1. call[i].pc \in {"none", "done"}
        <5>1. call[i].pc \in CallPC
          BY <1>1 DEF TypeOK
        <5> QED
          BY <1>1, <3>1, <3>2, <5>1 DEF CallOK, CallPC
      <4>2. i \in Ours /\ Honest(i) => \/ i \in marker.ids
                                       \/ call[i].billed <= reserved'[i] + ledger[i]
        <5>1. CASE reserved[i] = 0
          BY <1>1, <2>1, <3>1, <3>2, <4>1, <5>1 DEF CallOK, Ours
        <5>2. CASE reserved[i] # 0
          BY <1>1, <3>2, <5>2 DEF ReceiptInv, JobInv
        <5> QED
          BY <5>1, <5>2
      <4>3. Honest(i)' <=> Honest(i)
        BY <1>1 DEF Honest
      <4> QED
        BY <1>1, <2>1, <2>4, <2>5, <3>1, <3>2, <4>1, <4>2, <4>3 DEF CallOK
    <3>3. CASE ~Extracts(i)
      <4>1. i \notin marker.ids
        BY <1>1, <3>3 DEF ReceiptInv
      <4> QED
        BY <1>1, <2>1, <2>4, <2>5, <3>1, <3>3, <4>1 DEF CallOK, Honest
    <3> QED
      BY <3>2, <3>3
  <2>8. ReceiptInv'
    <3>1. \A i \in Ids : Extracts(i)' => reserved'[i] = 0
      BY <2>1, <2>5
    <3>2. marker.ids \subseteq Ids
      BY <1>1 DEF TypeOK
    <3>3. \A i \in marker.ids : Extracts(i)' /\ call'[i].pc = "done" /\ (ledger'[i] = 0 \/ i \in orphaned')
      BY <1>1, <2>5, <3>2 DEF ReceiptInv
    <3> QED
      BY <1>1, <3>1, <3>3 DEF ReceiptInv
  <2>9. ShelfInv'
    BY <1>1 DEF ShelfInv
  <2> QED
    BY <1>1, <1>3, <2>3, <2>4, <2>6, <2>7, <2>8, <2>9, StepKeeps
<1> QED
  BY <1>4, <1>5 DEF JobFinalizes

-----------------------------------------------------------------------------
(* The theorems *)

\* The first state: an empty shelf, and no call.
LEMMA InitHolds == Init => IInv
<1> SUFFICES ASSUME Init PROVE IInv
  OBVIOUS
<1>1. NoCall \in Calls /\ NoCall.pc = "none" /\ NoCall.billed = 0 /\ NoCall.phase = "reader"
  BY AmountsAssumption, CountsAssumption DEF NoCall, Calls, CallPC, Phases
<1>2. NoJob \in Jobs /\ NoJob.pc = "idle" /\ NoJob.inc = 0 /\ NoJob.held = {}
  BY CountsAssumption DEF NoJob, Jobs
<1>3. TypeOK
  BY <1>1, <1>2, CountsAssumption DEF Init, TypeOK, Calls, Jobs, NoMarker
<1>4. \A i \in Ids : call[i] = NoCall /\ reserved[i] = 0 /\ ledger[i] = 0
  BY DEF Init
<1>5. Ours = {}
  BY <1>1, <1>4 DEF Ours
<1>6. RowsInv /\ CallsInv
  BY <1>1, <1>4, <1>5 DEF Init, RowsInv, RowOK, CallsInv, CallOK, Extracts
<1>7. ShelfInv /\ JobInv /\ ReceiptInv
  BY <1>2 DEF Init, ShelfInv, JobInv, ReceiptInv, Working, NoMarker
<1>8. SumFunctionOnSet(Due, {}) = 0 /\ SumFunctionOnSet(Cost, {}) = 0
  BY SumEmpty
<1>9. CostInv
  BY <1>8 DEF Init, CostInv, NoMarker
<1>10. CeilingInv
  <2>1. Ours \cap Preparing = {}
    BY <1>5
  <2> QED
    BY <1>5, <1>8, <2>1, AmountsAssumption DEF CeilingInv
<1> QED
  BY <1>3, <1>6, <1>7, <1>9, <1>10 DEF IInv

\* Every step keeps it.
LEMMA NextKeeps == IInv /\ [Next]_vars => IInv'
<1> SUFFICES ASSUME IInv, [Next]_vars PROVE IInv'
  OBVIOUS
<1>1. CASE Import
  BY <1>1, ImportKeeps
<1>2. CASE Delete
  BY <1>2, DeleteKeeps
<1>3. CASE Crash
  BY <1>3, CrashKeeps
<1>4. CASE Restart
  BY <1>4, RestartKeeps
<1>5. CASE ReaderReserve
  BY <1>5, ReaderReserveKeeps
<1>6. ASSUME NEW i \in Ids, Answer(i) PROVE IInv'
  BY <1>6, AnswerKeeps
<1>7. ASSUME NEW i \in Ids, ReaderFails(i) \/ ReaderSettles(i) PROVE IInv'
  BY <1>7, ReaderEndsKeeps
<1>8. ASSUME NEW i \in Ids, ReaderNotes(i) PROVE IInv'
  BY <1>8, ReaderNotesKeeps
<1>9. ASSUME NEW i \in Ids, Reconcile(i) PROVE IInv'
  BY <1>9, ReconcileKeeps
<1>10. CASE JobStart
  BY <1>10, JobStartKeeps
<1>11. CASE JobReserve
  BY <1>11, JobReserveKeeps
<1>12. CASE JobCallFails \/ JobOverrun
  BY <1>12, JobCallEndsKeeps
<1>13. CASE JobNotes
  BY <1>13, JobNotesKeeps
<1>14. CASE JobReviewed \/ JobRejected \/ JobFails \/ JobPrepared
  BY <1>14, JobGoesOnKeeps
<1>15. CASE JobInvalid
  BY <1>15, JobInvalidKeeps
<1>16. CASE JobAbort
  BY <1>16, JobAbortKeeps
<1>17. CASE JobCommits
  BY <1>17, JobCommitsKeeps
<1>18. CASE JobFinalizes
  BY <1>18, JobFinalizesKeeps
<1>19. CASE UNCHANGED vars
  BY <1>19 DEF vars, IInv, TypeOK, ShelfInv, RowsInv, RowOK, CallsInv, CallOK, JobInv, ReceiptInv, CostInv,
                CeilingInv, Ours, Honest, Preparing, Extracts, Due, Cost
<1> QED
  BY <1>1, <1>2, <1>3, <1>4, <1>5, <1>6, <1>7, <1>8, <1>9, <1>10, <1>11, <1>12, <1>13, <1>14, <1>15,
     <1>16, <1>17, <1>18, <1>19 DEF Next

\* The inductive invariant holds of every run.
THEOREM LedgerInductive == Spec => []IInv
BY InitHolds, NextKeeps, PTL DEF Spec

\* What it is for: what the shelved calls were billed is covered, is counted
\* once, and is within both ceilings.
LEMMA LedgerFollows == IInv => LedgerHolds
<1> SUFFICES ASSUME IInv PROVE LedgerHolds
  OBVIOUS
<1>1. TypeOK /\ RowsInv /\ CallsInv /\ ReceiptInv /\ CeilingInv
  BY DEF IInv
<1>2. Ours \subseteq Ids
  BY DEF Ours
<1>3. \A i \in Ids : /\ Due[i] \in Nat /\ Billed[i] \in Nat /\ Billed[i] = call[i].billed
                     /\ call[i].worst \in Nat /\ call[i].billed \in Nat
                     /\ Due[i] = IF call[i].pc = "calling" THEN call[i].worst ELSE call[i].billed
  BY <1>1, AmountsTyped
<1>4. \A i \in Ids : Billed[i] <= Due[i]
  <2> SUFFICES ASSUME NEW i \in Ids PROVE Billed[i] <= Due[i]
    OBVIOUS
  <2>1. call[i].pc = "calling" => call[i].billed = 0
    BY <1>1 DEF CallsInv, CallOK
  <2> QED
    BY <1>3, <2>1
<1>5. SpendIsCovered
  <2> SUFFICES ASSUME NEW i \in Ours, Honest(i)
               PROVE  \/ call[i].billed <= reserved[i] + ledger[i]
                      \/ i \in marker.ids /\ receiptRow = marker.cost
    BY DEF SpendIsCovered
  <2>1. \/ Due[i] <= reserved[i] + ledger[i]
        \/ i \in marker.ids /\ receiptRow = marker.cost
    BY <1>1, DueIsCovered
  <2>2. call[i].billed <= Due[i] /\ call[i].billed \in Nat /\ Due[i] \in Nat /\ reserved[i] \in Nat /\ ledger[i] \in Nat
    BY <1>1, <1>2, <1>3, <1>4, AmountsTyped
  <2> QED
    BY <2>1, <2>2
<1>6. CountedOnce
  BY <1>1 DEF CountedOnce, RowsInv, RowOK, ReceiptInv
<1>7. ASSUME NEW S \in SUBSET Ids
      PROVE  /\ SumFunctionOnSet(Billed, S) <= SumFunctionOnSet(Due, S)
             /\ SumFunctionOnSet(Billed, S) \in Nat /\ SumFunctionOnSet(Due, S) \in Nat
  <2>1. \A i \in S : Billed[i] \in Nat /\ Due[i] \in Nat /\ Billed[i] <= Due[i]
    BY <1>3, <1>4
  <2> QED
    BY <2>1, IdsFinite, SumAtMost, SumIsNat
<1>8. CeilingsHold
  <2>1. (\A i \in Ours : Honest(i)) => SumFunctionOnSet(Billed, Ours) <= Ceiling
    BY <1>1, <1>2, <1>7, AmountsAssumption DEF CeilingInv
  <2> DEFINE P == Ours \cap Preparing
  <2>2. P \in SUBSET Ids
    BY <1>2
  <2>3. (\A i \in P : Honest(i)) => SumFunctionOnSet(Due, P) <= PrepareCeiling
    BY <1>1 DEF CeilingInv
  <2>4. (\A i \in P : Honest(i)) => SumFunctionOnSet(Billed, P) <= PrepareCeiling
    BY <1>7, <2>2, <2>3, AmountsAssumption
  <2> QED
    BY <2>1, <2>4 DEF CeilingsHold
<1> QED
  BY <1>1, <1>5, <1>6, <1>8 DEF LedgerHolds

\* Provider spend of a book, over every interleaving of readers, preparation,
\* ingestion, deletion and any number of crashes: covered at every moment,
\* counted once, and within both ceilings as long as no provider breaks its limit.
THEOREM Ledger == Spec => []LedgerHolds
BY LedgerInductive, LedgerFollows, PTL


=============================================================================
