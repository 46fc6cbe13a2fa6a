------------------------- MODULE StoryMemoryProofs -------------------------
(***************************************************************************)
(* Proofs about the derived memory of a book, on the reader's machine and  *)
(* on the hosted service it moves to: whatever is committed, corrected,    *)
(* split, merged or moved, no view of a bookmark says what a later chapter *)
(* said first, no write changes the view of an earlier bookmark, whoever a *)
(* chapter named stays known by that name, and a reader's correction only  *)
(* renames. And about the owner of the connections through which a local   *)
(* memory is read and written: one session at a time works on a book, on   *)
(* its only connection, and the cache of connections keeps to its limit.   *)
(***************************************************************************)
EXTENDS HostedMemory, Store, SumTheorems, SequenceTheorems

Ids == 1..Len(entity)
Given == People \union Renames \union {"split", "merged"}
Spoken == Given \union {Nickname}
Told == 1..Done

EntityRows == [name : Given, from : 1..Chapters, to : Moments, ch : 1..Chapters]
AliasRows  == [ent : Ids, form : Spoken, from : Told, ch : Told]
EdgeRows   == [src : Ids, dst : Ids, from : Told, to : Moments, ch : Told]
StateRows  == [ent : Ids, from : Told, to : Moments, ch : Told]
PartRows   == [event : Told, ent : Ids, from : Told]

\* An identity begins with a completed chapter and ends, if it does, at a
\* correction of a completed one; no chapter after its beginning was the first to
\* say it.
EntitiesInv ==
  /\ entity \in Seq(EntityRows)
  /\ \A e \in Ids :
       /\ entity[e].from <= Done /\ entity[e].from < entity[e].to
       /\ entity[e].to <= Done \/ entity[e].to = Never
       /\ entity[e].ch <= entity[e].from

AliasesInv ==
  /\ aliases \subseteq AliasRows
  /\ \A r \in aliases : r.ch <= r.from

\* A tie begins no earlier than the identities it ties.
EdgesInv ==
  /\ edges \subseteq EdgeRows
  /\ \A r \in edges :
       /\ r.from < r.to /\ r.ch <= r.from
       /\ entity[r.src].from <= r.from /\ entity[r.dst].from <= r.from

\* Two states of an identity do not hold at the same time.
StatesInv ==
  /\ states \subseteq StateRows
  /\ \A r \in states : r.from < r.to /\ r.ch <= r.from
  /\ \A r, s \in states : r.ent = s.ent /\ r # s => r.to <= s.from \/ s.to <= r.from

PartsInv == parts \subseteq PartRows

RowsInv == EntitiesInv /\ AliasesInv /\ EdgesInv /\ StatesInv /\ PartsInv

\* Chapters are completed in order; a correction is of a completed one; what is
\* under way names people of the book and identities there are.
BookInv ==
  /\ told \in Seq(SUBSET People) /\ Done <= Chapters
  /\ corrections \in Seq([kind : {"replace", "split", "merge"}, at : Told,
                          sources : SUBSET Ids, targets : SUBSET Ids])
  /\ prepared.names \subseteq People
  /\ prepared # NoDraft => Done < Chapters
  /\ asked = NoAsk \/ asked \in [ent : Ids, at : Told, name : Renames]
  /\ bookmark \in Bookmarks /\ passes \in 0..MaxPasses

IInv == RowsInv /\ BookInv
-----------------------------------------------------------------------------
(* Identities                                                               *)

\* The chapters and the identities there are, as numbers.
LEMMA Basics ==
    ASSUME EntitiesInv, BookInv
    PROVE  /\ Done \in Nat /\ Done <= Chapters /\ Len(entity) \in Nat /\ DOMAIN entity = Ids
           /\ Chapters \in Nat \ {0} /\ Never = Chapters + 1 /\ MaxPasses \in Nat
           /\ \A e \in Ids : entity[e] \in EntityRows
BY ChaptersAssumption DEF EntitiesInv, BookInv, Done, Never, Ids

\* The row of an identity after a correction of `ids` at the frontier.
Closed(ids, at, e) == IF e \in ids THEN [entity[e] EXCEPT !.to = at] ELSE entity[e]

\* What a correction leaves of a row, and what not.
LEMMA ClosedRow ==
    ASSUME EntitiesInv, BookInv, NEW ids, NEW at, NEW e \in Ids
    PROVE  /\ Closed(ids, at, e).name = entity[e].name /\ Closed(ids, at, e).from = entity[e].from
           /\ Closed(ids, at, e).ch = entity[e].ch
           /\ e \in ids => Closed(ids, at, e).to = at
           /\ e \notin ids => Closed(ids, at, e).to = entity[e].to
BY Basics DEF Closed, EntityRows

\* A correction ends its sources at the frontier, and leaves everybody else.
LEMMA SourcesEnd ==
    ASSUME EntitiesInv, BookInv, NEW ids \in SUBSET Ids, NEW at \in Told
    PROVE  /\ Invalidated(ids, at) \in Seq(EntityRows)
           /\ Len(Invalidated(ids, at)) = Len(entity)
           /\ \A e \in Ids : Invalidated(ids, at)[e] = Closed(ids, at, e)
<1> DEFINE row(e) == IF e \in ids THEN [entity[e] EXCEPT !.to = at] ELSE entity[e]
<1>1. Len(entity) \in Nat /\ DOMAIN entity = 1..Len(entity) /\ at \in Moments
  BY Basics DEF Ids, Told, Moments
<1>2. \A e \in 1..Len(entity) : row(e) \in EntityRows
  BY <1>1, Basics DEF EntityRows, Ids
<1>3. Invalidated(ids, at) = [e \in 1..Len(entity) |-> row(e)]
  BY <1>1 DEF Invalidated
<1> HIDE DEF row
<1>4. Invalidated(ids, at) \in Seq(EntityRows)
  BY <1>1, <1>2, <1>3, IsASeq
<1>5. Len(Invalidated(ids, at)) = Len(entity)
  BY <1>1, <1>3, <1>4, LenProperties
<1>6. \A e \in Ids : Invalidated(ids, at)[e] = row(e)
  BY <1>3 DEF Ids
<1> QED
  BY <1>4, <1>5, <1>6 DEF row, Closed

\* The identities after a correction: the sources ended, the targets begun.
LEMMA EntitiesCorrected ==
    ASSUME EntitiesInv, BookInv, NEW ids \in SUBSET Ids, NEW at \in Told, Correctable(ids, at),
           NEW fresh \in Seq(EntityRows),
           \A i \in 1..Len(fresh) : fresh[i].from = at /\ fresh[i].to = Never /\ fresh[i].ch = at,
           entity' = Invalidated(ids, at) \o fresh, told' = told
    PROVE  /\ EntitiesInv' /\ Len(entity') = Len(entity) + Len(fresh) /\ Len(fresh) \in Nat
           /\ Ids \subseteq Ids' /\ Told' = Told
           /\ \A e \in Ids : entity'[e] = Closed(ids, at, e)
           /\ \A i \in 1..Len(fresh) : Len(entity) + i \in Ids' /\ entity'[Len(entity) + i] = fresh[i]
           /\ \A e \in Ids' \ Ids : \E i \in 1..Len(fresh) : e = Len(entity) + i
<1>1. PICK closed \in Seq(EntityRows) :
        /\ closed = Invalidated(ids, at) /\ Len(closed) = Len(entity)
        /\ \A e \in Ids : closed[e] = Closed(ids, at, e)
  BY SourcesEnd
<1>2. PICK n \in Nat, m \in Nat : n = Len(entity) /\ m = Len(fresh) /\ Ids = 1..n
  BY Basics, LenProperties DEF Ids
<1>0. /\ at \in Nat /\ at <= Done /\ Done \in Nat /\ Chapters \in Nat
      /\ Never = Chapters + 1 /\ Done <= Chapters
  BY Basics DEF Told
<1>3. /\ entity' \in Seq(EntityRows) /\ Len(entity') = n + m /\ Ids' = 1..(n + m)
      /\ \A i \in 1..(n + m) : entity'[i] = IF i <= n THEN closed[i] ELSE fresh[i - n]
  <2>1. entity' = closed \o fresh
    BY <1>1
  <2>2. /\ closed \o fresh \in Seq(EntityRows) /\ Len(closed \o fresh) = n + m
        /\ \A i \in 1..(n + m) : (closed \o fresh)[i] = IF i <= n THEN closed[i] ELSE fresh[i - n]
    <3>1. /\ closed \o fresh \in Seq(EntityRows) /\ Len(closed \o fresh) = Len(closed) + Len(fresh)
          /\ \A i \in 1..(Len(closed) + Len(fresh)) :
               (closed \o fresh)[i] = IF i <= Len(closed) THEN closed[i] ELSE fresh[i - Len(closed)]
      BY ConcatProperties
    <3> QED
      BY <1>1, <1>2, <3>1
  <2> QED
    BY <2>1, <2>2 DEF Ids
<1>4. Done' = Done /\ Told' = Told
  BY DEF Done, Told
<1>5. ASSUME NEW e \in Ids PROVE entity'[e] = Closed(ids, at, e)
  BY <1>1, <1>2, <1>3
<1>6. ASSUME NEW i \in 1..m PROVE n + i \in Ids' /\ entity'[n + i] = fresh[i]
  <2>1. n + i \in 1..(n + m) /\ ~(n + i <= n) /\ (n + i) - n = i
    BY <1>2
  <2> QED
    BY <1>3, <2>1
<1>7. ASSUME NEW e \in Ids' \ Ids PROVE \E i \in 1..m : e = n + i
  <2>1. e - n \in 1..m /\ e = n + (e - n)
    BY <1>2, <1>3
  <2> QED
    BY <2>1
<1>8. ASSUME NEW e \in Ids'
      PROVE  /\ entity'[e].from <= Done /\ entity'[e].from < entity'[e].to
             /\ entity'[e].to <= Done \/ entity'[e].to = Never
             /\ entity'[e].ch <= entity'[e].from
  <2>1. CASE e \in Ids
    <3>1. CASE e \in ids
      <4>2. /\ entity'[e].to = at /\ entity'[e].from = entity[e].from /\ entity'[e].ch = entity[e].ch
        <5>1. entity'[e] = Closed(ids, at, e)
          BY <1>5, <2>1
        <5>2. /\ Closed(ids, at, e).to = at /\ Closed(ids, at, e).from = entity[e].from
              /\ Closed(ids, at, e).ch = entity[e].ch
          BY <2>1, <3>1, ClosedRow
        <5> QED
          BY <5>1, <5>2
      <4>3. entity[e].from < at
        BY <3>1 DEF Correctable
      <4> QED
        BY <1>0, <2>1, <4>2, <4>3 DEF EntitiesInv
    <3>2. CASE e \notin ids
      BY <1>5, <2>1, <3>2 DEF EntitiesInv, Closed
    <3> QED
      BY <3>1, <3>2
  <2>2. CASE e \notin Ids
    <3>1. PICK i \in 1..m : e = n + i
      BY <1>7, <2>2
    <3>2. entity'[e].from = at /\ entity'[e].to = Never /\ entity'[e].ch = at
      BY <1>2, <1>6, <3>1
    <3> QED
      BY <1>0, <3>2
  <2> QED
    BY <2>1, <2>2
<1>9. EntitiesInv'
  BY <1>3, <1>4, <1>8 DEF EntitiesInv
<1>10. Ids \subseteq Ids'
  BY <1>2, <1>3
<1> QED
  BY <1>2, <1>3, <1>4, <1>5, <1>6, <1>7, <1>9, <1>10

-----------------------------------------------------------------------------
(* Copies: what a correction gives its targets is rows, known by then       *)

\* The chapter a form was said in first is one it was said in.
LEMMA FirstIsSaid ==
    ASSUME NEW said, NEW S, said \subseteq S \X Nat, NEW x \in said
    PROVE  \E y \in said : y[1] = x[1] /\ FirstSaid(said, x[1]) = y[2]
<1> DEFINE T == {y[2] : y \in {z \in said : z[1] = x[1]}}
<1>1. T \subseteq Nat /\ T # {}
  OBVIOUS
<1>2. PICK k \in T : \A j \in T : k <= j
  BY <1>1, LeastNat
<1>3. \A y \in said : y[1] = x[1] => k <= y[2]
  BY <1>2
<1>4. FirstSaid(said, x[1]) \in T
  BY <1>3 DEF FirstSaid
<1> QED
  BY <1>4

\* What is known of the sources at the frontier was said by then.
LEMMA SayingsAreOld ==
    ASSUME EntitiesInv, AliasesInv, BookInv, NEW ids \in SUBSET Ids, NEW at \in Told, Correctable(ids, at)
    PROVE  Sayings(ids, at) \subseteq Spoken \X (1..at)
<1>1. at \in Nat /\ Done \in Nat
  BY Basics DEF Told
<1>2. ASSUME NEW r \in OldAliases(ids, at) PROVE r.form \in Spoken /\ r.ch \in 1..at
  <2>1. r \in AliasRows /\ r.from <= at /\ r.ch <= r.from
    BY <1>2 DEF OldAliases, AliasesInv
  <2>2. r.form \in Spoken /\ r.from \in Nat /\ r.ch \in Nat /\ r.ch >= 1
    BY <1>1, <2>1 DEF AliasRows, Told
  <2> QED
    BY <1>1, <2>1, <2>2
<1>3. ASSUME NEW e \in ids PROVE entity[e].name \in Spoken /\ entity[e].ch \in 1..at
  <2>1. entity[e] \in EntityRows /\ entity[e].from < at /\ entity[e].ch <= entity[e].from
    BY <1>3, Basics DEF EntitiesInv, Correctable
  <2>2. entity[e].name \in Given /\ entity[e].from \in Nat /\ entity[e].ch \in Nat /\ entity[e].ch >= 1
    BY <2>1, Basics DEF EntityRows
  <2> QED
    BY <1>1, <2>1, <2>2 DEF Spoken
<1> QED
  BY <1>2, <1>3 DEF Sayings

\* The target's forms begin at the frontier, each said by then.
LEMMA FormsCopied ==
    ASSUME EntitiesInv, AliasesInv, BookInv, NEW ids \in SUBSET Ids, NEW at \in Told, Correctable(ids, at),
           NEW t, NEW name, NEW r \in CopiedForms(ids, t, at, name)
    PROVE  r \in [ent : {t}, form : Spoken, from : {at}, ch : 1..at]
<1> DEFINE said == Sayings(ids, at)
<1>1. said \subseteq Spoken \X (1..at)
  BY SayingsAreOld
<1>2. said \subseteq Spoken \X Nat
  BY <1>1
<1> HIDE DEF said
<1>3. PICK x \in said : r = [ent |-> t, form |-> x[1], from |-> at, ch |-> FirstSaid(said, x[1])]
  BY DEF CopiedForms, said
<1>4. PICK y \in said : FirstSaid(said, x[1]) = y[2]
  BY <1>2, FirstIsSaid
<1> QED
  BY <1>1, <1>3, <1>4

\* Rows of a smaller book are rows of a larger one.
LEMMA Wider ==
    ASSUME Ids \subseteq Ids', Told \subseteq Told'
    PROVE  /\ AliasRows \subseteq AliasRows' /\ EdgeRows \subseteq EdgeRows'
           /\ StateRows \subseteq StateRows' /\ PartRows \subseteq PartRows'
<1>1. ASSUME NEW r \in AliasRows PROVE r \in AliasRows'
  BY <1>1 DEF AliasRows
<1>2. ASSUME NEW r \in EdgeRows PROVE r \in EdgeRows'
  BY <1>2 DEF EdgeRows
<1>3. ASSUME NEW r \in StateRows PROVE r \in StateRows'
  BY <1>3 DEF StateRows
<1>4. ASSUME NEW r \in PartRows PROVE r \in PartRows'
  BY <1>4 DEF PartRows
<1> QED
  BY <1>1, <1>2, <1>3, <1>4

\* Where an end of a tie is after a correction that gives it to `t`.
MovedEnd(x, ids, t) == IF x \in ids THEN t ELSE x

\* A tie with its ends moved to the target is as it was otherwise.
LEMMA OntoRow ==
    ASSUME NEW r \in EdgeRows, NEW ids, NEW t
    PROVE  Onto(r, ids, t) = [src |-> MovedEnd(r.src, ids, t), dst |-> MovedEnd(r.dst, ids, t),
                              from |-> r.from, to |-> r.to, ch |-> r.ch]
<1>1. r = [src |-> r.src, dst |-> r.dst, from |-> r.from, to |-> r.to, ch |-> r.ch]
  BY DEF EdgeRows
<1>2. PICK a, b, f, u, k : r = [src |-> a, dst |-> b, from |-> f, to |-> u, ch |-> k]
  BY <1>1
<1>3. r.src = a /\ r.dst = b /\ r.from = f /\ r.to = u /\ r.ch = k
  BY <1>2
<1>4. PICK x, y : x = MovedEnd(r.src, ids, t) /\ y = MovedEnd(r.dst, ids, t)
  OBVIOUS
<1>5. PICK o : o = [r EXCEPT !.src = x, !.dst = y]
  OBVIOUS
<1>6. /\ o.src = x /\ o.dst = y /\ o.from = f /\ o.to = u /\ o.ch = k
      /\ DOMAIN o = {"src", "dst", "from", "to", "ch"} /\ o = [i \in DOMAIN o |-> o[i]]
  BY <1>2, <1>5
<1>7. o = [src |-> x, dst |-> y, from |-> f, to |-> u, ch |-> k]
  BY <1>6
<1>8. o = Onto(r, ids, t)
  BY <1>4, <1>5 DEF Onto, MovedEnd
<1> QED
  BY <1>3, <1>4, <1>7, <1>8

\* A tie given to `t` from the frontier on begins there.
LEMMA OntoRowFrom ==
    ASSUME NEW r \in EdgeRows, NEW ids, NEW t, NEW from
    PROVE  [Onto(r, ids, t) EXCEPT !.from = from] =
             [src |-> MovedEnd(r.src, ids, t), dst |-> MovedEnd(r.dst, ids, t),
              from |-> from, to |-> r.to, ch |-> r.ch]
<1>1. PICK x, y : x = MovedEnd(r.src, ids, t) /\ y = MovedEnd(r.dst, ids, t)
  OBVIOUS
<1>2. Onto(r, ids, t) = [src |-> x, dst |-> y, from |-> r.from, to |-> r.to, ch |-> r.ch]
  BY <1>1, OntoRow
<1> QED
  BY <1>1, <1>2

\* Aliases that only grow, by rows of forms said before they begin.
LEMMA AliasesGrow ==
    ASSUME AliasesInv, Ids \subseteq Ids', Told \subseteq Told', NEW A, aliases' = aliases \union A,
           \A r \in A : r \in AliasRows' /\ r.ch <= r.from
    PROVE  AliasesInv'
BY Wider DEF AliasesInv

\* Ties that only grow, by rows that begin no earlier than their ends.
LEMMA EdgesGrow ==
    ASSUME EdgesInv, Ids \subseteq Ids', Told \subseteq Told', \A e \in Ids : entity'[e].from = entity[e].from,
           NEW E, edges' = edges \union E,
           \A r \in E : /\ r \in EdgeRows' /\ r.from < r.to /\ r.ch <= r.from
                        /\ entity'[r.src].from <= r.from /\ entity'[r.dst].from <= r.from
    PROVE  EdgesInv'
<1>1. \A r \in edges : r.src \in Ids /\ r.dst \in Ids
  BY DEF EdgesInv, EdgeRows
<1> QED
  BY <1>1, Wider DEF EdgesInv

\* An alias given to the target, from its own chapter or from the frontier on.
LEMMA AliasRow ==
    ASSUME NEW r \in AliasRows, NEW t
    PROVE  [r EXCEPT !.ent = t] = [ent |-> t, form |-> r.form, from |-> r.from, ch |-> r.ch]
<1>1. r = [ent |-> r.ent, form |-> r.form, from |-> r.from, ch |-> r.ch]
  BY DEF AliasRows
<1> QED
  BY <1>1

\* One that is copied begins at the frontier.
LEMMA AliasRowFrom ==
    ASSUME NEW r \in AliasRows, NEW t, NEW at
    PROVE  [r EXCEPT !.ent = t, !.from = at] = [ent |-> t, form |-> r.form, from |-> at, ch |-> r.ch]
<1>1. r = [ent |-> r.ent, form |-> r.form, from |-> r.from, ch |-> r.ch]
  BY DEF AliasRows
<1>2. PICK o : o = [r EXCEPT !.ent = t, !.from = at]
  OBVIOUS
<1>3. o.ent = t /\ o.form = r.form /\ o.from = at /\ o.ch = r.ch
      /\ DOMAIN o = {"ent", "form", "from", "ch"} /\ o = [i \in DOMAIN o |-> o[i]]
  BY <1>1, <1>2
<1>4. o = [ent |-> t, form |-> r.form, from |-> at, ch |-> r.ch]
  BY <1>3
<1> QED
  BY <1>2, <1>4

\* A state given to the target likewise.
LEMMA StateRow ==
    ASSUME NEW r \in StateRows, NEW t, NEW at
    PROVE  /\ [r EXCEPT !.ent = t] = [ent |-> t, from |-> r.from, to |-> r.to, ch |-> r.ch]
           /\ [r EXCEPT !.ent = t, !.from = at] = [ent |-> t, from |-> at, to |-> r.to, ch |-> r.ch]
           /\ [r EXCEPT !.to = at] = [ent |-> r.ent, from |-> r.from, to |-> at, ch |-> r.ch]
<1>1. r = [ent |-> r.ent, from |-> r.from, to |-> r.to, ch |-> r.ch]
  BY DEF StateRows
<1>2. PICK o : o = [r EXCEPT !.ent = t, !.from = at]
  OBVIOUS
<1>3. o.ent = t /\ o.from = at /\ o.to = r.to /\ o.ch = r.ch
      /\ DOMAIN o = {"ent", "from", "to", "ch"} /\ o = [i \in DOMAIN o |-> o[i]]
  BY <1>1, <1>2
<1>4. o = [ent |-> t, from |-> at, to |-> r.to, ch |-> r.ch]
  BY <1>3
<1>5. [r EXCEPT !.ent = t] = [ent |-> t, from |-> r.from, to |-> r.to, ch |-> r.ch]
  BY <1>1
<1>6. [r EXCEPT !.to = at] = [ent |-> r.ent, from |-> r.from, to |-> at, ch |-> r.ch]
  BY <1>1
<1> QED
  BY <1>2, <1>4, <1>5, <1>6

\* A scene given to the target likewise.
LEMMA PartRow ==
    ASSUME NEW p \in PartRows, NEW t, NEW at
    PROVE  /\ [p EXCEPT !.ent = t] = [event |-> p.event, ent |-> t, from |-> p.from]
           /\ [p EXCEPT !.ent = t, !.from = at] = [event |-> p.event, ent |-> t, from |-> at]
           /\ [p EXCEPT !.ent = t, !.from = IF @ > at THEN @ ELSE at] =
                [event |-> p.event, ent |-> t, from |-> IF p.from > at THEN p.from ELSE at]
<1>1. p = [event |-> p.event, ent |-> p.ent, from |-> p.from]
  BY DEF PartRows
<1>2. ASSUME NEW f PROVE [p EXCEPT !.ent = t, !.from = f] = [event |-> p.event, ent |-> t, from |-> f]
  <2>1. PICK o : o = [p EXCEPT !.ent = t, !.from = f]
    OBVIOUS
  <2>2. o.ent = t /\ o.from = f /\ o.event = p.event
        /\ DOMAIN o = {"event", "ent", "from"} /\ o = [i \in DOMAIN o |-> o[i]]
    BY <1>1, <2>1
  <2>3. o = [event |-> p.event, ent |-> t, from |-> f]
    BY <2>2
  <2> QED
    BY <2>1, <2>3
<1>3. PICK f : f = IF p.from > at THEN p.from ELSE at
  OBVIOUS
<1>4. [p EXCEPT !.ent = t, !.from = IF @ > at THEN @ ELSE at] = [p EXCEPT !.ent = t, !.from = f]
  BY <1>3
<1> QED
  BY <1>1, <1>2, <1>3, <1>4

-----------------------------------------------------------------------------
(* A correction of one identity                                             *)

Target == Len(entity) + 1

\* Ids has one more, the target.
LEMMA OneMore ==
    ASSUME EntitiesInv, BookInv, Len(entity') = Len(entity) + 1
    PROVE  Ids' = Ids \union {Target} /\ Target \notin Ids /\ Ids \subseteq Ids'
<1>1. PICK n \in Nat : n = Len(entity)
  BY Basics
<1>2. 1..(n + 1) = 1..n \union {n + 1}
  BY <1>1
<1> QED
  BY <1>1, <1>2 DEF Ids, Target

\* The identities after it.
LEMMA ReplacedEntities ==
    ASSUME EntitiesInv, BookInv, NEW ids \in SUBSET Ids, NEW at \in Told, NEW name \in Given,
           Correctable(ids, at), entity' = Append(Invalidated(ids, at), Fresh(name, at)), told' = told
    PROVE  /\ EntitiesInv' /\ Ids' = Ids \union {Target} /\ Target \notin Ids /\ Told' = Told
           /\ \A x \in Ids : entity'[x] = Closed(ids, at, x)
           /\ entity'[Target] = Fresh(name, at)
           /\ \A x \in Ids : entity'[x].from = entity[x].from
<1>1. PICK row : row = Fresh(name, at)
  OBVIOUS
<1>2. row \in EntityRows /\ row.from = at /\ row.to = Never /\ row.ch = at
  BY <1>1, Basics DEF Fresh, EntityRows, Moments, Told
<1>3. PICK fresh \in Seq(EntityRows) : fresh = <<row>> /\ Len(fresh) = 1 /\ fresh[1] = row
  <2>1. <<row>> \in Seq(EntityRows) /\ Len(<<row>>) = 1 /\ <<row>>[1] = row
    BY <1>2
  <2> QED
    BY <2>1
<1>4. Invalidated(ids, at) \in Seq(EntityRows)
  BY SourcesEnd
<1>5. entity' = Invalidated(ids, at) \o fresh
  BY <1>1, <1>2, <1>3, <1>4
<1>6. \A i \in 1..Len(fresh) : fresh[i].from = at /\ fresh[i].to = Never /\ fresh[i].ch = at
  BY <1>2, <1>3
<1>7. /\ EntitiesInv' /\ Len(entity') = Len(entity) + Len(fresh) /\ Len(fresh) \in Nat
      /\ Ids \subseteq Ids' /\ Told' = Told
      /\ \A x \in Ids : entity'[x] = Closed(ids, at, x)
      /\ \A i \in 1..Len(fresh) : Len(entity) + i \in Ids' /\ entity'[Len(entity) + i] = fresh[i]
      /\ \A x \in Ids' \ Ids : \E i \in 1..Len(fresh) : x = Len(entity) + i
  BY <1>5, <1>6, EntitiesCorrected
<1>8. Ids' = Ids \union {Target} /\ Target \notin Ids
  BY <1>3, <1>7, OneMore
<1>9. entity'[Target] = row
  BY <1>3, <1>7 DEF Target
<1>10. ASSUME NEW x \in Ids PROVE entity'[x].from = entity[x].from
  <2>1. entity'[x] = Closed(ids, at, x)
    BY <1>7
  <2>2. Closed(ids, at, x).from = entity[x].from
    BY ClosedRow
  <2> QED
    BY <2>1, <2>2
<1> QED
  BY <1>1, <1>7, <1>8, <1>9, <1>10

\* The aliases after a one-for-one correction.
LEMMA ReplacedAliases ==
    ASSUME EntitiesInv, AliasesInv, BookInv, NEW e \in Ids, NEW at \in Told, NEW name, Correctable({e}, at),
           Ids' = Ids \union {Target}, Told' = Told,
           aliases' = aliases \union CopiedForms({e}, Target, at, name) \union CarriedForms(e, Target, at)
    PROVE  AliasesInv'
<1>0. at \in Nat /\ Done \in Nat /\ at <= Done
  BY Basics DEF Told
<1>1. ASSUME NEW r \in CopiedForms({e}, Target, at, name) PROVE r \in AliasRows' /\ r.ch <= r.from
  <2>1. r \in [ent : {Target}, form : Spoken, from : {at}, ch : 1..at]
    BY <1>1, FormsCopied
  <2>2. r \in AliasRows'
    <3>1. r.ch \in Told /\ r.form \in Spoken
      BY <1>0, <2>1 DEF Told
    <3> QED
      BY <2>1, <3>1 DEF AliasRows
  <2> QED
    BY <1>0, <2>1, <2>2
<1>2. ASSUME NEW r \in CarriedForms(e, Target, at) PROVE r \in AliasRows' /\ r.ch <= r.from
  <2>1. PICK a \in aliases : r = [a EXCEPT !.ent = Target]
    BY <1>2 DEF CarriedForms
  <2>2. a \in AliasRows /\ a.ch <= a.from
    BY DEF AliasesInv
  <2>3. r = [ent |-> Target, form |-> a.form, from |-> a.from, ch |-> a.ch]
    BY <2>1, <2>2, AliasRow
  <2> QED
    BY <2>2, <2>3 DEF AliasRows
<1>3. aliases' = aliases \union (CopiedForms({e}, Target, at, name) \union CarriedForms(e, Target, at))
  OBVIOUS
<1> QED
  BY <1>1, <1>2, <1>3, AliasesGrow

\* A tie copied at the frontier begins where the target does; one carried begins
\* where it did, later than the target.
LEMMA TieCopied ==
    ASSUME RowsInv, BookInv, NEW ids \in SUBSET Ids, NEW at \in Told, NEW t \in Ids', Ids \subseteq Ids',
           Told' = Told, entity'[t].from = at, \A x \in Ids : entity'[x].from = entity[x].from,
           NEW r \in OldTies(ids, at), NEW o, o = [Onto(r, ids, t) EXCEPT !.from = at]
    PROVE  /\ o \in EdgeRows' /\ o.from < o.to /\ o.ch <= o.from
           /\ entity'[o.src].from <= o.from /\ entity'[o.dst].from <= o.from
<1>0. at \in Nat /\ Done \in Nat /\ at <= Done
  BY Basics DEF Told, RowsInv
<1>1. /\ r \in EdgeRows /\ r.from <= at /\ at < r.to /\ r.ch <= r.from
      /\ r.src \in Ids /\ r.dst \in Ids /\ entity[r.src].from <= at /\ entity[r.dst].from <= at
  BY Basics DEF OldTies, Ties, Live, Visible, RowsInv, EdgesInv
<1>2. PICK src, dst : src = MovedEnd(r.src, ids, t) /\ dst = MovedEnd(r.dst, ids, t)
  OBVIOUS
<1>3. o = [src |-> src, dst |-> dst, from |-> at, to |-> r.to, ch |-> r.ch]
  BY <1>1, <1>2, OntoRowFrom
<1>4. src \in Ids' /\ dst \in Ids' /\ entity'[src].from <= at /\ entity'[dst].from <= at
  BY <1>0, <1>1, <1>2 DEF MovedEnd
<1>5. r.to \in Moments /\ r.ch \in Told /\ r.from \in Told
  BY <1>1 DEF EdgeRows
<1>6. o \in EdgeRows'
  <2>1. at \in Told' /\ r.ch \in Told' /\ r.to \in Moments'
    BY <1>5 DEF Moments, Never
  <2> QED
    <3>1. [src |-> src, dst |-> dst, from |-> at, to |-> r.to, ch |-> r.ch] \in EdgeRows'
      BY <1>4, <2>1 DEF EdgeRows
    <3> QED
      BY <1>3, <3>1
<1> QED
  BY <1>0, <1>1, <1>3, <1>4, <1>5, <1>6 DEF Told

\* The ties after a one-for-one correction.
LEMMA ReplacedEdges ==
    ASSUME RowsInv, BookInv, NEW e \in Ids, NEW at \in Told, Ids' = Ids \union {Target}, Told' = Told,
           entity'[Target].from = at, \A x \in Ids : entity'[x].from = entity[x].from,
           edges' = edges \union CopiedTies(OldTies({e}, at), {e}, Target, at) \union CarriedTies(e, Target, at)
    PROVE  EdgesInv'
<1>0. at \in Nat /\ Done \in Nat /\ at <= Done
  BY Basics DEF Told, RowsInv
<1>1. ASSUME NEW o \in CopiedTies(OldTies({e}, at), {e}, Target, at)
      PROVE  /\ o \in EdgeRows' /\ o.from < o.to /\ o.ch <= o.from
             /\ entity'[o.src].from <= o.from /\ entity'[o.dst].from <= o.from
  <2>1. PICK r \in OldTies({e}, at) : o = [Onto(r, {e}, Target) EXCEPT !.from = at]
    BY <1>1 DEF CopiedTies
  <2>2. {e} \in SUBSET Ids /\ Target \in Ids' /\ Ids \subseteq Ids'
    OBVIOUS
  <2> QED
    BY <2>1, <2>2, TieCopied
<1>2. ASSUME NEW o \in CarriedTies(e, Target, at)
      PROVE  /\ o \in EdgeRows' /\ o.from < o.to /\ o.ch <= o.from
             /\ entity'[o.src].from <= o.from /\ entity'[o.dst].from <= o.from
  <2>1. PICK r \in edges : r.from > at /\ o = Onto(r, {e}, Target)
    BY <1>2 DEF CarriedTies
  <2>2. r \in EdgeRows /\ r.from < r.to /\ r.ch <= r.from
        /\ entity[r.src].from <= r.from /\ entity[r.dst].from <= r.from /\ r.src \in Ids /\ r.dst \in Ids
    BY DEF RowsInv, EdgesInv, EdgeRows
  <2>3. PICK src, dst : src = MovedEnd(r.src, {e}, Target) /\ dst = MovedEnd(r.dst, {e}, Target)
    OBVIOUS
  <2>4. o = [src |-> src, dst |-> dst, from |-> r.from, to |-> r.to, ch |-> r.ch]
    <3>1. Onto(r, {e}, Target) = [src |-> MovedEnd(r.src, {e}, Target), dst |-> MovedEnd(r.dst, {e}, Target),
                                  from |-> r.from, to |-> r.to, ch |-> r.ch]
      BY <2>2, OntoRow
    <3> QED
      BY <2>1, <2>3, <3>1
  <2>5. r.to \in Moments /\ r.ch \in Told' /\ r.from \in Told' /\ r.from \in Nat
    <3>1. r.to \in Moments /\ r.ch \in Told /\ r.from \in Told
      BY <2>2 DEF EdgeRows
    <3>2. r.from \in Nat
      BY <1>0, <3>1 DEF Told
    <3> QED
      BY <3>1, <3>2
  <2>6. src \in Ids' /\ dst \in Ids' /\ entity'[src].from <= r.from /\ entity'[dst].from <= r.from
    BY <1>0, <2>1, <2>2, <2>3, <2>5 DEF MovedEnd
  <2>7. [src |-> src, dst |-> dst, from |-> r.from, to |-> r.to, ch |-> r.ch] \in EdgeRows'
    BY <2>5, <2>6 DEF EdgeRows
  <2> QED
    BY <2>2, <2>4, <2>6, <2>7
<1>3. PICK E : E = CopiedTies(OldTies({e}, at), {e}, Target, at) \union CarriedTies(e, Target, at)
  OBVIOUS
<1>4. \A o \in E : /\ o \in EdgeRows' /\ o.from < o.to /\ o.ch <= o.from
                   /\ entity'[o.src].from <= o.from /\ entity'[o.dst].from <= o.from
  BY <1>1, <1>2, <1>3
<1>5. EdgesInv /\ Ids \subseteq Ids' /\ Told \subseteq Told' /\ edges' = edges \union E
  BY <1>3 DEF RowsInv
<1> QED
  BY <1>3, <1>4, <1>5, EdgesGrow

\* Which of an identity's states holds at a bookmark: there is one at most.
LEMMA StateIsOne ==
    ASSUME StatesInv, EntitiesInv, BookInv, NEW b \in Nat, NEW r \in states, Live(r, b)
    PROVE  /\ r \in State(r.ent, b)
           /\ \A s \in states : s.ent = r.ent /\ Live(s, b) => s = r
<1>1. ASSUME NEW s \in states, s.ent = r.ent, Live(s, b) PROVE s = r
  <2>1. s.from \in Nat /\ s.to \in Nat /\ r.from \in Nat /\ r.to \in Nat
    BY Basics DEF StatesInv, StateRows, Told, Moments
  <2> QED
    BY <1>1, <2>1 DEF StatesInv, Live
<1>2. r.from \in Nat
  BY Basics DEF StatesInv, StateRows, Told
<1> QED
  BY <1>1, <1>2 DEF State

\* The states after a one-for-one correction: those the source had at the
\* frontier and later, one after the other.
LEMMA ReplacedStates ==
    ASSUME RowsInv, BookInv, NEW e \in Ids, NEW at \in Told, Ids' = Ids \union {Target}, Target \notin Ids,
           Told' = Told,
           states' = states \union CopiedStates(e, Target, at) \union CarriedStates(e, Target, at)
    PROVE  StatesInv'
<1>0. at \in Nat /\ Done \in Nat /\ at <= Done
  BY Basics DEF Told, RowsInv
<1>1. \A r \in states : /\ r \in StateRows /\ r.ent \in Ids /\ r.from \in Nat /\ r.to \in Nat /\ r.ch \in Nat
                        /\ r.from < r.to /\ r.ch <= r.from /\ r.to \in Moments /\ r.ch \in Told /\ r.from \in Told
  BY Basics DEF RowsInv, StatesInv, StateRows, Told, Moments
<1>2. ASSUME NEW o \in CopiedStates(e, Target, at)
      PROVE  \E r \in states : /\ r.ent = e /\ r.from <= at /\ at < r.to
                               /\ o = [ent |-> Target, from |-> at, to |-> r.to, ch |-> r.ch]
  <2>1. PICK r \in State(e, at) : o = [r EXCEPT !.ent = Target, !.from = at]
    BY <1>2 DEF CopiedStates
  <2>2. r \in states /\ r.ent = e /\ Live(r, at)
    BY DEF State
  <2>3. r \in StateRows
    BY <1>1, <2>2
  <2>4. [r EXCEPT !.ent = Target, !.from = at] = [ent |-> Target, from |-> at, to |-> r.to, ch |-> r.ch]
    BY <2>3, StateRow
  <2>5. o = [ent |-> Target, from |-> at, to |-> r.to, ch |-> r.ch]
    BY <2>1, <2>4
  <2> QED
    BY <2>2, <2>5 DEF Live
<1>3. ASSUME NEW o \in CarriedStates(e, Target, at)
      PROVE  \E r \in states : /\ r.ent = e /\ r.from > at
                               /\ o = [ent |-> Target, from |-> r.from, to |-> r.to, ch |-> r.ch]
  <2>1. PICK r \in states : r.ent = e /\ r.from > at /\ o = [r EXCEPT !.ent = Target]
    BY <1>3 DEF CarriedStates
  <2>2. r \in StateRows
    BY <1>1
  <2>3. [r EXCEPT !.ent = Target] = [ent |-> Target, from |-> r.from, to |-> r.to, ch |-> r.ch]
    BY <2>2, StateRow
  <2> QED
    BY <2>1, <2>3
<1> DEFINE Image(o, r) == /\ r \in states /\ r.ent = e /\ at < r.to
                          /\ o = [ent |-> Target, from |-> IF r.from > at THEN r.from ELSE at,
                                  to |-> r.to, ch |-> r.ch]
<1>5. ASSUME NEW o \in CopiedStates(e, Target, at) \union CarriedStates(e, Target, at) PROVE \E r : Image(o, r)
  <2>1. CASE o \in CopiedStates(e, Target, at)
    <3>1. PICK r \in states : /\ r.ent = e /\ r.from <= at /\ at < r.to
                              /\ o = [ent |-> Target, from |-> at, to |-> r.to, ch |-> r.ch]
      BY <1>2, <2>1
    <3>2. ~(r.from > at)
      BY <1>0, <1>1, <3>1
    <3> QED
      BY <3>1, <3>2
  <2>2. CASE o \in CarriedStates(e, Target, at)
    <3>1. PICK r \in states : /\ r.ent = e /\ r.from > at
                              /\ o = [ent |-> Target, from |-> r.from, to |-> r.to, ch |-> r.ch]
      BY <1>3, <2>2
    <3>2. at < r.to
      BY <1>0, <1>1, <3>1
    <3> QED
      BY <3>1, <3>2
  <2> QED
    BY <1>5, <2>1, <2>2
<1>6. ASSUME NEW o, NEW r, Image(o, r)
      PROVE  o \in StateRows' /\ o.from < o.to /\ o.ch <= o.from /\ o.ent = Target
  <2>1. PICK from : from = IF r.from > at THEN r.from ELSE at
    OBVIOUS
  <2>2. o = [ent |-> Target, from |-> from, to |-> r.to, ch |-> r.ch] /\ r \in states /\ at < r.to
    BY <1>6, <2>1
  <2>3. from \in Told' /\ r.ch \in Told' /\ r.to \in Moments /\ Target \in Ids' /\ from < r.to /\ r.ch <= from
    BY <1>0, <1>1, <2>1, <2>2
  <2>4. [ent |-> Target, from |-> from, to |-> r.to, ch |-> r.ch] \in StateRows'
    BY <2>3 DEF StateRows
  <2> QED
    BY <2>2, <2>3, <2>4
<1>7. ASSUME NEW o, NEW p, NEW r, NEW s, Image(o, r), Image(p, s), o # p
      PROVE  o.to <= p.from \/ p.to <= o.from
  <2>1. r \in states /\ s \in states /\ r.ent = s.ent /\ r # s
    BY <1>7
  <2>2. r.to <= s.from \/ s.to <= r.from
    BY <2>1 DEF RowsInv, StatesInv
  <2>3. o.to = r.to /\ p.to = s.to /\ at < r.to /\ at < s.to
        /\ (o.from = r.from \/ (o.from = at /\ r.from <= at)) /\ (p.from = s.from \/ (p.from = at /\ s.from <= at))
    BY <1>0, <1>1, <1>7, <2>1
  <2> QED
    BY <1>0, <1>1, <2>1, <2>2, <2>3
<1> HIDE DEF Image
<1>8. ASSUME NEW r \in states' PROVE r \in StateRows' /\ r.from < r.to /\ r.ch <= r.from
  BY <1>1, <1>5, <1>6, Wider
<1>9. ASSUME NEW r \in states', NEW s \in states', r.ent = s.ent, r # s PROVE r.to <= s.from \/ s.to <= r.from
  <2>1. CASE r \in states /\ s \in states
    BY <1>9, <2>1 DEF RowsInv, StatesInv
  <2>2. CASE r \notin states /\ s \notin states
    BY <1>5, <1>7, <1>9, <2>2
  <2>3. CASE r \in states /\ s \notin states
    BY <1>1, <1>5, <1>6, <1>9, <2>3
  <2>4. CASE r \notin states /\ s \in states
    BY <1>1, <1>5, <1>6, <1>9, <2>4
  <2> QED
    BY <2>1, <2>2, <2>3, <2>4
<1> QED
  BY <1>8, <1>9 DEF StatesInv

\* The scenes after a one-for-one correction.
LEMMA ReplacedParts ==
    ASSUME RowsInv, BookInv, NEW e \in Ids, NEW at \in Told, Ids' = Ids \union {Target}, Told' = Told,
           parts' = parts \union CopiedParts({e}, Target, at) \union CarriedParts(e, Target, at)
    PROVE  PartsInv'
<1>0. \A p \in parts : p \in PartRows /\ p.event \in Told' /\ p.from \in Told'
  BY DEF RowsInv, PartsInv, PartRows
<1>1. ASSUME NEW o \in parts' PROVE o \in PartRows'
  <2>1. CASE o \in parts
    BY <1>0, <2>1, Wider
  <2>2. CASE o \in CopiedParts({e}, Target, at)
    <3>1. PICK p \in parts : o = [p EXCEPT !.ent = Target, !.from = at]
      BY <2>2 DEF OldParts, CopiedParts
    <3>2. o = [event |-> p.event, ent |-> Target, from |-> at]
      BY <1>0, <3>1, PartRow
    <3> QED
      BY <1>0, <3>2 DEF PartRows
  <2>3. CASE o \in CarriedParts(e, Target, at)
    <3>1. PICK p \in parts : o = [p EXCEPT !.ent = Target, !.from = IF @ > at THEN @ ELSE at]
      BY <2>3 DEF CarriedParts
    <3>2. o = [event |-> p.event, ent |-> Target, from |-> IF p.from > at THEN p.from ELSE at]
      BY <1>0, <3>1, PartRow
    <3>3. (IF p.from > at THEN p.from ELSE at) \in Told'
      BY <1>0
    <3> QED
      BY <1>0, <3>2, <3>3 DEF PartRows
  <2> QED
    BY <1>1, <2>1, <2>2, <2>3
<1> QED
  BY <1>1 DEF PartsInv

\* What a one-for-one correction writes, by kind of row.
LEMMA ReplaceWrites ==
    ASSUME NEW e, NEW at, NEW name, Replace(e, at, name)
    PROVE  /\ Correctable({e}, at)
           /\ entity' = Append(Invalidated({e}, at), Fresh(name, at))
           /\ aliases' = aliases \union CopiedForms({e}, Target, at, name) \union CarriedForms(e, Target, at)
           /\ edges' = edges \union CopiedTies(OldTies({e}, at), {e}, Target, at) \union CarriedTies(e, Target, at)
           /\ states' = states \union CopiedStates(e, Target, at) \union CarriedStates(e, Target, at)
           /\ parts' = parts \union CopiedParts({e}, Target, at) \union CarriedParts(e, Target, at)
           /\ corrections' = Recorded("replace", at, {e}, {Target})
BY Zenon DEF Replace, Target

\* A one-for-one correction keeps the rows as they must be.
LEMMA ReplaceKeeps ==
    ASSUME RowsInv, BookInv, NEW e \in Ids, NEW at \in Told, NEW name \in Given,
           Replace(e, at, name), told' = told
    PROVE  RowsInv'
<1>0. EntitiesInv /\ AliasesInv /\ {e} \in SUBSET Ids
  BY DEF RowsInv
<1>1. /\ Correctable({e}, at)
      /\ entity' = Append(Invalidated({e}, at), Fresh(name, at))
      /\ aliases' = aliases \union CopiedForms({e}, Target, at, name) \union CarriedForms(e, Target, at)
      /\ edges' = edges \union CopiedTies(OldTies({e}, at), {e}, Target, at) \union CarriedTies(e, Target, at)
      /\ states' = states \union CopiedStates(e, Target, at) \union CarriedStates(e, Target, at)
      /\ parts' = parts \union CopiedParts({e}, Target, at) \union CarriedParts(e, Target, at)
  BY ReplaceWrites
<1>2. /\ EntitiesInv' /\ Ids' = Ids \union {Target} /\ Target \notin Ids /\ Told' = Told
      /\ entity'[Target] = Fresh(name, at)
      /\ \A x \in Ids : entity'[x].from = entity[x].from
  BY <1>0, <1>1, ReplacedEntities
<1>3. entity'[Target].from = at
  BY <1>2 DEF Fresh
<1>4. AliasesInv'
  BY <1>0, <1>1, <1>2, ReplacedAliases
<1>5. EdgesInv'
  BY <1>1, <1>2, <1>3, ReplacedEdges
<1>6. StatesInv'
  BY <1>1, <1>2, ReplacedStates
<1>7. PartsInv'
  BY <1>1, <1>2, ReplacedParts
<1> QED
  BY <1>2, <1>4, <1>5, <1>6, <1>7 DEF RowsInv

\* A correction that is recorded leaves the book's other records as they must be.
LEMMA RecordedKeeps ==
    ASSUME EntitiesInv, BookInv, Ids \subseteq Ids', NEW kind \in {"replace", "split", "merge"}, NEW at \in Told,
           NEW ids \in SUBSET Ids, NEW targets \in SUBSET Ids',
           corrections' = Recorded(kind, at, ids, targets),
           UNCHANGED <<told, bookmark, passes>>,
           prepared' = prepared \/ prepared' = NoDraft,
           asked' = NoAsk \/ asked' = asked
    PROVE  BookInv'
<1> DEFINE Rows == [kind : {"replace", "split", "merge"}, at : Told, sources : SUBSET Ids, targets : SUBSET Ids]
<1>1. Told' = Told
  BY DEF Told, Done
<1>2. corrections \in Seq(Rows')
  <2>1. \A r \in Rows : r \in Rows'
    BY <1>1
  <2>2. corrections \in Seq(Rows)
    BY DEF BookInv
  <2> HIDE DEF Rows
  <2> QED
    BY <2>1, <2>2
<1>3. [kind |-> kind, at |-> at, sources |-> ids, targets |-> targets] \in Rows'
  BY <1>1
<1>4. corrections' \in Seq(Rows')
  <2> HIDE DEF Rows
  <2> QED
    BY <1>2, <1>3 DEF Recorded
<1>5. asked' = NoAsk \/ asked' \in [ent : Ids', at : Told', name : Renames]
  BY <1>1 DEF BookInv
<1>6. NoAsk' = NoAsk /\ NoDraft' = NoDraft /\ NoDraft.names = {}
  BY DEF NoAsk, NoDraft
<1>7. prepared'.names \subseteq People /\ (prepared' # NoDraft => Done < Chapters)
  BY <1>6 DEF BookInv
<1> QED
  BY <1>1, <1>4, <1>5, <1>6, <1>7 DEF BookInv, Done, Bookmarks


-----------------------------------------------------------------------------
(* The correction on the service does the same                              *)

\* The service ends the source as the reader's machine does.
LEMMA SameEnd ==
    ASSUME EntitiesInv, BookInv, NEW e \in Ids, NEW at
    PROVE  ClosedAt(e, at) = Invalidated({e}, at)
<1>1. PICK n \in Nat : n = Len(entity) /\ DOMAIN entity = 1..n /\ Ids = 1..n
  BY Basics DEF Ids
<1>2. entity = [x \in 1..n |-> entity[x]]
  BY <1>1 DEF EntitiesInv
<1>3. PICK row : row = [entity[e] EXCEPT !.to = at]
  OBVIOUS
<1>4. ClosedAt(e, at) = [x \in 1..n |-> IF x = e THEN row ELSE entity[x]]
  <2>1. ClosedAt(e, at) = [entity EXCEPT ![e] = row]
    BY <1>3 DEF ClosedAt
  <2>2. [entity EXCEPT ![e] = row] = [x \in 1..n |-> IF x = e THEN row ELSE entity[x]]
    BY <1>1, <1>2
  <2> QED
    BY <2>1, <2>2
<1>5. Invalidated({e}, at) = [x \in 1..n |-> IF x = e THEN row ELSE entity[x]]
  <2>1. \A x \in 1..n : (IF x \in {e} THEN [entity[x] EXCEPT !.to = at] ELSE entity[x]) =
                        (IF x = e THEN row ELSE entity[x])
    BY <1>3
  <2> QED
    BY <1>1, <2>1, Zenon DEF Invalidated
<1> QED
  BY <1>4, <1>5

\* It gives the target the same forms.
LEMMA SameForms ==
    ASSUME NEW e, NEW at, NEW name, NEW t
    PROVE  {[ent |-> t, form |-> f, from |-> at, ch |-> FirstSaid(Sayings({e}, at), f)] : f \in FormsAt(e, at, name)} =
             CopiedForms({e}, t, at, name)
<1>1. FormsAt(e, at, name) = {x[1] : x \in Sayings({e}, at)} \ {name}
  <2>1. ASSUME NEW f \in FormsAt(e, at, name) PROVE f \in {x[1] : x \in Sayings({e}, at)} \ {name}
    <3>1. f # name /\ (f = entity[e].name \/ \E a \in aliases : a.ent = e /\ a.from <= at /\ f = a.form)
      BY DEF FormsAt
    <3>2. CASE f = entity[e].name
      <4>1. <<entity[e].name, entity[e].ch>> \in Sayings({e}, at)
        BY DEF Sayings
      <4> QED
        BY <3>1, <3>2, <4>1
    <3>3. CASE \E a \in aliases : a.ent = e /\ a.from <= at /\ f = a.form
      <4>1. PICK a \in aliases : a.ent = e /\ a.from <= at /\ f = a.form
        BY <3>3
      <4>2. <<a.form, a.ch>> \in Sayings({e}, at)
        BY <4>1 DEF Sayings, OldAliases
      <4> QED
        BY <3>1, <4>1, <4>2
    <3> QED
      BY <3>1, <3>2, <3>3
  <2>2. ASSUME NEW f \in {x[1] : x \in Sayings({e}, at)} \ {name} PROVE f \in FormsAt(e, at, name)
    BY <2>2 DEF FormsAt, Sayings, OldAliases
  <2> QED
    BY <2>1, <2>2
<1> QED
  BY <1>1, Zenon DEF CopiedForms

\* It gives the target the same ties.
LEMMA SameTies ==
    ASSUME EntitiesInv, EdgesInv, BookInv, NEW e, NEW at, NEW t
    PROVE  /\ {[Retied(r, e, t) EXCEPT !.from = at] : r \in TiesAt(e, at)} =
                {[Onto(r, {e}, t) EXCEPT !.from = at] : r \in OldTies({e}, at)}
           /\ LaterTies(e, t, at) = CarriedTies(e, t, at)
<1>1. ASSUME NEW r PROVE Retied(r, e, t) = Onto(r, {e}, t)
  <2>1. \A x : x \in {e} <=> x = e
    OBVIOUS
  <2> QED
    BY <2>1, Zenon DEF Retied, Onto
<1>2. TiesAt(e, at) = OldTies({e}, at)
  <2>1. \A r \in edges : r.src \in DOMAIN entity /\ r.dst \in DOMAIN entity
    BY Basics DEF EdgesInv, EdgeRows
  <2> QED
    BY <2>1 DEF TiesAt, OldTies, Ties, Visible
<1>3. {[Retied(r, e, t) EXCEPT !.from = at] : r \in TiesAt(e, at)} =
        {[Onto(r, {e}, t) EXCEPT !.from = at] : r \in OldTies({e}, at)}
  BY <1>1, <1>2, Zenon
<1>4. LaterTies(e, t, at) = CarriedTies(e, t, at)
  BY <1>1, Zenon DEF LaterTies, CarriedTies
<1> QED
  BY <1>3, <1>4

\* It gives the target the same scenes.
LEMMA SameScenes ==
    ASSUME PartsInv, BookInv, NEW e, NEW at \in Nat, NEW t
    PROVE  PartsAt(e, at) = OldParts({e}, at) /\ LaterParts(e, t, at) = CarriedParts(e, t, at)
<1>1. PartsAt(e, at) = OldParts({e}, at)
  BY DEF PartsAt, OldParts
<1>2. \A p \in parts : p.from \in Nat
  BY DEF PartsInv, PartRows, Told, BookInv, Done
<1>3. ASSUME NEW p \in parts
      PROVE  [p EXCEPT !.ent = t, !.from = IF @ < at THEN at ELSE @] =
             [p EXCEPT !.ent = t, !.from = IF @ > at THEN @ ELSE at]
  <2>1. (IF p.from < at THEN at ELSE p.from) = (IF p.from > at THEN p.from ELSE at)
    BY <1>2
  <2> QED
    BY <2>1, Zenon
<1>4. LaterParts(e, t, at) = CarriedParts(e, t, at)
  <2> DEFINE L(p) == [p EXCEPT !.ent = t, !.from = IF @ < at THEN at ELSE @]
             C(p) == [p EXCEPT !.ent = t, !.from = IF @ > at THEN @ ELSE at]
             X == {x \in parts : x.ent = e /\ (x.from > at \/ x.event > at)}
  <2>1. LaterParts(e, t, at) = {L(p) : p \in X} /\ CarriedParts(e, t, at) = {C(p) : p \in X}
    BY Zenon DEF LaterParts, CarriedParts
  <2>2. \A p \in X : L(p) = C(p)
    BY <1>3, Zenon
  <2> HIDE DEF L, C, X
  <2> QED
    BY <2>1, <2>2
<1> QED
  BY <1>1, <1>4

\* The correction on the service is the one on the reader's machine.
LEMMA HostedReplaces ==
    ASSUME RowsInv, BookInv, NEW e \in Ids, NEW at, NEW name, HostedReplace(e, at, name)
    PROVE  at \in Told /\ Replace(e, at, name)
<1>1. at \in Told /\ at \in Nat
  <2>1. at \in 1..Done /\ Done \in Nat
    BY Basics DEF HostedReplace, InScope, RowsInv
  <2> QED
    BY <2>1 DEF Told
<1>2. Correctable({e}, at) /\ name # entity[e].name
  BY DEF HostedReplace, Replaceable, Correctable
<1>3. entity' = Append(Invalidated({e}, at), Fresh(name, at))
  <2>1. ClosedAt(e, at) = Invalidated({e}, at)
    BY SameEnd DEF RowsInv
  <2> QED
    BY <2>1, Zenon DEF HostedReplace, Fresh
<1>4. aliases' = aliases \union CopiedForms({e}, Target, at, name) \union CarriedForms(e, Target, at)
  <2>1. aliases' = aliases \union LaterForms(e, Target, at) \union CopiedForms({e}, Target, at, name)
    BY SameForms, Zenon DEF HostedReplace, Target
  <2>2. LaterForms(e, Target, at) = CarriedForms(e, Target, at)
    BY DEF LaterForms, CarriedForms
  <2> QED
    BY <2>1, <2>2
<1>5. edges' = edges \union CopiedTies(OldTies({e}, at), {e}, Target, at) \union CarriedTies(e, Target, at)
  <2>1. /\ {[Retied(r, e, Target) EXCEPT !.from = at] : r \in TiesAt(e, at)} = CopiedTies(OldTies({e}, at), {e}, Target, at)
        /\ LaterTies(e, Target, at) = CarriedTies(e, Target, at)
    BY SameTies, Zenon DEF RowsInv, CopiedTies
  <2>2. edges' = edges \union {[Retied(r, e, Target) EXCEPT !.from = at] : r \in TiesAt(e, at)}
                       \union LaterTies(e, Target, at)
    BY Zenon DEF HostedReplace, Target
  <2> QED
    BY <2>1, <2>2, Zenon
<1>6. states' = states \union CopiedStates(e, Target, at) \union CarriedStates(e, Target, at)
  <2>1. StateAt(e, at) = State(e, at) /\ LaterStates(e, Target, at) = CarriedStates(e, Target, at)
    BY Zenon DEF StateAt, State, LaterStates, CarriedStates
  <2>2. states' = states \union {[r EXCEPT !.ent = Target, !.from = at] : r \in StateAt(e, at)}
                         \union LaterStates(e, Target, at)
    BY Zenon DEF HostedReplace, Target
  <2> QED
    BY <2>1, <2>2, Zenon DEF CopiedStates
<1>7. parts' = parts \union CopiedParts({e}, Target, at) \union CarriedParts(e, Target, at)
  <2>1. PartsAt(e, at) = OldParts({e}, at) /\ LaterParts(e, Target, at) = CarriedParts(e, Target, at)
    BY <1>1, SameScenes DEF RowsInv
  <2>2. parts' = parts \union {[p EXCEPT !.ent = Target, !.from = at] : p \in PartsAt(e, at)}
                       \union LaterParts(e, Target, at)
    BY Zenon DEF HostedReplace, Target
  <2> QED
    BY <2>1, <2>2, Zenon DEF CopiedParts
<1>8. corrections' = Recorded("replace", at, {e}, {Target})
  BY Zenon DEF HostedReplace, Target, Recorded
<1> QED
  <2>1. Replace(e, at, name)
    BY <1>2, <1>3, <1>4, <1>5, <1>6, <1>7, <1>8, Zenon DEF Replace, Target
  <2> QED
    BY <1>1, <2>1


-----------------------------------------------------------------------------
(* A split, and a merge                                                     *)

Half(i) == Len(entity) + i

SplitForms(e, at, all) == UNION {CopiedAliases({e}, Half(i), at) : i \in all}
SplitTies(e, at, some) == UNION {CopiedTies(OldTies({e}, at), {e}, Half(i), at) : i \in some}
SplitParts(e, at, all) == UNION {CopiedParts({e}, Half(i), at) : i \in all}

SplitInTwo(e, at, all, some) ==
  Split(e, at, <<"split", "split">>, [aliases |-> all, edges |-> some, events |-> all])

\* What a split writes, by kind of row.
LEMMA SplitWrites ==
    ASSUME NEW e, NEW at, NEW all, NEW some,
           SplitInTwo(e, at, all, some)
    PROVE  /\ Correctable({e}, at)
           /\ entity' = Invalidated({e}, at) \o <<Fresh("split", at), Fresh("split", at)>>
           /\ aliases' = aliases \union SplitForms(e, at, all)
           /\ edges' = edges \union SplitTies(e, at, some)
           /\ parts' = parts \union SplitParts(e, at, all)
           /\ corrections' = Recorded("split", at, {e}, {Half(1), Half(2)})
           /\ states' = states
<1>1. PICK names, sides : names = <<"split", "split">> /\ sides = [aliases |-> all, edges |-> some, events |-> all]
  OBVIOUS
<1>2. names[1] = "split" /\ names[2] = "split" /\ sides.aliases = all /\ sides.edges = some /\ sides.events = all
  BY <1>1
<1>3. Split(e, at, names, sides)
  BY <1>1 DEF SplitInTwo
<1>4. /\ Correctable({e}, at)
      /\ entity' = Invalidated({e}, at) \o <<Fresh(names[1], at), Fresh(names[2], at)>>
      /\ aliases' = aliases \union UNION {CopiedAliases({e}, Half(i), at) : i \in sides.aliases}
      /\ edges' = edges \union UNION {CopiedTies(OldTies({e}, at), {e}, Half(i), at) : i \in sides.edges}
      /\ parts' = parts \union UNION {CopiedParts({e}, Half(i), at) : i \in sides.events}
      /\ corrections' = Recorded("split", at, {e}, {Half(1), Half(2)})
      /\ states' = states
  BY <1>3, Zenon DEF Split, Half
<1> QED
  BY <1>2, <1>4, Zenon DEF SplitForms, SplitTies, SplitParts

\* What a merge writes.
LEMMA MergeWrites ==
    ASSUME NEW ids, NEW at, NEW name, Merge(ids, at, name)
    PROVE  /\ Correctable(ids, at)
           /\ entity' = Append(Invalidated(ids, at), Fresh(name, at))
           /\ aliases' = aliases \union CopiedForms(ids, Target, at, name)
           /\ \E ties \in SUBSET OldTies(ids, at) : edges' = edges \union CopiedTies(ties, ids, Target, at)
           /\ parts' = parts \union CopiedParts(ids, Target, at)
           /\ corrections' = Recorded("merge", at, ids, {Target})
           /\ states' = states
BY DEF Merge, Target

\* States that stay, in a book with more identities.
LEMMA StatesStay ==
    ASSUME StatesInv, Ids \subseteq Ids', Told \subseteq Told', states' = states
    PROVE  StatesInv'
BY Wider DEF StatesInv

\* A scene that is copied is one of a completed chapter still.
LEMMA PartsCopied ==
    ASSUME PartsInv, Told' = Told, NEW ids, NEW at \in Told, NEW t \in Ids'
    PROVE  CopiedParts(ids, t, at) \subseteq PartRows'
<1>1. ASSUME NEW o \in CopiedParts(ids, t, at) PROVE o \in PartRows'
  <2>1. PICK p \in parts : o = [p EXCEPT !.ent = t, !.from = at]
    BY DEF CopiedParts, OldParts
  <2>2. p \in PartRows /\ p.event \in Told' /\ at \in Told'
    BY DEF PartsInv, PartRows
  <2>3. [p EXCEPT !.ent = t, !.from = at] = [event |-> p.event, ent |-> t, from |-> at]
    BY <2>2, PartRow
  <2>4. [event |-> p.event, ent |-> t, from |-> at] \in PartRows'
    BY <2>2 DEF PartRows
  <2> QED
    BY <2>1, <2>3, <2>4
<1> QED
  BY <1>1

\* Scenes that only grow.
LEMMA PartsGrow ==
    ASSUME PartsInv, Ids \subseteq Ids', Told \subseteq Told', NEW P, parts' = parts \union P, P \subseteq PartRows'
    PROVE  PartsInv'
BY Wider DEF PartsInv

\* A split keeps the rows as they must be.
LEMMA SplitKeeps ==
    ASSUME RowsInv, BookInv, NEW e \in Ids, NEW at \in Told, NEW all \in SUBSET (1..2), NEW some \in SUBSET (1..2),
           SplitInTwo(e, at, all, some), told' = told
    PROVE  /\ RowsInv' /\ Ids \subseteq Ids' /\ {Half(1), Half(2)} \subseteq Ids'
           /\ \A x \in Ids : entity'[x] = Closed({e}, at, x)
           /\ \A x \in Ids' \ Ids : entity'[x].from = at
<1>0. EntitiesInv /\ AliasesInv /\ EdgesInv /\ StatesInv /\ PartsInv /\ {e} \in SUBSET Ids
  BY DEF RowsInv
<1>1. /\ Correctable({e}, at)
      /\ entity' = Invalidated({e}, at) \o <<Fresh("split", at), Fresh("split", at)>>
      /\ aliases' = aliases \union SplitForms(e, at, all)
      /\ edges' = edges \union SplitTies(e, at, some)
      /\ parts' = parts \union SplitParts(e, at, all)
      /\ states' = states
  BY SplitWrites
<1>2. PICK fresh \in Seq(EntityRows) :
        /\ fresh = <<Fresh("split", at), Fresh("split", at)>> /\ Len(fresh) = 2
        /\ \A i \in 1..2 : fresh[i].from = at /\ fresh[i].to = Never /\ fresh[i].ch = at
  <2>1. PICK row : row = Fresh("split", at)
    OBVIOUS
  <2>2. row \in EntityRows /\ row.from = at /\ row.to = Never /\ row.ch = at
    BY <1>0, <2>1, Basics DEF Fresh, EntityRows, Moments, Told, Given
  <2>3. <<row, row>> \in Seq(EntityRows) /\ Len(<<row, row>>) = 2 /\ \A i \in 1..2 : <<row, row>>[i] = row
    BY <2>2
  <2> QED
    BY <2>1, <2>2, <2>3
<1>3. /\ EntitiesInv' /\ Len(entity') = Len(entity) + Len(fresh) /\ Len(fresh) \in Nat
      /\ Ids \subseteq Ids' /\ Told' = Told
      /\ \A x \in Ids : entity'[x] = Closed({e}, at, x)
      /\ \A i \in 1..Len(fresh) : Len(entity) + i \in Ids' /\ entity'[Len(entity) + i] = fresh[i]
      /\ \A x \in Ids' \ Ids : \E i \in 1..Len(fresh) : x = Len(entity) + i
  <2>1. entity' = Invalidated({e}, at) \o fresh
    BY <1>1, <1>2
  <2>2. \A i \in 1..Len(fresh) : fresh[i].from = at /\ fresh[i].to = Never /\ fresh[i].ch = at
    BY <1>2
  <2> QED
    BY <1>0, <1>1, <2>1, <2>2, EntitiesCorrected
<1>4. \A i \in 1..2 : Half(i) \in Ids' /\ entity'[Half(i)].from = at
  BY <1>2, <1>3 DEF Half
<1>5. \A x \in Ids : entity'[x].from = entity[x].from
  <2>1. \A x \in Ids : Closed({e}, at, x).from = entity[x].from
    BY <1>0, ClosedRow
  <2> QED
    BY <1>3, <2>1
<1>6. AliasesInv'
  <2>1. ASSUME NEW i \in 1..2, NEW o \in CopiedAliases({e}, Half(i), at)
        PROVE  o \in AliasRows' /\ o.ch <= o.from
    <3>1. PICK r \in OldAliases({e}, at) : o = [r EXCEPT !.ent = Half(i), !.from = at]
      BY DEF CopiedAliases
    <3>2. r \in AliasRows /\ r.from <= at /\ r.ch <= r.from
      BY <1>0 DEF OldAliases, AliasesInv
    <3>3. [r EXCEPT !.ent = Half(i), !.from = at] = [ent |-> Half(i), form |-> r.form, from |-> at, ch |-> r.ch]
      <4>1. r \in AliasRows
        BY <3>2
      <4>2. PICK t : t = Half(i)
        OBVIOUS
      <4>3. [r EXCEPT !.ent = t, !.from = at] = [ent |-> t, form |-> r.form, from |-> at, ch |-> r.ch]
        BY <4>1, AliasRowFrom
      <4> QED
        BY <4>2, <4>3
    <3>4. r.form \in Spoken /\ r.ch \in Told' /\ at \in Told' /\ r.ch <= at
      <4>1. r.form \in Spoken /\ r.ch \in Told' /\ at \in Told' /\ r.from \in Told
        BY <1>3, <3>2 DEF AliasRows
      <4>2. Done \in Nat
        BY <1>0, Basics
      <4> QED
        BY <3>2, <4>1, <4>2 DEF Told
    <3>5. [ent |-> Half(i), form |-> r.form, from |-> at, ch |-> r.ch] \in AliasRows'
      BY <1>4, <3>4 DEF AliasRows
    <3> QED
      BY <3>1, <3>3, <3>4, <3>5
  <2>2. PICK A : A = SplitForms(e, at, all)
    OBVIOUS
  <2>3. aliases' = aliases \union A /\ \A o \in A : o \in AliasRows' /\ o.ch <= o.from
    BY <1>1, <2>1, <2>2 DEF SplitForms
  <2> QED
    BY <1>0, <1>3, <2>3, AliasesGrow
<1>7. EdgesInv'
  <2>1. ASSUME NEW i \in 1..2, NEW o \in CopiedTies(OldTies({e}, at), {e}, Half(i), at)
        PROVE  /\ o \in EdgeRows' /\ o.from < o.to /\ o.ch <= o.from
               /\ entity'[o.src].from <= o.from /\ entity'[o.dst].from <= o.from
    <3>1. PICK r \in OldTies({e}, at) : o = [Onto(r, {e}, Half(i)) EXCEPT !.from = at]
      BY DEF CopiedTies
    <3>2. PICK t \in Ids' : t = Half(i) /\ entity'[t].from = at
      BY <1>4
    <3>3. o = [Onto(r, {e}, t) EXCEPT !.from = at]
      BY <3>1, <3>2
    <3> QED
      BY <1>0, <1>3, <1>5, <3>2, <3>3, TieCopied
  <2>2. PICK E : E = SplitTies(e, at, some)
    OBVIOUS
  <2>3. edges' = edges \union E
    BY <1>1, <2>2
  <2>4. \A o \in E : /\ o \in EdgeRows' /\ o.from < o.to /\ o.ch <= o.from
                     /\ entity'[o.src].from <= o.from /\ entity'[o.dst].from <= o.from
    BY <2>1, <2>2 DEF SplitTies
  <2> QED
    BY <1>0, <1>3, <1>5, <2>3, <2>4, EdgesGrow
<1>8. StatesInv'
  BY <1>0, <1>1, <1>3, StatesStay
<1>9. PartsInv'
  <2>1. SplitParts(e, at, all) \subseteq PartRows'
    BY <1>0, <1>3, <1>4, PartsCopied DEF SplitParts
  <2> QED
    BY <1>0, <1>1, <1>3, <2>1, PartsGrow
<1>10. \A x \in Ids' \ Ids : entity'[x].from = at
  BY <1>2, <1>3
<1>11. RowsInv' /\ {Half(1), Half(2)} \subseteq Ids'
  BY <1>3, <1>4, <1>6, <1>7, <1>8, <1>9 DEF RowsInv
<1> QED
  BY <1>3, <1>10, <1>11

\* A merge keeps the rows as they must be.
LEMMA MergeKeeps ==
    ASSUME RowsInv, BookInv, NEW ids \in SUBSET Ids, NEW at \in Told, Merge(ids, at, "merged"), told' = told
    PROVE  /\ RowsInv' /\ Ids' = Ids \union {Target} /\ entity'[Target].from = at
<1>0. EntitiesInv /\ AliasesInv /\ EdgesInv /\ StatesInv /\ PartsInv /\ "merged" \in Given
  BY DEF RowsInv, Given
<1>1. /\ Correctable(ids, at)
      /\ entity' = Append(Invalidated(ids, at), Fresh("merged", at))
      /\ aliases' = aliases \union CopiedForms(ids, Target, at, "merged")
      /\ parts' = parts \union CopiedParts(ids, Target, at)
      /\ states' = states
  BY MergeWrites
<1>2. /\ EntitiesInv' /\ Ids' = Ids \union {Target} /\ Target \notin Ids /\ Told' = Told
      /\ entity'[Target] = Fresh("merged", at)
      /\ \A x \in Ids : entity'[x].from = entity[x].from
  BY <1>0, <1>1, ReplacedEntities
<1>3. entity'[Target].from = at
  BY <1>2 DEF Fresh
<1>4. AliasesInv'
  <2>1. ASSUME NEW r \in CopiedForms(ids, Target, at, "merged") PROVE r \in AliasRows' /\ r.ch <= r.from
    <3>1. r \in [ent : {Target}, form : Spoken, from : {at}, ch : 1..at]
      BY <1>0, <1>1, FormsCopied
    <3>2. at \in Nat /\ Done \in Nat /\ at <= Done
      BY <1>0, Basics DEF Told
    <3>3. r.ch \in Told /\ r.form \in Spoken /\ r.ch <= r.from
      BY <3>1, <3>2 DEF Told
    <3> QED
      BY <1>2, <3>1, <3>3 DEF AliasRows
  <2> QED
    BY <1>0, <1>1, <1>2, <2>1, AliasesGrow
<1>5. EdgesInv'
  <2>0. PICK ties \in SUBSET OldTies(ids, at) : edges' = edges \union CopiedTies(ties, ids, Target, at)
    BY MergeWrites
  <2>1. ASSUME NEW o \in CopiedTies(ties, ids, Target, at)
        PROVE  /\ o \in EdgeRows' /\ o.from < o.to /\ o.ch <= o.from
               /\ entity'[o.src].from <= o.from /\ entity'[o.dst].from <= o.from
    <3>1. PICK r \in OldTies(ids, at) : o = [Onto(r, ids, Target) EXCEPT !.from = at]
      BY DEF CopiedTies
    <3> QED
      BY <1>0, <1>2, <1>3, <3>1, TieCopied
  <2> QED
    BY <1>0, <1>2, <2>0, <2>1, EdgesGrow
<1>6. StatesInv'
  BY <1>0, <1>1, <1>2, StatesStay
<1>7. PartsInv'
  <2>1. CopiedParts(ids, Target, at) \subseteq PartRows'
    BY <1>0, <1>2, PartsCopied
  <2> QED
    BY <1>0, <1>1, <1>2, <2>1, PartsGrow
<1> QED
  BY <1>2, <1>3, <1>4, <1>5, <1>6, <1>7 DEF RowsInv


-----------------------------------------------------------------------------
(* A chapter is committed                                                   *)

Coming == Done + 1

\* Whom the chapter's names are linked with, and who is new.
Link == [n \in prepared.names |-> Linked(prepared.roster, n, Forms(prepared, n))]
Strangers == {n \in prepared.names : Link[n] = {}}
Order == CHOOSE f \in [1..Cardinality(Strangers) -> Strangers] : \A n \in Strangers : \E i \in DOMAIN f : f[i] = n
IdOf == [n \in prepared.names |->
           IF n \in Strangers THEN Len(entity) + CHOOSE i \in DOMAIN Order : Order[i] = n
           ELSE CHOOSE e \in Link[n] : TRUE]
Present == {IdOf[n] : n \in prepared.names}

Ending(r) == IF r \in Ended(Present, Coming) THEN [r EXCEPT !.to = Coming] ELSE r

Newcomer(name) == [name |-> name, from |-> Coming, to |-> Never, ch |-> Coming]

\* What a commit writes, by kind of row.
LEMMA CommitWrites ==
    ASSUME Commit
    PROVE  /\ prepared # NoDraft /\ prepared.roster = Roster(Done)
           /\ entity' = entity \o [i \in DOMAIN Order |-> Newcomer(Order[i])]
           /\ states' = {Ending(r) : r \in states}
                        \union {[ent |-> e, from |-> Coming, to |-> Never, ch |-> Coming] : e \in Present}
           /\ aliases' = aliases \union
                UNION {{[ent |-> IdOf[n], form |-> f, from |-> Coming, ch |-> Coming] :
                         f \in Noted(prepared, n, n \in Strangers)} : n \in prepared.names}
           /\ edges' = edges \union
                {[src |-> IdOf[x[1]], dst |-> IdOf[x[2]], from |-> Coming, to |-> Never, ch |-> Coming] :
                   x \in {y \in prepared.names \X prepared.names : y[1] # y[2] /\ IdOf[y[1]] <= IdOf[y[2]]}}
           /\ parts' = parts \union {[event |-> Coming, ent |-> e, from |-> Coming] : e \in Present}
           /\ told' = Append(told, prepared.names)
           /\ prepared' = NoDraft /\ corrections' = corrections /\ bookmark' = bookmark
           /\ passes' = passes /\ asked' = asked
BY Zenon DEF Commit, Coming, Link, Strangers, Order, IdOf, Present, Ending, Newcomer, SameRoster


\* What the roster says of an identity.
OnRoster(e) == [id |-> e, name |-> entity[e].name, forms |-> Aliases(e, Done)]

\* The roster is finite: one entry for each identity that is visible.
LEMMA RosterIsFinite ==
    ASSUME EntitiesInv, BookInv
    PROVE  /\ IsFiniteSet(Roster(Done)) /\ Roster(Done) = {OnRoster(e) : e \in Visible(Done)}
           /\ Visible(Done) \subseteq Ids
<1>1. Visible(Done) \subseteq Ids
  BY Basics DEF Visible
<1>2. IsFiniteSet(Ids)
  BY Basics, FS_Interval DEF Ids
<1>3. IsFiniteSet(Visible(Done))
  BY <1>1, <1>2, FS_Subset
<1>4. Roster(Done) = {OnRoster(e) : e \in Visible(Done)}
  BY Zenon DEF Roster, OnRoster
<1>5. [e \in Visible(Done) |-> OnRoster(e)] \in Surjection(Visible(Done), Roster(Done))
  <2> HIDE DEF OnRoster
  <2> QED
    BY <1>4 DEF Surjection
<1> QED
  BY <1>1, <1>3, <1>4, <1>5, FS_Surjection

\* A person is linked with one identity the reader's machine showed when the
\* chapter was prepared: the one that bears the name, or the only one known by
\* one of the forms.
LEMMA LinkedIsKnown ==
    ASSUME EntitiesInv, BookInv, NEW n, NEW forms, Linked(Roster(Done), n, forms) # {}
    PROVE  \E e \in Visible(Done) :
             /\ Linked(Roster(Done), n, forms) = {e}
             /\ \/ entity[e].name = n
                \/ \A x \in Visible(Done) :
                     forms \intersect ({entity[x].name} \union Aliases(x, Done)) # {} => x = e
<1>0. /\ IsFiniteSet(Roster(Done)) /\ Roster(Done) = {OnRoster(e) : e \in Visible(Done)}
      /\ Visible(Done) \subseteq Ids
  BY RosterIsFinite
<1> DEFINE exact == {r \in Roster(Done) : r.name = n}
           known == {r \in Roster(Done) : forms \intersect ({r.name} \union r.forms) # {}}
           hits == IF exact # {} THEN exact ELSE known
<1>1. Linked(Roster(Done), n, forms) = IF Cardinality(hits) = 1 THEN {r.id : r \in hits} ELSE {}
  BY DEF Linked
<1>2. hits \subseteq Roster(Done) /\ IsFiniteSet(hits)
  BY <1>0, FS_Subset
<1>3. Cardinality(hits) = 1 /\ Linked(Roster(Done), n, forms) = {r.id : r \in hits}
  BY <1>1
<1>4. PICK r : hits = {r}
  BY <1>2, <1>3, FS_Singleton
<1>5. PICK e \in Visible(Done) : r = OnRoster(e)
  BY <1>0, <1>2, <1>4
<1>6. \A x : OnRoster(x).id = x /\ OnRoster(x).name = entity[x].name /\ OnRoster(x).forms = Aliases(x, Done)
  BY DEF OnRoster
<1>7. Linked(Roster(Done), n, forms) = {e}
  BY <1>3, <1>4, <1>5, <1>6
<1>8. CASE exact # {}
  BY <1>4, <1>5, <1>6, <1>7, <1>8
<1>9. CASE exact = {}
  <2>1. known = {r}
    BY <1>4, <1>9
  <2>2. ASSUME NEW x \in Visible(Done), forms \intersect ({entity[x].name} \union Aliases(x, Done)) # {}
        PROVE  x = e
    <3>1. OnRoster(x) \in known
      BY <1>0, <1>6, <2>2
    <3> QED
      BY <1>5, <1>6, <2>1, <3>1
  <2> QED
    BY <1>7, <2>2
<1> QED
  BY <1>8, <1>9

\* Whoever a chapter names is an identity that was visible, or one of the new
\* ones, which come in some order.
LEMMA CommitLinks ==
    ASSUME EntitiesInv, BookInv, prepared.roster = Roster(Done)
    PROVE  \E m \in Nat :
             /\ DOMAIN Order = 1..m /\ \A i \in 1..m : Order[i] \in prepared.names
             /\ \A n \in prepared.names :
                  \/ /\ n \notin Strangers /\ IdOf[n] \in Visible(Done) /\ Link[n] = {IdOf[n]}
                  \/ /\ n \in Strangers /\ \E i \in 1..m : IdOf[n] = Len(entity) + i /\ Order[i] = n
<1>1. IsFiniteSet(Strangers)
  BY PeopleAssumption, FS_Subset DEF Strangers, BookInv
<1>2. PICK m \in Nat : m = Cardinality(Strangers) /\ ExistsBijection(1..m, Strangers)
  BY <1>1, FS_CardinalityType
<1>3. \E f \in [1..m -> Strangers] : \A n \in Strangers : \E i \in DOMAIN f : f[i] = n
  BY <1>2 DEF ExistsBijection, Bijection, Surjection, Injection
<1>4. Order \in [1..m -> Strangers] /\ \A n \in Strangers : \E i \in DOMAIN Order : Order[i] = n
  BY <1>2, <1>3 DEF Order
<1>5. DOMAIN Order = 1..m /\ \A i \in 1..m : Order[i] \in prepared.names
  BY <1>4 DEF Strangers
<1>6. ASSUME NEW n \in prepared.names, n \in Strangers
      PROVE  \E i \in 1..m : IdOf[n] = Len(entity) + i /\ Order[i] = n
  <2>1. PICK i : i = CHOOSE j \in DOMAIN Order : Order[j] = n
    OBVIOUS
  <2>2. i \in DOMAIN Order /\ Order[i] = n
    BY <1>4, <1>6, <2>1
  <2>3. IdOf[n] = Len(entity) + i
    BY <1>6, <2>1 DEF IdOf
  <2> QED
    BY <1>5, <2>2, <2>3
<1>7. ASSUME NEW n \in prepared.names, n \notin Strangers
      PROVE  IdOf[n] \in Visible(Done) /\ Link[n] = {IdOf[n]}
  <2>1. Link[n] # {} /\ Link[n] = Linked(Roster(Done), n, Forms(prepared, n))
    BY <1>7 DEF Strangers, Link
  <2>2. PICK e \in Visible(Done) : Link[n] = {e}
    BY <2>1, LinkedIsKnown
  <2>3. IdOf[n] = CHOOSE x \in Link[n] : TRUE
    BY <1>7 DEF IdOf
  <2> QED
    BY <2>2, <2>3
<1> QED
  BY <1>5, <1>6, <1>7


\* The identities after a commit: those there were, and the new ones, which begin
\* with the chapter.
LEMMA EntitiesAdded ==
    ASSUME EntitiesInv, BookInv, Commit
    PROVE  /\ EntitiesInv' /\ Ids \subseteq Ids' /\ Told' = Told \union {Coming} /\ Coming \in Nat
           /\ Coming = Done + 1 /\ Done' = Done + 1 /\ Coming <= Chapters
           /\ \A e \in Ids : entity'[e] = entity[e]
           /\ \A e \in Ids' \ Ids : entity'[e].from = Coming /\ entity'[e].to = Never /\ entity'[e].ch = Coming
           /\ Present \subseteq Ids'
           /\ \A n \in prepared.names :
                \/ n \notin Strangers /\ IdOf[n] \in Visible(Done) /\ Link[n] = {IdOf[n]}
                \/ n \in Strangers /\ IdOf[n] \in Ids' \ Ids /\ entity'[IdOf[n]].name = n
<1>0. /\ prepared # NoDraft /\ prepared.roster = Roster(Done)
      /\ entity' = entity \o [i \in DOMAIN Order |-> Newcomer(Order[i])]
      /\ told' = Append(told, prepared.names)
  BY CommitWrites
<1>1. PICK m \in Nat :
        /\ DOMAIN Order = 1..m /\ \A i \in 1..m : Order[i] \in prepared.names
        /\ \A n \in prepared.names :
             \/ /\ n \notin Strangers /\ IdOf[n] \in Visible(Done) /\ Link[n] = {IdOf[n]}
             \/ /\ n \in Strangers /\ \E i \in 1..m : IdOf[n] = Len(entity) + i /\ Order[i] = n
  BY <1>0, CommitLinks
<1>2. PICK n \in Nat : n = Len(entity) /\ Ids = 1..n
  BY Basics DEF Ids
<1>3. /\ Done \in Nat /\ Coming = Done + 1 /\ Coming \in Nat /\ Coming <= Chapters /\ Chapters \in Nat
      /\ Never = Chapters + 1 /\ Coming \in Moments
  BY <1>0, Basics DEF Coming, BookInv, Moments
<1>4. Done' = Done + 1 /\ Told' = Told \union {Coming}
  <2>1. Done' = Done + 1
    BY <1>0 DEF Done, BookInv
  <2>2. 1..(Done + 1) = (1..Done) \union {Done + 1}
    BY <1>3
  <2> QED
    BY <1>3, <2>1, <2>2 DEF Told
<1>5. PICK fresh \in Seq(EntityRows) : /\ fresh = [i \in DOMAIN Order |-> Newcomer(Order[i])] /\ Len(fresh) = m
                                       /\ \A i \in 1..m : fresh[i] = Newcomer(Order[i])
  <2> DEFINE fresh == [i \in 1..m |-> Newcomer(Order[i])]
  <2>1. \A i \in 1..m : Newcomer(Order[i]) \in EntityRows
    BY <1>1, <1>3 DEF Newcomer, EntityRows, Moments, BookInv, Given
  <2>2. fresh \in Seq(EntityRows)
    BY <2>1, IsASeq
  <2>3. Len(fresh) = m
    BY <2>2, LenProperties
  <2> QED
    BY <1>1, <2>2, <2>3
<1>6. /\ entity' \in Seq(EntityRows) /\ Len(entity') = n + m
      /\ \A i \in 1..(n + m) : entity'[i] = IF i <= n THEN entity[i] ELSE fresh[i - n]
  <2>1. entity' = entity \o fresh /\ entity \in Seq(EntityRows)
    BY <1>0, <1>5 DEF EntitiesInv
  <2>2. /\ entity \o fresh \in Seq(EntityRows) /\ Len(entity \o fresh) = Len(entity) + Len(fresh)
        /\ \A i \in 1..(Len(entity) + Len(fresh)) :
             (entity \o fresh)[i] = IF i <= Len(entity) THEN entity[i] ELSE fresh[i - Len(entity)]
    BY <2>1, ConcatProperties
  <2> QED
    BY <1>2, <1>5, <2>1, <2>2
<1>7. Ids' = 1..(n + m) /\ Ids \subseteq Ids'
  BY <1>2, <1>6 DEF Ids
<1>8. \A e \in Ids : entity'[e] = entity[e]
  BY <1>2, <1>6
<1>9. ASSUME NEW i \in 1..m PROVE n + i \in Ids' \ Ids /\ entity'[n + i] = Newcomer(Order[i])
  <2>1. n + i \in 1..(n + m) /\ ~(n + i <= n) /\ (n + i) - n = i
    BY <1>2
  <2> QED
    BY <1>2, <1>5, <1>6, <1>7, <2>1
<1>10. ASSUME NEW e \in Ids' \ Ids
       PROVE  entity'[e].from = Coming /\ entity'[e].to = Never /\ entity'[e].ch = Coming
  <2>1. e - n \in 1..m /\ e = n + (e - n)
    BY <1>2, <1>7
  <2>2. PICK i \in 1..m : e = n + i
    BY <2>1
  <2>3. entity'[e] = Newcomer(Order[i])
    BY <1>9, <2>2
  <2> QED
    BY <2>3 DEF Newcomer
<1>11. EntitiesInv'
  <2>1. ASSUME NEW e \in Ids'
        PROVE  /\ entity'[e].from <= Done' /\ entity'[e].from < entity'[e].to
               /\ entity'[e].to <= Done' \/ entity'[e].to = Never
               /\ entity'[e].ch <= entity'[e].from
    <3>1. CASE e \in Ids
      <4>1. /\ entity[e].from <= Done /\ entity[e].from < entity[e].to
            /\ entity[e].to <= Done \/ entity[e].to = Never
            /\ entity[e].ch <= entity[e].from
        BY <3>1 DEF EntitiesInv
      <4>2. entity[e].from \in Nat /\ entity[e].to \in Nat
        BY <1>3, <3>1, Basics DEF EntityRows, Moments
      <4> QED
        BY <1>3, <1>4, <1>8, <3>1, <4>1, <4>2
    <3>2. CASE e \notin Ids
      BY <1>3, <1>4, <1>10, <3>2
    <3> QED
      BY <3>1, <3>2
  <2>2. Never' = Never /\ EntityRows' = EntityRows
    BY DEF Never, EntityRows, Given, Moments
  <2> QED
    BY <1>6, <2>1, <2>2 DEF EntitiesInv
<1>12. ASSUME NEW x \in prepared.names
       PROVE  \/ x \notin Strangers /\ IdOf[x] \in Visible(Done) /\ Link[x] = {IdOf[x]}
              \/ x \in Strangers /\ IdOf[x] \in Ids' \ Ids /\ entity'[IdOf[x]].name = x
  <2>1. CASE x \in Strangers
    <3>1. PICK i \in 1..m : IdOf[x] = n + i /\ Order[i] = x
      BY <1>1, <1>2, <2>1
    <3>2. IdOf[x] \in Ids' \ Ids /\ entity'[IdOf[x]] = Newcomer(x)
      BY <1>9, <3>1
    <3> QED
      BY <2>1, <3>2 DEF Newcomer
  <2>2. CASE x \notin Strangers
    BY <1>1, <2>2
  <2> QED
    BY <2>1, <2>2
<1>13. Present \subseteq Ids'
  <2>1. Visible(Done) \subseteq Ids'
    BY <1>7, RosterIsFinite
  <2>2. \A x \in prepared.names : IdOf[x] \in Ids'
    BY <1>12, <2>1
  <2> QED
    BY <2>2 DEF Present
<1> QED
  BY <1>3, <1>4, <1>7, <1>8, <1>10, <1>11, <1>12, <1>13

\* The states after a commit: the state an identity of the chapter had ends, and
\* another begins.
LEMMA StatesAdded ==
    ASSUME RowsInv, BookInv, Commit
    PROVE  /\ StatesInv'
           /\ \A o \in states' : \/ \E r \in states : o.ent = r.ent /\ o.from = r.from /\ o.ch = r.ch
                                                      /\ (o.to = r.to \/ (o.to = Coming /\ Coming < r.to))
                                 \/ o.from = Coming
           /\ \A r \in states : \E o \in states' : o.ent = r.ent /\ o.from = r.from /\ o.ch = r.ch
                                                   /\ (o.to = r.to \/ (o.to = Coming /\ Coming < r.to))
<1>0. /\ Ids \subseteq Ids' /\ Told' = Told \union {Coming} /\ Coming \in Nat /\ Coming = Done + 1
      /\ Present \subseteq Ids' /\ Coming <= Chapters /\ EntitiesInv /\ StatesInv /\ EntitiesInv'
  BY EntitiesAdded DEF RowsInv
<1>1. Done \in Nat /\ Chapters \in Nat /\ Never = Chapters + 1 /\ Never \in Moments /\ Coming \in Moments
  BY <1>0, Basics DEF Moments
<1>2. \A r \in states : /\ r \in StateRows /\ r.ent \in Ids' /\ r.from \in Nat /\ r.to \in Nat /\ r.ch \in Nat
                        /\ r.from < r.to /\ r.ch <= r.from /\ r.to \in Moments /\ r.ch \in Told' /\ r.from \in Told'
                        /\ r.from < Coming /\ r.ent \in Ids
  BY <1>0, <1>1 DEF StatesInv, StateRows, Told, Moments
<1>3. states' = {Ending(r) : r \in states}
                \union {[ent |-> e, from |-> Coming, to |-> Never, ch |-> Coming] : e \in Present}
  BY CommitWrites
<1> DEFINE Later(o, r) == /\ r \in states /\ o.ent = r.ent /\ o.from = r.from /\ o.ch = r.ch
                          /\ o = [ent |-> r.ent, from |-> r.from, to |-> o.to, ch |-> r.ch]
                          /\ o.to = r.to \/ (o.to = Coming /\ Coming < r.to)
                          /\ r.ent \in Present => o.to <= Coming
           Begun(o) == /\ o.ent \in Present
                       /\ o = [ent |-> o.ent, from |-> Coming, to |-> Never, ch |-> Coming]
<1>4. ASSUME NEW r \in states PROVE Later(Ending(r), r)
  <2>1. r = [ent |-> r.ent, from |-> r.from, to |-> r.to, ch |-> r.ch]
    BY <1>2 DEF StateRows
  <2>2. CASE r \in Ended(Present, Coming)
    <3>1. [r EXCEPT !.to = Coming] = [ent |-> r.ent, from |-> r.from, to |-> Coming, ch |-> r.ch]
      BY <1>2, StateRow
    <3>2. Ending(r) = [ent |-> r.ent, from |-> r.from, to |-> Coming, ch |-> r.ch]
      BY <2>2, <3>1 DEF Ending
    <3>3. Coming < r.to
      BY <2>2 DEF Ended, State, Live
    <3> QED
      BY <1>0, <3>2, <3>3
  <2>3. CASE r \notin Ended(Present, Coming)
    <3>1. Ending(r) = r
      BY <2>3 DEF Ending
    <3>2. r.ent \in Present => r.to <= Coming
      <4>1. SUFFICES ASSUME r.ent \in Present, ~(r.to <= Coming) PROVE FALSE
        OBVIOUS
      <4>2. Live(r, Coming)
        BY <1>0, <1>2, <4>1 DEF Live
      <4>3. r \in State(r.ent, Coming)
        BY <1>0, <4>2, StateIsOne
      <4> QED
        BY <1>2, <2>3, <4>1, <4>3 DEF Ended
    <3> QED
      BY <2>1, <3>1, <3>2
  <2> QED
    BY <2>2, <2>3
<1>5. ASSUME NEW o \in states' PROVE (\E r \in states : Later(o, r) /\ o = Ending(r)) \/ Begun(o)
  BY <1>3, <1>4
<1>6. ASSUME NEW o \in states' PROVE o \in StateRows' /\ o.from < o.to /\ o.ch <= o.from
  <2>1. ASSUME NEW r \in states, Later(o, r) PROVE o \in StateRows' /\ o.from < o.to /\ o.ch <= o.from
    <3>1. o.to \in Moments' /\ r.ent \in Ids' /\ r.from \in Told' /\ r.ch \in Told'
      BY <1>1, <1>2, <2>1 DEF Moments, Never
    <3>2. [ent |-> r.ent, from |-> r.from, to |-> o.to, ch |-> r.ch] \in StateRows'
      BY <3>1 DEF StateRows
    <3> QED
      BY <1>2, <2>1, <3>2
  <2>2. ASSUME Begun(o) PROVE o \in StateRows' /\ o.from < o.to /\ o.ch <= o.from
    <3>1. Never \in Moments' /\ o.ent \in Ids' /\ Coming \in Told'
      BY <1>0, <1>1, <2>2 DEF Moments, Never
    <3>2. [ent |-> o.ent, from |-> Coming, to |-> Never, ch |-> Coming] \in StateRows'
      BY <3>1 DEF StateRows
    <3>3. o.from = Coming /\ o.to = Never /\ o.ch = Coming
      BY <2>2
    <3> QED
      BY <1>0, <1>1, <2>2, <3>2, <3>3
  <2> QED
    BY <1>5, <2>1, <2>2
<1>7. ASSUME NEW o \in states', NEW p \in states', o.ent = p.ent, o # p PROVE o.to <= p.from \/ p.to <= o.from
  <2>1. CASE \E r \in states : Later(o, r) /\ o = Ending(r)
    <3>1. PICK r \in states : Later(o, r) /\ o = Ending(r)
      BY <2>1
    <3>2. CASE \E s \in states : Later(p, s) /\ p = Ending(s)
      <4>1. PICK s \in states : Later(p, s) /\ p = Ending(s)
        BY <3>2
      <4>2. r # s /\ r.ent = s.ent
        BY <1>7, <3>1, <4>1
      <4>3. r.to <= s.from \/ s.to <= r.from
        BY <1>0, <4>2 DEF StatesInv
      <4> QED
        BY <1>0, <1>2, <3>1, <4>1, <4>3
    <3>3. CASE Begun(p)
      BY <1>7, <3>1, <3>3
    <3> QED
      BY <1>5, <3>2, <3>3
  <2>2. CASE Begun(o)
    <3>1. CASE \E s \in states : Later(p, s)
      BY <1>7, <2>2, <3>1
    <3>2. CASE Begun(p)
      BY <1>7, <2>2, <3>2
    <3> QED
      BY <1>5, <3>1, <3>2
  <2> QED
    BY <1>5, <2>1, <2>2
<1>8. StatesInv'
  BY <1>6, <1>7 DEF StatesInv
<1>9. ASSUME NEW r \in states PROVE Ending(r) \in states'
  BY <1>3
<1> QED
  BY <1>4, <1>5, <1>8, <1>9


\* A commit keeps the rows as they must be, and the book.
LEMMA CommitKeeps ==
    ASSUME RowsInv, BookInv, Commit
    PROVE  RowsInv' /\ BookInv'
<1>0. /\ EntitiesInv /\ AliasesInv /\ EdgesInv /\ StatesInv /\ PartsInv
  BY DEF RowsInv
<1>1. /\ EntitiesInv' /\ Ids \subseteq Ids' /\ Told' = Told \union {Coming} /\ Coming \in Nat
      /\ Coming = Done + 1 /\ Done' = Done + 1 /\ Coming <= Chapters
      /\ \A e \in Ids : entity'[e] = entity[e]
      /\ Present \subseteq Ids'
  BY <1>0, EntitiesAdded
<1>2. StatesInv'
  BY StatesAdded
<1>3. Told \subseteq Told' /\ Coming \in Told' /\ Never \in Moments' /\ Coming < Never /\ Chapters \in Nat
  BY <1>0, <1>1, Basics DEF Moments, Never
<1>4. \A e \in Ids' : entity'[e].from <= Coming
  BY <1>1 DEF EntitiesInv
<1>5. \A n \in prepared.names : IdOf[n] \in Ids'
  BY <1>1 DEF Present
<1>6. AliasesInv'
  <2> DEFINE A == UNION {{[ent |-> IdOf[n], form |-> f, from |-> Coming, ch |-> Coming] :
                            f \in Noted(prepared, n, n \in Strangers)} : n \in prepared.names}
  <2>1. aliases' = aliases \union A
    BY CommitWrites
  <2>2. ASSUME NEW o \in A PROVE o \in AliasRows' /\ o.ch <= o.from
    <3>1. PICK n \in prepared.names : \E f \in Noted(prepared, n, n \in Strangers) :
            o = [ent |-> IdOf[n], form |-> f, from |-> Coming, ch |-> Coming]
      OBVIOUS
    <3>2. PICK f \in Noted(prepared, n, n \in Strangers) :
            o = [ent |-> IdOf[n], form |-> f, from |-> Coming, ch |-> Coming]
      BY <3>1
    <3>3. f \in Spoken
      BY DEF Noted, Forms, Spoken, Given, BookInv
    <3>4. [ent |-> IdOf[n], form |-> f, from |-> Coming, ch |-> Coming] \in AliasRows'
      BY <1>3, <1>5, <3>3 DEF AliasRows, Spoken, Given
    <3> QED
      BY <1>1, <3>2, <3>4
  <2> HIDE DEF A
  <2> QED
    BY <1>0, <1>1, <1>3, <2>1, <2>2, AliasesGrow
<1>7. EdgesInv'
  <2> DEFINE E == {[src |-> IdOf[x[1]], dst |-> IdOf[x[2]], from |-> Coming, to |-> Never, ch |-> Coming] :
                     x \in {y \in prepared.names \X prepared.names : y[1] # y[2] /\ IdOf[y[1]] <= IdOf[y[2]]}}
  <2>1. edges' = edges \union E
    BY CommitWrites
  <2>2. ASSUME NEW o \in E
        PROVE  /\ o \in EdgeRows' /\ o.from < o.to /\ o.ch <= o.from
               /\ entity'[o.src].from <= o.from /\ entity'[o.dst].from <= o.from
    <3>1. PICK a \in prepared.names, b \in prepared.names :
            o = [src |-> IdOf[a], dst |-> IdOf[b], from |-> Coming, to |-> Never, ch |-> Coming]
      OBVIOUS
    <3>2. [src |-> IdOf[a], dst |-> IdOf[b], from |-> Coming, to |-> Never, ch |-> Coming] \in EdgeRows'
      BY <1>3, <1>5 DEF EdgeRows
    <3>3. o.src = IdOf[a] /\ o.dst = IdOf[b] /\ o.from = Coming /\ o.to = Never /\ o.ch = Coming
      BY <3>1
    <3> QED
      BY <1>1, <1>3, <1>4, <1>5, <3>1, <3>2, <3>3
  <2>3. \A e \in Ids : entity'[e].from = entity[e].from
    BY <1>1
  <2> HIDE DEF E
  <2> QED
    BY <1>0, <1>1, <1>3, <2>1, <2>2, <2>3, EdgesGrow
<1>8. PartsInv'
  <2> DEFINE P == {[event |-> Coming, ent |-> e, from |-> Coming] : e \in Present}
  <2>1. parts' = parts \union P
    BY CommitWrites
  <2>2. P \subseteq PartRows'
    BY <1>1, <1>3 DEF PartRows
  <2> HIDE DEF P
  <2> QED
    BY <1>0, <1>1, <1>3, <2>1, <2>2, PartsGrow
<1>9. /\ told' = Append(told, prepared.names) /\ prepared' = NoDraft /\ corrections' = corrections
      /\ bookmark' = bookmark /\ passes' = passes /\ asked' = asked
  BY CommitWrites
<1>10. told' \in Seq(SUBSET People)
  BY <1>9 DEF BookInv
<1>11. corrections' \in Seq([kind : {"replace", "split", "merge"}, at : Told',
                             sources : SUBSET (Ids'), targets : SUBSET (Ids')])
  <2> DEFINE Rows == [kind : {"replace", "split", "merge"}, at : Told, sources : SUBSET Ids, targets : SUBSET Ids]
             Wide == [kind : {"replace", "split", "merge"}, at : Told', sources : SUBSET (Ids'), targets : SUBSET (Ids')]
  <2>1. \A r \in Rows : r \in Wide
    BY <1>1, <1>3
  <2>2. corrections \in Seq(Rows)
    BY DEF BookInv
  <2> HIDE DEF Rows, Wide
  <2>3. corrections \in Seq(Wide)
    BY <2>1, <2>2
  <2> QED
    BY <1>9, <2>3 DEF Wide
<1>12. prepared'.names \subseteq People /\ (prepared' # NoDraft' => Done' < Chapters)
  BY <1>9 DEF NoDraft
<1>13. asked' = NoAsk' \/ asked' \in [ent : Ids', at : Told', name : Renames]
  BY <1>1, <1>3, <1>9 DEF BookInv, NoAsk
<1>14. BookInv'
  BY <1>1, <1>9, <1>10, <1>11, <1>12, <1>13 DEF BookInv, Bookmarks
<1> QED
  BY <1>1, <1>2, <1>6, <1>7, <1>8, <1>14 DEF RowsInv

-----------------------------------------------------------------------------
(* The book moves                                                           *)

\* The import gives each identity another number, and one number to each.
LEMMA NewIdIsOne ==
    ASSUME EntitiesInv, BookInv
    PROVE  /\ \A e \in Ids : NewId(e) \in Ids /\ NewId(NewId(e)) = e
           /\ \A e, f \in Ids : NewId(e) = NewId(f) => e = f
<1>1. PICK n \in Nat : n = Len(entity) /\ Ids = 1..n
  BY Basics DEF Ids
<1> QED
  BY <1>1 DEF NewId

\* What the move writes: each row with its identities by their new numbers.
LEMMA MoveWrites ==
    ASSUME RowsInv, BookInv, Move
    PROVE  /\ entity' \in Seq(EntityRows) /\ Len(entity') = Len(entity) /\ Ids' = Ids
           /\ \A e \in Ids : entity'[e] = entity[NewId(e)]
           /\ aliases' = {[ent |-> NewId(r.ent), form |-> r.form, from |-> r.from, ch |-> r.ch] : r \in aliases}
           /\ edges' = {[src |-> NewId(r.src), dst |-> NewId(r.dst), from |-> r.from, to |-> r.to, ch |-> r.ch] :
                          r \in edges}
           /\ states' = {[ent |-> NewId(r.ent), from |-> r.from, to |-> r.to, ch |-> r.ch] : r \in states}
           /\ parts' = {[event |-> p.event, ent |-> NewId(p.ent), from |-> p.from] : p \in parts}
           /\ UNCHANGED <<told, bookmark, passes, prepared, asked>> /\ Told' = Told /\ asked = NoAsk
<1>0. EntitiesInv /\ AliasesInv /\ EdgesInv /\ StatesInv /\ PartsInv
  BY DEF RowsInv
<1>1. /\ entity' = MovedEntities /\ aliases' = MovedAliases /\ edges' = MovedEdges /\ states' = MovedStates
      /\ parts' = MovedParts /\ UNCHANGED <<told, bookmark, passes, prepared, asked>> /\ asked = NoAsk
  BY DEF Move
<1>2. PICK n \in Nat : n = Len(entity) /\ Ids = 1..n /\ DOMAIN entity = 1..n
  BY <1>0, Basics DEF Ids
<1>3. /\ entity' \in Seq(EntityRows) /\ Len(entity') = n /\ \A e \in 1..n : entity'[e] = entity[NewId(e)]
  <2>1. entity' = [e \in 1..n |-> entity[NewId(e)]]
    BY <1>1, <1>2 DEF MovedEntities
  <2>2. \A e \in 1..n : entity[NewId(e)] \in EntityRows
    BY <1>0, <1>2, Basics, NewIdIsOne
  <2>3. [e \in 1..n |-> entity[NewId(e)]] \in Seq(EntityRows)
    BY <2>2, IsASeq
  <2> QED
    BY <2>1, <2>3, LenProperties
<1>4. ASSUME NEW r \in aliases
      PROVE  [r EXCEPT !.ent = NewId(@)] = [ent |-> NewId(r.ent), form |-> r.form, from |-> r.from, ch |-> r.ch]
  <2>1. [r EXCEPT !.ent = NewId(@)] = [r EXCEPT !.ent = NewId(r.ent)]
    OBVIOUS
  <2>2. r \in AliasRows
    BY <1>0 DEF AliasesInv
  <2> QED
    BY <2>1, <2>2, AliasRow
<1>5. aliases' = {[ent |-> NewId(r.ent), form |-> r.form, from |-> r.from, ch |-> r.ch] : r \in aliases}
  <2> DEFINE Old(r) == [r EXCEPT !.ent = NewId(@)]
             New(r) == [ent |-> NewId(r.ent), form |-> r.form, from |-> r.from, ch |-> r.ch]
  <2>1. aliases' = {Old(r) : r \in aliases}
    BY <1>1 DEF MovedAliases
  <2>2. \A r \in aliases : Old(r) = New(r)
    BY <1>4
  <2> HIDE DEF Old, New
  <2>3. {Old(r) : r \in aliases} = {New(r) : r \in aliases}
    BY <2>2
  <2> QED
    BY <2>1, <2>3 DEF New
<1>6. ASSUME NEW r \in states
      PROVE  [r EXCEPT !.ent = NewId(@)] = [ent |-> NewId(r.ent), from |-> r.from, to |-> r.to, ch |-> r.ch]
  <2>1. [r EXCEPT !.ent = NewId(@)] = [r EXCEPT !.ent = NewId(r.ent)]
    OBVIOUS
  <2>2. r = [ent |-> r.ent, from |-> r.from, to |-> r.to, ch |-> r.ch]
    BY <1>0 DEF StatesInv, StateRows
  <2> QED
    BY <2>1, <2>2
<1>7. states' = {[ent |-> NewId(r.ent), from |-> r.from, to |-> r.to, ch |-> r.ch] : r \in states}
  <2> DEFINE Old(r) == [r EXCEPT !.ent = NewId(@)]
             New(r) == [ent |-> NewId(r.ent), from |-> r.from, to |-> r.to, ch |-> r.ch]
  <2>1. states' = {Old(r) : r \in states}
    BY <1>1 DEF MovedStates
  <2>2. \A r \in states : Old(r) = New(r)
    BY <1>6
  <2> HIDE DEF Old, New
  <2>3. {Old(r) : r \in states} = {New(r) : r \in states}
    BY <2>2
  <2> QED
    BY <2>1, <2>3 DEF New
<1>8. ASSUME NEW p \in parts
      PROVE  [p EXCEPT !.ent = NewId(@)] = [event |-> p.event, ent |-> NewId(p.ent), from |-> p.from]
  <2>1. [p EXCEPT !.ent = NewId(@)] = [p EXCEPT !.ent = NewId(p.ent)]
    OBVIOUS
  <2>2. p = [event |-> p.event, ent |-> p.ent, from |-> p.from]
    BY <1>0 DEF PartsInv, PartRows
  <2> QED
    BY <2>1, <2>2
<1>9. parts' = {[event |-> p.event, ent |-> NewId(p.ent), from |-> p.from] : p \in parts}
  <2> DEFINE Old(r) == [r EXCEPT !.ent = NewId(@)]
             New(r) == [event |-> r.event, ent |-> NewId(r.ent), from |-> r.from]
  <2>1. parts' = {Old(r) : r \in parts}
    BY <1>1 DEF MovedParts
  <2>2. \A r \in parts : Old(r) = New(r)
    BY <1>8
  <2> HIDE DEF Old, New
  <2>3. {Old(r) : r \in parts} = {New(r) : r \in parts}
    BY <2>2
  <2> QED
    BY <2>1, <2>3 DEF New
<1>10. ASSUME NEW r \in edges
       PROVE  [r EXCEPT !.src = NewId(@), !.dst = NewId(@)] =
              [src |-> NewId(r.src), dst |-> NewId(r.dst), from |-> r.from, to |-> r.to, ch |-> r.ch]
  <2>1. PICK a, b : a = NewId(r.src) /\ b = NewId(r.dst)
    OBVIOUS
  <2>2. r = [src |-> r.src, dst |-> r.dst, from |-> r.from, to |-> r.to, ch |-> r.ch]
    BY <1>0 DEF EdgesInv, EdgeRows
  <2>3. PICK o : o = [r EXCEPT !.src = a, !.dst = b]
    OBVIOUS
  <2>4. /\ o.src = a /\ o.dst = b /\ o.from = r.from /\ o.to = r.to /\ o.ch = r.ch
        /\ DOMAIN o = {"src", "dst", "from", "to", "ch"} /\ o = [i \in DOMAIN o |-> o[i]]
    BY <2>2, <2>3
  <2>5. o = [src |-> a, dst |-> b, from |-> r.from, to |-> r.to, ch |-> r.ch]
    BY <2>4
  <2>6. [r EXCEPT !.src = NewId(@), !.dst = NewId(@)] = [r EXCEPT !.src = a, !.dst = b]
    BY <2>1
  <2> QED
    BY <2>1, <2>3, <2>5, <2>6
<1>11. edges' = {[src |-> NewId(r.src), dst |-> NewId(r.dst), from |-> r.from, to |-> r.to, ch |-> r.ch] :
                   r \in edges}
  <2> DEFINE L(r) == [r EXCEPT !.src = NewId(@), !.dst = NewId(@)]
             C(r) == [src |-> NewId(r.src), dst |-> NewId(r.dst), from |-> r.from, to |-> r.to, ch |-> r.ch]
  <2>1. MovedEdges = {L(r) : r \in edges}
    BY DEF MovedEdges
  <2>2. \A r \in edges : L(r) = C(r)
    BY <1>10
  <2> HIDE DEF L, C
  <2>3. MovedEdges = {C(r) : r \in edges}
    BY <2>1, <2>2
  <2> QED
    BY <1>1, <2>3 DEF C
<1>12. Ids' = Ids /\ Told' = Told
  BY <1>1, <1>2, <1>3 DEF Ids, Told, Done
<1> QED
  BY <1>1, <1>2, <1>3, <1>5, <1>7, <1>9, <1>11, <1>12


\* The move keeps the rows as they must be, and the book.
LEMMA MoveKeeps ==
    ASSUME RowsInv, BookInv, Move
    PROVE  RowsInv' /\ BookInv'
<1>0. /\ EntitiesInv /\ AliasesInv /\ EdgesInv /\ StatesInv /\ PartsInv
      /\ \A e \in Ids : NewId(e) \in Ids /\ NewId(NewId(e)) = e
      /\ \A e, f \in Ids : NewId(e) = NewId(f) => e = f
  BY NewIdIsOne DEF RowsInv
<1>1. /\ entity' \in Seq(EntityRows) /\ Len(entity') = Len(entity) /\ Ids' = Ids
      /\ \A e \in Ids : entity'[e] = entity[NewId(e)]
      /\ UNCHANGED <<told, bookmark, passes, prepared, asked>> /\ Told' = Told
  BY MoveWrites
<1>2. Done' = Done /\ Never' = Never /\ EntityRows' = EntityRows /\ Moments' = Moments
  BY <1>1 DEF Done, Never, EntityRows, Given, Moments
<1>3. EntitiesInv'
  BY <1>0, <1>1, <1>2 DEF EntitiesInv
<1>4. AliasesInv'
  <2>1. aliases' = {[ent |-> NewId(r.ent), form |-> r.form, from |-> r.from, ch |-> r.ch] : r \in aliases}
    BY MoveWrites
  <2>2. ASSUME NEW o \in aliases' PROVE o \in AliasRows' /\ o.ch <= o.from
    <3>1. PICK r \in aliases : o = [ent |-> NewId(r.ent), form |-> r.form, from |-> r.from, ch |-> r.ch]
      BY <2>1
    <3>2. r \in AliasRows /\ r.ch <= r.from
      BY <1>0 DEF AliasesInv
    <3>3. NewId(r.ent) \in Ids' /\ r.form \in Spoken /\ r.from \in Told' /\ r.ch \in Told'
      BY <1>0, <1>1, <3>2 DEF AliasRows
    <3>4. [ent |-> NewId(r.ent), form |-> r.form, from |-> r.from, ch |-> r.ch] \in AliasRows'
      BY <3>3 DEF AliasRows, Spoken, Given
    <3> QED
      BY <3>1, <3>2, <3>4
  <2> QED
    BY <2>2 DEF AliasesInv
<1>5. EdgesInv'
  <2>1. edges' = {[src |-> NewId(r.src), dst |-> NewId(r.dst), from |-> r.from, to |-> r.to, ch |-> r.ch] : r \in edges}
    BY MoveWrites
  <2>2. ASSUME NEW o \in edges'
        PROVE  /\ o \in EdgeRows' /\ o.from < o.to /\ o.ch <= o.from
               /\ entity'[o.src].from <= o.from /\ entity'[o.dst].from <= o.from
    <3>1. PICK r \in edges :
            o = [src |-> NewId(r.src), dst |-> NewId(r.dst), from |-> r.from, to |-> r.to, ch |-> r.ch]
      BY <2>1
    <3>2. /\ r \in EdgeRows /\ r.from < r.to /\ r.ch <= r.from
          /\ entity[r.src].from <= r.from /\ entity[r.dst].from <= r.from
      BY <1>0 DEF EdgesInv
    <3>3. /\ NewId(r.src) \in Ids' /\ NewId(r.dst) \in Ids' /\ r.from \in Told' /\ r.ch \in Told' /\ r.to \in Moments'
          /\ entity'[NewId(r.src)] = entity[r.src] /\ entity'[NewId(r.dst)] = entity[r.dst]
      BY <1>0, <1>1, <1>2, <3>2 DEF EdgeRows
    <3>4. [src |-> NewId(r.src), dst |-> NewId(r.dst), from |-> r.from, to |-> r.to, ch |-> r.ch] \in EdgeRows'
      BY <3>3 DEF EdgeRows
    <3>5. o.src = NewId(r.src) /\ o.dst = NewId(r.dst) /\ o.from = r.from /\ o.to = r.to /\ o.ch = r.ch
      BY <3>1
    <3> QED
      BY <3>1, <3>2, <3>3, <3>4, <3>5
  <2> QED
    BY <2>2 DEF EdgesInv
<1>6. StatesInv'
  <2>1. states' = {[ent |-> NewId(r.ent), from |-> r.from, to |-> r.to, ch |-> r.ch] : r \in states}
    BY MoveWrites
  <2>2. ASSUME NEW o \in states' PROVE o \in StateRows' /\ o.from < o.to /\ o.ch <= o.from
    <3>1. PICK r \in states : o = [ent |-> NewId(r.ent), from |-> r.from, to |-> r.to, ch |-> r.ch]
      BY <2>1
    <3>2. r \in StateRows /\ r.from < r.to /\ r.ch <= r.from
      BY <1>0 DEF StatesInv
    <3>3. NewId(r.ent) \in Ids' /\ r.from \in Told' /\ r.ch \in Told' /\ r.to \in Moments'
      BY <1>0, <1>1, <1>2, <3>2 DEF StateRows
    <3>4. [ent |-> NewId(r.ent), from |-> r.from, to |-> r.to, ch |-> r.ch] \in StateRows'
      BY <3>3 DEF StateRows
    <3> QED
      BY <3>1, <3>2, <3>4
  <2>3. ASSUME NEW o \in states', NEW p \in states', o.ent = p.ent, o # p PROVE o.to <= p.from \/ p.to <= o.from
    <3>1. PICK r \in states : o = [ent |-> NewId(r.ent), from |-> r.from, to |-> r.to, ch |-> r.ch]
      BY <2>1
    <3>2. PICK s \in states : p = [ent |-> NewId(s.ent), from |-> s.from, to |-> s.to, ch |-> s.ch]
      BY <2>1
    <3>3. r.ent \in Ids /\ s.ent \in Ids /\ NewId(r.ent) = NewId(s.ent)
      BY <1>0, <2>3, <3>1, <3>2 DEF StatesInv, StateRows
    <3>4. r.ent = s.ent /\ r # s
      BY <1>0, <2>3, <3>1, <3>2, <3>3
    <3>5. r.to <= s.from \/ s.to <= r.from
      BY <1>0, <3>4 DEF StatesInv
    <3> QED
      BY <3>1, <3>2, <3>5
  <2> QED
    BY <2>2, <2>3 DEF StatesInv
<1>7. PartsInv'
  <2>1. parts' = {[event |-> p.event, ent |-> NewId(p.ent), from |-> p.from] : p \in parts}
    BY MoveWrites
  <2>2. ASSUME NEW o \in parts' PROVE o \in PartRows'
    <3>1. PICK p \in parts : o = [event |-> p.event, ent |-> NewId(p.ent), from |-> p.from]
      BY <2>1
    <3>2. NewId(p.ent) \in Ids' /\ p.event \in Told' /\ p.from \in Told'
      BY <1>0, <1>1 DEF PartsInv, PartRows
    <3> QED
      BY <3>1, <3>2 DEF PartRows
  <2> QED
    BY <2>2 DEF PartsInv
<1>8. corrections' \in Seq([kind : {"replace", "split", "merge"}, at : Told', sources : SUBSET (Ids'), targets : SUBSET (Ids')])
  <2> DEFINE Rows == [kind : {"replace", "split", "merge"}, at : Told, sources : SUBSET Ids, targets : SUBSET Ids]
             row(c) == [c EXCEPT !.sources = {NewId(e) : e \in @}, !.targets = {NewId(e) : e \in @}]
  <2>1. ASSUME NEW c \in Rows PROVE row(c) \in Rows
    <3>1. PICK a, b : a = {NewId(e) : e \in c.sources} /\ b = {NewId(e) : e \in c.targets}
      OBVIOUS
    <3>2. a \in SUBSET Ids /\ b \in SUBSET Ids
      BY <1>0, <3>1
    <3>3. row(c) = [c EXCEPT !.sources = a, !.targets = b]
      BY <3>1
    <3>4. [c EXCEPT !.sources = a, !.targets = b] \in Rows
      BY <3>2
    <3> QED
      BY <3>3, <3>4
  <2>2. corrections \in Seq(Rows)
    BY DEF BookInv
  <2>3. corrections' = [i \in DOMAIN corrections |-> row(corrections[i])]
    BY Zenon DEF Move, MovedCorrections
  <2> HIDE DEF Rows, row
  <2>4. PICK n \in Nat : n = Len(corrections) /\ DOMAIN corrections = 1..n
    BY <2>2
  <2>5. \A i \in 1..n : row(corrections[i]) \in Rows
    BY <2>1, <2>2, <2>4
  <2>6. [i \in 1..n |-> row(corrections[i])] \in Seq(Rows)
    BY <2>5, IsASeq
  <2>7. corrections' \in Seq(Rows)
    BY <2>3, <2>4, <2>6
  <2> QED
    BY <1>1, <2>7 DEF Rows
<1>9. BookInv'
  BY <1>1, <1>2, <1>8 DEF BookInv, NoAsk, NoDraft, Bookmarks
<1> QED
  BY <1>3, <1>4, <1>5, <1>6, <1>7, <1>9 DEF RowsInv


-----------------------------------------------------------------------------
(* What every step keeps                                                    *)

\* The reader's frontier is a completed chapter when a correction is asked for.
LEMMA AskedAtAFrontier ==
    ASSUME EntitiesInv, BookInv, bookmark >= 1, Effective(bookmark) = bookmark
    PROVE  bookmark \in Told
<1>1. bookmark \in Nat /\ Done \in Nat
  BY Basics DEF BookInv, Bookmarks
<1> QED
  BY <1>1 DEF Effective, HighWater, Told

\* A book of which only the bookmark, the draft or the question changes.
LEMMA RowsStay ==
    ASSUME RowsInv, BookInv, UNCHANGED <<rows, told, corrections>>,
           prepared'.names \subseteq People, prepared' # NoDraft => Done < Chapters,
           asked' = NoAsk \/ asked' \in [ent : Ids, at : Told, name : Renames],
           bookmark' \in Bookmarks, passes' \in 0..MaxPasses
    PROVE  RowsInv' /\ BookInv'
<1>1. /\ UNCHANGED <<entity, aliases, edges, states, parts, told, corrections>>
      /\ Ids' = Ids /\ Told' = Told /\ Done' = Done
  BY DEF rows, Ids, Told, Done
<1>2. EntitiesInv'
  BY <1>1 DEF RowsInv, EntitiesInv, EntityRows, Moments, Never, Given
<1>3. AliasesInv'
  BY <1>1 DEF RowsInv, AliasesInv, AliasRows, Spoken, Given
<1>4. EdgesInv'
  BY <1>1 DEF RowsInv, EdgesInv, EdgeRows, Moments, Never
<1>5. StatesInv'
  BY <1>1 DEF RowsInv, StatesInv, StateRows, Moments, Never
<1>6. PartsInv'
  BY <1>1 DEF RowsInv, PartsInv, PartRows
<1>7. BookInv'
  BY <1>1 DEF BookInv, NoAsk, NoDraft, Bookmarks
<1> QED
  BY <1>2, <1>3, <1>4, <1>5, <1>6, <1>7 DEF RowsInv

\* A one-for-one correction that is made keeps the rows and the book.
LEMMA ReplacementKeeps ==
    ASSUME RowsInv, BookInv, NEW e \in Ids, NEW at \in Told, NEW name \in Renames, Replace(e, at, name),
           UNCHANGED <<told, bookmark, passes, prepared>>, asked' = NoAsk \/ asked' = asked
    PROVE  RowsInv' /\ BookInv'
<1>1. name \in Given
  BY DEF Given
<1>2. RowsInv'
  BY <1>1, ReplaceKeeps
<1>3. /\ Correctable({e}, at) /\ entity' = Append(Invalidated({e}, at), Fresh(name, at))
      /\ corrections' = Recorded("replace", at, {e}, {Target}) /\ {e} \in SUBSET Ids
  BY ReplaceWrites
<1>4. EntitiesInv /\ Ids' = Ids \union {Target}
  BY <1>1, <1>3, ReplacedEntities DEF RowsInv
<1>5. BookInv'
  BY <1>3, <1>4, RecordedKeeps
<1> QED
  BY <1>2, <1>5

\* What the operator does keeps them.
LEMMA OperateKeeps ==
    ASSUME RowsInv, BookInv, Operate
    PROVE  RowsInv' /\ BookInv'
<1>0. UNCHANGED <<told, prepared, bookmark, passes, asked>> /\ EntitiesInv /\ DOMAIN entity = Ids
  BY Basics DEF Operate, RowsInv
<1>1. ASSUME NEW e \in Ids, NEW at \in Told, NEW all \in SUBSET (1..2), NEW some \in SUBSET (1..2),
             SplitInTwo(e, at, all, some)
      PROVE  RowsInv' /\ BookInv'
  <2>1. RowsInv' /\ Ids \subseteq Ids' /\ {Half(1), Half(2)} \subseteq Ids'
    BY <1>0, <1>1, SplitKeeps
  <2>2. corrections' = Recorded("split", at, {e}, {Half(1), Half(2)})
    BY <1>1, SplitWrites
  <2>3. BookInv'
    BY <1>0, <2>1, <2>2, RecordedKeeps
  <2> QED
    BY <2>1, <2>3
<1>2. ASSUME NEW at \in Told, NEW ids \in SUBSET Ids, Merge(ids, at, "merged")
      PROVE  RowsInv' /\ BookInv'
  <2>1. RowsInv' /\ Ids' = Ids \union {Target}
    BY <1>0, <1>2, MergeKeeps
  <2>2. corrections' = Recorded("merge", at, ids, {Target})
    BY <1>2, MergeWrites
  <2>3. BookInv'
    BY <1>0, <2>1, <2>2, RecordedKeeps
  <2> QED
    BY <2>1, <2>3
<1>3. \/ \E e \in Ids, at \in Told, all, some \in SUBSET (1..2) : SplitInTwo(e, at, all, some)
      \/ \E at \in Told, e, f \in Ids : Merge({e, f}, at, "merged")
  BY <1>0, Zenon DEF Operate, SplitInTwo, Told
<1>4. CASE \E e \in Ids, at \in Told, all, some \in SUBSET (1..2) : SplitInTwo(e, at, all, some)
  BY <1>1, <1>4
<1>5. CASE \E at \in Told, e, f \in Ids : Merge({e, f}, at, "merged")
  <2>1. PICK at \in Told, e \in Ids, f \in Ids : Merge({e, f}, at, "merged")
    BY <1>5
  <2>2. {e, f} \in SUBSET Ids
    OBVIOUS
  <2> QED
    BY <1>2, <2>1, <2>2
<1> QED
  BY <1>3, <1>4, <1>5

\* A step of the reader's machine keeps them.
LEMMA NextKeeps ==
    ASSUME RowsInv, BookInv, Next
    PROVE  RowsInv' /\ BookInv'
<1>0. /\ EntitiesInv /\ DOMAIN entity = Ids /\ prepared.names \subseteq People
      /\ prepared # NoDraft => Done < Chapters
      /\ asked = NoAsk \/ asked \in [ent : Ids, at : Told, name : Renames]
      /\ bookmark \in Bookmarks /\ passes \in 0..MaxPasses /\ NoDraft.names \subseteq People
      /\ Chapters \in Nat /\ MaxPasses \in Nat
  BY Basics DEF RowsInv, BookInv, NoDraft
<1>1. ASSUME NEW names \in SUBSET People, NEW called, Prepare(names, called) PROVE RowsInv' /\ BookInv'
  BY <1>0, <1>1, RowsStay DEF Prepare
<1>2. CASE Commit
  BY <1>2, CommitKeeps
<1>3. CASE CommitStale
  BY <1>0, <1>3, RowsStay DEF CommitStale
<1>4. CASE CommitFails
  BY <1>0, <1>4, RowsStay DEF CommitFails
<1>5. ASSUME NEW e \in DOMAIN entity, NEW name \in Renames, Ask(e, name) PROVE RowsInv' /\ BookInv'
  <2>1. bookmark \in Told
    BY <1>0, <1>5, AskedAtAFrontier DEF Ask
  <2>2. asked' \in [ent : Ids, at : Told, name : Renames]
    BY <1>0, <1>5, <2>1 DEF Ask
  <2> QED
    BY <1>0, <1>5, <2>2, RowsStay DEF Ask
<1>6. CASE CorrectMemory
  <2>1. PICK e \in Ids, at \in Told, name \in Renames : asked = [ent |-> e, at |-> at, name |-> name]
    BY <1>0, <1>6 DEF CorrectMemory
  <2>2. asked.ent = e /\ asked.at = at /\ asked.name = name
    BY <2>1
  <2>3. /\ asked' = NoAsk /\ UNCHANGED <<told, prepared, bookmark, passes>>
        /\ Replace(e, at, name) \/ UNCHANGED <<rows, corrections>>
    BY <1>6, <2>2 DEF CorrectMemory
  <2>4. CASE Replace(e, at, name)
    BY <2>3, <2>4, ReplacementKeeps
  <2>5. CASE UNCHANGED <<rows, corrections>>
    BY <1>0, <2>3, <2>5, RowsStay
  <2> QED
    BY <2>3, <2>4, <2>5
<1>7. CASE Operate
  BY <1>7, OperateKeeps
<1>8. CASE Read
  <2>1. bookmark' \in Bookmarks
    BY <1>0, <1>8 DEF Read, Bookmarks
  <2> QED
    BY <1>0, <1>8, <2>1, RowsStay DEF Read
<1>9. CASE StartAgain
  <2>1. bookmark' \in Bookmarks /\ passes' \in 0..MaxPasses
    BY <1>0, <1>9 DEF StartAgain, Bookmarks
  <2> QED
    BY <1>0, <1>9, <2>1, RowsStay DEF StartAgain
<1> QED
  BY <1>1, <1>2, <1>3, <1>4, <1>5, <1>6, <1>7, <1>8, <1>9, Zenon DEF Next

\* The correction on the service keeps them.
LEMMA HostedReplaceKeeps ==
    ASSUME RowsInv, BookInv, NEW e \in DOMAIN entity, NEW name \in Renames, HostedReplace(e, bookmark, name)
    PROVE  RowsInv' /\ BookInv'
<1>1. e \in Ids
  BY Basics DEF RowsInv
<1>2. bookmark \in Told /\ Replace(e, bookmark, name)
  BY <1>1, HostedReplaces
<1>3. UNCHANGED <<told, prepared, bookmark, passes, asked>>
  BY DEF HostedReplace
<1> QED
  BY <1>1, <1>2, <1>3, ReplacementKeeps

\* IInv is inductive.
LEMMA InductiveStep == IInv /\ [HostedNext]_hvars => IInv'
<1>1. SUFFICES ASSUME RowsInv, BookInv, [HostedNext]_hvars PROVE RowsInv' /\ BookInv'
  BY DEF IInv
<1>2. CASE Next
  BY <1>1, <1>2, NextKeeps
<1>3. CASE Move
  BY <1>1, <1>3, MoveKeeps
<1>4. ASSUME NEW e \in DOMAIN entity, NEW name \in Renames, HostedReplace(e, bookmark, name)
      PROVE  RowsInv' /\ BookInv'
  BY <1>1, <1>4, HostedReplaceKeeps
<1>5. CASE HostedRead
  <2>1. bookmark' \in Bookmarks
    BY <1>1, <1>5, Basics DEF HostedRead, Bookmarks, BookInv, RowsInv
  <2> QED
    BY <1>1, <1>5, <2>1, RowsStay DEF HostedRead, BookInv
<1>6. CASE StartAgain
  BY <1>1, <1>6, NextKeeps DEF Next
<1>7. CASE UNCHANGED hvars
  <2>1. UNCHANGED <<rows, told, corrections, prepared, asked, bookmark, passes>>
    BY <1>7 DEF hvars, vars
  <2> QED
    BY <1>1, <2>1, RowsStay DEF BookInv
<1> QED
  BY <1>1, <1>2, <1>3, <1>4, <1>5, <1>6, <1>7, Zenon DEF HostedNext

\* So it always holds.
THEOREM HostedInductive == HostedSpec => []IInv
<1>1. HostedInit => IInv
  <2>1. SUFFICES ASSUME HostedInit PROVE IInv
    OBVIOUS
  <2>2. /\ entity = <<>> /\ aliases = {} /\ edges = {} /\ states = {} /\ parts = {} /\ told = <<>>
        /\ prepared = NoDraft /\ corrections = <<>> /\ bookmark = 0 /\ passes = 0 /\ asked = NoAsk
    BY <2>1 DEF HostedInit, Init
  <2>3. EntitiesInv
    BY <2>2 DEF EntitiesInv, Ids
  <2>4. AliasesInv /\ EdgesInv /\ StatesInv /\ PartsInv
    BY <2>2 DEF AliasesInv, EdgesInv, StatesInv, PartsInv
  <2>5. BookInv
    BY <2>2, ChaptersAssumption DEF BookInv, Done, NoDraft, Bookmarks
  <2> QED
    BY <2>3, <2>4, <2>5 DEF IInv, RowsInv
<1> QED
  BY <1>1, InductiveStep, PTL DEF HostedSpec

\* No view of a bookmark, on the reader's machine or on the service, says what a
\* later chapter was the first to say, whatever was committed, corrected, split,
\* merged, started again or moved.
THEOREM SafeViews == HostedSpec => []ViewsAreSafe
<1>1. IInv => ViewsAreSafe
  <2>1. SUFFICES ASSUME RowsInv, BookInv PROVE ViewsAreSafe
    BY DEF IInv
  <2>2. /\ EntitiesInv /\ AliasesInv /\ EdgesInv /\ StatesInv /\ PartsInv /\ DOMAIN entity = Ids
        /\ Done \in Nat /\ Done <= Chapters /\ Chapters \in Nat /\ Never = Chapters + 1
    BY <2>1, Basics DEF RowsInv
  <2>3. TypeOK
    <3>1. \A e \in Ids : entity[e].from < entity[e].to /\ entity[e].to \in Moments
      BY <2>1, <2>2, Basics DEF EntitiesInv, EntityRows
    <3>2. \A r \in edges : r.from < r.to /\ {r.from, r.to} \subseteq Moments
      BY <2>2 DEF EdgesInv, EdgeRows, Told, Moments
    <3>3. \A r \in states : r.from < r.to /\ {r.from, r.to} \subseteq Moments /\ r.ent \in Ids
      BY <2>2 DEF StatesInv, StateRows, Told, Moments
    <3>4. (\A r \in aliases : r.ent \in Ids) /\ (\A r \in parts : r.ent \in Ids)
      BY <2>2 DEF AliasesInv, AliasRows, PartsInv, PartRows
    <3>5. \A k \in DOMAIN told : told[k] \subseteq People
      BY <2>1 DEF BookInv
    <3> QED
      BY <2>1, <2>2, <3>1, <3>2, <3>3, <3>4, <3>5 DEF TypeOK, BookInv
  <2>4. ASSUME NEW b \in Bookmarks
        PROVE  /\ \A e \in Visible(b) :
                    /\ entity[e].ch <= b
                    /\ \A a \in aliases : a.ent = e /\ a.from <= b => a.ch <= b
                    /\ \A r \in State(e, b) : r.ch <= b
                    /\ \A k \in Scenes(e, b) : k <= b
               /\ \A r \in Ties(b) : r.ch <= b
    <3>0. b \in Nat
      BY <2>2 DEF Bookmarks
    <3>1. \A e \in Visible(b) : entity[e].ch <= b
      <4>1. \A e \in Ids : entity[e].ch \in Nat /\ entity[e].from \in Nat /\ entity[e].ch <= entity[e].from
        BY <2>1, <2>2, Basics DEF EntitiesInv, EntityRows
      <4> QED
        BY <2>2, <3>0, <4>1 DEF Visible, Live
    <3>2. \A a \in aliases : a.from <= b => a.ch <= b
      BY <2>2, <3>0 DEF AliasesInv, AliasRows, Told
    <3>3. \A r \in states : r.from <= b => r.ch <= b
      BY <2>2, <3>0 DEF StatesInv, StateRows, Told
    <3>4. \A r \in edges : r.from <= b => r.ch <= b
      BY <2>2, <3>0 DEF EdgesInv, EdgeRows, Told
    <3> QED
      BY <3>1, <3>2, <3>3, <3>4 DEF State, Scenes, Ties, Live
  <2> QED
    BY <2>3, <2>4 DEF ViewsAreSafe, NoSpoiler
<1> QED
  BY <1>1, HostedInductive, PTL


\* A correction on the service is the one the reader's machine would make, row by
\* row, from the chapters read to those ahead.
THEOREM SameOnTheService == HostedSpec => SameCorrection
<1> DEFINE Same == moved /\ Len(corrections') > Len(corrections) =>
                     LET c == corrections'[Len(corrections')] IN
                     \E e \in c.sources, t \in c.targets : Replace(e, c.at, entity'[t].name)
<1>1. IInv /\ [HostedNext]_hvars => [Same]_hvars
  <2>1. SUFFICES ASSUME RowsInv, BookInv, HostedNext, moved, Len(corrections') > Len(corrections)
                 PROVE  LET c == corrections'[Len(corrections')] IN
                        \E e \in c.sources, t \in c.targets : Replace(e, c.at, entity'[t].name)
    BY Zenon DEF IInv
  <2>2. Len(corrections) \in Nat /\ corrections' # corrections
    BY <2>1 DEF BookInv
  <2>3. PICK e \in DOMAIN entity, name \in Renames : HostedReplace(e, bookmark, name)
    <3>1. \/ \E e \in DOMAIN entity, name \in Renames : HostedReplace(e, bookmark, name)
          \/ HostedRead \/ StartAgain
      BY <2>1, Zenon DEF HostedNext, Move
    <3> QED
      BY <2>2, <3>1 DEF HostedRead, StartAgain
  <2>4. e \in Ids /\ EntitiesInv
    BY <2>1, Basics DEF RowsInv
  <2>5. bookmark \in Told /\ Replace(e, bookmark, name)
    BY <2>1, <2>3, <2>4, HostedReplaces
  <2>6. /\ corrections' = Recorded("replace", bookmark, {e}, {Target}) /\ Correctable({e}, bookmark)
        /\ entity' = Append(Invalidated({e}, bookmark), Fresh(name, bookmark)) /\ told' = told
    BY <2>3, <2>5, ReplaceWrites DEF HostedReplace
  <2>7. entity'[Target] = Fresh(name, bookmark)
    BY <2>1, <2>4, <2>5, <2>6, ReplacedEntities DEF Given
  <2>8. entity'[Target].name = name
    BY <2>7 DEF Fresh
  <2>9. PICK c : c = [kind |-> "replace", at |-> bookmark, sources |-> {e}, targets |-> {Target}]
    OBVIOUS
  <2>10. corrections' = Append(corrections, c) /\ c.sources = {e} /\ c.targets = {Target} /\ c.at = bookmark
    BY <2>6, <2>9 DEF Recorded
  <2>11. corrections'[Len(corrections')] = c
    BY <2>10 DEF BookInv
  <2> QED
    BY <2>5, <2>8, <2>10, <2>11
<1>2. HostedSpec => [][Same]_hvars
  BY <1>1, HostedInductive, PTL DEF HostedSpec
<1>3. [][Same]_hvars => SameCorrection
  BY PTL DEF SameCorrection
<1> QED
  BY <1>2, <1>3, PTL

-----------------------------------------------------------------------------
(* The copies, row by row                                                   *)

\* Each form a correction carries is one of the source's, of its own chapter,
LEMMA FormsCarriedAre ==
    ASSUME RowsInv, NEW e, NEW t, NEW at
    PROVE  CarriedForms(e, t, at) =
             {[ent |-> t, form |-> r.form, from |-> r.from, ch |-> r.ch] :
                r \in {a \in aliases : a.ent = e /\ a.from > at}}
<1> DEFINE C(r) == [r EXCEPT !.ent = t]
           L(r) == [ent |-> t, form |-> r.form, from |-> r.from, ch |-> r.ch]
           X == {a \in aliases : a.ent = e /\ a.from > at}
<1>1. CarriedForms(e, t, at) = {C(r) : r \in X}
  BY Zenon DEF CarriedForms
<1>2. \A r \in AliasRows : C(r) = L(r)
  BY AliasRow
<1>3. X \subseteq AliasRows
  BY DEF RowsInv, AliasesInv
<1> HIDE DEF L, C, X
<1>4. {C(r) : r \in X} = {L(r) : r \in X}
  BY <1>2, <1>3
<1>5. CarriedForms(e, t, at) = {L(r) : r \in X}
  BY <1>1, <1>4
<1> QED
  BY <1>5, Zenon DEF L, X

\* each alias it copies one that is known at the frontier, from there on;
LEMMA AliasesCopiedAre ==
    ASSUME RowsInv, NEW ids, NEW t, NEW at
    PROVE  CopiedAliases(ids, t, at) =
             {[ent |-> t, form |-> r.form, from |-> at, ch |-> r.ch] :
                r \in OldAliases(ids, at)}
<1> DEFINE C(r) == [r EXCEPT !.ent = t, !.from = at]
           L(r) == [ent |-> t, form |-> r.form, from |-> at, ch |-> r.ch]
           X == OldAliases(ids, at)
<1>1. CopiedAliases(ids, t, at) = {C(r) : r \in X}
  BY Zenon DEF CopiedAliases
<1>2. \A r \in AliasRows : C(r) = L(r)
  BY AliasRowFrom
<1>3. X \subseteq AliasRows
  BY DEF RowsInv, AliasesInv, OldAliases
<1> HIDE DEF L, C, X
<1>4. {C(r) : r \in X} = {L(r) : r \in X}
  BY <1>2, <1>3
<1>5. CopiedAliases(ids, t, at) = {L(r) : r \in X}
  BY <1>1, <1>4
<1> QED
  BY <1>5, Zenon DEF L, X

\* so each state
LEMMA StatesCopiedAre ==
    ASSUME RowsInv, NEW e, NEW t, NEW at
    PROVE  CopiedStates(e, t, at) =
             {[ent |-> t, from |-> at, to |-> r.to, ch |-> r.ch] :
                r \in State(e, at)}
<1> DEFINE C(r) == [r EXCEPT !.ent = t, !.from = at]
           L(r) == [ent |-> t, from |-> at, to |-> r.to, ch |-> r.ch]
           X == State(e, at)
<1>1. CopiedStates(e, t, at) = {C(r) : r \in X}
  BY Zenon DEF CopiedStates
<1>2. \A r \in StateRows : C(r) = L(r)
  BY StateRow
<1>3. X \subseteq StateRows
  BY DEF RowsInv, StatesInv, State
<1> HIDE DEF L, C, X
<1>4. {C(r) : r \in X} = {L(r) : r \in X}
  BY <1>2, <1>3
<1>5. CopiedStates(e, t, at) = {L(r) : r \in X}
  BY <1>1, <1>4
<1> QED
  BY <1>5, Zenon DEF L, X

\* copied and carried,
LEMMA StatesCarriedAre ==
    ASSUME RowsInv, NEW e, NEW t, NEW at
    PROVE  CarriedStates(e, t, at) =
             {[ent |-> t, from |-> r.from, to |-> r.to, ch |-> r.ch] :
                r \in {s \in states : s.ent = e /\ s.from > at}}
<1> DEFINE C(r) == [r EXCEPT !.ent = t]
           L(r) == [ent |-> t, from |-> r.from, to |-> r.to, ch |-> r.ch]
           X == {s \in states : s.ent = e /\ s.from > at}
<1>1. CarriedStates(e, t, at) = {C(r) : r \in X}
  BY Zenon DEF CarriedStates
<1>2. \A r \in StateRows : C(r) = L(r)
  BY StateRow
<1>3. X \subseteq StateRows
  BY DEF RowsInv, StatesInv
<1> HIDE DEF L, C, X
<1>4. {C(r) : r \in X} = {L(r) : r \in X}
  BY <1>2, <1>3
<1>5. CarriedStates(e, t, at) = {L(r) : r \in X}
  BY <1>1, <1>4
<1> QED
  BY <1>5, Zenon DEF L, X

\* each participation
LEMMA PartsCopiedAre ==
    ASSUME RowsInv, NEW ids, NEW t, NEW at
    PROVE  CopiedParts(ids, t, at) =
             {[event |-> p.event, ent |-> t, from |-> at] :
                p \in OldParts(ids, at)}
<1> DEFINE C(p) == [p EXCEPT !.ent = t, !.from = at]
           L(p) == [event |-> p.event, ent |-> t, from |-> at]
           X == OldParts(ids, at)
<1>1. CopiedParts(ids, t, at) = {C(p) : p \in X}
  BY Zenon DEF CopiedParts
<1>2. \A p \in PartRows : C(p) = L(p)
  BY PartRow
<1>3. X \subseteq PartRows
  BY DEF RowsInv, PartsInv, OldParts
<1> HIDE DEF L, C, X
<1>4. {C(p) : p \in X} = {L(p) : p \in X}
  BY <1>2, <1>3
<1>5. CopiedParts(ids, t, at) = {L(p) : p \in X}
  BY <1>1, <1>4
<1> QED
  BY <1>5, Zenon DEF L, X

\* copied and carried, of the frontier at the earliest,
LEMMA PartsCarriedAre ==
    ASSUME RowsInv, NEW e, NEW t, NEW at
    PROVE  CarriedParts(e, t, at) =
             {[event |-> p.event, ent |-> t, from |-> IF p.from > at THEN p.from ELSE at] :
                p \in {x \in parts : x.ent = e /\ (x.from > at \/ x.event > at)}}
<1> DEFINE C(p) == [p EXCEPT !.ent = t, !.from = IF @ > at THEN @ ELSE at]
           L(p) == [event |-> p.event, ent |-> t, from |-> IF p.from > at THEN p.from ELSE at]
           X == {x \in parts : x.ent = e /\ (x.from > at \/ x.event > at)}
<1>1. CarriedParts(e, t, at) = {C(p) : p \in X}
  BY Zenon DEF CarriedParts
<1>2. \A p \in PartRows : C(p) = L(p)
  BY PartRow
<1>3. X \subseteq PartRows
  BY DEF RowsInv, PartsInv
<1> HIDE DEF L, C, X
<1>4. {C(p) : p \in X} = {L(p) : p \in X}
  BY <1>2, <1>3
<1>5. CarriedParts(e, t, at) = {L(p) : p \in X}
  BY <1>1, <1>4
<1> QED
  BY <1>5, Zenon DEF L, X

\* and each tie that is copied.
LEMMA TiesCopiedAre ==
    ASSUME RowsInv, NEW ids, NEW t, NEW at, NEW ties \in SUBSET edges
    PROVE  CopiedTies(ties, ids, t, at) =
             {[src |-> MovedEnd(r.src, ids, t), dst |-> MovedEnd(r.dst, ids, t), from |-> at, to |-> r.to, ch |-> r.ch] :
                r \in ties}
<1> DEFINE C(r) == [Onto(r, ids, t) EXCEPT !.from = at]
           L(r) == [src |-> MovedEnd(r.src, ids, t), dst |-> MovedEnd(r.dst, ids, t), from |-> at, to |-> r.to, ch |-> r.ch]
           X == ties
<1>1. CopiedTies(ties, ids, t, at) = {C(r) : r \in X}
  BY Zenon DEF CopiedTies
<1>2. \A r \in EdgeRows : C(r) = L(r)
  BY OntoRowFrom
<1>3. X \subseteq EdgeRows
  BY DEF RowsInv, EdgesInv
<1> HIDE DEF L, C, X
<1>4. {C(r) : r \in X} = {L(r) : r \in X}
  BY <1>2, <1>3
<1>5. CopiedTies(ties, ids, t, at) = {L(r) : r \in X}
  BY <1>1, <1>4
<1> QED
  BY <1>5, Zenon DEF L, X

\* A tie carried is of a later chapter than the frontier.
LEMMA TiesCarriedFrom ==
    ASSUME RowsInv, NEW e, NEW t, NEW at, NEW o \in CarriedTies(e, t, at)
    PROVE  \E r \in edges : r.from > at /\ o.from = r.from
<1>1. PICK r \in edges : r.from > at /\ o = Onto(r, {e}, t)
  BY Zenon DEF CarriedTies
<1>2. Onto(r, {e}, t) = [src |-> MovedEnd(r.src, {e}, t), dst |-> MovedEnd(r.dst, {e}, t),
                         from |-> r.from, to |-> r.to, ch |-> r.ch]
  BY OntoRow DEF RowsInv, EdgesInv
<1>3. o.from = r.from
  BY <1>1, <1>2
<1> QED
  BY <1>1, <1>3

-----------------------------------------------------------------------------
(* A write of one moment                                                    *)

\* What a row held before `k`, it holds still.
Kept(new, old, k) == new.to = old.to \/ (k <= new.to /\ k <= old.to)

\* A step writes nothing that holds before `k`.
NotBefore(k) ==
  /\ Ids \subseteq Ids'
  /\ \A e \in Ids : /\ entity'[e].name = entity[e].name /\ entity'[e].from = entity[e].from
                    /\ Kept(entity'[e], entity[e], k)
  /\ \A e \in Ids' \ Ids : k <= entity'[e].from
  /\ aliases \subseteq aliases' /\ \A r \in aliases' \ aliases : k <= r.from
  /\ edges \subseteq edges' /\ \A r \in edges' \ edges : k <= r.from
  /\ parts \subseteq parts' /\ \A r \in parts' \ parts : k <= r.from
  /\ \A r \in states : \E o \in states' : o.ent = r.ent /\ o.from = r.from /\ o.ch = r.ch /\ Kept(o, r, k)
  /\ \A o \in states' : \/ \E r \in states : o.ent = r.ent /\ o.from = r.from /\ o.ch = r.ch /\ Kept(o, r, k)
                        \/ k <= o.from

\* Identities and chapters of rows are numbers.
Numbered ==
  /\ DOMAIN entity = Ids
  /\ \A e \in Ids : entity[e].from \in Nat /\ entity[e].to \in Nat /\ entity[e].ch \in Nat
  /\ \A r \in aliases : r.from \in Nat /\ r.ent \in Ids
  /\ \A r \in edges : r.from \in Nat /\ r.to \in Nat /\ r.src \in Ids /\ r.dst \in Ids
  /\ \A r \in states : r.from \in Nat /\ r.to \in Nat /\ r.ent \in Ids
  /\ \A r \in parts : r.from \in Nat /\ r.event \in Nat /\ r.ent \in Ids

\* They are before a step,
LEMMA Numbers == RowsInv /\ BookInv => Numbered
<1> SUFFICES ASSUME RowsInv, BookInv PROVE Numbered
  OBVIOUS
<1>1. /\ EntitiesInv /\ AliasesInv /\ EdgesInv /\ StatesInv /\ PartsInv /\ DOMAIN entity = Ids
      /\ Done \in Nat /\ Chapters \in Nat /\ Never = Chapters + 1 /\ \A e \in Ids : entity[e] \in EntityRows
  BY Basics DEF RowsInv
<1>2. \A e \in Ids : entity[e].from \in Nat /\ entity[e].to \in Nat /\ entity[e].ch \in Nat
  BY <1>1 DEF EntityRows, Moments
<1>3. \A r \in aliases : r.from \in Nat /\ r.ent \in Ids
  BY <1>1 DEF AliasesInv, AliasRows, Told
<1>4. \A r \in edges : r.from \in Nat /\ r.to \in Nat /\ r.src \in Ids /\ r.dst \in Ids
  BY <1>1 DEF EdgesInv, EdgeRows, Told, Moments
<1>5. \A r \in states : r.from \in Nat /\ r.to \in Nat /\ r.ent \in Ids
  BY <1>1 DEF StatesInv, StateRows, Told, Moments
<1>6. \A r \in parts : r.from \in Nat /\ r.event \in Nat /\ r.ent \in Ids
  BY <1>1 DEF PartsInv, PartRows, Told
<1> QED
  BY <1>1, <1>2, <1>3, <1>4, <1>5, <1>6 DEF Numbered

\* and after it.
LEMMA NumbersAfter == RowsInv' /\ BookInv' => Numbered'
BY Numbers, PTL

\* Then every view of a bookmark before `k` is made of the same rows.
LEMMA EarlierRows ==
    ASSUME RowsInv, BookInv, RowsInv', BookInv', NEW k \in Nat, NotBefore(k), NEW b \in Nat, b < k
    PROVE  /\ Visible(b)' = Visible(b)
           /\ \A e \in Visible(b) : /\ entity'[e].name = entity[e].name
                                    /\ Aliases(e, b)' = Aliases(e, b)
                                    /\ {r.ch : r \in State(e, b)}' = {r.ch : r \in State(e, b)}
                                    /\ Scenes(e, b)' = Scenes(e, b)
           /\ Ties(b)' = Ties(b)
<1>1. /\ DOMAIN entity = Ids
      /\ \A e \in Ids : entity[e].from \in Nat /\ entity[e].to \in Nat
      /\ \A r \in aliases : r.from \in Nat
      /\ \A r \in edges : r.from \in Nat /\ r.to \in Nat
      /\ \A r \in states : r.from \in Nat /\ r.to \in Nat
      /\ \A r \in parts : r.from \in Nat
  BY Numbers DEF Numbered
<1>2. /\ DOMAIN entity' = Ids'
      /\ \A e \in Ids' : entity'[e].from \in Nat /\ entity'[e].to \in Nat
      /\ \A r \in aliases' : r.from \in Nat
      /\ \A r \in edges' : r.from \in Nat /\ r.to \in Nat
      /\ \A r \in states' : r.from \in Nat /\ r.to \in Nat
      /\ \A r \in parts' : r.from \in Nat
  BY NumbersAfter DEF Numbered
<1>3. Visible(b)' = Visible(b)
  <2>1. \A e \in Ids : Live(entity'[e], b) <=> Live(entity[e], b)
    BY <1>1, <1>2 DEF NotBefore, Kept, Live
  <2>2. \A e \in Ids' \ Ids : ~Live(entity'[e], b)
    BY <1>2 DEF NotBefore, Live
  <2>3. Ids \subseteq Ids'
    BY DEF NotBefore
  <2> QED
    BY <1>1, <1>2, <2>1, <2>2, <2>3 DEF Visible
<1>4. ASSUME NEW e \in Visible(b) PROVE entity'[e].name = entity[e].name
  BY <1>1 DEF Visible, NotBefore
<1>5. ASSUME NEW e \in Visible(b) PROVE Aliases(e, b)' = Aliases(e, b)
  <2>1. {r \in aliases' : r.ent = e /\ r.from <= b} = {r \in aliases : r.ent = e /\ r.from <= b}
    BY <1>2 DEF NotBefore
  <2> QED
    BY <2>1 DEF Aliases
<1>6. ASSUME NEW e \in Visible(b) PROVE Scenes(e, b)' = Scenes(e, b)
  <2>1. {p \in parts' : p.ent = e /\ p.event <= b /\ p.from <= b} = {p \in parts : p.ent = e /\ p.event <= b /\ p.from <= b}
    BY <1>2 DEF NotBefore
  <2> QED
    BY <2>1 DEF Scenes
<1>7. ASSUME NEW e \in Visible(b) PROVE {r.ch : r \in State(e, b)}' = {r.ch : r \in State(e, b)}
  <2> DEFINE Same(o, r) == o.ent = r.ent /\ o.from = r.from /\ o.ch = r.ch /\ (Live(o, b) <=> Live(r, b))
  <2>1. \A r \in states : \E o \in states' : Same(o, r)
    BY <1>1, <1>2 DEF NotBefore, Kept, Live
  <2>2. \A o \in states' : Live(o, b) => \E r \in states : Same(o, r)
    BY <1>1, <1>2 DEF NotBefore, Kept, Live
  <2>3. ASSUME NEW r \in State(e, b) PROVE \E o \in State(e, b)' : o.ch = r.ch
    <3>1. r \in states /\ r.ent = e /\ Live(r, b) /\ \A s \in states : s.ent = e /\ Live(s, b) => s.from <= r.from
      BY DEF State
    <3>2. PICK o \in states' : Same(o, r)
      BY <2>1, <3>1
    <3>3. ASSUME NEW p \in states', p.ent = e, Live(p, b) PROVE p.from <= o.from
      <4>1. PICK s \in states : Same(p, s)
        BY <2>2, <3>3
      <4> QED
        BY <3>1, <3>2, <3>3, <4>1
    <3>4. o \in State(e, b)'
      BY <3>1, <3>2, <3>3 DEF State, Live
    <3> QED
      BY <3>2, <3>4
  <2>4. ASSUME NEW o \in State(e, b)' PROVE \E r \in State(e, b) : r.ch = o.ch
    <3>1. o \in states' /\ o.ent = e /\ Live(o, b) /\ \A p \in states' : p.ent = e /\ Live(p, b) => p.from <= o.from
      BY DEF State, Live
    <3>2. PICK r \in states : Same(o, r)
      BY <2>2, <3>1
    <3>3. ASSUME NEW s \in states, s.ent = e, Live(s, b) PROVE s.from <= r.from
      <4>1. PICK p \in states' : Same(p, s)
        BY <2>1
      <4> QED
        BY <3>1, <3>2, <3>3, <4>1
    <3>4. r \in State(e, b)
      BY <3>1, <3>2, <3>3 DEF State
    <3> QED
      BY <3>2, <3>4
  <2> QED
    BY <2>3, <2>4
<1>8. Ties(b)' = Ties(b)
  <2>1. {r \in edges' : Live(r, b)} = {r \in edges : Live(r, b)}
    BY <1>2 DEF NotBefore, Live
  <2> QED
    BY <1>3, <2>1 DEF Ties, Live
<1> QED
  BY <1>3, <1>4, <1>5, <1>6, <1>7, <1>8

\* So is every view of a bookmark before `k`, if what is told of chapters and
\* corrections is the same.
LEMMA EarlierViews ==
    ASSUME RowsInv, BookInv, RowsInv', BookInv', NEW k \in Nat, NotBefore(k), NEW b \in Nat, b < k,
           History(b)' = History(b), {j \in 1..Done : j <= b}' = {j \in 1..Done : j <= b}
    PROVE  View(b)' = View(b)
<1>1. /\ Visible(b)' = Visible(b)
      /\ \A e \in Visible(b) : /\ entity'[e].name = entity[e].name
                               /\ Aliases(e, b)' = Aliases(e, b)
                               /\ {r.ch : r \in State(e, b)}' = {r.ch : r \in State(e, b)}
                               /\ Scenes(e, b)' = Scenes(e, b)
      /\ Ties(b)' = Ties(b)
  BY EarlierRows
<1>2. \A e \in Visible(b) : Card(e, b)' = Card(e, b)
  BY <1>1 DEF Card
<1>3. Cast(b)' = Cast(b)
  BY <1>1, <1>2 DEF Cast
<1>4. Graph(b)' = Graph(b)
  BY <1>1 DEF Graph
<1>5. Timeline(b)' = Timeline(b)
  <2>1. \A j \in 1..b : {entity[e].name : e \in {x \in Visible(b) : j \in Scenes(x, b)}}' =
                        {entity[e].name : e \in {x \in Visible(b) : j \in Scenes(x, b)}}
    BY <1>1
  <2> QED
    BY <2>1 DEF Timeline
<1> QED
  BY <1>3, <1>4, <1>5 DEF View


\* A correction leaves its sources what they were before its frontier.
LEMMA SourcesKept ==
    ASSUME RowsInv, BookInv, NEW ids, NEW at \in Nat, Correctable(ids, at),
           \A x \in Ids : entity'[x] = Closed(ids, at, x)
    PROVE  \A x \in Ids : /\ entity'[x].name = entity[x].name /\ entity'[x].from = entity[x].from
                          /\ Kept(entity'[x], entity[x], at)
<1>1. ASSUME NEW x \in Ids
      PROVE  /\ entity'[x].name = entity[x].name /\ entity'[x].from = entity[x].from
             /\ Kept(entity'[x], entity[x], at)
  <2>1. entity'[x] = Closed(ids, at, x)
    OBVIOUS
  <2>2. /\ Closed(ids, at, x).name = entity[x].name /\ Closed(ids, at, x).from = entity[x].from
        /\ x \in ids => Closed(ids, at, x).to = at
        /\ x \notin ids => Closed(ids, at, x).to = entity[x].to
    BY ClosedRow DEF RowsInv
  <2>3. x \in ids => at < entity[x].to /\ entity[x].to \in Nat
    BY Numbers DEF Correctable, Numbered
  <2> QED
    BY <2>1, <2>2, <2>3 DEF Kept
<1> QED
  BY <1>1

\* What the corrections told before it are.
LEMMA HistoryKept ==
    ASSUME BookInv, EntitiesInv, NEW kind, NEW at \in Nat, NEW ids, NEW targets, told' = told,
           corrections' = Recorded(kind, at, ids, targets)
    PROVE  /\ Len(corrections') = Len(corrections) + 1 /\ corrections'[Len(corrections')].at = at
           /\ corrections'[Len(corrections')].kind = kind
           /\ corrections'[Len(corrections')].sources = ids /\ corrections'[Len(corrections')].targets = targets
           /\ \A i \in DOMAIN corrections : corrections'[i] = corrections[i]
           /\ \A b \in Nat : b < at => /\ History(b)' = History(b)
                                       /\ {j \in 1..Done : j <= b}' = {j \in 1..Done : j <= b}
<1>1. PICK c : c = [kind |-> kind, at |-> at, sources |-> ids, targets |-> targets]
  OBVIOUS
<1>2. PICK n \in Nat : n = Len(corrections) /\ DOMAIN corrections = 1..n
  BY DEF BookInv
<1>3. /\ corrections' = Append(corrections, c) /\ Len(corrections') = n + 1 /\ DOMAIN corrections' = 1..(n + 1)
      /\ corrections'[n + 1] = c /\ \A i \in 1..n : corrections'[i] = corrections[i]
  BY <1>1, <1>2 DEF Recorded, BookInv
<1>4. ASSUME NEW b \in Nat, b < at PROVE History(b)' = History(b)
  <2>1. c.at = at
    BY <1>1
  <2>2. \A i \in 1..(n + 1) : corrections'[i].at <= b => i \in 1..n
    BY <1>3, <1>4, <2>1
  <2>3. 1..n \subseteq 1..(n + 1)
    BY <1>2
  <2> QED
    BY <1>2, <1>3, <2>2, <2>3 DEF History
<1>5. Done' = Done
  BY DEF Done
<1> QED
  BY <1>1, <1>2, <1>3, <1>4, <1>5

\* A one-for-one correction writes nothing that holds before its frontier.
LEMMA ReplaceIsLocal ==
    ASSUME RowsInv, BookInv, NEW e \in Ids, NEW at \in Told, NEW name \in Given,
           Replace(e, at, name), told' = told
    PROVE  NotBefore(at)
<1>0. EntitiesInv /\ AliasesInv /\ {e} \in SUBSET Ids /\ at \in Nat
  BY Basics DEF RowsInv, Told
<1>1. /\ Correctable({e}, at)
      /\ entity' = Append(Invalidated({e}, at), Fresh(name, at))
      /\ aliases' = aliases \union CopiedForms({e}, Target, at, name) \union CarriedForms(e, Target, at)
      /\ edges' = edges \union CopiedTies(OldTies({e}, at), {e}, Target, at) \union CarriedTies(e, Target, at)
      /\ states' = states \union CopiedStates(e, Target, at) \union CarriedStates(e, Target, at)
      /\ parts' = parts \union CopiedParts({e}, Target, at) \union CarriedParts(e, Target, at)
  BY ReplaceWrites
<1>2. /\ Ids' = Ids \union {Target} /\ Target \notin Ids
      /\ \A x \in Ids : entity'[x] = Closed({e}, at, x)
      /\ entity'[Target] = Fresh(name, at)
  BY <1>0, <1>1, ReplacedEntities
<1>3. \A x \in Ids : /\ entity'[x].name = entity[x].name /\ entity'[x].from = entity[x].from
                     /\ Kept(entity'[x], entity[x], at)
  BY <1>0, <1>1, <1>2, SourcesKept
<1>4. \A x \in Ids' \ Ids : at <= entity'[x].from
  BY <1>0, <1>2 DEF Fresh
<1>5. \A r \in aliases' \ aliases : at <= r.from
  <2>1. ASSUME NEW r \in CopiedForms({e}, Target, at, name) PROVE at <= r.from
    <3>1. r \in [ent : {Target}, form : Spoken, from : {at}, ch : 1..at]
      BY <1>0, <1>1, FormsCopied
    <3> QED
      BY <1>0, <3>1
  <2>2. \A r \in CarriedForms(e, Target, at) : at <= r.from
    <3>1. CarriedForms(e, Target, at) = {[ent |-> Target, form |-> r.form, from |-> r.from, ch |-> r.ch] :
                                           r \in {a \in aliases : a.ent = e /\ a.from > at}}
      BY FormsCarriedAre
    <3> QED
      BY <1>0, <3>1, Numbers DEF Numbered
  <2> QED
    BY <1>1, <2>1, <2>2
<1>6. \A r \in edges' \ edges : at <= r.from
  <2>0. OldTies({e}, at) \in SUBSET edges
    BY DEF OldTies, Ties
  <2>1. \A r \in CopiedTies(OldTies({e}, at), {e}, Target, at) : at <= r.from
    BY <1>0, <2>0, TiesCopiedAre
  <2>2. \A r \in CarriedTies(e, Target, at) : at <= r.from
    <3>1. \A r \in edges : r.from \in Nat
      BY Numbers DEF Numbered
    <3>2. ASSUME NEW o \in CarriedTies(e, Target, at) PROVE at <= o.from
      <4>1. \E r \in edges : r.from > at /\ o.from = r.from
        BY <3>2, TiesCarriedFrom
      <4> QED
        BY <1>0, <3>1, <4>1
    <3> QED
      BY <3>2
  <2> QED
    BY <1>1, <2>1, <2>2
<1>7. \A r \in parts' \ parts : at <= r.from
  <2>1. \A r \in CopiedParts({e}, Target, at) : at <= r.from
    BY <1>0, PartsCopiedAre
  <2>2. \A r \in CarriedParts(e, Target, at) : at <= r.from
    BY <1>0, PartsCarriedAre, Numbers DEF Numbered
  <2> QED
    BY <1>1, <2>1, <2>2
<1>8. \A o \in states' : o \in states \/ at <= o.from
  <2>1. \A r \in CopiedStates(e, Target, at) : at <= r.from
    BY <1>0, StatesCopiedAre
  <2>2. \A r \in CarriedStates(e, Target, at) : at <= r.from
    BY <1>0, StatesCarriedAre, Numbers DEF Numbered
  <2> QED
    BY <1>1, <2>1, <2>2
<1> QED
  BY <1>1, <1>2, <1>3, <1>4, <1>5, <1>6, <1>7, <1>8 DEF NotBefore, Kept

\* States that stay are kept.
LEMMA SameStates ==
    ASSUME states' = states, NEW k
    PROVE  /\ \A r \in states : \E o \in states' : o.ent = r.ent /\ o.from = r.from /\ o.ch = r.ch /\ Kept(o, r, k)
           /\ \A o \in states' : \/ \E r \in states : o.ent = r.ent /\ o.from = r.from /\ o.ch = r.ch /\ Kept(o, r, k)
                                 \/ k <= o.from
BY DEF Kept

\* Nor does a split,
LEMMA SplitIsLocal ==
    ASSUME RowsInv, BookInv, NEW e \in Ids, NEW at \in Told, NEW all \in SUBSET (1..2), NEW some \in SUBSET (1..2),
           SplitInTwo(e, at, all, some), told' = told
    PROVE  NotBefore(at)
<1>0. EntitiesInv /\ {e} \in SUBSET Ids /\ at \in Nat
  BY Basics DEF RowsInv, Told
<1>1. /\ Correctable({e}, at)
      /\ entity' = Invalidated({e}, at) \o <<Fresh("split", at), Fresh("split", at)>>
      /\ aliases' = aliases \union SplitForms(e, at, all)
      /\ edges' = edges \union SplitTies(e, at, some)
      /\ parts' = parts \union SplitParts(e, at, all)
      /\ states' = states
  BY SplitWrites
<1>2. /\ Ids \subseteq Ids' /\ \A x \in Ids' \ Ids : entity'[x].from = at
      /\ \A x \in Ids : entity'[x] = Closed({e}, at, x)
  BY SplitKeeps
<1>3. \A x \in Ids : /\ entity'[x].name = entity[x].name /\ entity'[x].from = entity[x].from
                     /\ Kept(entity'[x], entity[x], at)
  BY <1>0, <1>1, <1>2, SourcesKept
<1>5. \A r \in SplitForms(e, at, all) : r.from = at
  <2>1. \A i : \A r \in CopiedAliases({e}, Half(i), at) : r.from = at
    BY AliasesCopiedAre
  <2> QED
    BY <2>1 DEF SplitForms
<1>6. \A r \in SplitTies(e, at, some) : r.from = at
  <2>1. OldTies({e}, at) \in SUBSET edges
    BY DEF OldTies, Ties
  <2>2. \A i : \A r \in CopiedTies(OldTies({e}, at), {e}, Half(i), at) : r.from = at
    BY <2>1, TiesCopiedAre
  <2> QED
    BY <2>2 DEF SplitTies
<1>7. \A r \in SplitParts(e, at, all) : r.from = at
  <2>1. \A i : \A r \in CopiedParts({e}, Half(i), at) : r.from = at
    BY PartsCopiedAre
  <2> QED
    BY <2>1 DEF SplitParts
<1> QED
  <2>1. Ids \subseteq Ids' /\ \A x \in Ids' \ Ids : at <= entity'[x].from
    BY <1>0, <1>2
  <2>2. aliases \subseteq aliases' /\ \A r \in aliases' \ aliases : at <= r.from
    BY <1>0, <1>1, <1>5
  <2>3. edges \subseteq edges' /\ \A r \in edges' \ edges : at <= r.from
    BY <1>0, <1>1, <1>6
  <2>4. parts \subseteq parts' /\ \A r \in parts' \ parts : at <= r.from
    BY <1>0, <1>1, <1>7
  <2> QED
    BY <1>1, <1>3, <2>1, <2>2, <2>3, <2>4, SameStates DEF NotBefore

\* nor a merge,
LEMMA MergeIsLocal ==
    ASSUME RowsInv, BookInv, NEW ids \in SUBSET Ids, NEW at \in Told, Merge(ids, at, "merged"), told' = told
    PROVE  NotBefore(at)
<1>0. EntitiesInv /\ AliasesInv /\ at \in Nat /\ "merged" \in Given
  BY Basics DEF RowsInv, Told, Given
<1>1. /\ Correctable(ids, at)
      /\ entity' = Append(Invalidated(ids, at), Fresh("merged", at))
      /\ aliases' = aliases \union CopiedForms(ids, Target, at, "merged")
      /\ parts' = parts \union CopiedParts(ids, Target, at)
      /\ states' = states
  BY MergeWrites
<1>2. /\ Ids' = Ids \union {Target} /\ Target \notin Ids
      /\ \A x \in Ids : entity'[x] = Closed(ids, at, x)
      /\ entity'[Target] = Fresh("merged", at)
  BY <1>0, <1>1, ReplacedEntities
<1>3. \A x \in Ids : /\ entity'[x].name = entity[x].name /\ entity'[x].from = entity[x].from
                     /\ Kept(entity'[x], entity[x], at)
  BY <1>0, <1>1, <1>2, SourcesKept
<1>4. \A x \in Ids' \ Ids : at <= entity'[x].from
  BY <1>0, <1>2 DEF Fresh
<1>5. \A r \in aliases' \ aliases : at <= r.from
  BY <1>0, <1>1, FormsCopied
<1>6. edges \subseteq edges' /\ \A r \in edges' \ edges : at <= r.from
  <2>1. PICK ties \in SUBSET OldTies(ids, at) : edges' = edges \union CopiedTies(ties, ids, Target, at)
    BY MergeWrites
  <2>2. ties \in SUBSET edges
    BY DEF OldTies, Ties
  <2>3. \A r \in CopiedTies(ties, ids, Target, at) : r.from = at
    BY <2>2, TiesCopiedAre
  <2> QED
    BY <1>0, <2>1, <2>3
<1>7. \A r \in CopiedParts(ids, Target, at) : r.from = at
  BY PartsCopiedAre
<1> QED
  <2>1. Ids \subseteq Ids'
    BY <1>2
  <2>2. aliases \subseteq aliases'
    BY <1>1
  <2>3. parts \subseteq parts' /\ \A r \in parts' \ parts : at <= r.from
    BY <1>0, <1>1, <1>7
  <2> QED
    BY <1>1, <1>3, <1>4, <1>5, <1>6, <2>1, <2>2, <2>3, SameStates DEF NotBefore

\* nor, before its own chapter, the commit of a chapter.
LEMMA CommitIsLocal ==
    ASSUME RowsInv, BookInv, Commit
    PROVE  NotBefore(Coming) /\ Coming = Done + 1 /\ Done \in Nat /\ Done' = Done + 1 /\ corrections' = corrections
<1>0. EntitiesInv /\ Done \in Nat
  BY Basics DEF RowsInv
<1>1. /\ Ids \subseteq Ids' /\ Coming \in Nat /\ Coming = Done + 1 /\ Done' = Done + 1
      /\ \A e \in Ids : entity'[e] = entity[e]
      /\ \A e \in Ids' \ Ids : entity'[e].from = Coming
  BY <1>0, EntitiesAdded
<1>2. /\ \A o \in states' : \/ \E r \in states : o.ent = r.ent /\ o.from = r.from /\ o.ch = r.ch
                                                 /\ (o.to = r.to \/ (o.to = Coming /\ Coming < r.to))
                            \/ o.from = Coming
      /\ \A r \in states : \E o \in states' : o.ent = r.ent /\ o.from = r.from /\ o.ch = r.ch
                                              /\ (o.to = r.to \/ (o.to = Coming /\ Coming < r.to))
  BY StatesAdded
<1>3. /\ \A o \in states' : \/ \E r \in states : o.ent = r.ent /\ o.from = r.from /\ o.ch = r.ch /\ Kept(o, r, Coming)
                            \/ Coming <= o.from
      /\ \A r \in states : \E o \in states' : o.ent = r.ent /\ o.from = r.from /\ o.ch = r.ch /\ Kept(o, r, Coming)
  BY <1>1, <1>2, Numbers DEF Kept, Numbered
<1>4. aliases \subseteq aliases' /\ \A r \in aliases' \ aliases : r.from = Coming
  <2>1. aliases' = aliases \union
          UNION {{[ent |-> IdOf[n], form |-> f, from |-> Coming, ch |-> Coming] :
                    f \in Noted(prepared, n, n \in Strangers)} : n \in prepared.names}
    BY CommitWrites
  <2> QED
    BY <2>1
<1>5. edges \subseteq edges' /\ \A r \in edges' \ edges : r.from = Coming
  <2>1. edges' = edges \union
          {[src |-> IdOf[x[1]], dst |-> IdOf[x[2]], from |-> Coming, to |-> Never, ch |-> Coming] :
             x \in {y \in prepared.names \X prepared.names : y[1] # y[2] /\ IdOf[y[1]] <= IdOf[y[2]]}}
    BY CommitWrites
  <2> QED
    BY <2>1
<1>6. parts \subseteq parts' /\ \A r \in parts' \ parts : r.from = Coming
  <2>1. parts' = parts \union {[event |-> Coming, ent |-> e, from |-> Coming] : e \in Present}
    BY CommitWrites
  <2> QED
    BY <2>1
<1> QED
  <2>1. \A e \in Ids : /\ entity'[e].name = entity[e].name /\ entity'[e].from = entity[e].from
                       /\ Kept(entity'[e], entity[e], Coming)
    BY <1>1 DEF Kept
  <2>2. \A e \in Ids' \ Ids : Coming <= entity'[e].from
    BY <1>1
  <2>3. \A r \in aliases' \ aliases : Coming <= r.from
    BY <1>1, <1>4
  <2>4. \A r \in edges' \ edges : Coming <= r.from
    BY <1>1, <1>5
  <2>5. \A r \in parts' \ parts : Coming <= r.from
    BY <1>1, <1>6
  <2>6. NotBefore(Coming)
    BY <1>1, <1>3, <1>4, <1>5, <1>6, <2>1, <2>2, <2>3, <2>4, <2>5 DEF NotBefore
  <2> QED
    BY <1>0, <1>1, <2>6 DEF Commit

-----------------------------------------------------------------------------
(* A correction is local                                                    *)

\* What a step of the book may be, as far as its rows go.
LEMMA StepsAre ==
    ASSUME RowsInv, BookInv, [HostedNext]_hvars
    PROVE  \/ UNCHANGED <<rows, told, corrections>>
           \/ Move
           \/ Commit
           \/ told' = told /\ \E e \in Ids, at \in Told, name \in Renames : Replace(e, at, name)
           \/ told' = told /\ \E e \in Ids, at \in Told, all, some \in SUBSET (1..2) : SplitInTwo(e, at, all, some)
           \/ told' = told /\ \E ids \in SUBSET Ids, at \in Told : Merge(ids, at, "merged")
<1>0. /\ EntitiesInv /\ DOMAIN entity = Ids
      /\ asked = NoAsk \/ asked \in [ent : Ids, at : Told, name : Renames]
  BY Basics DEF RowsInv, BookInv
<1>1. ASSUME NEW names, NEW called, Prepare(names, called) PROVE UNCHANGED <<rows, told, corrections>>
  BY <1>1 DEF Prepare
<1>2. CASE CommitStale \/ CommitFails \/ Read \/ StartAgain \/ HostedRead
  BY <1>2 DEF CommitStale, CommitFails, Read, StartAgain, HostedRead
<1>3. ASSUME NEW e, NEW name, Ask(e, name) PROVE UNCHANGED <<rows, told, corrections>>
  BY <1>3 DEF Ask
<1>4. CASE CorrectMemory
  <2>1. PICK e \in Ids, at \in Told, name \in Renames : asked = [ent |-> e, at |-> at, name |-> name]
    BY <1>0, <1>4 DEF CorrectMemory
  <2>2. asked.ent = e /\ asked.at = at /\ asked.name = name
    BY <2>1
  <2>3. told' = told /\ (Replace(e, at, name) \/ UNCHANGED <<rows, corrections>>)
    BY <1>4, <2>2 DEF CorrectMemory
  <2> QED
    BY <2>3
<1>5. CASE Operate
  <2>1. \/ \E e \in Ids, at \in Told, all, some \in SUBSET (1..2) : SplitInTwo(e, at, all, some)
        \/ \E at \in Told, e, f \in Ids : Merge({e, f}, at, "merged")
    BY <1>0, <1>5, Zenon DEF Operate, SplitInTwo, Told
  <2>2. told' = told
    BY <1>5 DEF Operate
  <2>3. CASE \E at \in Told, e, f \in Ids : Merge({e, f}, at, "merged")
    <3>1. PICK at \in Told, e \in Ids, f \in Ids : Merge({e, f}, at, "merged")
      BY <2>3
    <3>2. {e, f} \in SUBSET Ids
      OBVIOUS
    <3> QED
      BY <2>2, <3>1, <3>2
  <2> QED
    BY <2>1, <2>2, <2>3
<1>7. ASSUME NEW e \in DOMAIN entity, NEW name \in Renames, HostedReplace(e, bookmark, name)
      PROVE  told' = told /\ \E x \in Ids, at \in Told, n \in Renames : Replace(x, at, n)
  <2>1. e \in Ids /\ told' = told
    BY <1>0, <1>7 DEF HostedReplace
  <2>2. bookmark \in Told /\ Replace(e, bookmark, name)
    BY <1>0, <1>7, <2>1, HostedReplaces
  <2> QED
    BY <2>1, <2>2
<1>8. CASE UNCHANGED hvars
  BY <1>8 DEF hvars, vars
<1>10. CASE Next
  BY <1>1, <1>2, <1>3, <1>4, <1>5, <1>10, Zenon DEF Next
<1> QED
  BY <1>2, <1>7, <1>8, <1>10, Zenon DEF HostedNext

\* The move makes no correction.
LEMMA MoveCorrectsNothing ==
    ASSUME RowsInv, BookInv, Move
    PROVE  told' = told /\ Len(corrections') = Len(corrections)
<1>1. told' = told /\ corrections' = MovedCorrections
  BY DEF Move
<1>2. PICK n \in Nat : n = Len(corrections) /\ DOMAIN corrections = 1..n
  BY DEF BookInv
<1>3. BookInv'
  BY MoveKeeps
<1>4. DOMAIN corrections' = 1..n
  BY <1>1, <1>2 DEF MovedCorrections
<1>5. PICK m \in Nat : m = Len(corrections') /\ DOMAIN corrections' = 1..m
  BY <1>3 DEF BookInv
<1>6. m = n
  BY <1>4, <1>5
<1> QED
  BY <1>1, <1>2, <1>5, <1>6

\* A recorded correction that writes nothing before its frontier changes no
\* earlier view,
LEMMA CorrectionKeepsEarlier ==
    ASSUME RowsInv, BookInv, RowsInv', BookInv', told' = told, NEW kind, NEW at \in Told, NEW ids, NEW targets,
           corrections' = Recorded(kind, at, ids, targets), NotBefore(at)
    PROVE  EarlierViewsKept
<1>0. EntitiesInv /\ at \in Nat /\ Chapters \in Nat
  BY Basics DEF RowsInv, Told
<1>1. /\ corrections'[Len(corrections')].at = at
      /\ \A b \in Nat : b < at => /\ History(b)' = History(b)
                                  /\ {j \in 1..Done : j <= b}' = {j \in 1..Done : j <= b}
  BY <1>0, HistoryKept
<1>2. ASSUME NEW b \in Bookmarks, b < at PROVE View(b)' = View(b)
  <2>1. b \in Nat
    BY <1>0 DEF Bookmarks
  <2> QED
    BY <1>0, <1>1, <1>2, <2>1, EarlierViews
<1> QED
  BY <1>1, <1>2 DEF EarlierViewsKept

\* nor does a commit.
LEMMA CommitKeepsEarlier ==
    ASSUME RowsInv, BookInv, Commit
    PROVE  EarlierViewsKept /\ Len(corrections') = Len(corrections)
<1>1. /\ NotBefore(Coming) /\ Coming = Done + 1 /\ Done \in Nat /\ Done' = Done + 1 /\ corrections' = corrections
      /\ RowsInv' /\ BookInv'
  BY CommitIsLocal, CommitKeeps
<1>2. ASSUME NEW b \in 0..Done PROVE View(b)' = View(b)
  <2>1. b \in Nat /\ b < Coming /\ Coming \in Nat
    BY <1>1
  <2>2. History(b)' = History(b)
    BY <1>1 DEF History
  <2>3. {j \in 1..Done : j <= b}' = {j \in 1..Done : j <= b}
    BY <1>1, <2>1
  <2> QED
    BY <1>1, <2>1, <2>2, <2>3, EarlierViews
<1>3. ~(Len(corrections') > Len(corrections)) /\ Len(corrections') = Len(corrections)
  BY <1>1 DEF BookInv
<1> QED
  BY <1>2, <1>3 DEF EarlierViewsKept

\* No step changes the view of a bookmark before what it writes of.
LEMMA StepsKeepEarlier ==
    ASSUME RowsInv, BookInv, [HostedNext]_hvars, RowsInv', BookInv'
    PROVE  EarlierViewsKept
<1>0. EntitiesInv /\ Len(corrections) \in Nat
  BY DEF RowsInv, BookInv
<1>1. CASE UNCHANGED <<rows, told, corrections>> \/ Move
  <2>1. told' = told /\ Len(corrections') = Len(corrections)
    BY <1>1, MoveCorrectsNothing
  <2> QED
    BY <1>0, <2>1 DEF EarlierViewsKept
<1>2. CASE Commit
  BY <1>2, CommitKeepsEarlier
<1>3. ASSUME told' = told, NEW e \in Ids, NEW at \in Told, NEW name \in Renames, Replace(e, at, name)
      PROVE  EarlierViewsKept
  <2>1. name \in Given /\ corrections' = Recorded("replace", at, {e}, {Target})
    BY <1>3, ReplaceWrites DEF Given
  <2>2. NotBefore(at)
    BY <1>3, <2>1, ReplaceIsLocal
  <2> QED
    BY <1>3, <2>1, <2>2, CorrectionKeepsEarlier
<1>4. ASSUME told' = told, NEW e \in Ids, NEW at \in Told, NEW all \in SUBSET (1..2), NEW some \in SUBSET (1..2),
             SplitInTwo(e, at, all, some)
      PROVE  EarlierViewsKept
  <2>1. corrections' = Recorded("split", at, {e}, {Half(1), Half(2)})
    BY <1>4, SplitWrites
  <2>2. NotBefore(at)
    BY <1>4, SplitIsLocal
  <2> QED
    BY <1>4, <2>1, <2>2, CorrectionKeepsEarlier
<1>5. ASSUME told' = told, NEW ids \in SUBSET Ids, NEW at \in Told, Merge(ids, at, "merged")
      PROVE  EarlierViewsKept
  <2>1. corrections' = Recorded("merge", at, ids, {Target})
    BY <1>5, MergeWrites
  <2>2. NotBefore(at)
    BY <1>5, MergeIsLocal
  <2> QED
    BY <1>5, <2>1, <2>2, CorrectionKeepsEarlier
<1> QED
  BY <1>1, <1>2, <1>3, <1>4, <1>5, StepsAre


-----------------------------------------------------------------------------
(* A one-for-one correction renames                                         *)

\* The identity `e` is replaced by `t` at the frontier `at`, seen from `b`.
Renaming(e, at, name, t, b) ==
  /\ RowsInv /\ BookInv /\ RowsInv' /\ BookInv' /\ told' = told
  /\ e \in Ids /\ at \in Told /\ name \in Given /\ Replace(e, at, name)
  /\ t = Target /\ b \in Nat /\ at <= b /\ b <= Chapters

\* Which identities there are then.
LEMMA RenamedRows ==
    ASSUME NEW e, NEW at, NEW name, NEW t, NEW b, Renaming(e, at, name, t, b)
    PROVE  /\ Ids' = Ids \union {t} /\ t \notin Ids /\ at \in Nat /\ DOMAIN entity = Ids /\ DOMAIN entity' = Ids'
           /\ \A x \in Ids \ {e} : entity'[x] = entity[x]
           /\ entity'[e].to = at /\ entity'[t].name = name /\ entity'[t].from = at /\ entity'[t].to = Never
           /\ entity[e].from \in Nat /\ entity[e].from < at /\ at < entity[e].to /\ Chapters \in Nat /\ Never = Chapters + 1
<1>1. RowsInv /\ BookInv /\ EntitiesInv /\ e \in Ids /\ at \in Told /\ Replace(e, at, name) /\ {e} \in SUBSET Ids
      /\ name \in Given /\ told' = told /\ t = Target /\ b \in Nat /\ b <= Chapters
  BY DEF Renaming, RowsInv
<1>2. Correctable({e}, at) /\ entity' = Append(Invalidated({e}, at), Fresh(name, at))
  BY <1>1, ReplaceWrites
<1>3. /\ Ids' = Ids \union {t} /\ t \notin Ids
      /\ \A x \in Ids : entity'[x] = Closed({e}, at, x)
      /\ entity'[t] = Fresh(name, at)
  BY <1>1, <1>2, ReplacedEntities
<1>4. at \in Nat /\ Chapters \in Nat /\ Never = Chapters + 1 /\ DOMAIN entity = Ids /\ entity[e].from \in Nat
  BY <1>1, Basics, Numbers DEF Told, Numbered
<1>5. DOMAIN entity' = Ids'
  BY NumbersAfter DEF Numbered, Renaming
<1>6. entity'[e].to = at
  <2>1. Closed({e}, at, e).to = at
    BY <1>1, ClosedRow
  <2> QED
    BY <1>1, <1>3, <2>1
<1>7. entity'[t].name = name /\ entity'[t].from = at /\ entity'[t].to = Never
  BY <1>3 DEF Fresh
<1>8. \A x \in Ids \ {e} : entity'[x] = entity[x]
  BY <1>3 DEF Closed
<1>9. entity[e].from < at /\ at < entity[e].to
  BY <1>2 DEF Correctable
<1> QED
  BY <1>3, <1>4, <1>5, <1>6, <1>7, <1>8, <1>9

\* Whom a bookmark from the frontier on shows: the target instead of the source.
LEMMA RenamedVisible ==
    ASSUME NEW e, NEW at, NEW name, NEW t, NEW b, Renaming(e, at, name, t, b)
    PROVE  Visible(b)' = (Visible(b) \ {e}) \union {t}
<1>1. /\ Ids' = Ids \union {t} /\ t \notin Ids /\ at \in Nat /\ DOMAIN entity = Ids /\ DOMAIN entity' = Ids'
      /\ \A x \in Ids \ {e} : entity'[x] = entity[x]
      /\ entity'[e].to = at /\ entity'[t].name = name /\ entity'[t].from = at /\ entity'[t].to = Never
      /\ Chapters \in Nat /\ Never = Chapters + 1
  BY RenamedRows
<1>2. b \in Nat /\ at <= b /\ b <= Chapters /\ e \in Ids
  BY DEF Renaming
<1>3. Live(entity'[t], b) /\ ~Live(entity'[e], b)
  BY <1>1, <1>2 DEF Live
<1>4. \A x \in Ids \ {e} : Live(entity'[x], b) <=> Live(entity[x], b)
  BY <1>1
<1>5. Visible(b)' = {x \in Ids' : Live(entity'[x], b)}
  BY <1>1 DEF Visible, Live
<1>6. Visible(b) = {x \in Ids : Live(entity[x], b)}
  BY <1>1 DEF Visible
<1> QED
  BY <1>1, <1>2, <1>3, <1>4, <1>5, <1>6

\* Who is not the source has the rows that it had.
LEMMA OthersStay ==
    ASSUME NEW e, NEW at, NEW name, NEW t, NEW b, Renaming(e, at, name, t, b), NEW x \in Ids \ {e}
    PROVE  Card(x, b)' = Card(x, b)
<1>0. RowsInv /\ BookInv /\ at \in Nat /\ Replace(e, at, name) /\ t = Target /\ t \notin Ids /\ entity'[x] = entity[x]
      /\ EntitiesInv /\ AliasesInv /\ {e} \in SUBSET Ids /\ at \in Told
  BY RenamedRows DEF Renaming, RowsInv
<1>1. /\ aliases' = aliases \union CopiedForms({e}, t, at, name) \union CarriedForms(e, t, at)
      /\ states' = states \union CopiedStates(e, t, at) \union CarriedStates(e, t, at)
      /\ parts' = parts \union CopiedParts({e}, t, at) \union CarriedParts(e, t, at)
      /\ Correctable({e}, at)
  BY <1>0, ReplaceWrites
<1>2. {r \in aliases' : r.ent = x} = {r \in aliases : r.ent = x}
  <2>1. ASSUME NEW r \in CopiedForms({e}, t, at, name) PROVE r.ent = t
    <3>1. r \in [ent : {t}, form : Spoken, from : {at}, ch : 1..at]
      BY <1>0, <1>1, <2>1, FormsCopied
    <3> QED
      BY <3>1
  <2>2. \A r \in CarriedForms(e, t, at) : r.ent = t
    BY <1>0, FormsCarriedAre
  <2> QED
    BY <1>0, <1>1, <2>1, <2>2
<1>3. {r \in states' : r.ent = x} = {r \in states : r.ent = x}
  <2>1. \A r \in CopiedStates(e, t, at) : r.ent = t
    BY <1>0, StatesCopiedAre
  <2>2. \A r \in CarriedStates(e, t, at) : r.ent = t
    BY <1>0, StatesCarriedAre
  <2> QED
    BY <1>0, <1>1, <2>1, <2>2
<1>4. {r \in parts' : r.ent = x} = {r \in parts : r.ent = x}
  <2>1. \A r \in CopiedParts({e}, t, at) : r.ent = t
    BY <1>0, PartsCopiedAre
  <2>2. \A r \in CarriedParts(e, t, at) : r.ent = t
    BY <1>0, PartsCarriedAre
  <2> QED
    BY <1>0, <1>1, <2>1, <2>2
<1>5. Aliases(x, b)' = Aliases(x, b)
  <2>1. {r \in aliases' : r.ent = x /\ r.from <= b} = {r \in aliases : r.ent = x /\ r.from <= b}
    BY <1>2
  <2> QED
    BY <2>1 DEF Aliases
<1>6. State(x, b)' = State(x, b)
  <2>1. {r \in states' : r.ent = x /\ Live(r, b)} = {r \in states : r.ent = x /\ Live(r, b)}
    BY <1>3
  <2> QED
    BY <2>1 DEF State, Live
<1>7. Scenes(x, b)' = Scenes(x, b)
  <2>1. {p \in parts' : p.ent = x /\ p.event <= b /\ p.from <= b} = {p \in parts : p.ent = x /\ p.event <= b /\ p.from <= b}
    BY <1>4
  <2> QED
    BY <2>1 DEF Scenes
<1> QED
  BY <1>0, <1>5, <1>6, <1>7 DEF Card


\* The target is known by what the source was known by, and by its own name.
LEMMA FormsMove ==
    ASSUME NEW e, NEW at, NEW name, NEW t, NEW b, Renaming(e, at, name, t, b)
    PROVE  {name} \union Aliases(t, b)' = {entity[e].name, name} \union Aliases(e, b)
<1>0. RowsInv /\ BookInv /\ at \in Nat /\ Replace(e, at, name) /\ t = Target /\ t \notin Ids /\ b \in Nat /\ at <= b
      /\ EntitiesInv /\ AliasesInv /\ {e} \in SUBSET Ids /\ at \in Told
  BY RenamedRows DEF Renaming, RowsInv
<1>1. /\ aliases' = aliases \union CopiedForms({e}, t, at, name) \union CarriedForms(e, t, at)
      /\ Correctable({e}, at)
  BY <1>0, ReplaceWrites
<1>2. \A r \in aliases : r.from \in Nat /\ r.ent \in Ids /\ r \in AliasRows
  BY <1>0, Numbers DEF Numbered, AliasesInv
<1>3. CarriedForms(e, t, at) = {[ent |-> t, form |-> r.form, from |-> r.from, ch |-> r.ch] :
                                  r \in {a \in aliases : a.ent = e /\ a.from > at}}
  BY <1>0, FormsCarriedAre
<1> DEFINE said == Sayings({e}, at)
           Copy(f) == [ent |-> t, form |-> f, from |-> at, ch |-> FirstSaid(said, f)]
<1>4. \A f : (\E x \in said : x[1] = f) <=> f = entity[e].name \/ \E r \in OldAliases({e}, at) : r.form = f
  <2>1. \A x \in said : x[1] = entity[e].name \/ \E r \in OldAliases({e}, at) : r.form = x[1]
    BY DEF Sayings
  <2>2. <<entity[e].name, entity[e].ch>> \in said
    BY DEF Sayings
  <2>3. \A r \in OldAliases({e}, at) : <<r.form, r.ch>> \in said
    BY DEF Sayings
  <2> HIDE DEF said
  <2> QED
    BY <2>1, <2>2, <2>3
<1>5. CopiedForms({e}, t, at, name) = {Copy(f) : f \in {x[1] : x \in said} \ {name}}
  BY Zenon DEF CopiedForms
<1> HIDE DEF said
<1>6. \A f : Copy(f).ent = t /\ Copy(f).form = f /\ Copy(f).from = at
  OBVIOUS
<1> HIDE DEF Copy
<1>7. ASSUME NEW f \in Aliases(t, b)' PROVE f = entity[e].name \/ f \in Aliases(e, b)
  <2>1. PICK r \in aliases' : r.ent = t /\ r.from <= b /\ r.form = f
    BY <1>7 DEF Aliases
  <2>2. CASE r \in CopiedForms({e}, t, at, name)
    <3>1. PICK g \in {x[1] : x \in said} \ {name} : r = Copy(g)
      BY <1>5, <2>2
    <3>2. g = f
      BY <1>6, <2>1, <3>1
    <3>3. f = entity[e].name \/ \E a \in OldAliases({e}, at) : a.form = f
      BY <1>4, <3>1, <3>2
    <3>4. \A a \in OldAliases({e}, at) : a \in aliases /\ a.ent = e /\ a.from <= b
      BY <1>0, <1>2 DEF OldAliases
    <3> QED
      BY <3>3, <3>4 DEF Aliases
  <2>3. CASE r \in CarriedForms(e, t, at)
    <3>1. PICK a \in aliases : a.ent = e /\ a.from > at /\ r.form = a.form /\ r.from = a.from
      BY <1>3, <2>3
    <3> QED
      BY <2>1, <3>1 DEF Aliases
  <2> QED
    BY <1>0, <1>1, <1>2, <2>1, <2>2, <2>3
<1>8. ASSUME NEW f, f # name, f = entity[e].name \/ \E r \in OldAliases({e}, at) : r.form = f
      PROVE  f \in Aliases(t, b)'
  <2>1. f \in {x[1] : x \in said} \ {name}
    BY <1>4, <1>8
  <2>2. Copy(f) \in aliases'
    BY <1>1, <1>5, <2>1
  <2> QED
    BY <1>0, <1>6, <2>2 DEF Aliases
<1>9. ASSUME NEW f \in Aliases(e, b), f # name PROVE f \in Aliases(t, b)'
  <2>1. PICK a \in aliases : a.ent = e /\ a.from <= b /\ a.form = f
    BY <1>9 DEF Aliases
  <2>2. CASE a.from <= at
    <3>1. a \in OldAliases({e}, at)
      BY <2>1, <2>2 DEF OldAliases
    <3> QED
      BY <1>8, <1>9, <2>1, <3>1
  <2>3. CASE a.from > at
    <3>1. [ent |-> t, form |-> a.form, from |-> a.from, ch |-> a.ch] \in aliases'
      BY <1>1, <1>3, <2>1, <2>3
    <3> QED
      BY <2>1, <3>1 DEF Aliases
  <2> QED
    BY <1>0, <1>2, <2>2, <2>3
<1> QED
  BY <1>7, <1>8, <1>9

\* A state that holds is the one that is told,
OneState == \A b \in Nat : \A r \in states : Live(r, b) => r \in State(r.ent, b)

\* before a step
LEMMA OneStateHolds == StatesInv /\ EntitiesInv /\ BookInv => OneState
BY StateIsOne DEF OneState

\* and after it.
LEMMA OneStateAfter == StatesInv' /\ EntitiesInv' /\ BookInv' => OneState'
BY OneStateHolds, PTL

\* It has the state the source had, for each bookmark that still shows the source,
LEMMA StateMoves ==
    ASSUME NEW e, NEW at, NEW name, NEW t, NEW b, Renaming(e, at, name, t, b)
    PROVE  {r.ch : r \in State(t, b)}' = {r.ch : r \in State(e, b)}
<1>0. RowsInv /\ BookInv /\ RowsInv' /\ BookInv' /\ at \in Nat /\ Replace(e, at, name) /\ t = Target /\ t \notin Ids
      /\ b \in Nat /\ at <= b /\ EntitiesInv /\ StatesInv /\ StatesInv' /\ EntitiesInv'
  BY RenamedRows DEF Renaming, RowsInv
<1>1. states' = states \union CopiedStates(e, t, at) \union CarriedStates(e, t, at)
  BY <1>0, ReplaceWrites
<1>2. \A r \in states : r.from \in Nat /\ r.to \in Nat /\ r.ent \in Ids
  BY <1>0, Numbers DEF Numbered
<1>3. CopiedStates(e, t, at) = {[ent |-> t, from |-> at, to |-> r.to, ch |-> r.ch] : r \in State(e, at)}
  BY <1>0, StatesCopiedAre
<1>4. CarriedStates(e, t, at) = {[ent |-> t, from |-> r.from, to |-> r.to, ch |-> r.ch] :
                                   r \in {s \in states : s.ent = e /\ s.from > at}}
  BY <1>0, StatesCarriedAre
<1>5. ASSUME NEW r \in State(e, b) PROVE \E o \in State(t, b)' : o.ch = r.ch
  <2>1. r \in states /\ r.ent = e /\ Live(r, b)
    BY DEF State
  <2>2. PICK o \in states' : o.ent = t /\ o.to = r.to /\ o.ch = r.ch /\ (o.from = r.from \/ o.from = at)
    <3>1. CASE r.from > at
      <4>1. [ent |-> t, from |-> r.from, to |-> r.to, ch |-> r.ch] \in states'
        BY <1>1, <1>4, <2>1, <3>1
      <4> QED
        BY <4>1
    <3>2. CASE r.from <= at
      <4>1. Live(r, at)
        BY <1>0, <1>2, <2>1, <3>2 DEF Live
      <4>2. r \in State(e, at)
        BY <1>0, <2>1, <4>1, StateIsOne
      <4>3. [ent |-> t, from |-> at, to |-> r.to, ch |-> r.ch] \in states'
        BY <1>1, <1>3, <4>2
      <4> QED
        BY <4>3
    <3> QED
      BY <1>0, <1>2, <2>1, <3>1, <3>2
  <2>3. Live(o, b)
    BY <1>0, <2>1, <2>2 DEF Live
  <2>4. o \in State(t, b)'
    BY <1>0, <2>2, <2>3, OneStateAfter DEF OneState, State, Live
  <2> QED
    BY <2>2, <2>4
<1>6. ASSUME NEW o \in State(t, b)' PROVE \E r \in State(e, b) : r.ch = o.ch
  <2>1. o \in states' /\ o.ent = t /\ Live(o, b)
    BY DEF State, Live
  <2>2. PICK r \in states : r.ent = e /\ r.from <= b /\ r.to = o.to /\ r.ch = o.ch
    <3>1. CASE o \in CopiedStates(e, t, at)
      <4>1. PICK r \in State(e, at) : o.to = r.to /\ o.ch = r.ch
        BY <1>3, <3>1
      <4>2. r \in states /\ r.ent = e /\ r.from <= at
        BY DEF State, Live
      <4> QED
        BY <1>0, <1>2, <4>1, <4>2
    <3>2. CASE o \in CarriedStates(e, t, at)
      <4>1. PICK r \in states : r.ent = e /\ o.from = r.from /\ o.to = r.to /\ o.ch = r.ch
        BY <1>4, <3>2
      <4> QED
        BY <2>1, <4>1 DEF Live
    <3> QED
      BY <1>0, <1>1, <1>2, <2>1, <3>1, <3>2
  <2>3. Live(r, b)
    BY <2>1, <2>2 DEF Live
  <2>4. r \in State(e, b)
    BY <1>0, <2>2, <2>3, StateIsOne
  <2> QED
    BY <2>2, <2>4
<1> QED
  BY <1>5, <1>6

\* and the scenes it had.
LEMMA ScenesMove ==
    ASSUME NEW e, NEW at, NEW name, NEW t, NEW b, Renaming(e, at, name, t, b)
    PROVE  Scenes(t, b)' = Scenes(e, b)
<1>0. RowsInv /\ BookInv /\ at \in Nat /\ Replace(e, at, name) /\ t = Target /\ t \notin Ids /\ b \in Nat /\ at <= b
  BY RenamedRows DEF Renaming
<1>1. parts' = parts \union CopiedParts({e}, t, at) \union CarriedParts(e, t, at)
  BY <1>0, ReplaceWrites
<1>2. \A p \in parts : p.from \in Nat /\ p.event \in Nat /\ p.ent \in Ids
  BY <1>0, Numbers DEF Numbered
<1>3. CopiedParts({e}, t, at) = {[event |-> p.event, ent |-> t, from |-> at] : p \in OldParts({e}, at)}
  BY <1>0, PartsCopiedAre
<1>4. CarriedParts(e, t, at) = {[event |-> p.event, ent |-> t, from |-> IF p.from > at THEN p.from ELSE at] :
                                  p \in {x \in parts : x.ent = e /\ (x.from > at \/ x.event > at)}}
  BY <1>0, PartsCarriedAre
<1>5. ASSUME NEW p \in parts, p.ent = e, p.event <= b, p.from <= b PROVE p.event \in Scenes(t, b)'
  <2>1. \E o \in parts' : o.ent = t /\ o.event = p.event /\ o.from <= b
    <3>1. CASE p.from > at \/ p.event > at
      <4>1. [event |-> p.event, ent |-> t, from |-> IF p.from > at THEN p.from ELSE at] \in parts'
        BY <1>1, <1>4, <1>5, <3>1
      <4> QED
        BY <1>0, <1>5, <4>1
    <3>2. CASE ~(p.from > at \/ p.event > at)
      <4>1. p \in OldParts({e}, at)
        BY <1>0, <1>2, <1>5, <3>2 DEF OldParts
      <4>2. [event |-> p.event, ent |-> t, from |-> at] \in parts'
        BY <1>1, <1>3, <4>1
      <4> QED
        BY <1>0, <4>2
    <3> QED
      BY <3>1, <3>2
  <2> QED
    BY <1>5, <2>1 DEF Scenes
<1>6. ASSUME NEW o \in parts', o.ent = t, o.event <= b, o.from <= b PROVE o.event \in Scenes(e, b)
  <2>1. PICK p \in parts : p.ent = e /\ p.event = o.event /\ p.from <= b
    <3>1. CASE o \in CopiedParts({e}, t, at)
      <4>1. PICK p \in OldParts({e}, at) : o.event = p.event
        BY <1>3, <3>1
      <4>2. p \in parts /\ p.ent = e /\ p.from <= at
        BY DEF OldParts
      <4> QED
        BY <1>0, <1>2, <4>1, <4>2
    <3>2. CASE o \in CarriedParts(e, t, at)
      <4>1. PICK p \in parts : p.ent = e /\ o.event = p.event /\ o.from = IF p.from > at THEN p.from ELSE at
        BY <1>4, <3>2
      <4> QED
        BY <1>0, <1>2, <1>6, <4>1
    <3> QED
      BY <1>0, <1>1, <1>2, <1>6, <3>1, <3>2
  <2> QED
    BY <1>6, <2>1 DEF Scenes
<1> QED
  BY <1>5, <1>6 DEF Scenes


\* One tie is another after the correction.
SameTie(o, r, e, t) == o.src = MovedEnd(r.src, {e}, t) /\ o.dst = MovedEnd(r.dst, {e}, t) /\ o.ch = r.ch

OntoFrom(r, e, t, at) == [Onto(r, {e}, t) EXCEPT !.from = at]

\* What a tie given to `t` says, carried
LEMMA OntoSays ==
    ASSUME NEW r \in EdgeRows, NEW e, NEW t
    PROVE  SameTie(Onto(r, {e}, t), r, e, t) /\ Onto(r, {e}, t).from = r.from /\ Onto(r, {e}, t).to = r.to
<1>1. PICK ids : ids = {e}
  OBVIOUS
<1>2. PICK x, y : x = MovedEnd(r.src, ids, t) /\ y = MovedEnd(r.dst, ids, t)
  OBVIOUS
<1>3. Onto(r, ids, t) = [src |-> x, dst |-> y, from |-> r.from, to |-> r.to, ch |-> r.ch]
  BY <1>2, OntoRow
<1>4. /\ Onto(r, ids, t).src = x /\ Onto(r, ids, t).dst = y /\ Onto(r, ids, t).ch = r.ch
      /\ Onto(r, ids, t).from = r.from /\ Onto(r, ids, t).to = r.to
  BY <1>3
<1> QED
  BY <1>1, <1>2, <1>4 DEF SameTie

\* or copied.
LEMMA OntoFromSays ==
    ASSUME NEW r \in EdgeRows, NEW e, NEW t, NEW at
    PROVE  SameTie(OntoFrom(r, e, t, at), r, e, t) /\ OntoFrom(r, e, t, at).from = at /\ OntoFrom(r, e, t, at).to = r.to
<1>1. PICK ids : ids = {e}
  OBVIOUS
<1>2. PICK x, y : x = MovedEnd(r.src, ids, t) /\ y = MovedEnd(r.dst, ids, t)
  OBVIOUS
<1>3. PICK o : o = [Onto(r, ids, t) EXCEPT !.from = at]
  OBVIOUS
<1>4. o = [src |-> x, dst |-> y, from |-> at, to |-> r.to, ch |-> r.ch]
  BY <1>2, <1>3, OntoRowFrom
<1>5. o.src = x /\ o.dst = y /\ o.ch = r.ch /\ o.from = at /\ o.to = r.to
  BY <1>4
<1>6. OntoFrom(r, e, t, at) = o
  BY <1>1, <1>3, Zenon DEF OntoFrom
<1> QED
  BY <1>1, <1>2, <1>5, <1>6 DEF SameTie

\* Each tie of a view that showed the source is in the view after it,
LEMMA TiesMove ==
    ASSUME NEW e, NEW at, NEW name, NEW t, NEW b, Renaming(e, at, name, t, b), e \in Visible(b), NEW r \in Ties(b)
    PROVE  \E o \in Ties(b)' : SameTie(o, r, e, t)
<1>0. /\ RowsInv /\ BookInv /\ at \in Nat /\ at <= b /\ Replace(e, at, name) /\ t = Target /\ t \notin Ids /\ b \in Nat
      /\ Visible(b)' = (Visible(b) \ {e}) \union {t} /\ DOMAIN entity = Ids /\ e \in Ids
      /\ entity[e].from < at /\ at < entity[e].to
  BY RenamedRows, RenamedVisible DEF Renaming
<1>1. edges' = edges \union CopiedTies(OldTies({e}, at), {e}, t, at) \union CarriedTies(e, t, at)
  BY <1>0, ReplaceWrites
<1>2. /\ r \in edges /\ r \in EdgeRows /\ r.from <= b /\ b < r.to /\ r.src \in Visible(b) /\ r.dst \in Visible(b)
      /\ r.from \in Nat /\ r.to \in Nat
      /\ r.src \in Ids /\ r.dst \in Ids /\ entity[r.src].from <= r.from /\ entity[r.dst].from <= r.from
  BY <1>0, Numbers DEF Ties, Live, RowsInv, EdgesInv, Numbered
<1>3. MovedEnd(r.src, {e}, t) \in Visible(b)' /\ MovedEnd(r.dst, {e}, t) \in Visible(b)'
  BY <1>0, <1>2 DEF MovedEnd
<1>4. CASE e \notin {r.src, r.dst}
  <2>1. r.src = MovedEnd(r.src, {e}, t) /\ r.dst = MovedEnd(r.dst, {e}, t)
    BY <1>4 DEF MovedEnd
  <2>2. r \in Ties(b)'
    BY <1>1, <1>2, <1>3, <2>1 DEF Ties, Live
  <2> QED
    BY <2>1, <2>2 DEF SameTie
<1>5. CASE e \in {r.src, r.dst} /\ r.from > at
  <2>1. PICK o : o = Onto(r, {e}, t) /\ SameTie(o, r, e, t) /\ o.from = r.from /\ o.to = r.to
    BY <1>2, OntoSays
  <2>2. o \in CarriedTies(e, t, at)
    BY <1>2, <1>5, <2>1, Zenon DEF CarriedTies
  <2>3. o \in Ties(b)'
    BY <1>1, <1>2, <1>3, <2>1, <2>2 DEF Ties, Live, SameTie
  <2> QED
    BY <2>1, <2>3
<1>6. CASE e \in {r.src, r.dst} /\ r.from <= at
  <2>1. PICK o : o = OntoFrom(r, e, t, at) /\ SameTie(o, r, e, t) /\ o.from = at /\ o.to = r.to
    BY <1>2, OntoFromSays
  <2>2. \A x \in {r.src, r.dst} : x \in Visible(at)
    <3>1. \A x \in Ids : entity[x].from \in Nat /\ entity[x].to \in Nat
      BY <1>0, Numbers DEF Numbered
    <3>2. \A x \in {r.src, r.dst} : x \in Ids /\ entity[x].from <= r.from /\ b < entity[x].to
      BY <1>0, <1>2 DEF Visible, Live
    <3> QED
      BY <1>0, <1>2, <1>6, <3>1, <3>2 DEF Visible, Live
  <2>3. r \in Ties(at)
    BY <1>0, <1>2, <1>6, <2>2 DEF Ties, Live
  <2>4. r \in OldTies({e}, at)
    BY <1>6, <2>3 DEF OldTies
  <2>5. o \in CopiedTies(OldTies({e}, at), {e}, t, at)
    BY <2>1, <2>4, Zenon DEF CopiedTies, OntoFrom
  <2>6. o \in Ties(b)'
    BY <1>0, <1>1, <1>2, <1>3, <2>1, <2>5 DEF Ties, Live, SameTie
  <2> QED
    BY <2>1, <2>6
<1> QED
  BY <1>0, <1>2, <1>4, <1>5, <1>6

\* and there is no other.
LEMMA TiesMoved ==
    ASSUME NEW e, NEW at, NEW name, NEW t, NEW b, Renaming(e, at, name, t, b), e \in Visible(b), NEW o \in Ties(b)'
    PROVE  \E r \in Ties(b) : SameTie(o, r, e, t)
<1>0. /\ RowsInv /\ BookInv /\ at \in Nat /\ at <= b /\ Replace(e, at, name) /\ t = Target /\ t \notin Ids /\ b \in Nat
      /\ Visible(b)' = (Visible(b) \ {e}) \union {t} /\ DOMAIN entity = Ids /\ e \in Ids
  BY RenamedRows, RenamedVisible DEF Renaming
<1>1. edges' = edges \union CopiedTies(OldTies({e}, at), {e}, t, at) \union CarriedTies(e, t, at)
  BY <1>0, ReplaceWrites
<1>2. o \in edges' /\ o.from <= b /\ b < o.to /\ o.src \in Visible(b)' /\ o.dst \in Visible(b)'
  BY DEF Ties, Live
<1>3. \A r \in edges : r \in EdgeRows /\ r.from \in Nat /\ r.to \in Nat /\ r.src \in Ids /\ r.dst \in Ids
  BY <1>0, Numbers DEF RowsInv, EdgesInv, Numbered
<1>4. \A x \in Ids : MovedEnd(x, {e}, t) \in Visible(b)' => x \in Visible(b)
  BY <1>0 DEF MovedEnd
<1>5. ASSUME NEW r \in edges, r.from <= b, r.to = o.to, SameTie(o, r, e, t) PROVE r \in Ties(b)
  <2>1. r.src \in Visible(b) /\ r.dst \in Visible(b)
    BY <1>2, <1>3, <1>4, <1>5 DEF SameTie
  <2> QED
    BY <1>2, <1>5, <2>1 DEF Ties, Live
<1>6. CASE o \in edges
  <2>1. o.src # e /\ o.dst # e
    BY <1>0, <1>2
  <2>2. SameTie(o, o, e, t)
    BY <2>1 DEF SameTie, MovedEnd
  <2> QED
    BY <1>2, <1>5, <1>6, <2>2
<1>7. CASE o \in CopiedTies(OldTies({e}, at), {e}, t, at)
  <2>1. PICK r \in OldTies({e}, at) : o = OntoFrom(r, e, t, at)
    BY <1>7, Zenon DEF CopiedTies, OntoFrom
  <2>2. r \in edges /\ r.from <= at
    BY DEF OldTies, Ties, Live
  <2>4. SameTie(o, r, e, t) /\ o.to = r.to
    BY <1>3, <2>1, <2>2, OntoFromSays
  <2>5. r.from <= b
    BY <1>0, <1>3, <2>2
  <2> QED
    BY <1>5, <2>2, <2>4, <2>5
<1>8. CASE o \in CarriedTies(e, t, at)
  <2>1. PICK r \in edges : o = Onto(r, {e}, t)
    BY <1>8, Zenon DEF CarriedTies
  <2>3. SameTie(o, r, e, t) /\ o.to = r.to /\ o.from = r.from
    BY <1>3, <2>1, OntoSays
  <2> QED
    BY <1>2, <1>5, <2>3
<1> QED
  BY <1>1, <1>2, <1>6, <1>7, <1>8


\* What a correction makes of a card.
LEMMA RenamedCard ==
    ASSUME NEW e, NEW t, NEW name, NEW n, NEW F, NEW S, NEW Q, NEW c,
           c = [id |-> e, name |-> n, forms |-> F, state |-> S, scenes |-> Q]
    PROVE  Renamed(c, e, t, name) = [id |-> t, name |-> name, forms |-> F \union {name}, state |-> S, scenes |-> Q]
<1>1. c.id = e /\ c.forms = F
  OBVIOUS
<1>2. PICK G : G = F \union {name}
  OBVIOUS
<1>3. PICK o : o = [c EXCEPT !.id = t, !.name = name, !.forms = G]
  OBVIOUS
<1>4. /\ o.id = t /\ o.name = name /\ o.forms = G /\ o.state = S /\ o.scenes = Q
      /\ DOMAIN o = {"id", "name", "forms", "state", "scenes"} /\ o = [i \in DOMAIN o |-> o[i]]
  BY <1>3
<1>5. o = [id |-> t, name |-> name, forms |-> G, state |-> S, scenes |-> Q]
  BY <1>4
<1>6. Renamed(c, e, t, name) = o
  BY <1>1, <1>2, <1>3 DEF Renamed
<1> QED
  BY <1>2, <1>5, <1>6

\* The target's card is the source's, renamed.
LEMMA CardMoves ==
    ASSUME NEW e, NEW at, NEW name, NEW t, NEW b, Renaming(e, at, name, t, b)
    PROVE  Card(t, b)' = Renamed(Card(e, b), e, t, name)
<1>0. {r.ch : r \in State(t, b)}' = {r.ch : r \in State(e, b)}
  BY StateMoves
<1>1. PICK n, F, S, Q : /\ n = entity[e].name /\ F = {entity[e].name} \union Aliases(e, b)
                        /\ S = {r.ch : r \in State(e, b)} /\ Q = Scenes(e, b)
  OBVIOUS
<1>2. Card(e, b) = [id |-> e, name |-> n, forms |-> F, state |-> S, scenes |-> Q]
  BY <1>1 DEF Card
<1>3. Renamed(Card(e, b), e, t, name) =
        [id |-> t, name |-> name, forms |-> F \union {name}, state |-> S, scenes |-> Q]
  BY <1>2, RenamedCard
<1>4. /\ entity'[t].name = name /\ {r.ch : r \in State(t, b)}' = S /\ Scenes(t, b)' = Q
      /\ {name} \union Aliases(t, b)' = F \union {name}
  <2>1. entity'[t].name = name
    BY RenamedRows
  <2>2. {r.ch : r \in State(t, b)}' = S
    BY <1>0, <1>1, Zenon
  <2>3. Scenes(t, b)' = Q
    BY <1>1, ScenesMove
  <2>4. {name} \union Aliases(t, b)' = {entity[e].name, name} \union Aliases(e, b)
    BY FormsMove
  <2> QED
    BY <1>1, <2>1, <2>2, <2>3, <2>4
<1>5. Card(t, b)' = [id |-> t, name |-> name, forms |-> F \union {name}, state |-> S, scenes |-> Q]
  BY <1>4 DEF Card
<1> QED
  BY <1>3, <1>5

\* Who was shown is shown, renamed if it is the source.
LEMMA CastMoves ==
    ASSUME NEW e, NEW at, NEW name, NEW t, NEW b, Renaming(e, at, name, t, b), e \in Visible(b)
    PROVE  Cast(b)' = {Renamed(d, e, t, name) : d \in Cast(b)}
<1> DEFINE R(d) == Renamed(d, e, t, name)
           Old(x) == Card(x, b)
           New(x) == Card(x, b)'
<1>1. Visible(b)' = (Visible(b) \ {e}) \union {t} /\ t \notin Ids /\ DOMAIN entity = Ids
  BY RenamedRows, RenamedVisible
<1>2. New(t) = R(Old(e))
  BY CardMoves
<1>3. ASSUME NEW x \in Visible(b) \ {e} PROVE New(x) = R(Old(x))
  <2>1. New(x) = Old(x)
    BY <1>1, OthersStay DEF Visible
  <2>2. Old(x).id = x
    BY DEF Card
  <2>3. R(Old(x)) = Old(x)
    BY <2>2 DEF Renamed
  <2> QED
    BY <2>1, <2>3
<1>4. Cast(b) = {Old(x) : x \in Visible(b)} /\ Cast(b)' = {New(x) : x \in Visible(b)'}
  BY DEF Cast
<1> HIDE DEF R, Old, New
<1>5. Cast(b)' = {R(d) : d \in Cast(b)}
  BY <1>1, <1>2, <1>3, <1>4
<1> QED
  BY <1>5, Zenon DEF R

\* So are the ties of the view.
LEMMA GraphMoves ==
    ASSUME NEW e, NEW at, NEW name, NEW t, NEW b, Renaming(e, at, name, t, b), e \in Visible(b)
    PROVE  Graph(b)' = {<<IF x[1] = e THEN t ELSE x[1], IF x[2] = e THEN t ELSE x[2], x[3]>> : x \in Graph(b)}
<1> DEFINE M(x) == <<IF x[1] = e THEN t ELSE x[1], IF x[2] = e THEN t ELSE x[2], x[3]>>
           G(r) == <<r.src, r.dst, r.ch>>
<1>1. ASSUME NEW o, NEW r, SameTie(o, r, e, t) PROVE G(o) = M(G(r))
  BY <1>1 DEF SameTie, MovedEnd
<1>2. Graph(b) = {G(r) : r \in Ties(b)} /\ Graph(b)' = {G(o) : o \in Ties(b)'}
  BY DEF Graph
<1> HIDE DEF M, G
<1>3. Graph(b)' = {M(x) : x \in Graph(b)}
  <2>1. ASSUME NEW o \in Ties(b)' PROVE G(o) \in {M(x) : x \in Graph(b)}
    <3>1. PICK r \in Ties(b) : SameTie(o, r, e, t)
      BY TiesMoved
    <3> QED
      BY <1>1, <1>2, <3>1
  <2>2. ASSUME NEW r \in Ties(b) PROVE M(G(r)) \in Graph(b)'
    <3>1. PICK o \in Ties(b)' : SameTie(o, r, e, t)
      BY TiesMove
    <3> QED
      BY <1>1, <1>2, <3>1
  <2> QED
    BY <1>2, <2>1, <2>2
<1> QED
  BY <1>3, Zenon DEF M

\* What a reader's correction of an identity without a later end does to views.
LEMMA StepsRename ==
    ASSUME RowsInv, BookInv, [HostedNext]_hvars, RowsInv', BookInv'
    PROVE  CorrectionRenames
<1> DEFINE c == corrections'[Len(corrections')]
<1>0. Len(corrections) \in Nat /\ EntitiesInv /\ Chapters \in Nat /\ Never = Chapters + 1
  BY Basics DEF BookInv, RowsInv
<1>1. SUFFICES ASSUME Len(corrections') > Len(corrections), c.kind = "replace", \A e \in c.sources : entity[e].to = Never,
                      NEW e \in c.sources, NEW t \in c.targets, NEW b \in c.at..Chapters
               PROVE  /\ View(b)'.cards = {Renamed(d, e, t, entity'[t].name) : d \in View(b).cards}
                      /\ View(b)'.graph =
                           {<<IF x[1] = e THEN t ELSE x[1], IF x[2] = e THEN t ELSE x[2], x[3]>> : x \in View(b).graph}
  BY Zenon DEF CorrectionRenames
<1> HIDE DEF c
<1>2. told' = told /\ \E x \in Ids, at \in Told, name \in Renames : Replace(x, at, name)
  <2>1. ASSUME NEW kind, NEW at \in Nat, NEW ids, NEW targets, told' = told,
               corrections' = Recorded(kind, at, ids, targets)
        PROVE  c.kind = kind
    BY <1>0, <2>1, HistoryKept DEF c
  <2>2. Told \subseteq Nat
    BY <1>0 DEF Told
  <2>3. CASE told' = told /\ \E x \in Ids, at \in Told, all, some \in SUBSET (1..2) : SplitInTwo(x, at, all, some)
    BY <1>1, <2>1, <2>2, <2>3, SplitWrites
  <2>4. CASE told' = told /\ \E ids \in SUBSET Ids, at \in Told : Merge(ids, at, "merged")
    BY <1>1, <2>1, <2>2, <2>4, MergeWrites
  <2>5. CASE Commit
    BY <1>0, <1>1, <2>5, CommitKeepsEarlier
  <2>6. CASE UNCHANGED <<rows, told, corrections>> \/ Move
    BY <1>0, <1>1, <2>6, MoveCorrectsNothing
  <2> QED
    BY <1>0, <1>1, <2>3, <2>4, <2>5, <2>6, StepsAre
<1>3. PICK x \in Ids, at \in Told, name \in Renames : Replace(x, at, name)
  BY <1>2
<1>4. corrections' = Recorded("replace", at, {x}, {Target}) /\ at \in Nat
  <2>1. at \in Nat
    BY <1>0 DEF Told
  <2> QED
    BY <1>3, <2>1, ReplaceWrites
<1>5. c.at = at /\ c.sources = {x} /\ c.targets = {Target}
  BY <1>0, <1>2, <1>4, HistoryKept DEF c
<1>6. e = x /\ t = Target /\ b \in Nat /\ at <= b /\ b <= Chapters /\ entity[e].to = Never
  BY <1>0, <1>1, <1>4, <1>5
<1>7. Renaming(e, at, name, t, b)
  BY <1>2, <1>3, <1>6 DEF Renaming, Given
<1>8. e \in Visible(b) /\ entity'[t].name = name
  <2>1. /\ entity[e].from \in Nat /\ entity[e].from < at /\ DOMAIN entity = Ids /\ entity'[t].name = name
    BY <1>7, RenamedRows
  <2> QED
    BY <1>0, <1>3, <1>4, <1>6, <2>1 DEF Visible, Live
<1>9. Cast(b)' = {Renamed(d, e, t, name) : d \in Cast(b)}
  BY <1>7, <1>8, CastMoves
<1>10. Graph(b)' = {<<IF y[1] = e THEN t ELSE y[1], IF y[2] = e THEN t ELSE y[2], y[3]>> : y \in Graph(b)}
  BY <1>7, <1>8, GraphMoves
<1>11. /\ View(b).cards = Cast(b) /\ View(b)'.cards = Cast(b)' /\ View(b).graph = Graph(b) /\ View(b)'.graph = Graph(b)'
  BY DEF View
<1> QED
  BY <1>8, <1>9, <1>10, <1>11, Zenon

\* A correction, like a commit, leaves every view of an earlier bookmark as it was,
\* on the reader's machine and on the service; from its frontier on the reader's
\* correction renames, and nothing else.
THEOREM LocalCorrections == HostedSpec => CorrectionIsLocal
<1>1. IInv /\ [HostedNext]_hvars => [EarlierViewsKept /\ CorrectionRenames]_vars
  <2>1. SUFFICES ASSUME IInv, IInv', [HostedNext]_hvars PROVE EarlierViewsKept /\ CorrectionRenames
    BY InductiveStep
  <2>2. RowsInv /\ BookInv /\ RowsInv' /\ BookInv'
    BY <2>1 DEF IInv
  <2> QED
    BY <2>1, <2>2, StepsKeepEarlier, StepsRename
<1> QED
  BY <1>1, HostedInductive, PTL DEF HostedSpec, CorrectionIsLocal


-----------------------------------------------------------------------------
(* The move keeps the story                                                 *)

\* Whom a bookmark shows after the move: the same, by their new numbers.
LEMMA MovedVisible ==
    ASSUME RowsInv, BookInv, Move, NEW b
    PROVE  /\ \A x \in Ids : NewId(x) \in Ids /\ entity'[NewId(x)] = entity[x]
                             /\ (NewId(x) \in Visible(b)' <=> x \in Visible(b))
           /\ \A y \in Ids : \E x \in Ids : y = NewId(x)
           /\ \A x, y \in Ids : NewId(x) = NewId(y) => x = y
           /\ DOMAIN entity = Ids /\ DOMAIN entity' = Ids
           /\ Visible(b)' = {NewId(x) : x \in Visible(b)}
<1>0. EntitiesInv /\ RowsInv' /\ BookInv' /\ DOMAIN entity = Ids
  BY MoveKeeps, Basics DEF RowsInv
<1>1. /\ \A e \in Ids : NewId(e) \in Ids /\ NewId(NewId(e)) = e
      /\ \A e, f \in Ids : NewId(e) = NewId(f) => e = f
  BY <1>0, NewIdIsOne
<1>2. Ids' = Ids /\ \A e \in Ids : entity'[e] = entity[NewId(e)]
  BY MoveWrites
<1>3. DOMAIN entity' = Ids
  BY <1>0, <1>2, NumbersAfter DEF Numbered
<1>4. \A x \in Ids : entity'[NewId(x)] = entity[x]
  BY <1>1, <1>2
<1>5. Visible(b)' = {y \in Ids : Live(entity'[y], b)}
  BY <1>3 DEF Visible, Live
<1>6. Visible(b) = {x \in Ids : Live(entity[x], b)}
  BY <1>0 DEF Visible
<1>7. \A x \in Ids : NewId(x) \in Visible(b)' <=> x \in Visible(b)
  BY <1>1, <1>4, <1>5, <1>6
<1>8. Visible(b)' = {NewId(x) : x \in Visible(b)}
  BY <1>1, <1>5, <1>6, <1>7
<1> QED
  BY <1>0, <1>1, <1>3, <1>4, <1>7, <1>8

\* What a bookmark tells of one is the same too.
LEMMA MovedPerson ==
    ASSUME RowsInv, BookInv, Move, NEW b, NEW x \in Ids, NEW y, y = NewId(x)
    PROVE  /\ Aliases(y, b)' = Aliases(x, b)
           /\ {r.ch : r \in State(y, b)}' = {r.ch : r \in State(x, b)}
           /\ Scenes(y, b)' = Scenes(x, b)
<1>0. (\A r \in aliases : r.ent \in Ids) /\ (\A r \in states : r.ent \in Ids) /\ (\A p \in parts : p.ent \in Ids)
  BY Numbers DEF Numbered
<1>1. /\ aliases' = {[ent |-> NewId(r.ent), form |-> r.form, from |-> r.from, ch |-> r.ch] : r \in aliases}
      /\ states' = {[ent |-> NewId(r.ent), from |-> r.from, to |-> r.to, ch |-> r.ch] : r \in states}
      /\ parts' = {[event |-> p.event, ent |-> NewId(p.ent), from |-> p.from] : p \in parts}
  BY MoveWrites
<1>2. \A z \in Ids : NewId(z) = y <=> z = x
  BY MovedVisible
<1>3. Aliases(y, b)' = Aliases(x, b)
  <2>1. ASSUME NEW r \in aliases
        PROVE  \E o \in aliases' : o.form = r.form /\ o.from = r.from /\ (o.ent = y <=> r.ent = x)
    <3>1. [ent |-> NewId(r.ent), form |-> r.form, from |-> r.from, ch |-> r.ch] \in aliases'
      BY <1>1
    <3> QED
      BY <1>0, <1>2, <3>1
  <2>2. ASSUME NEW o \in aliases'
        PROVE  \E r \in aliases : o.form = r.form /\ o.from = r.from /\ (o.ent = y <=> r.ent = x)
    BY <1>0, <1>1, <1>2
  <2> QED
    BY <2>1, <2>2 DEF Aliases
<1>4. {r.ch : r \in State(y, b)}' = {r.ch : r \in State(x, b)}
  <2> DEFINE Same(o, r) == o.from = r.from /\ o.to = r.to /\ o.ch = r.ch /\ (o.ent = y <=> r.ent = x)
  <2>1. ASSUME NEW r \in states PROVE \E o \in states' : Same(o, r)
    <3>1. [ent |-> NewId(r.ent), from |-> r.from, to |-> r.to, ch |-> r.ch] \in states'
      BY <1>1
    <3> QED
      BY <1>0, <1>2, <3>1
  <2>2. ASSUME NEW o \in states' PROVE \E r \in states : Same(o, r)
    BY <1>0, <1>1, <1>2
  <2>3. ASSUME NEW r \in State(x, b) PROVE \E o \in State(y, b)' : o.ch = r.ch
    <3>1. r \in states /\ r.ent = x /\ Live(r, b) /\ \A s \in states : s.ent = x /\ Live(s, b) => s.from <= r.from
      BY DEF State
    <3>2. PICK o \in states' : Same(o, r)
      BY <2>1, <3>1
    <3>3. ASSUME NEW p \in states', p.ent = y, Live(p, b) PROVE p.from <= o.from
      <4>1. PICK s \in states : Same(p, s)
        BY <2>2
      <4> QED
        BY <3>1, <3>2, <3>3, <4>1 DEF Live
    <3>4. o \in State(y, b)'
      BY <3>1, <3>2, <3>3 DEF State, Live
    <3> QED
      BY <3>2, <3>4
  <2>4. ASSUME NEW o \in State(y, b)' PROVE \E r \in State(x, b) : r.ch = o.ch
    <3>1. o \in states' /\ o.ent = y /\ Live(o, b) /\ \A p \in states' : p.ent = y /\ Live(p, b) => p.from <= o.from
      BY DEF State, Live
    <3>2. PICK r \in states : Same(o, r)
      BY <2>2, <3>1
    <3>3. ASSUME NEW s \in states, s.ent = x, Live(s, b) PROVE s.from <= r.from
      <4>1. PICK p \in states' : Same(p, s)
        BY <2>1
      <4> QED
        BY <3>1, <3>2, <3>3, <4>1 DEF Live
    <3>4. r \in State(x, b)
      BY <3>1, <3>2, <3>3 DEF State, Live
    <3> QED
      BY <3>2, <3>4
  <2> QED
    BY <2>3, <2>4
<1>5. Scenes(y, b)' = Scenes(x, b)
  <2>1. ASSUME NEW r \in parts
        PROVE  \E o \in parts' : o.event = r.event /\ o.from = r.from /\ (o.ent = y <=> r.ent = x)
    <3>1. [event |-> r.event, ent |-> NewId(r.ent), from |-> r.from] \in parts'
      BY <1>1
    <3> QED
      BY <1>0, <1>2, <3>1
  <2>2. ASSUME NEW o \in parts'
        PROVE  \E r \in parts : o.event = r.event /\ o.from = r.from /\ (o.ent = y <=> r.ent = x)
    BY <1>0, <1>1, <1>2
  <2> QED
    BY <2>1, <2>2 DEF Scenes
<1> QED
  BY <1>3, <1>4, <1>5

\* The ties of a bookmark are the same, of the same moments.
LEMMA MovedTies ==
    ASSUME RowsInv, BookInv, Move, NEW b
    PROVE  /\ \A r \in Ties(b) : \E o \in Ties(b)' : o.src = NewId(r.src) /\ o.dst = NewId(r.dst)
                                                     /\ o.ch = r.ch /\ o.from = r.from
           /\ \A o \in Ties(b)' : \E r \in Ties(b) : o.src = NewId(r.src) /\ o.dst = NewId(r.dst)
                                                     /\ o.ch = r.ch /\ o.from = r.from
<1>0. \A r \in edges : r.src \in Ids /\ r.dst \in Ids
  BY Numbers DEF Numbered
<1>1. edges' = {[src |-> NewId(r.src), dst |-> NewId(r.dst), from |-> r.from, to |-> r.to, ch |-> r.ch] : r \in edges}
  BY MoveWrites
<1>2. \A x \in Ids : NewId(x) \in Visible(b)' <=> x \in Visible(b)
  BY MovedVisible
<1>3. ASSUME NEW r \in Ties(b)
      PROVE  \E o \in Ties(b)' : o.src = NewId(r.src) /\ o.dst = NewId(r.dst) /\ o.ch = r.ch /\ o.from = r.from
  <2>1. r \in edges /\ Live(r, b) /\ r.src \in Visible(b) /\ r.dst \in Visible(b)
    BY DEF Ties
  <2>2. PICK o : o = [src |-> NewId(r.src), dst |-> NewId(r.dst), from |-> r.from, to |-> r.to, ch |-> r.ch]
    OBVIOUS
  <2>3. o.src = NewId(r.src) /\ o.dst = NewId(r.dst) /\ o.from = r.from /\ o.to = r.to /\ o.ch = r.ch
    BY <2>2
  <2>4. o \in edges'
    BY <1>1, <2>1, <2>2
  <2>5. o \in Ties(b)'
    BY <1>0, <1>2, <2>1, <2>3, <2>4 DEF Ties, Live
  <2> QED
    BY <2>3, <2>5
<1>4. ASSUME NEW o \in Ties(b)'
      PROVE  \E r \in Ties(b) : o.src = NewId(r.src) /\ o.dst = NewId(r.dst) /\ o.ch = r.ch /\ o.from = r.from
  <2>1. o \in edges' /\ Live(o, b) /\ o.src \in Visible(b)' /\ o.dst \in Visible(b)'
    BY DEF Ties, Live
  <2>2. PICK r \in edges : o = [src |-> NewId(r.src), dst |-> NewId(r.dst), from |-> r.from, to |-> r.to, ch |-> r.ch]
    BY <1>1, <2>1
  <2>3. o.src = NewId(r.src) /\ o.dst = NewId(r.dst) /\ o.from = r.from /\ o.to = r.to /\ o.ch = r.ch
    BY <2>2
  <2>4. r \in Ties(b)
    BY <1>0, <1>2, <2>1, <2>3 DEF Ties, Live
  <2> QED
    BY <2>3, <2>4
<1> QED
  BY <1>3, <1>4


\* Each card is the same, of the new number.
LEMMA MovedCast ==
    ASSUME RowsInv, BookInv, Move, NEW b
    PROVE  Cast(b)' = {[c EXCEPT !.id = NewId(@)] : c \in Cast(b)}
<1> DEFINE Old(x) == Card(x, b)
           New(y) == Card(y, b)'
           M(c) == [c EXCEPT !.id = NewId(@)]
<1>1. ASSUME NEW x \in Visible(b) PROVE New(NewId(x)) = M(Old(x))
  <2>1. PICK y : y = NewId(x)
    OBVIOUS
  <2>2. x \in Ids
    BY MovedVisible DEF Visible
  <2>3. PICK n, F, S, Q : /\ n = entity[x].name /\ F = {entity[x].name} \union Aliases(x, b)
                          /\ S = {r.ch : r \in State(x, b)} /\ Q = Scenes(x, b)
    OBVIOUS
  <2>4. Old(x) = [id |-> x, name |-> n, forms |-> F, state |-> S, scenes |-> Q]
    BY <2>3 DEF Card
  <2>5. entity'[y] = entity[x]
    BY <2>1, <2>2, MovedVisible
  <2>6. Aliases(y, b)' = Aliases(x, b) /\ {r.ch : r \in State(y, b)}' = {r.ch : r \in State(x, b)}
        /\ Scenes(y, b)' = Scenes(x, b)
    BY <2>1, <2>2, MovedPerson
  <2>7. New(y) = [id |-> y, name |-> n, forms |-> F, state |-> S, scenes |-> Q]
    BY <2>3, <2>5, <2>6 DEF Card
  <2>8. PICK c : c = Old(x)
    OBVIOUS
  <2>9. M(c) = [c EXCEPT !.id = y]
    BY <2>1, <2>4, <2>8
  <2>10. [c EXCEPT !.id = y] = [id |-> y, name |-> n, forms |-> F, state |-> S, scenes |-> Q]
    BY <2>4, <2>8
  <2> HIDE DEF Old, New, M
  <2> QED
    BY <2>1, <2>7, <2>8, <2>9, <2>10
<1>2. Cast(b) = {Old(x) : x \in Visible(b)}
  BY DEF Cast
<1>3. Cast(b)' = {New(y) : y \in Visible(b)'}
  BY DEF Cast
<1>4. Visible(b)' = {NewId(x) : x \in Visible(b)}
  BY MovedVisible
<1> HIDE DEF Old, New, M
<1>5. Cast(b)' = {M(c) : c \in Cast(b)}
  BY <1>1, <1>2, <1>3, <1>4
<1> QED
  BY <1>5, Zenon DEF M

\* So is each tie,
LEMMA MovedGraph ==
    ASSUME RowsInv, BookInv, Move, NEW b
    PROVE  Graph(b)' = {<<NewId(x[1]), NewId(x[2]), x[3]>> : x \in Graph(b)}
<1> DEFINE M(x) == <<NewId(x[1]), NewId(x[2]), x[3]>>
           G(r) == <<r.src, r.dst, r.ch>>
<1>1. ASSUME NEW o, NEW r, o.src = NewId(r.src), o.dst = NewId(r.dst), o.ch = r.ch PROVE G(o) = M(G(r))
  BY <1>1
<1>2. Graph(b) = {G(r) : r \in Ties(b)} /\ Graph(b)' = {G(o) : o \in Ties(b)'}
  BY DEF Graph
<1> HIDE DEF M, G
<1>3. \A o \in Ties(b)' : \E r \in Ties(b) : G(o) = M(G(r))
  BY <1>1, MovedTies
<1>4. \A r \in Ties(b) : \E o \in Ties(b)' : G(o) = M(G(r))
  BY <1>1, MovedTies
<1>5. Graph(b)' = {M(x) : x \in Graph(b)}
  BY <1>2, <1>3, <1>4
<1> QED
  BY <1>5, Zenon DEF M

\* and each scene, by name.
LEMMA MovedTimeline ==
    ASSUME RowsInv, BookInv, Move, NEW b
    PROVE  Timeline(b)' = Timeline(b)
<1> DEFINE Old(k) == {entity[e].name : e \in {x \in Visible(b) : k \in Scenes(x, b)}}
           New(k) == {entity[e].name : e \in {x \in Visible(b) : k \in Scenes(x, b)}}'
<1>1. ASSUME NEW k PROVE New(k) = Old(k)
  <2>1. ASSUME NEW x \in Visible(b), k \in Scenes(x, b)
        PROVE  \E y \in Visible(b)' : k \in Scenes(y, b)' /\ entity'[y].name = entity[x].name
    <3>1. PICK y : y = NewId(x)
      OBVIOUS
    <3>2. x \in Ids
      BY MovedVisible DEF Visible
    <3>3. y \in Visible(b)' /\ entity'[y] = entity[x]
      BY <3>1, <3>2, MovedVisible
    <3>4. Scenes(y, b)' = Scenes(x, b)
      BY <3>1, <3>2, MovedPerson
    <3> QED
      BY <2>1, <3>3, <3>4
  <2>2. ASSUME NEW y \in Visible(b)', k \in Scenes(y, b)'
        PROVE  \E x \in Visible(b) : k \in Scenes(x, b) /\ entity'[y].name = entity[x].name
    <3>1. PICK x \in Visible(b) : y = NewId(x)
      BY MovedVisible
    <3>2. x \in Ids
      BY MovedVisible DEF Visible
    <3>3. entity'[y] = entity[x]
      BY <3>1, <3>2, MovedVisible
    <3>4. Scenes(y, b)' = Scenes(x, b)
      BY <3>1, <3>2, MovedPerson
    <3> QED
      BY <2>2, <3>3, <3>4
  <2> QED
    BY <2>1, <2>2
<1>2. Timeline(b) = {<<k, Old(k)>> : k \in 1..b}
  BY DEF Timeline
<1>3. Timeline(b)' = {<<k, New(k)>> : k \in 1..b}
  BY DEF Timeline
<1> HIDE DEF Old, New
<1> QED
  BY <1>1, <1>2, <1>3

\* Each correction is the same, of the new numbers.
LEMMA MovedRecords ==
    ASSUME RowsInv, BookInv, Move
    PROVE  /\ DOMAIN corrections' = DOMAIN corrections
           /\ \A i \in DOMAIN corrections :
                /\ corrections'[i].kind = corrections[i].kind /\ corrections'[i].at = corrections[i].at
                /\ corrections[i].sources \subseteq Ids /\ corrections[i].targets \subseteq Ids
                /\ corrections'[i].sources = {NewId(e) : e \in corrections[i].sources}
                /\ corrections'[i].targets = {NewId(e) : e \in corrections[i].targets}
<1> DEFINE Moved(S) == {NewId(e) : e \in S}
           Rows == [kind : {"replace", "split", "merge"}, at : Told, sources : SUBSET Ids, targets : SUBSET Ids]
<1>0. PICK n \in Nat : n = Len(corrections) /\ DOMAIN corrections = 1..n
  BY DEF BookInv
<1>1. corrections \in Seq(Rows)
  BY DEF BookInv
<1>2. \A c \in Rows : /\ c.sources \subseteq Ids /\ c.targets \subseteq Ids
                      /\ c = [kind |-> c.kind, at |-> c.at, sources |-> c.sources, targets |-> c.targets]
  OBVIOUS
<1>3. DOMAIN corrections' = 1..n /\ \A i \in 1..n : corrections'[i] =
        [corrections[i] EXCEPT !.sources = Moved(@), !.targets = Moved(@)]
  BY <1>0 DEF Move, MovedCorrections
<1> HIDE DEF Moved, Rows
<1>4. ASSUME NEW i \in 1..n
      PROVE  /\ corrections'[i].kind = corrections[i].kind /\ corrections'[i].at = corrections[i].at
             /\ corrections[i].sources \subseteq Ids /\ corrections[i].targets \subseteq Ids
             /\ corrections'[i].sources = Moved(corrections[i].sources)
             /\ corrections'[i].targets = Moved(corrections[i].targets)
  <2>1. PICK c \in Rows : c = corrections[i]
    BY <1>0, <1>1
  <2>2. PICK a, z : a = Moved(c.sources) /\ z = Moved(c.targets)
    OBVIOUS
  <2>3. c = [kind |-> c.kind, at |-> c.at, sources |-> c.sources, targets |-> c.targets]
    BY <1>2
  <2>4. corrections'[i] = [c EXCEPT !.sources = a, !.targets = z]
    BY <1>3, <2>1, <2>2, <2>3
  <2>5. /\ corrections'[i].kind = c.kind /\ corrections'[i].at = c.at
        /\ corrections'[i].sources = a /\ corrections'[i].targets = z
    BY <2>3, <2>4
  <2> QED
    BY <1>2, <2>1, <2>2, <2>5
<1> QED
  BY <1>0, <1>3, <1>4 DEF Moved

\* The corrections told are the same, by name.
LEMMA MovedCorrectionsTold ==
    ASSUME RowsInv, BookInv, Move, NEW b
    PROVE  ToldCorrections(b)' = {Named(i) : i \in History(b)}
<1> DEFINE Names(S) == {entity[e].name : e \in S}
           Later(S) == {entity'[e].name : e \in S}
           Moved(S) == {NewId(e) : e \in S}
<1>1. ASSUME NEW S \in SUBSET Ids PROVE Later(Moved(S)) = Names(S)
  <2>1. \A x \in S : entity'[NewId(x)] = entity[x]
    BY MovedVisible
  <2> QED
    BY <2>1
<1>2. /\ DOMAIN corrections' = DOMAIN corrections
      /\ \A i \in DOMAIN corrections :
           /\ corrections'[i].kind = corrections[i].kind /\ corrections'[i].at = corrections[i].at
           /\ corrections[i].sources \subseteq Ids /\ corrections[i].targets \subseteq Ids
           /\ corrections'[i].sources = Moved(corrections[i].sources)
           /\ corrections'[i].targets = Moved(corrections[i].targets)
  BY MovedRecords
<1> HIDE DEF Names, Later, Moved
<1>3. ASSUME NEW i \in DOMAIN corrections PROVE Named(i)' = Named(i)
  <2>1. Named(i) = [kind |-> corrections[i].kind, at |-> corrections[i].at,
                    sources |-> Names(corrections[i].sources), targets |-> Names(corrections[i].targets)]
    BY DEF Named, Names
  <2>2. Named(i)' = [kind |-> corrections'[i].kind, at |-> corrections'[i].at,
                     sources |-> Later(corrections'[i].sources), targets |-> Later(corrections'[i].targets)]
    BY DEF Named, Later
  <2> QED
    BY <1>1, <1>2, <2>1, <2>2
<1>4. ToldCorrections(b)' = {Named(i)' : i \in {j \in DOMAIN corrections : corrections'[j].at <= b}}
  BY <1>2 DEF ToldCorrections
<1>5. History(b) = {j \in DOMAIN corrections : corrections[j].at <= b}
  BY DEF History
<1> QED
  BY <1>2, <1>3, <1>4, <1>5

\* The service's queries tell what the reader's machine told.
LEMMA MovedSnapshot ==
    ASSUME RowsInv, BookInv, Move, NEW b \in Bookmarks
    PROVE  Snapshot(b)' =
             [ entities      |-> {<<c.name, entity[c.id].from>> : c \in View(b).cards},
               relationships |-> {<<entity[r.src].name, entity[r.dst].name, r.from>> : r \in Ties(b)},
               events        |-> View(b).chapters,
               corrections   |-> {Named(i) : i \in View(b).history} ]
<1>0. /\ RowsInv' /\ BookInv' /\ Told' = Told /\ told' = told
  BY MoveKeeps, MoveWrites
<1>1. SeenEntities(b)' = Visible(b)'
  <2>1. \A e \in Ids : entity[e].from \in 1..Done
    BY Basics DEF RowsInv, EntitiesInv, EntityRows
  <2>2. \A e \in Ids : entity'[e].from \in 1..Done
    <3>1. \A y \in Ids : \E x \in Ids : y = NewId(x)
      BY MovedVisible
    <3>2. \A x \in Ids : entity'[NewId(x)] = entity[x]
      BY MovedVisible
    <3> QED
      BY <2>1, <3>1, <3>2
  <2>3. Done' = Done /\ DOMAIN entity' = Ids
    BY <1>0, MovedVisible DEF Done
  <2> QED
    BY <2>2, <2>3 DEF SeenEntities, Visible, Receipted, Live
<1>2. SeenEdges(b)' = Ties(b)'
  <2>1. \A r \in edges' : r.from \in (1..Done)' /\ r.src \in Ids' /\ r.dst \in Ids'
    BY <1>0 DEF RowsInv, EdgesInv, EdgeRows, Told
  <2>2. DOMAIN entity' = Ids'
    BY <1>0, NumbersAfter DEF Numbered
  <2>3. \A r \in edges' : r.from \in 1..Done' /\ r.src \in DOMAIN entity' /\ r.dst \in DOMAIN entity'
    BY <2>1, <2>2
  <2> QED
    BY <2>3 DEF SeenEdges, Ties, Visible, Receipted, Live
<1>3. {<<entity[e].name, entity[e].from>> : e \in Visible(b)}' = {<<c.name, entity[c.id].from>> : c \in Cast(b)}
  <2>1. \A x \in Ids : entity'[NewId(x)] = entity[x]
    BY MovedVisible
  <2>2. Visible(b)' = {NewId(x) : x \in Visible(b)} /\ Visible(b) \subseteq Ids
    BY MovedVisible DEF Visible
  <2>3. \A x : Card(x, b).name = entity[x].name /\ Card(x, b).id = x
    BY DEF Card
  <2>4. {<<c.name, entity[c.id].from>> : c \in Cast(b)} = {<<entity[x].name, entity[x].from>> : x \in Visible(b)}
    BY <2>3 DEF Cast
  <2> QED
    BY <2>1, <2>2, <2>4
<1>4. {<<entity[r.src].name, entity[r.dst].name, r.from>> : r \in Ties(b)}' =
      {<<entity[r.src].name, entity[r.dst].name, r.from>> : r \in Ties(b)}
  <2>1. \A x \in Ids : entity'[NewId(x)] = entity[x]
    BY MovedVisible
  <2>2. \A r \in Ties(b) : r.src \in Ids /\ r.dst \in Ids
    BY Numbers DEF Numbered, Ties
  <2> DEFINE G(r) == <<entity[r.src].name, entity[r.dst].name, r.from>>
             H(o) == <<entity'[o.src].name, entity'[o.dst].name, o.from>>
  <2>3. \A r \in Ties(b) : \E o \in Ties(b)' : H(o) = G(r)
    BY <2>1, <2>2, MovedTies
  <2>4. \A o \in Ties(b)' : \E r \in Ties(b) : H(o) = G(r)
    BY <2>1, <2>2, MovedTies
  <2>5. {H(o) : o \in Ties(b)'} = {G(r) : r \in Ties(b)}
    <3> HIDE DEF G, H
    <3> QED
      BY <2>3, <2>4
  <2> QED
    BY <2>5
<1>5. SeenChapters(b)' = View(b).chapters
  BY <1>0 DEF SeenChapters, View, Done
<1>6. ToldCorrections(b)' = {Named(i) : i \in View(b).history}
  BY MovedCorrectionsTold DEF View
<1>7. View(b).cards = Cast(b)
  BY DEF View
<1> QED
  BY <1>1, <1>2, <1>3, <1>4, <1>5, <1>6, <1>7 DEF Snapshot

\* A book tells the same story on the service as on the reader's machine.
THEOREM MigrationTellsTheSame == HostedSpec => MigrationKeepsTheStory
<1> DEFINE Same == moved' # moved =>
        \A b \in Bookmarks :
          /\ View(b)'.cards = {[c EXCEPT !.id = NewId(@)] : c \in View(b).cards}
          /\ View(b)'.graph = {<<NewId(x[1]), NewId(x[2]), x[3]>> : x \in View(b).graph}
          /\ View(b)'.timeline = View(b).timeline
          /\ Snapshot(b)' =
               [ entities      |-> {<<c.name, entity[c.id].from>> : c \in View(b).cards},
                 relationships |-> {<<entity[r.src].name, entity[r.dst].name, r.from>> : r \in Ties(b)},
                 events        |-> View(b).chapters,
                 corrections   |-> {Named(i) : i \in View(b).history} ]
<1>1. IInv /\ [HostedNext]_hvars => [Same]_hvars
  <2>1. SUFFICES ASSUME RowsInv, BookInv, HostedNext, moved' # moved, NEW b \in Bookmarks
                 PROVE  /\ View(b)'.cards = {[c EXCEPT !.id = NewId(@)] : c \in View(b).cards}
                        /\ View(b)'.graph = {<<NewId(x[1]), NewId(x[2]), x[3]>> : x \in View(b).graph}
                        /\ View(b)'.timeline = View(b).timeline
                        /\ Snapshot(b)' =
                             [ entities      |-> {<<c.name, entity[c.id].from>> : c \in View(b).cards},
                               relationships |-> {<<entity[r.src].name, entity[r.dst].name, r.from>> : r \in Ties(b)},
                               events        |-> View(b).chapters,
                               corrections   |-> {Named(i) : i \in View(b).history} ]
    BY Zenon DEF IInv
  <2>2. Move
    BY <2>1, Zenon DEF HostedNext
  <2>3. View(b).cards = Cast(b) /\ View(b)'.cards = Cast(b)'
    BY DEF View
  <2>4. View(b).graph = Graph(b) /\ View(b)'.graph = Graph(b)'
    BY DEF View
  <2>5. View(b).timeline = Timeline(b) /\ View(b)'.timeline = Timeline(b)'
    BY DEF View
  <2>6. Cast(b)' = {[c EXCEPT !.id = NewId(@)] : c \in Cast(b)}
    BY <2>1, <2>2, MovedCast
  <2>7. Graph(b)' = {<<NewId(x[1]), NewId(x[2]), x[3]>> : x \in Graph(b)}
    BY <2>1, <2>2, MovedGraph
  <2>8. Timeline(b)' = Timeline(b)
    BY <2>1, <2>2, MovedTimeline
  <2>9. Snapshot(b)' =
          [ entities      |-> {<<c.name, entity[c.id].from>> : c \in View(b).cards},
            relationships |-> {<<entity[r.src].name, entity[r.dst].name, r.from>> : r \in Ties(b)},
            events        |-> View(b).chapters,
            corrections   |-> {Named(i) : i \in View(b).history} ]
    BY <2>1, <2>2, MovedSnapshot
  <2> QED
    BY <2>3, <2>4, <2>5, <2>6, <2>7, <2>8, <2>9, Zenon
<1>2. HostedSpec => [][Same]_hvars
  BY <1>1, HostedInductive, PTL DEF HostedSpec
<1>3. [][Same]_hvars => MigrationKeepsTheStory
  BY PTL DEF MigrationKeepsTheStory
<1> QED
  BY <1>2, <1>3, PTL


-----------------------------------------------------------------------------
(* Whoever a chapter names stays known                                      *)

Known(x, b) == {entity[x].name} \union Aliases(x, b)

\* At `b` someone of chapter `k` answers to `n`; a tie of chapter `k` is between
\* those who answer to the names `S`.
Mentioned(k, n, b) == \E x \in Visible(b) : n \in Known(x, b) /\ k \in Scenes(x, b)
Tied(k, S, b) == \E r \in Ties(b) : r.ch = k /\ S \subseteq Known(r.src, b) \union Known(r.dst, b)
Mentions(k, S, b) == (\A n \in S : Mentioned(k, n, b)) /\ (Cardinality(S) = 2 => Tied(k, S, b))

OnlyReplaced == \A i \in DOMAIN corrections : corrections[i].kind = "replace"
AllMentions == OnlyReplaced => \A k \in 1..Done, b \in Bookmarks : k <= b => Mentions(k, told[k], b)

\* It is what the run checks.
LEMMA MentionsAre == AllMentions => MentionsKept
<1> SUFFICES ASSUME AllMentions, OnlyReplaced, NEW k \in 1..Done, NEW b \in Bookmarks, k <= b
             PROVE  /\ \A n \in told[k] : \E c \in View(b).cards : n \in c.forms /\ k \in c.scenes
                    /\ Cardinality(told[k]) = 2 =>
                         \E r \in Ties(b) :
                            r.ch = k /\ told[k] \subseteq Card(r.src, b).forms \union Card(r.dst, b).forms
  BY DEF MentionsKept, OnlyReplaced
<1>1. Mentions(k, told[k], b)
  BY DEF AllMentions
<1>2. \A x : Card(x, b).forms = Known(x, b) /\ Card(x, b).scenes = Scenes(x, b)
  BY DEF Card, Known
<1>3. View(b).cards = {Card(x, b) : x \in Visible(b)}
  BY DEF View, Cast
<1> QED
  BY <1>1, <1>2, <1>3 DEF Mentions, Mentioned, Tied

\* What was mentioned still is, if everybody who was shown still is, perhaps by
\* another number, and known by as much.
LEMMA MentionsMove ==
    ASSUME NEW k, NEW S, NEW b, NEW M, Mentions(k, S, b),
           \A x \in Visible(b) : /\ M[x] \in Visible(b)'
                                 /\ Known(x, b) \subseteq Known(M[x], b)'
                                 /\ Scenes(x, b) \subseteq Scenes(M[x], b)',
           \A r \in Ties(b) : \E o \in Ties(b)' : o.src = M[r.src] /\ o.dst = M[r.dst] /\ o.ch = r.ch
    PROVE  Mentions(k, S, b)'
<1>1. \A n \in S : Mentioned(k, n, b)'
  BY DEF Mentions, Mentioned
<1>2. ASSUME Tied(k, S, b) PROVE Tied(k, S, b)'
  <2>1. PICK r \in Ties(b) : r.ch = k /\ S \subseteq Known(r.src, b) \union Known(r.dst, b)
    BY <1>2 DEF Tied
  <2>2. r.src \in Visible(b) /\ r.dst \in Visible(b)
    BY DEF Ties
  <2>3. PICK o \in Ties(b)' : o.src = M[r.src] /\ o.dst = M[r.dst] /\ o.ch = r.ch
    OBVIOUS
  <2>4. PICK x, y : x = M[r.src] /\ y = M[r.dst]
    OBVIOUS
  <2>5. Known(r.src, b) \subseteq Known(x, b)' /\ Known(r.dst, b) \subseteq Known(y, b)'
    BY <2>2, <2>4
  <2>6. S \subseteq Known(x, b)' \union Known(y, b)'
    BY <2>1, <2>5
  <2> QED
    BY <2>1, <2>3, <2>4, <2>6 DEF Tied, Known, Aliases
<1> QED
  BY <1>1, <1>2 DEF Mentions

\* A step of the same chapters keeps them, if each mention moves.
LEMMA SameChaptersMentioned ==
    ASSUME AllMentions, told' = told, OnlyReplaced' => OnlyReplaced,
           ASSUME NEW k, NEW S, NEW b \in Bookmarks, Mentions(k, S, b)
           PROVE  Mentions(k, S, b)'
    PROVE  AllMentions'
<1>1. SUFFICES ASSUME OnlyReplaced', NEW k \in 1..Done, NEW b \in Bookmarks, k <= b, NEW S, S = told[k]
               PROVE  Mentions(k, S, b)'
  BY DEF AllMentions, Done, Bookmarks, Mentions, Mentioned, Tied
<1>2. Mentions(k, S, b)
  BY <1>1 DEF AllMentions
<1> QED
  BY <1>1, <1>2

\* The reader's correction keeps them: from its frontier on by the target,
LEMMA ReplaceMentions ==
    ASSUME RowsInv, BookInv, RowsInv', BookInv', told' = told, NEW e \in Ids, NEW at \in Told, NEW name \in Given,
           Replace(e, at, name), NEW k, NEW S, NEW b \in Bookmarks, Mentions(k, S, b)
    PROVE  Mentions(k, S, b)'
<1>0. b \in Nat /\ b <= Chapters /\ at \in Nat /\ DOMAIN entity = Ids
  BY Basics DEF Bookmarks, RowsInv, Told
<1>1. CASE b < at
  <2>1. NotBefore(at)
    BY ReplaceIsLocal
  <2>2. /\ Visible(b)' = Visible(b)
        /\ \A x \in Visible(b) : entity'[x].name = entity[x].name /\ Aliases(x, b)' = Aliases(x, b)
                                 /\ Scenes(x, b)' = Scenes(x, b)
        /\ Ties(b)' = Ties(b)
    BY <1>0, <1>1, <2>1, EarlierRows
  <2>3. PICK M : M = [x \in Visible(b) |-> x]
    OBVIOUS
  <2>4. ASSUME NEW x \in Visible(b)
        PROVE  /\ M[x] \in Visible(b)' /\ Known(x, b) \subseteq Known(M[x], b)'
               /\ Scenes(x, b) \subseteq Scenes(M[x], b)'
    <3>1. M[x] = x
      BY <2>3
    <3>2. Known(x, b)' = Known(x, b)
      BY <2>2 DEF Known
    <3> QED
      BY <2>2, <3>1, <3>2
  <2>5. ASSUME NEW r \in Ties(b)
        PROVE  \E o \in Ties(b)' : o.src = M[r.src] /\ o.dst = M[r.dst] /\ o.ch = r.ch
    <3>1. M[r.src] = r.src /\ M[r.dst] = r.dst
      BY <2>3 DEF Ties
    <3> QED
      BY <2>2, <3>1
  <2> QED
    BY <2>4, <2>5, MentionsMove
<1>2. CASE at <= b
  <2>0. PICK t : t = Target
    OBVIOUS
  <2>1. Renaming(e, at, name, t, b)
    BY <1>0, <1>2, <2>0 DEF Renaming
  <2>2. PICK M : M = [x \in Visible(b) |-> IF x = e THEN t ELSE x]
    OBVIOUS
  <2>3. Visible(b)' = (Visible(b) \ {e}) \union {t} /\ entity'[t].name = name
    BY <2>1, RenamedVisible, RenamedRows
  <2>4. ASSUME NEW x \in Visible(b)
        PROVE  /\ M[x] \in Visible(b)' /\ Known(x, b) \subseteq Known(M[x], b)'
               /\ Scenes(x, b) \subseteq Scenes(M[x], b)'
    <3>1. CASE x = e
      <4>1. M[x] = t /\ t \in Visible(b)'
        BY <2>2, <2>3, <3>1
      <4>2. {name} \union Aliases(t, b)' = {entity[e].name, name} \union Aliases(e, b)
        BY <2>1, FormsMove
      <4>3. Known(t, b)' = {name} \union Aliases(t, b)'
        BY <2>3 DEF Known
      <4>4. Known(x, b) \subseteq Known(t, b)'
        BY <3>1, <4>2, <4>3 DEF Known
      <4>5. Scenes(t, b)' = Scenes(x, b)
        BY <2>1, <3>1, ScenesMove
      <4> QED
        BY <4>1, <4>4, <4>5
    <3>2. CASE x # e
      <4>1. M[x] = x /\ x \in Visible(b)' /\ x \in Ids \ {e}
        BY <1>0, <2>2, <2>3, <3>2 DEF Visible
      <4>2. Card(x, b)' = Card(x, b)
        BY <2>1, <4>1, OthersStay
      <4>3. Card(x, b).forms = Known(x, b) /\ Card(x, b).scenes = Scenes(x, b)
        BY DEF Card, Known
      <4>4. Card(x, b)'.forms = Known(x, b)' /\ Card(x, b)'.scenes = Scenes(x, b)'
        BY DEF Card, Known
      <4> QED
        BY <4>1, <4>2, <4>3, <4>4
    <3> QED
      BY <3>1, <3>2
  <2>5. ASSUME NEW r \in Ties(b)
        PROVE  \E o \in Ties(b)' : o.src = M[r.src] /\ o.dst = M[r.dst] /\ o.ch = r.ch
    <3>0. r \in edges /\ Live(r, b) /\ r.src \in Visible(b) /\ r.dst \in Visible(b)
      BY DEF Ties
    <3>1. CASE e \in Visible(b)
      <4>1. PICK o \in Ties(b)' : SameTie(o, r, e, t)
        BY <2>1, <3>1, TiesMove
      <4>2. M[r.src] = MovedEnd(r.src, {e}, t) /\ M[r.dst] = MovedEnd(r.dst, {e}, t)
        BY <2>2, <3>0 DEF MovedEnd
      <4> QED
        BY <4>1, <4>2 DEF SameTie
    <3>2. CASE e \notin Visible(b)
      <4>1. r.src # e /\ r.dst # e /\ M[r.src] = r.src /\ M[r.dst] = r.dst
        BY <2>2, <3>0, <3>2
      <4>2. r \in edges'
        BY <3>0, ReplaceWrites
      <4>3. r \in Ties(b)'
        BY <2>3, <3>0, <4>1, <4>2 DEF Ties, Live
      <4> QED
        BY <4>1, <4>3
    <3> QED
      BY <3>1, <3>2
  <2> QED
    BY <2>4, <2>5, MentionsMove
<1> QED
  BY <1>0, <1>1, <1>2

\* the move by the new numbers.
LEMMA MoveMentions ==
    ASSUME RowsInv, BookInv, Move, NEW k, NEW S, NEW b, Mentions(k, S, b)
    PROVE  Mentions(k, S, b)'
<1>1. PICK M : M = [x \in Ids |-> NewId(x)]
  OBVIOUS
<1>2. ASSUME NEW x \in Visible(b)
      PROVE  /\ M[x] \in Visible(b)' /\ Known(x, b) \subseteq Known(M[x], b)'
             /\ Scenes(x, b) \subseteq Scenes(M[x], b)'
  <2>1. PICK y : y = NewId(x)
    OBVIOUS
  <2>2. x \in Ids
    BY MovedVisible DEF Visible
  <2>3. y \in Visible(b)' /\ entity'[y] = entity[x]
    BY <2>1, <2>2, MovedVisible
  <2>4. Aliases(y, b)' = Aliases(x, b) /\ Scenes(y, b)' = Scenes(x, b)
    BY <2>1, <2>2, MovedPerson
  <2>5. Known(y, b)' = Known(x, b)
    BY <2>3, <2>4 DEF Known
  <2>6. M[x] = y
    BY <1>1, <2>1, <2>2
  <2> QED
    BY <2>3, <2>4, <2>5, <2>6
<1>3. ASSUME NEW r \in Ties(b)
      PROVE  \E o \in Ties(b)' : o.src = M[r.src] /\ o.dst = M[r.dst] /\ o.ch = r.ch
  <2>1. r.src \in Ids /\ r.dst \in Ids
    BY Numbers DEF Numbered, Ties
  <2>2. M[r.src] = NewId(r.src) /\ M[r.dst] = NewId(r.dst)
    BY <1>1, <2>1
  <2> QED
    BY <2>2, MovedTies
<1> QED
  BY <1>2, <1>3, MentionsMove

\* Whoever the coming chapter names bears the name once it is committed, and is
\* in its scene, at every bookmark from it on.
LEMMA NamedArePresent ==
    ASSUME RowsInv, BookInv, Commit, NEW n \in prepared.names, NEW b \in Bookmarks, Coming <= b
    PROVE  \E x \in Visible(b)' : x = IdOf[n] /\ n \in Known(x, b)' /\ Coming \in Scenes(x, b)'
<1>0. /\ EntitiesInv /\ b \in Nat /\ b <= Chapters /\ Chapters \in Nat /\ Never = Chapters + 1
      /\ Done \in Nat /\ prepared.roster = Roster(Done) /\ DOMAIN entity = Ids /\ Never' = Never
  BY Basics, CommitWrites DEF RowsInv, Bookmarks, Never
<1>1. /\ EntitiesInv' /\ Ids \subseteq Ids' /\ Coming \in Nat /\ Coming = Done + 1
      /\ \A e \in Ids : entity'[e] = entity[e]
      /\ \A e \in Ids' \ Ids : entity'[e].from = Coming /\ entity'[e].to = Never
      /\ \/ n \notin Strangers /\ IdOf[n] \in Visible(Done) /\ Link[n] = {IdOf[n]}
         \/ n \in Strangers /\ IdOf[n] \in Ids' \ Ids /\ entity'[IdOf[n]].name = n
  BY <1>0, EntitiesAdded
<1>2. PICK x : x = IdOf[n]
  OBVIOUS
<1>3. DOMAIN entity' = Ids'
  BY <1>1 DEF EntitiesInv, Ids
<1>4. Coming \in Scenes(x, b)'
  <2>1. [event |-> Coming, ent |-> x, from |-> Coming] \in parts'
    <3>1. x \in Present
      BY <1>2 DEF Present
    <3> QED
      BY <3>1, CommitWrites
  <2> QED
    BY <2>1 DEF Scenes
<1>5. CASE n \in Strangers
  <2>1. x \in Ids' /\ entity'[x].from = Coming /\ entity'[x].to = Never /\ entity'[x].name = n
    BY <1>1, <1>2, <1>5
  <2>2. x \in Visible(b)'
    BY <1>0, <1>3, <2>1 DEF Visible, Live
  <2>3. n \in Known(x, b)'
    BY <2>1 DEF Known
  <2> QED
    BY <1>2, <1>4, <2>2, <2>3
<1>6. CASE n \notin Strangers
  <2>1. x \in Visible(Done) /\ Link[n] = {x} /\ x \in Ids
    BY <1>0, <1>1, <1>2, <1>6 DEF Visible
  <2>2. entity[x].from <= Done /\ entity[x].to = Never
    BY <1>0, <2>1, Numbers DEF Visible, Live, EntitiesInv, Numbered
  <2>3. x \in Visible(b)' /\ entity'[x].name = entity[x].name
    <3>1. entity'[x] = entity[x] /\ x \in Ids'
      BY <1>1, <2>1
    <3>2. entity[x].from \in Nat
      BY <2>1, Numbers DEF Numbered
    <3> QED
      BY <1>0, <1>1, <1>3, <2>2, <3>1, <3>2 DEF Visible, Live
  <2>4. Aliases(x, Done) \subseteq Aliases(x, b)'
    <3>1. aliases \subseteq aliases'
      BY CommitIsLocal DEF NotBefore
    <3>2. \A a \in aliases : a.from \in Nat
      BY Numbers DEF Numbered
    <3> QED
      BY <1>0, <1>1, <3>1, <3>2 DEF Aliases
  <2>5. n \in Forms(prepared, n)
    BY DEF Forms
  <2>6. n \in Known(x, b)'
    <3>1. Linked(Roster(Done), n, Forms(prepared, n)) = {x}
      BY <1>0, <2>1 DEF Link
    <3>2. \/ entity[x].name = n
          \/ \A y \in Visible(Done) :
               Forms(prepared, n) \intersect ({entity[y].name} \union Aliases(y, Done)) # {} => y = x
      BY <1>0, <3>1, LinkedIsKnown
    <3>3. CASE entity[x].name = n
      BY <2>3, <3>3 DEF Known
    <3>4. CASE /\ n \in Heard(prepared)
               /\ \A y \in Visible(Done) :
                    Forms(prepared, n) \intersect ({entity[y].name} \union Aliases(y, Done)) # {} => y = x
      <4>1. PICK r \in Roster(Done) : n \in {r.name} \union r.forms
        BY <1>0, <3>4 DEF Heard
      <4>2. PICK y \in Visible(Done) : r.name = entity[y].name /\ r.forms = Aliases(y, Done)
        BY RosterIsFinite, <1>0, <4>1 DEF OnRoster
      <4>3. y = x
        BY <2>5, <3>4, <4>1, <4>2
      <4>4. n = entity[x].name \/ n \in Aliases(x, Done)
        BY <4>1, <4>2, <4>3
      <4> QED
        BY <2>3, <2>4, <4>4 DEF Known
    <3>5. CASE n \notin Heard(prepared)
      <4>1. n \in Noted(prepared, n, n \in Strangers)
        BY <1>6, <2>5, <3>5 DEF Noted
      <4>2. [ent |-> x, form |-> n, from |-> Coming, ch |-> Coming] \in aliases'
        BY <1>2, <4>1, CommitWrites
      <4>3. n \in Aliases(x, b)'
        BY <4>2 DEF Aliases
      <4> QED
        BY <4>3 DEF Known
    <3> QED
      BY <3>2, <3>3, <3>4, <3>5
  <2> QED
    BY <1>2, <1>4, <2>3, <2>6
<1> QED
  BY <1>5, <1>6

\* So what the chapter mentions is mentioned.
LEMMA ComingMentioned ==
    ASSUME RowsInv, BookInv, Commit, NEW b \in Bookmarks, Coming <= b,
           NEW k, NEW S, k = Coming, S = prepared.names
    PROVE  Mentions(k, S, b)'
<1>0. /\ b \in Nat /\ b <= Chapters /\ Chapters \in Nat /\ Never = Chapters + 1 /\ Never' = Never
      /\ EntitiesInv /\ Coming \in Nat
  BY Basics, CommitIsLocal DEF RowsInv, Bookmarks, Never
<1>1. S = prepared.names /\ k = Coming
  OBVIOUS
<1>3. ASSUME NEW n \in S PROVE Mentioned(k, n, b)'
  <2>1. PICK x \in Visible(b)' : n \in Known(x, b)' /\ k \in Scenes(x, b)'
    BY NamedArePresent
  <2> QED
    BY <2>1 DEF Mentioned, Known, Scenes, Aliases
<1>4. ASSUME Cardinality(S) = 2 PROVE Tied(k, S, b)'
  <2>1. IsFiniteSet(S)
    BY <1>1, PeopleAssumption, FS_Subset DEF BookInv
  <2>2. PICK m \in S : TRUE
    BY <1>4, FS_EmptySet
  <2>3. IsFiniteSet(S \ {m}) /\ Cardinality(S \ {m}) = 1
    BY <1>4, <2>1, <2>2, FS_RemoveElement
  <2>4. PICK n : S \ {m} = {n}
    BY <2>3, FS_Singleton
  <2>5. S = {m, n} /\ m # n /\ n \in S
    BY <2>2, <2>4
  <2>6. ASSUME NEW p \in S, NEW q \in S, p # q, S = {p, q}, IdOf[p] <= IdOf[q] PROVE Tied(k, S, b)'
    <3>1. PICK x \in Visible(b)' : x = IdOf[p] /\ p \in Known(x, b)'
      BY <1>1, <2>6, NamedArePresent
    <3>2. PICK y \in Visible(b)' : y = IdOf[q] /\ q \in Known(y, b)'
      BY <1>1, <2>6, NamedArePresent
    <3>3. PICK r : r = [src |-> x, dst |-> y, from |-> k, to |-> Never, ch |-> k]
      OBVIOUS
    <3>4. r \in edges'
      <4>1. <<p, q>> \in {z \in prepared.names \X prepared.names : z[1] # z[2] /\ IdOf[z[1]] <= IdOf[z[2]]}
        BY <1>1, <2>6
      <4>2. r = [src |-> IdOf[<<p, q>>[1]], dst |-> IdOf[<<p, q>>[2]], from |-> Coming, to |-> Never, ch |-> Coming]
        BY <1>1, <3>1, <3>2, <3>3
      <4> QED
        BY <4>1, <4>2, CommitWrites
    <3>5. r.src = x /\ r.dst = y /\ r.from = k /\ r.to = Never /\ r.ch = k
      BY <3>3
    <3>6. r \in Ties(b)'
      BY <1>0, <1>1, <3>1, <3>2, <3>4, <3>5 DEF Ties, Live
    <3>7. S \subseteq Known(x, b)' \union Known(y, b)'
      BY <2>6, <3>1, <3>2
    <3> QED
      BY <3>5, <3>6, <3>7 DEF Tied, Known, Aliases
  <2>7. IdOf[m] <= IdOf[n] \/ IdOf[n] <= IdOf[m]
    <3>1. IdOf[m] \in Ids' /\ IdOf[n] \in Ids'
      BY <1>0, <1>1, <2>5, EntitiesAdded DEF Present
    <3>2. \A i \in Ids' : i \in Int
      BY DEF Ids
    <3>3. PICK i \in Int, j \in Int : i = IdOf[m] /\ j = IdOf[n]
      BY <3>1, <3>2
    <3> QED
      BY <3>3
  <2> QED
    BY <2>5, <2>6, <2>7
<1> QED
  BY <1>3, <1>4 DEF Mentions

\* A commit takes nothing away that was mentioned before,
LEMMA CommitMentions ==
    ASSUME RowsInv, BookInv, Commit, NEW k, NEW S, NEW b \in Bookmarks, Mentions(k, S, b)
    PROVE  Mentions(k, S, b)'
<1>0. /\ EntitiesInv /\ EntitiesInv' /\ Ids \subseteq Ids' /\ DOMAIN entity = Ids
      /\ \A e \in Ids : entity'[e] = entity[e]
  BY EntitiesAdded, Basics DEF RowsInv
<1>1. DOMAIN entity' = Ids'
  BY <1>0 DEF EntitiesInv, Ids
<1>2. aliases \subseteq aliases' /\ edges \subseteq edges' /\ parts \subseteq parts'
  BY CommitIsLocal DEF NotBefore
<1>3. PICK M : M = [x \in Visible(b) |-> x]
  OBVIOUS
<1>4. ASSUME NEW x \in Visible(b)
      PROVE  x \in Visible(b)' /\ Known(x, b) \subseteq Known(x, b)' /\ Scenes(x, b) \subseteq Scenes(x, b)'
  <2>1. x \in Ids /\ entity'[x] = entity[x] /\ x \in DOMAIN entity'
    BY <1>0, <1>1 DEF Visible
  <2>2. x \in Visible(b)'
    BY <2>1 DEF Visible, Live
  <2>3. Aliases(x, b) \subseteq Aliases(x, b)'
    BY <1>2 DEF Aliases
  <2>4. Scenes(x, b) \subseteq Scenes(x, b)'
    BY <1>2 DEF Scenes
  <2> QED
    BY <2>1, <2>2, <2>3, <2>4 DEF Known
<1>5. ASSUME NEW r \in Ties(b)
      PROVE  \E o \in Ties(b)' : o.src = M[r.src] /\ o.dst = M[r.dst] /\ o.ch = r.ch
  <2>1. r \in edges /\ Live(r, b) /\ r.src \in Visible(b) /\ r.dst \in Visible(b)
    BY DEF Ties
  <2>2. r \in Ties(b)'
    BY <1>2, <1>4, <2>1 DEF Ties, Live
  <2> QED
    BY <1>3, <2>1, <2>2
<1>6. \A x \in Visible(b) : M[x] = x
  BY <1>3
<1>7. ASSUME NEW x \in Visible(b)
      PROVE  /\ M[x] \in Visible(b)' /\ Known(x, b) \subseteq Known(M[x], b)'
             /\ Scenes(x, b) \subseteq Scenes(M[x], b)'
  BY <1>4, <1>6
<1> QED
  BY <1>5, <1>7, MentionsMove

\* and mentions its own chapter.
LEMMA CommitMentionsAll ==
    ASSUME RowsInv, BookInv, Commit, AllMentions
    PROVE  AllMentions'
<1>0. /\ Coming = Done + 1 /\ Done \in Nat /\ Done' = Done + 1 /\ corrections' = corrections
      /\ told' = Append(told, prepared.names) /\ told \in Seq(SUBSET People) /\ Done = Len(told)
  BY CommitIsLocal, CommitWrites DEF BookInv, Done
<1>a. SUFFICES ASSUME OnlyReplaced', NEW k \in (1..Done)', NEW b \in Bookmarks, k <= b, NEW S, S = told'[k]
               PROVE  Mentions(k, S, b)'
  BY DEF AllMentions, Bookmarks, Mentions, Mentioned, Tied
<1>1. OnlyReplaced /\ k \in 1..(Done + 1) /\ k <= b /\ S = told'[k]
  BY <1>0, <1>a DEF OnlyReplaced
<1>2. CASE k = Done + 1
  <2>1. S = prepared.names /\ k = Coming
    BY <1>0, <1>1, <1>2
  <2> QED
    BY <1>1, <2>1, ComingMentioned
<1>3. CASE k # Done + 1
  <2>1. k \in 1..Done /\ S = told[k]
    BY <1>0, <1>1, <1>3
  <2>2. Mentions(k, S, b)
    BY <1>1, <2>1 DEF AllMentions
  <2> QED
    BY <2>2, CommitMentions
<1> QED
  BY <1>2, <1>3

\* Nothing is mentioned otherwise while no row changes.
LEMMA SameRowsMentioned ==
    ASSUME UNCHANGED <<rows, told, corrections>>, AllMentions
    PROVE  AllMentions'
BY DEF rows, AllMentions, OnlyReplaced, Done, Bookmarks, Mentions, Mentioned, Tied, Known, Aliases, Scenes,
       Ties, Visible, Live

\* A split or a merge is not a reader's correction.
LEMMA OthersRecorded ==
    ASSUME BookInv, EntitiesInv, NEW kind, NEW at \in Nat, NEW ids, NEW targets, told' = told,
           corrections' = Recorded(kind, at, ids, targets), BookInv'
    PROVE  /\ kind # "replace" => ~OnlyReplaced'
           /\ OnlyReplaced' => OnlyReplaced
<1>1. /\ Len(corrections') = Len(corrections) + 1 /\ corrections'[Len(corrections')].kind = kind
      /\ \A i \in DOMAIN corrections : corrections'[i] = corrections[i]
  BY HistoryKept
<1>2. PICK n \in Nat : n = Len(corrections) /\ DOMAIN corrections = 1..n
  BY DEF BookInv
<1>3. PICK m \in Nat : m = Len(corrections') /\ DOMAIN corrections' = 1..m
  BY DEF BookInv
<1>4. m = n + 1 /\ n + 1 \in 1..m /\ 1..n \subseteq 1..m
  BY <1>1, <1>2, <1>3
<1> QED
  BY <1>1, <1>2, <1>3, <1>4 DEF OnlyReplaced

\* Every step keeps them.
LEMMA StepsMention ==
    ASSUME RowsInv, BookInv, [HostedNext]_hvars, RowsInv', BookInv', AllMentions
    PROVE  AllMentions'
<1>0. EntitiesInv /\ Told \subseteq Nat
  BY DEF RowsInv, Told
<1>1. CASE Move
  <2>1. OnlyReplaced' => OnlyReplaced
    BY <1>1, MovedRecords DEF OnlyReplaced
  <2>2. told' = told
    BY <1>1, MoveCorrectsNothing
  <2>3. ASSUME NEW k, NEW S, NEW b \in Bookmarks, Mentions(k, S, b) PROVE Mentions(k, S, b)'
    BY <1>1, <2>3, MoveMentions
  <2> QED
    BY <2>1, <2>2, <2>3, SameChaptersMentioned
<1>2. CASE Commit
  BY <1>2, CommitMentionsAll
<1>3. ASSUME told' = told, NEW e \in Ids, NEW at \in Told, NEW name \in Renames, Replace(e, at, name)
      PROVE  AllMentions'
  <2>1. name \in Given /\ corrections' = Recorded("replace", at, {e}, {Target})
    BY <1>3, ReplaceWrites DEF Given
  <2>2. OnlyReplaced' => OnlyReplaced
    BY <1>0, <1>3, <2>1, OthersRecorded
  <2>3. ASSUME NEW k, NEW S, NEW b \in Bookmarks, Mentions(k, S, b) PROVE Mentions(k, S, b)'
    BY <1>3, <2>1, <2>3, ReplaceMentions
  <2> QED
    BY <1>3, <2>2, <2>3, SameChaptersMentioned
<1>4. ASSUME told' = told, NEW e \in Ids, NEW at \in Told, NEW all \in SUBSET (1..2), NEW some \in SUBSET (1..2),
             SplitInTwo(e, at, all, some)
      PROVE  AllMentions'
  <2>1. corrections' = Recorded("split", at, {e}, {Half(1), Half(2)})
    BY <1>4, SplitWrites
  <2>2. ~OnlyReplaced'
    BY <1>0, <1>4, <2>1, OthersRecorded
  <2> QED
    BY <2>2 DEF AllMentions
<1>5. ASSUME told' = told, NEW ids \in SUBSET Ids, NEW at \in Told, Merge(ids, at, "merged")
      PROVE  AllMentions'
  <2>1. corrections' = Recorded("merge", at, ids, {Target})
    BY <1>5, MergeWrites
  <2>2. ~OnlyReplaced'
    BY <1>0, <1>5, <2>1, OthersRecorded
  <2> QED
    BY <2>2 DEF AllMentions
<1> QED
  BY <1>1, <1>2, <1>3, <1>4, <1>5, StepsAre, SameRowsMentioned

\* While only the reader corrected, whoever a completed chapter named is shown at
\* every bookmark from that chapter on, is known by the name the chapter used, is
\* in its scene and has its ties, wherever the book is.
THEOREM MentionsHold == HostedSpec => []MentionsKept
<1>1. HostedInit => AllMentions
  BY DEF HostedInit, Init, AllMentions, Done
<1>2. IInv /\ IInv' /\ [HostedNext]_hvars /\ AllMentions => AllMentions'
  BY StepsMention, Zenon DEF IInv
<1>3. HostedSpec => []AllMentions
  BY <1>1, <1>2, HostedInductive, PTL DEF HostedSpec
<1> QED
  BY <1>3, MentionsAre, PTL

-----------------------------------------------------------------------------
(* Store: the inductive invariant *)

\* A thread holds a lease from _lease to _release.
Leased(t) == th[t].pc \notin {"idle", "lease"}
Leasers(e) == {t \in Threads : Leased(t) /\ th[t].e = e}

\* Those of some threads whose lease is of an entry.
OfEntry(L, e) == {u \in L : th[u].e = e}

\* Those threads' calls are for none of the books; for all of them.
ForNone(L, books) == \A c \in books : \A u \in L : th[u].b # c
ForAll(L, books) == \A c \in books : \E u \in L : th[u].b = c

\* A lease names the book's registered entry, and an entry counts its leases; a
\* book with a cached handle has an entry, and no two books share one.
LeasesInv ==
    /\ \A t \in Threads : th[t].pc = "lease" => th[t].e = 0
    /\ \A t \in Threads : Leased(t) => th[t].e # 0 /\ locks[th[t].b] = th[t].e
    /\ \A b, c \in Books : locks[b] = locks[c] /\ locks[b] # 0 => b = c
    /\ \A b \in Opened : locks[b] # 0
    /\ \A e \in Entries : entry[e].refs = Cardinality(Leasers(e))

\* The holder of a lock is the one thread inside it.
HoldersInv ==
    /\ \A t \in Threads : InLock(t) => entry[th[t].e].holder = t
    /\ \A e \in Entries : entry[e].holder # "nobody" =>
         InLock(entry[e].holder) /\ th[entry[e].holder].e = e

\* A connection is cached or about to be closed, by the thread that took it out.
Closing(t, b) == th[t].pc = "closing" /\ th[t].b = b
ConnectionsInv ==
    /\ \A t \in Threads : th[t].pc = "closing" => th[t].b \notin Opened
    /\ \A t \in Threads : th[t].pc = "body" => th[t].b \in Opened
    /\ \A b \in Books : opened[b] = IF b \in Opened \/ (\E t \in Threads : Closing(t, b)) THEN 1 ELSE 0

StoreInv == StoreTypeOK /\ LeasesInv /\ HoldersInv /\ ConnectionsInv /\ CacheBounded

-----------------------------------------------------------------------------
(* Store: sequences of handles *)

\* A book of the cache has a place in it.
LEMMA PlaceFacts ==
    ASSUME NEW hs \in Seq(Books), NEW b \in ToSet(hs)
    PROVE  Place(hs, b) \in 1..Len(hs) /\ hs[Place(hs, b)] = b
<1>1. \E i \in 1..Len(hs) : hs[i] = b
  BY DEF ToSet
<1> QED
  BY <1>1 DEF Place

\* The cache has as many places as books.
LEMMA CacheSize ==
    ASSUME NEW S, NEW hs \in Seq(S), IsInjective(hs)
    PROVE  IsFiniteSet(ToSet(hs)) /\ Cardinality(ToSet(hs)) = Len(hs)
<1> DEFINE n == Len(hs)
<1>1. n \in Nat /\ hs \in [1..n -> S] /\ DOMAIN hs = 1..n
  OBVIOUS
<1>2. IsFiniteSet(1..n) /\ Cardinality(1..n) = n
  BY <1>1, FS_Interval
<1>3. hs \in [1..n -> ToSet(hs)] /\ \A x \in ToSet(hs) : \E i \in 1..n : hs[i] = x
  BY <1>1 DEF ToSet
<1>4. hs \in Surjection(1..n, ToSet(hs))
  BY <1>3, Zenon DEF Surjection
<1>5. hs \in Injection(1..n, ToSet(hs))
  BY <1>1, <1>3 DEF Injection, IsInjective
<1> QED
  BY <1>2, <1>4, <1>5, FS_Surjection

\* What is left of a cache is a cache, of the other books.
LEMMA WithoutFacts ==
    ASSUME NEW hs \in Seq(Books), IsInjective(hs), NEW gone \in SUBSET ToSet(hs),
           NEW rest \in Without(hs, gone)
    PROVE  /\ rest \in Seq(Books) /\ IsInjective(rest)
           /\ ToSet(rest) = ToSet(hs) \ gone
           /\ Len(rest) = Len(hs) - Cardinality(gone) /\ Cardinality(gone) \in Nat
<1> DEFINE n == Len(hs) - Cardinality(gone)
           left == ToSet(hs) \ gone
<1>1. IsFiniteSet(ToSet(hs)) /\ Cardinality(ToSet(hs)) = Len(hs) /\ Len(hs) \in Nat
  BY CacheSize
<1>2. IsFiniteSet(gone) /\ Cardinality(gone) \in Nat /\ Cardinality(gone) <= Len(hs)
  BY <1>1, FS_Subset, FS_CardinalityType
<1>3. ToSet(hs) \cap gone = gone
  OBVIOUS
<1>4. IsFiniteSet(left) /\ Cardinality(left) = n
  <2>1. IsFiniteSet(left) /\ Cardinality(left) = Cardinality(ToSet(hs)) - Cardinality(ToSet(hs) \cap gone)
    BY <1>1, FS_Difference, Zenon
  <2> QED
    BY <2>1, <1>1, <1>3, Zenon
<1>5. n \in Nat
  BY <1>1, <1>2
<1>6. IsFiniteSet(1..n) /\ Cardinality(1..n) = n
  BY <1>5, FS_Interval
<1>7. rest \in [1..n -> left] /\ ToSet(rest) = left
  BY DEF Without
<1>8. rest \in Surjection(1..n, left)
  <2>1. \A x \in left : \E i \in 1..n : rest[i] = x
    BY <1>7 DEF ToSet
  <2> QED
    BY <1>7, <2>1, Zenon DEF Surjection
<1>9. rest \in Injection(1..n, left)
  BY <1>4, <1>6, <1>8, FS_SurjSameCardinalityImpliesInj
<1>10. IsInjective(rest)
  BY <1>7, <1>9 DEF Injection, IsInjective
<1>11. left \subseteq Books
  BY DEF ToSet
<1>12. rest \in Seq(Books) /\ Len(rest) = n
  BY <1>5, <1>7, <1>11
<1> QED
  BY <1>2, <1>7, <1>10, <1>12

\* A touched handle is in the cache, once.
LEMMA TouchedFacts ==
    ASSUME handles \in Seq(Books), IsInjective(handles), NEW b \in Books, NEW hs \in Touched(b)
    PROVE  hs \in Seq(Books) /\ IsInjective(hs) /\ ToSet(hs) = Opened \cup {b}
<1>1. PICK rest \in Without(handles, {b} \cap Opened) : hs = Append(rest, b)
  BY DEF Touched
<1>2. {b} \cap Opened \in SUBSET ToSet(handles)
  BY DEF Opened
<1>3. rest \in Seq(Books) /\ IsInjective(rest) /\ ToSet(rest) = Opened \ ({b} \cap Opened)
  BY <1>2, WithoutFacts DEF Opened
<1>4. hs \in Seq(Books) /\ Len(hs) = Len(rest) + 1
      /\ \A i \in 1..Len(hs) : hs[i] = IF i = Len(rest) + 1 THEN b ELSE rest[i]
  BY <1>1, <1>3
<1>5. \A i \in 1..Len(rest) : rest[i] # b
  BY <1>3 DEF ToSet
<1>6. IsInjective(hs)
  BY <1>3, <1>4, <1>5 DEF IsInjective
<1>7. ToSet(hs) = ToSet(rest) \cup {b}
  BY <1>3, <1>4 DEF ToSet
<1> QED
  BY <1>3, <1>4, <1>6, <1>7

\* Fewer victims than there are handles too many: then whoever could go is gone.
LEMMA AllGone ==
    ASSUME NEW hs \in Seq(Books), IsInjective(hs), NEW ents,
           Cardinality(Victims(hs, ents)) < Len(hs) - MaxHandles
    PROVE  Evictable(hs, ents) \subseteq Victims(hs, ents)
<1> USE MaxHandlesAssumption
<1> DEFINE E == Evictable(hs, ents)
           V == Victims(hs, ents)
           Upto(b) == {c \in E : Place(hs, c) <= Place(hs, b)}
           Left == {Place(hs, b) : b \in E \ V}
<1>1. E \subseteq ToSet(hs) /\ V \subseteq E
  BY DEF Evictable, Victims
<1>2. IsFiniteSet(V) /\ Cardinality(V) \in Nat /\ IsFiniteSet(ToSet(hs))
  BY <1>1, CacheSize, FS_Subset, FS_CardinalityType
<1>3. SUFFICES ASSUME E \ V # {} PROVE FALSE
  OBVIOUS
<1>4. Left \subseteq Nat /\ Left # {}
  BY <1>1, <1>3, PlaceFacts
<1>5. PICK n \in Left : \A m \in Left : n <= m
  BY <1>4, LeastNat
<1>6. PICK b \in E \ V : n = Place(hs, b)
  BY <1>5
<1>7. Upto(b) \subseteq V \cup {b}
  <2>1. ASSUME NEW c \in E, Place(hs, c) <= Place(hs, b), c \notin V PROVE c = b
    <3>1. c \in E \ V /\ Place(hs, c) \in Left
      BY <2>1
    <3>2. n <= Place(hs, c)
      BY <1>5, <3>1
    <3>3. Place(hs, c) \in Nat /\ Place(hs, b) \in Nat
      BY <1>1, <1>6, <3>1, PlaceFacts
    <3>4. Place(hs, c) = Place(hs, b)
      BY <1>6, <2>1, <3>2, <3>3
    <3> QED
      BY <1>1, <1>6, <3>4, PlaceFacts
  <2> QED
    BY <2>1
<1>8. IsFiniteSet(V \cup {b}) /\ Cardinality(V \cup {b}) = Cardinality(V) + 1
  BY <1>2, <1>6, FS_AddElement
<1>9. Cardinality(Upto(b)) \in Nat /\ Cardinality(Upto(b)) <= Cardinality(V) + 1
  BY <1>7, <1>8, FS_Subset, FS_CardinalityType
<1>10. Len(hs) \in Nat /\ Cardinality(V) < Len(hs) - MaxHandles
  OBVIOUS
<1>11. Cardinality(Upto(b)) <= Len(hs) - MaxHandles
  BY <1>2, <1>9, <1>10
<1>12. b \in V
  BY <1>6, <1>11 DEF Victims
<1> QED
  BY <1>6, <1>12

-----------------------------------------------------------------------------
(* Store: threads *)

\* A thread that is not idle runs a call.
LEMMA RunnerTyped ==
    ASSUME StoreTypeOK, NEW t \in Threads, th[t].pc # "idle"
    PROVE  th[t] \in Runs
BY DEF StoreTypeOK, Idle

\* One thread moves.
LEMMA ThreadMoves ==
    ASSUME StoreTypeOK, NEW t \in Threads, NEW r \in {Idle} \cup Runs, th' = [th EXCEPT ![t] = r]
    PROVE  /\ th' \in [Threads -> {Idle} \cup Runs]
           /\ th'[t] = r /\ \A u \in Threads \ {t} : th'[u] = th[u]
BY DEF StoreTypeOK

\* A thread goes on to another place of its call.
LEMMA PlaceMoves ==
    ASSUME StoreTypeOK, NEW t \in Threads, th[t].pc # "idle", NEW pc \in PCs \ {"idle"},
           th' = [th EXCEPT ![t].pc = pc]
    PROVE  /\ th' \in [Threads -> {Idle} \cup Runs]
           /\ th'[t].pc = pc /\ th'[t].b = th[t].b /\ th'[t].e = th[t].e
           /\ \A u \in Threads \ {t} : th'[u] = th[u]
<1> DEFINE r == [th[t] EXCEPT !.pc = pc]
<1>1. th[t] \in Runs
  BY RunnerTyped
<1>2. r \in Runs /\ r.pc = pc /\ r.b = th[t].b /\ r.e = th[t].e
  BY <1>1 DEF Runs
<1>3. th' = [th EXCEPT ![t] = r]
  BY DEF StoreTypeOK
<1> HIDE DEF r
<1> QED
  BY <1>2, <1>3, ThreadMoves

\* A call that is under way names a book.
LEMMA OfABook ==
    ASSUME StoreTypeOK, NEW t \in Threads, th[t].pc # "idle"
    PROVE  th[t].b \in Books /\ th[t].e \in Entries \cup {0}
BY RunnerTyped DEF Runs

\* Leases stay with their entries while no thread takes or gives one up.
LEMMA LeasesStay ==
    ASSUME StoreTypeOK, LeasesInv, NEW t \in Threads, Leased(t), Leased(t)',
           th'[t].b = th[t].b, th'[t].e = th[t].e, \A u \in Threads \ {t} : th'[u] = th[u],
           \A c \in Books : locks'[c] \in {locks[c], 0},
           \A u \in Threads : Leased(u) => locks'[th[u].b] = locks[th[u].b],
           \A e \in Entries : entry'[e].refs = entry[e].refs,
           \A b \in Opened' : b \in Books /\ locks'[b] # 0
    PROVE  LeasesInv'
<1>1. \A u \in Threads : Leased(u)' <=> Leased(u)
  BY DEF Leased
<1>2. \A e \in Entries : Leasers(e)' = Leasers(e)
  BY <1>1 DEF Leasers
<1>3. \A u \in Threads : th'[u].pc = "lease" => th'[u].e = 0
  BY DEF LeasesInv, Leased
<1>4. \A u \in Threads : Leased(u)' => th'[u].e # 0 /\ locks'[th'[u].b] = th'[u].e
  BY <1>1 DEF LeasesInv
<1>5. \A b, c \in Books : locks'[b] = locks'[c] /\ locks'[b] # 0 => b = c
  BY DEF LeasesInv
<1> QED
  BY <1>2, <1>3, <1>4, <1>5 DEF LeasesInv

\* Only one thread is inside a book's lock.
LEMMA SoleSession == ASSUME StoreTypeOK, LeasesInv, HoldersInv PROVE OneSession
BY DEF LeasesInv, HoldersInv, OneSession, InLock, Leased

\* A lock changes hands within its entry.
LEMMA EntryTyped ==
    ASSUME StoreTypeOK, NEW e \in Entries, NEW h \in Threads \cup {"nobody"},
           entry' = [entry EXCEPT ![e].holder = h]
    PROVE  /\ entry' \in [Entries -> [holder : Threads \cup {"nobody"}, refs : 0..Cardinality(Threads)]]
           /\ entry'[e].holder = h /\ \A x \in Entries : entry'[x].refs = entry[x].refs
           /\ \A x \in Entries \ {e} : entry'[x] = entry[x]
BY DEF StoreTypeOK

\* What an eviction leaves, given who holds leases: the handles of books that are
\* leased, and no other if there are too many.
LEMMA Evicts ==
    ASSUME StoreTypeOK, LeasesInv, NEW hs \in Seq(Books), IsInjective(hs),
           \A c \in ToSet(hs) : locks[c] # 0,
           NEW L \in SUBSET Threads, \A u \in L : Leased(u), NEW ents,
           \A e \in Entries : ents[e].refs = Cardinality(OfEntry(L, e)),
           NEW rest \in Without(hs, Victims(hs, ents))
    PROVE  /\ rest \in Seq(Books) /\ IsInjective(rest)
           /\ Victims(hs, ents) \subseteq ToSet(hs) /\ ToSet(rest) = ToSet(hs) \ Victims(hs, ents)
           /\ ForNone(L, Victims(hs, ents))
           /\ Len(rest) > MaxHandles => ForAll(L, ToSet(rest))
<1> USE ThreadsAssumption, MaxHandlesAssumption
<1> DEFINE V == Victims(hs, ents)
           Of(e) == OfEntry(L, e)
<1>1. V \subseteq Evictable(hs, ents) /\ Evictable(hs, ents) \subseteq ToSet(hs)
  BY DEF Victims, Evictable
<1>2. V \in SUBSET ToSet(hs)
  BY <1>1
<1>3. /\ rest \in Seq(Books) /\ IsInjective(rest) /\ ToSet(rest) = ToSet(hs) \ V
      /\ Len(rest) = Len(hs) - Cardinality(V) /\ Cardinality(V) \in Nat
  BY <1>2, WithoutFacts
<1>4. \A c \in ToSet(hs) : c \in Books /\ locks[c] \in Entries
  BY DEF ToSet, StoreTypeOK
<1>5. \A e \in Entries : IsFiniteSet(Of(e)) /\ (Cardinality(Of(e)) = 0 <=> Of(e) = {})
  BY FS_Subset, FS_EmptySet DEF OfEntry
<1>6. \A c \in ToSet(hs) : c \in Evictable(hs, ents) <=> ~\E u \in L : th[u].b = c
  <2> SUFFICES ASSUME NEW c \in ToSet(hs) PROVE c \in Evictable(hs, ents) <=> ~\E u \in L : th[u].b = c
    OBVIOUS
  <2>1. c \in Evictable(hs, ents) <=> Of(locks[c]) = {}
    BY <1>4, <1>5 DEF Evictable
  <2>2. \A u \in L : th[u].e = locks[c] <=> th[u].b = c
    BY <1>4, OfABook DEF LeasesInv, Leased
  <2> QED
    BY <2>1, <2>2 DEF OfEntry
<1>7. ASSUME Len(rest) > MaxHandles, NEW c \in ToSet(rest) PROVE \E u \in L : th[u].b = c
  <2>1. Len(rest) \in Nat /\ Len(hs) \in Nat
    BY <1>3
  <2>2. Cardinality(V) < Len(hs) - MaxHandles
    BY <1>3, <1>7, <2>1
  <2>3. Evictable(hs, ents) \subseteq V
    BY <2>2, AllGone
  <2> QED
    BY <1>3, <1>6, <1>7, <2>3
<1> QED
  BY <1>1, <1>3, <1>6, <1>7 DEF ForNone, ForAll

-----------------------------------------------------------------------------
(* Store: the steps *)

\* A call begins, or the next one of close().
LEMMA BeginKeeps ==
    ASSUME StoreInv, NEW t \in Threads,
           Close(t) \/ \E b \in Books : Call(t, "book", b) \/ Call(t, "evict", b)
    PROVE  StoreInv'
<1>1. StoreTypeOK /\ LeasesInv /\ HoldersInv /\ ConnectionsInv /\ CacheBounded
  BY DEF StoreInv
<1>2. PICK r \in Runs : r.pc = "lease" /\ r.e = 0 /\ th' = [th EXCEPT ![t] = r]
  <2>1. CASE Close(t)
    <3> DEFINE r == [pc |-> "lease", op |-> "evict", b |-> Head(handles), e |-> 0, todo |-> Tail(handles)]
    <3>1. r \in Runs
      BY <1>1, <2>1 DEF Close, Runs, PCs, StoreTypeOK
    <3> QED
      BY <2>1, <3>1 DEF Close
  <2>2. CASE \E b \in Books : Call(t, "book", b) \/ Call(t, "evict", b)
    <3>1. PICK b \in Books, op \in {"book", "evict"} : Call(t, op, b)
      BY <2>2
    <3> DEFINE r == [pc |-> "lease", op |-> op, b |-> b, e |-> 0, todo |-> <<>>]
    <3>2. r \in Runs
      BY DEF Runs, PCs
    <3> QED
      BY <3>1, <3>2 DEF Call
  <2> QED
    BY <2>1, <2>2
<1>3. th[t].pc = "idle" /\ UNCHANGED <<handles, locks, entry, opened>>
  BY DEF Close, Call
<1>4. /\ th' \in [Threads -> {Idle} \cup Runs]
      /\ th'[t] = r /\ \A u \in Threads \ {t} : th'[u] = th[u]
  BY <1>1, <1>2, ThreadMoves
<1>5. \A u \in Threads : Leased(u)' <=> Leased(u)
  BY <1>2, <1>3, <1>4 DEF Leased
<1>6. \A e \in Entries : Leasers(e)' = Leasers(e)
  BY <1>3, <1>4, <1>5 DEF Leasers, Leased
<1>7. StoreTypeOK'
  BY <1>1, <1>3, <1>4 DEF StoreTypeOK
<1>8. Opened' = Opened
  BY <1>3 DEF Opened
<1>9. LeasesInv'
  <2>1. \A u \in Threads : th'[u].pc = "lease" => th'[u].e = 0
    BY <1>1, <1>2, <1>4 DEF LeasesInv
  <2>2. \A u \in Threads : Leased(u)' => th'[u].e # 0 /\ locks'[th'[u].b] = th'[u].e
    BY <1>1, <1>2, <1>3, <1>4, <1>5 DEF LeasesInv, Leased
  <2> QED
    BY <1>1, <1>3, <1>6, <1>8, <2>1, <2>2 DEF LeasesInv
<1>10. HoldersInv'
  BY <1>1, <1>2, <1>3, <1>4 DEF HoldersInv, InLock, StoreTypeOK
<1>11. ConnectionsInv'
  <2>1. \A u \in Threads, b \in Books : Closing(u, b)' <=> Closing(u, b)
    BY <1>2, <1>3, <1>4 DEF Closing
  <2> QED
    BY <1>1, <1>2, <1>3, <1>4, <1>8, <2>1 DEF ConnectionsInv
<1>12. CacheBounded'
  BY <1>1, <1>2, <1>3, <1>4, <1>8 DEF CacheBounded, Runner
<1> QED
  BY <1>7, <1>9, <1>10, <1>11, <1>12 DEF StoreInv

\* A lease of a book without an entry takes one nobody uses.
LEMMA LeaseKeeps == ASSUME StoreInv, NEW t \in Threads, Lease(t) PROVE StoreInv'
<1> USE ThreadsAssumption, BooksAssumption
<1>1. StoreTypeOK /\ LeasesInv /\ HoldersInv /\ ConnectionsInv /\ CacheBounded
  BY DEF StoreInv
<1> DEFINE b == th[t].b
           used == {locks[c] : c \in Books} \cup {th[u].e : u \in {v \in Threads : th[v].pc # "idle"}}
           e == IF locks[b] # 0 THEN locks[b] ELSE CHOOSE x \in Entries \ used : TRUE
           E == IF locks[b] # 0 THEN entry[e] ELSE NewEntry
           F == [E EXCEPT !.refs = @ + 1]
           r == [th[t] EXCEPT !.pc = "lock", !.e = e]
<1>2. th[t] \in Runs /\ b \in Books /\ th[t].pc = "lease" /\ th[t].e = 0
  BY <1>1, RunnerTyped DEF Lease, LeasesInv, Runs

<1>3. \A x : IsFiniteSet(Leasers(x)) /\ Cardinality(Leasers(x)) \in Nat /\ t \notin Leasers(x)
  BY <1>2, FS_Subset, FS_CardinalityType DEF Leasers, Leased
<1>4. locks[b] = 0 => \E x \in Entries : x \notin used
  <2> SUFFICES ASSUME locks[b] = 0, Entries \subseteq used PROVE FALSE
    OBVIOUS
  <2>1. Cardinality(Threads) \in Nat /\ Cardinality(Threads) > 0 /\ Cardinality(Books) \in Nat
    BY FS_CardinalityType, FS_EmptySet
  <2>2. IsFiniteSet(Entries) /\ Cardinality(Entries) = Cardinality(Threads) + Cardinality(Books)
    <3> DEFINE m == Cardinality(Threads) + Cardinality(Books)
    <3>1. m \in Int /\ m >= 1 /\ Entries = 1..m
      BY <2>1 DEF Entries
    <3> HIDE DEF m
    <3>2. IsFiniteSet(1..m) /\ Cardinality(1..m) = m
      BY <3>1, FS_Interval
    <3> QED
      BY <3>1, <3>2 DEF m
  <2>3. \A x \in Entries : \E c \in Books : locks[c] = x
    <3> SUFFICES ASSUME NEW x \in Entries, NEW u \in Threads, th[u].pc # "idle", th[u].e = x
                 PROVE  \E c \in Books : locks[c] = x
      OBVIOUS
    <3>1. x # 0
      BY <2>1 DEF Entries
    <3> QED
      BY <1>1, <3>1, OfABook DEF LeasesInv, Leased
  <2> DEFINE f == [c \in Books |-> IF locks[c] = 0 THEN 1 ELSE locks[c]]
  <2>4. f \in [Books -> Entries]
    BY <1>1, <2>1 DEF StoreTypeOK, Entries
  <2>5. \A x \in Entries : \E c \in Books : f[c] = x
    BY <2>1, <2>3 DEF Entries
  <2>6. f \in Surjection(Books, Entries)
    BY <2>4, <2>5, Zenon DEF Surjection
  <2>7. Cardinality(Entries) <= Cardinality(Books)
    BY <2>6, FS_Surjection
  <2> QED
    BY <2>1, <2>2, <2>7
<1>5. e \in Entries /\ (locks[b] = 0 => e \notin used)
  BY <1>1, <1>2, <1>4 DEF StoreTypeOK
<1>6. 0 \notin Entries
  BY DEF Entries
<1>7. \A x \in Entries : Cardinality(Leasers(x)) < Cardinality(Threads)
  <2> SUFFICES ASSUME NEW x \in Entries PROVE Cardinality(Leasers(x)) < Cardinality(Threads)
    OBVIOUS
  <2>1. Leasers(x) \in SUBSET (Threads \ {t})
    BY <1>3 DEF Leasers
  <2>2. IsFiniteSet(Threads \ {t}) /\ Cardinality(Threads \ {t}) = Cardinality(Threads) - 1
    BY FS_RemoveElement
  <2> QED
    BY <2>1, <2>2, <1>3, FS_Subset, FS_CardinalityType
<1>8. E.refs = Cardinality(Leasers(e)) /\ E \in [holder : Threads \cup {"nobody"}, refs : Nat]
      /\ (locks[b] = 0 => Leasers(e) = {} /\ E.holder = "nobody") /\ (locks[b] # 0 => E = entry[e])
  <2>1. CASE locks[b] # 0
    BY <1>1, <1>5, <2>1 DEF LeasesInv, StoreTypeOK
  <2>2. CASE locks[b] = 0
    <3>1. Leasers(e) = {}
      BY <1>5, <2>2 DEF Leasers, Leased
    <3> QED
      BY <2>2, <3>1, FS_EmptySet DEF NewEntry
  <2> QED
    BY <2>1, <2>2
<1>9. UNCHANGED <<handles, opened>> /\ locks' = [locks EXCEPT ![b] = e] /\ entry' = [entry EXCEPT ![e] = F]
  BY DEF Lease
<1>10. F \in [holder : Threads \cup {"nobody"}, refs : 0..Cardinality(Threads)]
       /\ F.refs = Cardinality(Leasers(e)) + 1 /\ F.holder = E.holder
  BY <1>3, <1>5, <1>7, <1>8, FS_CardinalityType
<1>11. r \in Runs /\ r.pc = "lock" /\ r.e = e /\ r.b = b
  BY <1>2, <1>5 DEF Runs, PCs
<1>12. th' = [th EXCEPT ![t] = r]
  <2>1. th' = [th EXCEPT ![t].pc = "lock", ![t].e = e]
    BY DEF Lease
  <2>2. r = [[th[t] EXCEPT !.pc = "lock"] EXCEPT !.e = e]
    OBVIOUS
  <2> HIDE DEF e, r
  <2>3. th' = [[th EXCEPT ![t].pc = "lock"] EXCEPT ![t].e = e]
    BY <2>1
  <2> QED
    BY <1>1, <2>2, <2>3 DEF StoreTypeOK
<1> HIDE DEF b, e, E, F, r
<1>13. /\ th' \in [Threads -> {Idle} \cup Runs]
       /\ th'[t] = r /\ \A u \in Threads \ {t} : th'[u] = th[u]
  BY <1>1, <1>11, <1>12, ThreadMoves
<1>14. Opened' = Opened
  BY <1>9 DEF Opened
<1>15. /\ locks'[b] = e /\ \A c \in Books \ {b} : locks'[c] = locks[c]
       /\ entry'[e] = F /\ \A x \in Entries \ {e} : entry'[x] = entry[x]
  BY <1>1, <1>2, <1>5, <1>9 DEF StoreTypeOK
<1>16. StoreTypeOK'
  BY <1>1, <1>2, <1>5, <1>9, <1>10, <1>13 DEF StoreTypeOK
<1>17. /\ Leased(t)' /\ ~Leased(t)
       /\ \A u \in Threads \ {t} : Leased(u)' <=> Leased(u)
  BY <1>2, <1>11, <1>13 DEF Leased
<1>18. \A x \in Entries : Leasers(x)' = IF x = e THEN Leasers(x) \cup {t} ELSE Leasers(x)
  BY <1>11, <1>13, <1>17 DEF Leasers
<1>19. LeasesInv'
  <2>1. \A u \in Threads : th'[u].pc = "lease" => th'[u].e = 0
    BY <1>1, <1>11, <1>13 DEF LeasesInv
  <2>2. locks[b] = 0 => \A c \in Books : locks[c] # e
    BY <1>5
  <2>3. locks[b] # 0 => e = locks[b]
    BY DEF e
  <2>4. \A u \in Threads : Leased(u)' => th'[u].e # 0 /\ locks'[th'[u].b] = th'[u].e
    <3>1. \A u \in Threads \ {t} : Leased(u) => th[u].e # 0 /\ locks[th[u].b] = th[u].e /\ th[u].b \in Books
      BY <1>1, OfABook DEF LeasesInv, Leased
    <3>2. \A u \in Threads \ {t} : Leased(u) => locks'[th[u].b] = locks[th[u].b]
      BY <1>15, <2>3, <3>1
    <3> QED
      BY <1>5, <1>6, <1>11, <1>13, <1>15, <1>17, <3>1, <3>2
  <2>5. \A c, d \in Books : locks'[c] = locks'[d] /\ locks'[c] # 0 => c = d
    BY <1>1, <1>2, <1>15, <2>2, <2>3 DEF LeasesInv
  <2>6. \A c \in Opened : locks'[c] # 0
    <3>1. \A c \in Opened : c \in Books /\ locks[c] # 0
      BY <1>1 DEF LeasesInv, Opened, ToSet, StoreTypeOK
    <3> QED
      BY <1>5, <1>6, <1>15, <3>1
  <2>7. \A x \in Entries : entry'[x].refs = Cardinality(Leasers(x))'
    <3>1. Cardinality(Leasers(e) \cup {t}) = Cardinality(Leasers(e)) + 1
      BY <1>3, FS_AddElement
    <3> QED
      BY <1>1, <1>10, <1>15, <1>18, <3>1 DEF LeasesInv
  <2> QED
    BY <1>14, <2>1, <2>4, <2>5, <2>6, <2>7 DEF LeasesInv
<1>20. HoldersInv'
  <2>1. \A u \in Threads : InLock(u)' <=> InLock(u)
    BY <1>2, <1>11, <1>13 DEF InLock
  <2>2. ~InLock(t)
    BY <1>2 DEF InLock
  <2>3. \A u \in Threads : InLock(u) => th[u].e \in Entries /\ th[u].e \in used /\ u \in Leasers(th[u].e)
    BY <1>1, OfABook DEF InLock, LeasesInv, Leased, Leasers
  <2>4. F.holder # "nobody" => locks[b] # 0 /\ F.holder = entry[e].holder
    BY <1>8, <1>10
  <2>5. \A u \in Threads : InLock(u) => entry'[th[u].e].holder = u
    <3> SUFFICES ASSUME NEW u \in Threads, InLock(u) PROVE entry'[th[u].e].holder = u
      OBVIOUS
    <3>1. CASE th[u].e = e
      <4>1. locks[b] # 0
        BY <1>8, <2>3, <3>1
      <4> QED
        BY <1>1, <1>8, <1>10, <1>15, <3>1, <4>1 DEF HoldersInv
    <3> QED
      BY <1>1, <1>15, <2>3, <3>1 DEF HoldersInv
  <2>6. \A x \in Entries : entry'[x].holder # "nobody" =>
          entry'[x].holder \in Threads /\ InLock(entry'[x].holder) /\ th[entry'[x].holder].e = x
    <3>1. \A x \in Entries : entry[x].holder \in Threads \cup {"nobody"}
      BY <1>1 DEF StoreTypeOK
    <3> QED
      BY <1>1, <1>5, <1>15, <2>4, <3>1 DEF HoldersInv
  <2> QED
    BY <1>13, <2>1, <2>2, <2>5, <2>6 DEF HoldersInv
<1>21. ConnectionsInv'
  <2>1. \A u \in Threads, c \in Books : Closing(u, c)' <=> Closing(u, c)
    BY <1>2, <1>11, <1>13 DEF Closing
  <2> QED
    BY <1>1, <1>9, <1>11, <1>13, <1>14, <2>1 DEF ConnectionsInv
<1>22. CacheBounded'
  BY <1>1, <1>2, <1>9, <1>11, <1>13, <1>14 DEF CacheBounded, Runner
<1> QED
  BY <1>16, <1>19, <1>20, <1>21, <1>22 DEF StoreInv

\* Who gets a lock is alone in it.
LEMMA LockKeeps == ASSUME StoreInv, NEW t \in Threads, Lock(t) PROVE StoreInv'
<1>1. StoreTypeOK /\ LeasesInv /\ HoldersInv /\ ConnectionsInv /\ CacheBounded
  BY DEF StoreInv
<1> DEFINE pc == IF th[t].op = "book" THEN "handle" ELSE "pop"
           e == th[t].e
<1>2. /\ th[t].pc = "lock" /\ entry[e].holder = "nobody" /\ pc \in PCs \ {"idle"}
      /\ entry' = [entry EXCEPT ![e].holder = t] /\ th' = [th EXCEPT ![t].pc = pc]
      /\ UNCHANGED <<handles, locks, opened>>
  BY DEF Lock, PCs
<1>3. pc \in {"handle", "pop"} /\ Leased(t)
  BY <1>2 DEF Leased
<1>4. th[t].b \in Books /\ e \in Entries
  BY <1>1, <1>2, <1>3, OfABook DEF LeasesInv
<1> HIDE DEF pc
<1>5. /\ th' \in [Threads -> {Idle} \cup Runs]
      /\ th'[t].pc = pc /\ th'[t].b = th[t].b /\ th'[t].e = e
      /\ \A u \in Threads \ {t} : th'[u] = th[u]
  BY <1>1, <1>2, PlaceMoves
<1>6. /\ entry' \in [Entries -> [holder : Threads \cup {"nobody"}, refs : 0..Cardinality(Threads)]]
      /\ entry'[e].holder = t /\ \A x \in Entries : entry'[x].refs = entry[x].refs
      /\ \A x \in Entries \ {e} : entry'[x] = entry[x]
  BY <1>1, <1>2, <1>4, EntryTyped
<1>7. Opened' = Opened /\ \A c \in Opened : c \in Books
  BY <1>1, <1>2 DEF Opened, ToSet, StoreTypeOK
<1>8. StoreTypeOK'
  BY <1>1, <1>2, <1>5, <1>6 DEF StoreTypeOK
<1>9. LeasesInv'
  <2>1. Leased(t)'
    BY <1>3, <1>5 DEF Leased
  <2>2. \A c \in Opened : locks[c] # 0
    BY <1>1 DEF LeasesInv
  <2> QED
    BY <1>1, <1>2, <1>3, <1>5, <1>6, <1>7, <2>1, <2>2, LeasesStay
<1>10. HoldersInv'
  <2>1. \A u \in Threads \ {t} : InLock(u) => th[u].e \in Entries /\ th[u].e # e
    BY <1>1, <1>2, <1>4, OfABook, ThreadsAssumption DEF HoldersInv, LeasesInv, InLock, Leased
  <2>2. \A x \in Entries : entry[x].holder \in Threads \cup {"nobody"}
    BY <1>1 DEF StoreTypeOK
  <2>3. InLock(t)' /\ ~InLock(t) /\ \A u \in Threads \ {t} : InLock(u)' <=> InLock(u)
    BY <1>2, <1>3, <1>5 DEF InLock
  <2>4. \A u \in Threads : InLock(u)' => entry'[th'[u].e].holder = u
    BY <1>1, <1>5, <1>6, <2>1, <2>3 DEF HoldersInv
  <2>5. \A x \in Entries \ {e} : entry[x].holder # "nobody" =>
          InLock(entry[x].holder) /\ th[entry[x].holder].e = x /\ entry[x].holder \in Threads \ {t}
    BY <1>1, <2>2, <2>3 DEF HoldersInv
  <2>6. \A x \in Entries : entry'[x].holder # "nobody" =>
          /\ th'[entry'[x].holder].pc \in {"handle", "body", "pop", "closing"}
          /\ th'[entry'[x].holder].e = x
    BY <1>5, <1>6, <2>3, <2>5 DEF InLock
  <2> QED
    BY <2>4, <2>6 DEF HoldersInv, InLock
<1>11. ConnectionsInv'
  <2>1. \A u \in Threads, c \in Books : Closing(u, c)' <=> Closing(u, c)
    BY <1>2, <1>3, <1>5 DEF Closing
  <2> QED
    BY <1>1, <1>2, <1>3, <1>5, <1>7, <2>1 DEF ConnectionsInv
<1>12. CacheBounded'
  BY <1>1, <1>2, <1>3, <1>5, <1>7 DEF CacheBounded, Runner
<1> QED
  BY <1>8, <1>9, <1>10, <1>11, <1>12 DEF StoreInv

\* A thread leaves its lock: the entry has no holder, the thread still its lease.
LEMMA UnlockKeeps ==
    ASSUME StoreTypeOK, LeasesInv, HoldersInv, NEW t \in Threads, InLock(t),
           entry' = Unlock(th[t].e), th' = [th EXCEPT ![t].pc = "release"], UNCHANGED locks,
           \A b \in Opened' : b \in Opened
    PROVE  /\ entry' \in [Entries -> [holder : Threads \cup {"nobody"}, refs : 0..Cardinality(Threads)]]
           /\ th' \in [Threads -> {Idle} \cup Runs]
           /\ th'[t].pc = "release" /\ th'[t].b = th[t].b /\ \A u \in Threads \ {t} : th'[u] = th[u]
           /\ LeasesInv' /\ HoldersInv'
<1> DEFINE e == th[t].e
<1>1. th[t].pc # "idle" /\ Leased(t) /\ "release" \in PCs \ {"idle"}
  BY DEF InLock, Leased, PCs
<1>2. e \in Entries
  BY <1>1, OfABook DEF LeasesInv
<1>3. /\ th' \in [Threads -> {Idle} \cup Runs]
      /\ th'[t].pc = "release" /\ th'[t].b = th[t].b /\ th'[t].e = e
      /\ \A u \in Threads \ {t} : th'[u] = th[u]
  BY <1>1, PlaceMoves
<1>4. /\ entry' \in [Entries -> [holder : Threads \cup {"nobody"}, refs : 0..Cardinality(Threads)]]
      /\ entry'[e].holder = "nobody" /\ \A x \in Entries : entry'[x].refs = entry[x].refs
      /\ \A x \in Entries \ {e} : entry'[x] = entry[x]
  BY <1>2, EntryTyped DEF Unlock
<1>5. LeasesInv'
  <2>1. Leased(t)'
    BY <1>3 DEF Leased
  <2>2. \A c \in Opened : c \in Books /\ locks[c] # 0
    BY DEF LeasesInv, Opened, ToSet, StoreTypeOK
  <2> QED
    BY <1>1, <1>3, <1>4, <2>1, <2>2, LeasesStay
<1>6. HoldersInv'
  <2>1. ~InLock(t)' /\ \A u \in Threads \ {t} : InLock(u)' <=> InLock(u)
    BY <1>3 DEF InLock
  <2>2. \A u \in Threads \ {t} : InLock(u) => th[u].e \in Entries /\ th[u].e # e
    BY <1>2, OfABook DEF HoldersInv, LeasesInv, InLock, Leased
  <2>3. \A x \in Entries : entry[x].holder \in Threads \cup {"nobody"}
    BY DEF StoreTypeOK
  <2>4. \A u \in Threads : InLock(u)' => entry'[th'[u].e].holder = u
    BY <1>3, <1>4, <2>1, <2>2 DEF HoldersInv
  <2>5. \A x \in Entries \ {e} : entry[x].holder # "nobody" =>
          InLock(entry[x].holder) /\ th[entry[x].holder].e = x /\ entry[x].holder \in Threads \ {t}
    BY <2>3 DEF HoldersInv
  <2>6. \A x \in Entries : entry'[x].holder # "nobody" =>
          /\ th'[entry'[x].holder].pc \in {"handle", "body", "pop", "closing"}
          /\ th'[entry'[x].holder].e = x
    BY <1>3, <1>4, <2>1, <2>5 DEF InLock
  <2> QED
    BY <2>4, <2>6 DEF HoldersInv, InLock
<1> QED
  BY <1>3, <1>4, <1>5, <1>6

\* A session ends, or never began.
LEMMA SessionEndKeeps == ASSUME StoreInv, NEW t \in Threads, HandleFails(t) \/ Body(t) PROVE StoreInv'
<1>1. StoreTypeOK /\ LeasesInv /\ HoldersInv /\ ConnectionsInv /\ CacheBounded
  BY DEF StoreInv
<1>2. /\ th[t].pc \in {"handle", "body"} /\ entry' = Unlock(th[t].e)
      /\ th' = [th EXCEPT ![t].pc = "release"] /\ UNCHANGED <<handles, locks, opened>>
  BY DEF HandleFails, Body
<1>3. InLock(t) /\ Opened' = Opened
  BY <1>2 DEF InLock, Opened
<1>4. /\ entry' \in [Entries -> [holder : Threads \cup {"nobody"}, refs : 0..Cardinality(Threads)]]
      /\ th' \in [Threads -> {Idle} \cup Runs]
      /\ th'[t].pc = "release" /\ th'[t].b = th[t].b /\ \A u \in Threads \ {t} : th'[u] = th[u]
      /\ LeasesInv' /\ HoldersInv'
  BY <1>1, <1>2, <1>3, UnlockKeeps
<1>5. StoreTypeOK'
  BY <1>1, <1>2, <1>4 DEF StoreTypeOK
<1>6. ConnectionsInv'
  <2>1. \A u \in Threads, c \in Books : Closing(u, c)' <=> Closing(u, c)
    BY <1>2, <1>4 DEF Closing
  <2> QED
    BY <1>1, <1>2, <1>3, <1>4, <2>1 DEF ConnectionsInv
<1>7. CacheBounded'
  BY <1>1, <1>2, <1>3, <1>4 DEF CacheBounded, Runner
<1> QED
  BY <1>4, <1>5, <1>6, <1>7 DEF StoreInv

\* The connection of an evicted handle is closed by the thread that took it.
LEMMA CloseKeeps == ASSUME StoreInv, NEW t \in Threads, CloseHandle(t) PROVE StoreInv'
<1>1. StoreTypeOK /\ LeasesInv /\ HoldersInv /\ ConnectionsInv /\ CacheBounded
  BY DEF StoreInv
<1> DEFINE b == th[t].b
<1>2. /\ th[t].pc = "closing" /\ entry' = Unlock(th[t].e) /\ opened' = [opened EXCEPT ![b] = @ - 1]
      /\ th' = [th EXCEPT ![t].pc = "release"] /\ UNCHANGED <<handles, locks>>
  BY DEF CloseHandle
<1>3. InLock(t) /\ Opened' = Opened /\ b \in Books
  BY <1>1, <1>2, OfABook DEF InLock, Opened
<1>4. /\ entry' \in [Entries -> [holder : Threads \cup {"nobody"}, refs : 0..Cardinality(Threads)]]
      /\ th' \in [Threads -> {Idle} \cup Runs]
      /\ th'[t].pc = "release" /\ th'[t].b = b /\ \A u \in Threads \ {t} : th'[u] = th[u]
      /\ LeasesInv' /\ HoldersInv'
  BY <1>1, <1>2, <1>3, UnlockKeeps
<1>5. \A u \in Threads \ {t} : ~Closing(u, b)
  BY <1>1, <1>2, <1>3, SoleSession DEF OneSession, Closing, InLock
<1>6. b \notin Opened /\ Closing(t, b) /\ opened[b] = 1
  BY <1>1, <1>2, <1>3 DEF ConnectionsInv, Closing
<1>7. \A u \in Threads, c \in Books : Closing(u, c)' <=> Closing(u, c) /\ c # b
  BY <1>2, <1>4, <1>5 DEF Closing
<1>8. \A c \in Books : opened'[c] = IF c = b THEN 0 ELSE opened[c]
  BY <1>1, <1>2, <1>3, <1>6 DEF StoreTypeOK
<1>9. StoreTypeOK'
  <2>1. 0 \in 0..Cardinality(Threads)
    BY ThreadsAssumption, FS_CardinalityType
  <2> QED
    BY <1>1, <1>2, <1>4, <1>8, <2>1 DEF StoreTypeOK
<1>10. ConnectionsInv'
  BY <1>1, <1>2, <1>3, <1>4, <1>6, <1>7, <1>8 DEF ConnectionsInv
<1>11. CacheBounded'
  BY <1>1, <1>2, <1>3, <1>4 DEF CacheBounded, Runner
<1> QED
  BY <1>4, <1>9, <1>10, <1>11 DEF StoreInv

\* A handle that is evicted leaves the cache; its connection is still open.
LEMMA PopKeeps == ASSUME StoreInv, NEW t \in Threads, Pop(t) PROVE StoreInv'
<1>1. StoreTypeOK /\ LeasesInv /\ HoldersInv /\ ConnectionsInv /\ CacheBounded
  BY DEF StoreInv
<1> DEFINE b == th[t].b
<1>2. /\ th[t].pc = "pop" /\ handles' \in Without(handles, {b} \cap Opened) /\ UNCHANGED <<locks, opened>>
      /\ \/ b \in Opened /\ th' = [th EXCEPT ![t].pc = "closing"] /\ UNCHANGED entry
         \/ b \notin Opened /\ th' = [th EXCEPT ![t].pc = "release"] /\ entry' = Unlock(th[t].e)
  BY DEF Pop
<1>3. InLock(t) /\ Leased(t) /\ b \in Books
  BY <1>1, <1>2, OfABook DEF InLock, Leased
<1>4. {b} \cap Opened \in SUBSET ToSet(handles)
  BY DEF Opened
<1>5. handles' \in Seq(Books) /\ IsInjective(handles') /\ Opened' = Opened \ {b}
      /\ Len(handles') <= Len(handles)
  <2>1. /\ handles' \in Seq(Books) /\ IsInjective(handles')
        /\ ToSet(handles') = ToSet(handles) \ ({b} \cap Opened)
        /\ Len(handles') = Len(handles) - Cardinality({b} \cap Opened)
        /\ Cardinality({b} \cap Opened) \in Nat
    BY <1>1, <1>2, <1>4, WithoutFacts DEF StoreTypeOK
  <2>2. ToSet(handles') = Opened'
    BY DEF Opened
  <2>3. ToSet(handles) = Opened
    BY DEF Opened
  <2>4. Len(handles) \in Nat
    BY <1>1 DEF StoreTypeOK
  <2> QED
    BY <2>1, <2>2, <2>3, <2>4
<1>6. /\ entry' \in [Entries -> [holder : Threads \cup {"nobody"}, refs : 0..Cardinality(Threads)]]
      /\ th' \in [Threads -> {Idle} \cup Runs]
      /\ th'[t].pc = (IF b \in Opened THEN "closing" ELSE "release") /\ th'[t].b = b
      /\ \A u \in Threads \ {t} : th'[u] = th[u]
      /\ LeasesInv' /\ HoldersInv'
  <2>1. CASE b \in Opened
    <3>1. th[t].pc # "idle" /\ "closing" \in PCs \ {"idle"} /\ th' = [th EXCEPT ![t].pc = "closing"]
          /\ UNCHANGED entry
      BY <1>2, <2>1 DEF PCs
    <3>2. /\ th' \in [Threads -> {Idle} \cup Runs]
          /\ th'[t].pc = "closing" /\ th'[t].b = b /\ th'[t].e = th[t].e
          /\ \A u \in Threads \ {t} : th'[u] = th[u]
      BY <1>1, <3>1, PlaceMoves
    <3>3. Leased(t)' /\ \A u \in Threads : InLock(u)' <=> InLock(u)
      BY <1>3, <3>2 DEF Leased, InLock
    <3>4. \A c \in Opened : c \in Books /\ locks[c] # 0
      BY <1>1 DEF LeasesInv, Opened, ToSet, StoreTypeOK
    <3>5. LeasesInv'
      BY <1>1, <1>2, <1>3, <1>5, <3>1, <3>2, <3>3, <3>4, LeasesStay
    <3>6. \A x \in Entries : entry[x].holder \in Threads \cup {"nobody"}
      BY <1>1 DEF StoreTypeOK
    <3>7. \A u \in Threads : th'[u].e = th[u].e
      BY <3>2
    <3>8. HoldersInv'
      BY <1>1, <3>1, <3>3, <3>6, <3>7 DEF HoldersInv, InLock
    <3> QED
      BY <1>1, <2>1, <3>1, <3>2, <3>5, <3>8 DEF StoreTypeOK
  <2>2. CASE b \notin Opened
    <3>1. th' = [th EXCEPT ![t].pc = "release"] /\ entry' = Unlock(th[t].e)
      BY <1>2, <2>2
    <3> QED
      BY <1>1, <1>2, <1>3, <1>5, <2>2, <3>1, UnlockKeeps
  <2> QED
    BY <2>1, <2>2
<1>7. \A u \in Threads \ {t} : ~(InLock(u) /\ th[u].b = b)
  BY <1>1, <1>3, SoleSession DEF OneSession
<1>8. StoreTypeOK'
  BY <1>1, <1>2, <1>5, <1>6 DEF StoreTypeOK
<1>9. ConnectionsInv'
  <2>1. \A u \in Threads, c \in Books :
          Closing(u, c)' <=> Closing(u, c) \/ (u = t /\ c = b /\ b \in Opened)
    BY <1>2, <1>6 DEF Closing
  <2>2. \A u \in Threads : th'[u].pc = "closing" => th'[u].b \notin Opened'
    BY <1>1, <1>5, <1>6 DEF ConnectionsInv
  <2>3. \A u \in Threads : th'[u].pc = "body" => th'[u].b \in Opened'
    BY <1>1, <1>5, <1>6, <1>7 DEF ConnectionsInv, InLock
  <2>4. \A c \in Books : opened[c] = IF c \in Opened' \/ (\E u \in Threads : Closing(u, c)') THEN 1 ELSE 0
    BY <1>1, <1>3, <1>5, <2>1 DEF ConnectionsInv
  <2> QED
    BY <1>2, <2>2, <2>3, <2>4 DEF ConnectionsInv
<1>10. CacheBounded'
  <2>1. Len(handles) \in Nat /\ Len(handles') \in Nat
    BY <1>1, <1>5 DEF StoreTypeOK
  <2> QED
    BY <1>1, <1>2, <1>5, <1>6, <2>1, MaxHandlesAssumption DEF CacheBounded, Runner
<1> QED
  BY <1>6, <1>8, <1>9, <1>10 DEF StoreInv

\* A session finds or opens its connection; what it evicts nobody has leased.
LEMMA HandleKeeps == ASSUME StoreInv, NEW t \in Threads, Handle(t) PROVE StoreInv'
<1> USE MaxHandlesAssumption
<1>1. StoreTypeOK /\ LeasesInv /\ HoldersInv /\ ConnectionsInv /\ CacheBounded
  BY DEF StoreInv
<1> DEFINE b == th[t].b
           L == {u \in Threads : Leased(u)}
<1>2. PICK hs \in Touched(b) :
        /\ handles' \in Without(hs, Victims(hs, entry))
        /\ locks' = [c \in Books |-> IF c \in Victims(hs, entry) THEN 0 ELSE locks[c]]
        /\ opened' = [c \in Books |-> opened[c] + (IF c = b /\ b \notin Opened THEN 1 ELSE 0)
                                                - (IF c \in Victims(hs, entry) THEN 1 ELSE 0)]
  BY DEF Handle
<1> DEFINE gone == Victims(hs, entry)
<1>3. th[t].pc = "handle" /\ th' = [th EXCEPT ![t].pc = "body"] /\ UNCHANGED entry
  BY DEF Handle
<1>4. th[t].pc # "idle" /\ "body" \in PCs \ {"idle"} /\ InLock(t) /\ Leased(t) /\ t \in L
  BY <1>3 DEF PCs, InLock, Leased
<1>5. b \in Books /\ locks[b] # 0
  BY <1>1, <1>4, OfABook DEF LeasesInv
<1>6. /\ th' \in [Threads -> {Idle} \cup Runs]
      /\ th'[t].pc = "body" /\ th'[t].b = b /\ th'[t].e = th[t].e
      /\ \A u \in Threads \ {t} : th'[u] = th[u]
  BY <1>1, <1>3, <1>4, PlaceMoves
<1>7. hs \in Seq(Books) /\ IsInjective(hs) /\ ToSet(hs) = Opened \cup {b}
  BY <1>1, <1>2, <1>5, TouchedFacts DEF StoreTypeOK
<1>8. \A c \in Opened : c \in Books /\ locks[c] # 0
  BY <1>1 DEF LeasesInv, Opened, ToSet, StoreTypeOK
<1>9. \A e \in Entries : entry[e].refs = Cardinality(OfEntry(L, e))
  <2>1. \A e \in Entries : Leasers(e) = OfEntry(L, e)
    BY DEF Leasers, OfEntry
  <2> QED
    BY <1>1, <2>1 DEF LeasesInv
<1> HIDE DEF L
<1>10. /\ handles' \in Seq(Books) /\ IsInjective(handles')
       /\ gone \subseteq ToSet(hs) /\ ToSet(handles') = ToSet(hs) \ gone
       /\ \A c \in gone : \A u \in L : th[u].b # c
       /\ Len(handles') > MaxHandles => \A c \in ToSet(handles') : \E u \in L : th[u].b = c
  <2>1. L \in SUBSET Threads /\ \A u \in L : Leased(u)
    BY DEF L
  <2>2. \A c \in ToSet(hs) : locks[c] # 0
    BY <1>5, <1>7, <1>8
  <2>3. handles' \in Without(hs, Victims(hs, entry)) /\ StoreTypeOK /\ LeasesInv
        /\ hs \in Seq(Books) /\ IsInjective(hs)
    BY <1>1, <1>2, <1>7
  <2>4. /\ handles' \in Seq(Books) /\ IsInjective(handles')
        /\ gone \subseteq ToSet(hs) /\ ToSet(handles') = ToSet(hs) \ gone
        /\ ForNone(L, gone) /\ (Len(handles') > MaxHandles => ForAll(L, ToSet(handles')))
    BY <1>9, <2>1, <2>2, <2>3, Evicts
  <2> QED
    BY <2>4 DEF ForNone, ForAll
<1> HIDE DEF gone
<1>11. Opened' = (Opened \cup {b}) \ gone /\ gone \subseteq Opened /\ b \in Opened'
  <2>1. b \notin gone
    BY <1>4, <1>10
  <2>2. Opened' = ToSet(handles')
    BY DEF Opened
  <2> QED
    BY <1>7, <1>10, <2>1, <2>2
<1>12. \A c \in Books : locks'[c] = IF c \in gone THEN 0 ELSE locks[c]
  BY <1>2 DEF gone
<1>13. \A u \in Threads : Leased(u) => th[u].b \in Books /\ th[u].b \notin gone
  BY <1>1, <1>10, OfABook DEF L, Leased
<1>14. LeasesInv'
  <2>1. Leased(t)'
    BY <1>6 DEF Leased
  <2>2. \A c \in Books : locks'[c] \in {locks[c], 0}
    BY <1>12
  <2>3. \A u \in Threads : Leased(u) => locks'[th[u].b] = locks[th[u].b]
    BY <1>12, <1>13
  <2>4. \A c \in Opened' : c \in Books /\ locks'[c] # 0
    BY <1>5, <1>8, <1>11, <1>12
  <2>5. \A e \in Entries : entry'[e].refs = entry[e].refs
    BY <1>3
  <2> QED
    BY <1>1, <1>4, <1>6, <2>1, <2>2, <2>3, <2>4, <2>5, LeasesStay
<1>15. HoldersInv'
  <2>1. \A x \in Entries : entry[x].holder \in Threads \cup {"nobody"}
    BY <1>1 DEF StoreTypeOK
  <2>2. \A u \in Threads : (InLock(u)' <=> InLock(u)) /\ th'[u].e = th[u].e
    BY <1>4, <1>6 DEF InLock
  <2> QED
    BY <1>1, <1>3, <2>1, <2>2 DEF HoldersInv, InLock
<1>16. \A u \in Threads, c \in Books : Closing(u, c)' <=> Closing(u, c)
  BY <1>3, <1>6 DEF Closing
<1>17. \A u \in Threads, c \in Books : Closing(u, c) => c # b /\ c \notin gone
  <2>1. \A u \in Threads, c \in Books : Closing(u, c) => InLock(u) /\ Leased(u) /\ u # t
    BY <1>3 DEF Closing, InLock, Leased
  <2> QED
    BY <1>1, <1>4, <1>13, <2>1, SoleSession DEF OneSession, Closing
<1>18. \A c \in Books : opened'[c] = IF c = b THEN 1 ELSE IF c \in gone THEN 0 ELSE opened[c]
  <2> SUFFICES ASSUME NEW c \in Books
               PROVE  opened'[c] = IF c = b THEN 1 ELSE IF c \in gone THEN 0 ELSE opened[c]
    OBVIOUS
  <2>1. opened'[c] = opened[c] + (IF c = b /\ b \notin Opened THEN 1 ELSE 0) - (IF c \in gone THEN 1 ELSE 0)
    BY <1>2 DEF gone
  <2>2. b \notin gone
    BY <1>11
  <2>3. opened[c] = IF c \in Opened \/ (\E u \in Threads : Closing(u, c)) THEN 1 ELSE 0
    BY <1>1 DEF ConnectionsInv
  <2>4. CASE c = b
    BY <1>17, <2>1, <2>2, <2>3, <2>4
  <2>5. CASE c # b
    BY <1>11, <2>1, <2>3, <2>5
  <2> QED
    BY <2>4, <2>5
<1>19. ConnectionsInv'
  <2>1. \A u \in Threads : th'[u].pc = "closing" => th'[u].b \notin Opened'
    <3>1. \A u \in Threads : th'[u].pc = "closing" => u # t /\ th'[u] = th[u] /\ th[u].b \in Books
      BY <1>1, <1>6, OfABook
    <3> QED
      BY <1>1, <1>11, <1>17, <3>1 DEF ConnectionsInv, Closing
  <2>2. \A u \in Threads : th'[u].pc = "body" => th'[u].b \in Opened'
    <3>1. \A u \in Threads : th[u].pc = "body" => th[u].b \notin gone
      BY <1>13 DEF Leased
    <3> QED
      BY <1>1, <1>6, <1>11, <3>1 DEF ConnectionsInv
  <2>3. \A c \in Books : opened'[c] = IF c \in Opened' \/ (\E u \in Threads : Closing(u, c)') THEN 1 ELSE 0
    <3>1. \A c \in Books : opened[c] = IF c \in Opened \/ (\E u \in Threads : Closing(u, c)) THEN 1 ELSE 0
      BY <1>1 DEF ConnectionsInv
    <3> QED
      BY <1>5, <1>11, <1>16, <1>17, <1>18, <3>1
  <2> QED
    BY <2>1, <2>2, <2>3 DEF ConnectionsInv
<1>20. StoreTypeOK'
  <2>1. locks' \in [Books -> Entries \cup {0}]
    BY <1>1, <1>2 DEF StoreTypeOK
  <2>2. 0 \in 0..Cardinality(Threads) /\ 1 \in 0..Cardinality(Threads)
    <3>1. IsFiniteSet(Threads) /\ Cardinality(Threads) \in Nat /\ Cardinality(Threads) # 0
      BY ThreadsAssumption, FS_CardinalityType, FS_EmptySet
    <3> QED
      BY <3>1
  <2>3. \A c \in Books : opened'[c] \in 0..Cardinality(Threads)
    BY <1>1, <1>18, <2>2 DEF StoreTypeOK
  <2>4. opened' \in [Books -> 0..Cardinality(Threads)]
    BY <1>2, <2>3
  <2> QED
    BY <1>1, <1>3, <1>6, <1>10, <2>1, <2>4 DEF StoreTypeOK
<1>21. CacheBounded'
  <2>1. \A u \in L : u \in Threads /\ Runner(u)' /\ th'[u].pc # "lease" /\ th'[u].b = th[u].b
    BY <1>6 DEF L, Leased, Runner
  <2>2. Opened' = ToSet(handles')
    BY DEF Opened
  <2> QED
    BY <1>10, <2>1, <2>2 DEF CacheBounded
<1> QED
  BY <1>14, <1>15, <1>19, <1>20, <1>21 DEF StoreInv

\* The thread's call is over, or goes on to the next book.
LEMMA OnwardTyped ==
    ASSUME StoreTypeOK, NEW t \in Threads, th[t].pc # "idle"
    PROVE  Onward(t) \in {Idle} \cup Runs /\ Onward(t).pc \in {"idle", "lease"}
           /\ (Onward(t).pc = "lease" => Onward(t).e = 0)
<1>1. th[t].todo \in Seq(Books)
  BY RunnerTyped DEF Runs
<1>2. CASE th[t].todo = <<>>
  BY <1>2 DEF Onward, Idle
<1>3. CASE th[t].todo # <<>>
  <2>1. Head(th[t].todo) \in Books /\ Tail(th[t].todo) \in Seq(Books)
    BY <1>1, <1>3
  <2> QED
    BY <1>3, <2>1 DEF Onward, Runs, PCs
<1> QED
  BY <1>2, <1>3

\* A lease ends: its entry counts one less, and goes if nothing needs it.
LEMMA ReleaseKeeps == ASSUME StoreInv, NEW t \in Threads, Release(t) PROVE StoreInv'
<1> USE MaxHandlesAssumption
<1>1. StoreTypeOK /\ LeasesInv /\ HoldersInv /\ ConnectionsInv /\ CacheBounded
  BY DEF StoreInv
<1> DEFINE b == th[t].b
           e == th[t].e
           L == {u \in Threads : Leased(u) /\ u # t}
           ents == Released(e)
           gone == Victims(handles, ents)
<1>2. /\ th[t].pc = "release" /\ entry' = ents /\ handles' \in Without(handles, gone)
      /\ opened' = [c \in Books |-> IF c \in gone THEN opened[c] - 1 ELSE opened[c]]
      /\ locks' = [c \in Books |-> IF c \in gone \/ (c = b /\ Dropped(e, c, handles', ents)) THEN 0
                                   ELSE locks[c]]
      /\ th' = [th EXCEPT ![t] = Onward(t)]
  BY DEF Release
<1>3. th[t].pc # "idle" /\ Leased(t) /\ ~InLock(t)
  BY <1>2 DEF Leased, InLock
<1>4. b \in Books /\ e \in Entries /\ locks[b] = e
  BY <1>1, <1>3, OfABook DEF LeasesInv
<1>5. /\ th' \in [Threads -> {Idle} \cup Runs] /\ th'[t].pc \in {"idle", "lease"}
      /\ (th'[t].pc = "lease" => th'[t].e = 0) /\ \A u \in Threads \ {t} : th'[u] = th[u]
  BY <1>1, <1>2, <1>3, OnwardTyped, ThreadMoves
<1>6. \A u \in Threads : (Leased(u)' <=> u \in L) /\ (u \in L => u \in Threads \ {t})
  BY <1>5 DEF Leased
<1>7. \A x \in Entries : ents[x].holder = entry[x].holder
      /\ ents[x].refs = Cardinality(OfEntry(L, x)) /\ Cardinality(OfEntry(L, x)) \in 0..Cardinality(Threads)
  <2> SUFFICES ASSUME NEW x \in Entries
               PROVE  /\ ents[x].holder = entry[x].holder
                      /\ ents[x].refs = Cardinality(OfEntry(L, x))
                      /\ Cardinality(OfEntry(L, x)) \in 0..Cardinality(Threads)
    OBVIOUS
  <2>1. OfEntry(L, x) = Leasers(x) \ {t} /\ Leasers(x) \subseteq Threads
    BY DEF OfEntry, Leasers
  <2>2. IsFiniteSet(Leasers(x)) /\ IsFiniteSet(OfEntry(L, x)) /\ Cardinality(OfEntry(L, x)) \in Nat
        /\ Cardinality(OfEntry(L, x)) <= Cardinality(Threads) /\ Cardinality(Threads) \in Nat
    BY <2>1, ThreadsAssumption, FS_Subset, FS_CardinalityType
  <2>3. entry[x].refs = Cardinality(Leasers(x))
    BY <1>1 DEF LeasesInv
  <2>4. CASE x = e
    <3>1. t \in Leasers(x)
      BY <1>3, <2>4 DEF Leasers
    <3>2. Cardinality(OfEntry(L, x)) = Cardinality(Leasers(x)) - 1
      BY <2>1, <2>2, <3>1, FS_RemoveElement
    <3> QED
      BY <1>1, <2>2, <2>3, <2>4, <3>2 DEF Released, StoreTypeOK
  <2>5. CASE x # e
    <3>1. t \notin Leasers(x)
      BY <2>5 DEF Leasers
    <3>2. OfEntry(L, x) = Leasers(x)
      BY <2>1, <3>1
    <3> QED
      BY <1>1, <1>4, <2>2, <2>3, <2>5, <3>2 DEF Released, StoreTypeOK
  <2> QED
    BY <2>4, <2>5
<1>8. entry' \in [Entries -> [holder : Threads \cup {"nobody"}, refs : 0..Cardinality(Threads)]]
  <2> DEFINE E == [entry[e] EXCEPT !.refs = @ - 1]
  <2>1. E.refs \in 0..Cardinality(Threads)
    BY <1>1, <1>4, <1>7 DEF Released, StoreTypeOK
  <2>2. E \in [holder : Threads \cup {"nobody"}, refs : 0..Cardinality(Threads)]
    BY <1>1, <1>4, <2>1 DEF StoreTypeOK
  <2>3. entry' = [entry EXCEPT ![e] = E]
    BY <1>1, <1>2, <1>4 DEF Released, StoreTypeOK
  <2> HIDE DEF E
  <2> QED
    BY <1>1, <1>4, <2>2, <2>3 DEF StoreTypeOK
<1>9. L \in SUBSET Threads /\ \A u \in L : Leased(u)
  OBVIOUS
<1>10. \A c \in Opened : c \in Books /\ locks[c] # 0
  BY <1>1 DEF LeasesInv, Opened, ToSet, StoreTypeOK
<1> HIDE DEF L, ents
<1>11. /\ handles' \in Seq(Books) /\ IsInjective(handles')
       /\ gone \subseteq Opened /\ Opened' = Opened \ gone
       /\ ForNone(L, gone) /\ (Len(handles') > MaxHandles => ForAll(L, Opened'))
  <2>1. handles \in Seq(Books) /\ IsInjective(handles) /\ handles' \in Without(handles, Victims(handles, ents))
    BY <1>1, <1>2 DEF StoreTypeOK
  <2>2. \A c \in ToSet(handles) : locks[c] # 0
    BY <1>10 DEF Opened
  <2>3. \A x \in Entries : ents[x].refs = Cardinality(OfEntry(L, x))
    BY <1>7
  <2>4. Opened = ToSet(handles) /\ Opened' = ToSet(handles')
    BY DEF Opened
  <2>5. /\ handles' \in Seq(Books) /\ IsInjective(handles')
        /\ gone \subseteq ToSet(handles) /\ ToSet(handles') = ToSet(handles) \ gone
        /\ ForNone(L, gone) /\ (Len(handles') > MaxHandles => ForAll(L, ToSet(handles')))
    BY <1>1, <1>9, <2>1, <2>2, <2>3, Evicts
  <2> QED
    BY <2>4, <2>5
<1> HIDE DEF gone
<1>12. \A u \in L : th[u].b \in Books /\ th[u].b \notin gone /\ locks[th[u].b] = th[u].e
       /\ th[u].e \in Entries /\ th'[u] = th[u]
  BY <1>1, <1>6, <1>5, <1>9, <1>11, OfABook DEF ForNone, LeasesInv, Leased
<1>13. \A u \in L : locks'[th[u].b] = locks[th[u].b]
  <2> SUFFICES ASSUME NEW u \in L, th[u].b = b PROVE ents[e].refs # 0
    BY <1>2, <1>12 DEF Dropped
  <2>1. u \in OfEntry(L, e)
    BY <1>4, <1>12 DEF OfEntry
  <2>2. IsFiniteSet(OfEntry(L, e))
    BY <1>9, ThreadsAssumption, FS_Subset DEF OfEntry
  <2> QED
    BY <1>4, <1>7, <2>1, <2>2, FS_EmptySet
<1>14. \A c \in Books : locks'[c] \in {locks[c], 0}
  BY <1>2
<1>15. \A c \in Opened' : c \in Books /\ locks'[c] # 0
  <2>1. \A c \in Opened' : ~Dropped(e, c, handles', ents)
    BY DEF Dropped, Opened
  <2> QED
    BY <1>2, <1>10, <1>11, <2>1
<1>16. LeasesInv'
  <2>1. \A u \in Threads : th'[u].pc = "lease" => th'[u].e = 0
    BY <1>1, <1>5 DEF LeasesInv
  <2>2. \A u \in Threads : Leased(u)' => th'[u].e # 0 /\ locks'[th'[u].b] = th'[u].e
    BY <1>1, <1>6, <1>9, <1>12, <1>13 DEF LeasesInv
  <2>3. \A c, d \in Books : locks'[c] = locks'[d] /\ locks'[c] # 0 => c = d
    BY <1>1, <1>14 DEF LeasesInv
  <2>4. \A x \in Entries : entry'[x].refs = Cardinality(Leasers(x))'
    <3>1. \A x \in Entries : Leasers(x)' = OfEntry(L, x)
      BY <1>6, <1>9, <1>12 DEF Leasers, OfEntry
    <3> QED
      BY <1>2, <1>7, <3>1
  <2> QED
    BY <1>15, <2>1, <2>2, <2>3, <2>4 DEF LeasesInv
<1>17. \A u \in Threads : InLock(u)' <=> InLock(u)
  BY <1>3, <1>5 DEF InLock
<1>18. HoldersInv'
  <2>1. \A x \in Entries : entry[x].holder \in Threads \cup {"nobody"} /\ entry'[x].holder = entry[x].holder
    BY <1>1, <1>2, <1>7 DEF StoreTypeOK
  <2>2. \A u \in Threads : InLock(u) => th'[u] = th[u] /\ th[u].e \in Entries
    BY <1>1, <1>3, <1>5, OfABook DEF InLock, LeasesInv, Leased
  <2>3. \A u \in Threads : InLock(u)' => entry'[th'[u].e].holder = u
    BY <1>1, <1>17, <2>1, <2>2 DEF HoldersInv
  <2>4. \A x \in Entries : entry'[x].holder # "nobody" =>
          /\ th'[entry'[x].holder].pc \in {"handle", "body", "pop", "closing"}
          /\ th'[entry'[x].holder].e = x
    BY <1>1, <2>1, <2>2 DEF HoldersInv, InLock
  <2> QED
    BY <2>3, <2>4 DEF HoldersInv, InLock
<1>19. \A u \in Threads, c \in Books : (Closing(u, c)' <=> Closing(u, c)) /\ (Closing(u, c) => c \notin gone)
  <2>1. \A u \in Threads, c \in Books : Closing(u, c)' <=> Closing(u, c)
    BY <1>2, <1>5 DEF Closing
  <2>2. \A u \in Threads, c \in Books : Closing(u, c) => u \in L
    BY <1>2 DEF Closing, L, Leased
  <2> QED
    BY <1>12, <2>1, <2>2 DEF Closing
<1>20. \A c \in Books : opened'[c] = IF c \in gone THEN 0 ELSE opened[c]
  BY <1>1, <1>2, <1>11 DEF ConnectionsInv
<1>21. ConnectionsInv'
  <2>1. \A u \in Threads : th'[u].pc \in {"closing", "body"} => u \in L /\ th'[u] = th[u]
    BY <1>2, <1>5 DEF L, Leased
  <2>2. \A u \in Threads : th'[u].pc = "closing" => th'[u].b \notin Opened'
    BY <1>1, <1>11, <2>1 DEF ConnectionsInv
  <2>3. \A u \in Threads : th'[u].pc = "body" => th'[u].b \in Opened'
    BY <1>1, <1>11, <1>12, <2>1 DEF ConnectionsInv
  <2>4. \A c \in Books : opened'[c] = IF c \in Opened' \/ (\E u \in Threads : Closing(u, c)') THEN 1 ELSE 0
    <3>1. \A c \in Books : opened[c] = IF c \in Opened \/ (\E u \in Threads : Closing(u, c)) THEN 1 ELSE 0
      BY <1>1 DEF ConnectionsInv
    <3> QED
      BY <1>11, <1>19, <1>20, <3>1
  <2> QED
    BY <2>2, <2>3, <2>4 DEF ConnectionsInv
<1>22. StoreTypeOK'
  <2>1. locks' \in [Books -> Entries \cup {0}]
    BY <1>1, <1>2 DEF StoreTypeOK
  <2>2. 0 \in 0..Cardinality(Threads)
    BY ThreadsAssumption, FS_CardinalityType
  <2>3. opened' \in [Books -> 0..Cardinality(Threads)]
    BY <1>1, <1>2, <1>20, <2>2 DEF StoreTypeOK
  <2> QED
    BY <1>5, <1>8, <1>11, <2>1, <2>3 DEF StoreTypeOK
<1>23. CacheBounded'
  <2>1. \A u \in L : u \in Threads /\ Runner(u)' /\ th'[u].pc # "lease" /\ th'[u].b = th[u].b
    BY <1>9, <1>12 DEF Leased, Runner
  <2> QED
    BY <1>11, <2>1 DEF CacheBounded, ForAll
<1> QED
  BY <1>16, <1>18, <1>21, <1>22, <1>23 DEF StoreInv

\* The store starts without handles and without callers.
LEMMA StoreBegins == StoreInit => StoreInv
<1> SUFFICES ASSUME StoreInit PROVE StoreInv
  OBVIOUS
<1> USE ThreadsAssumption, MaxHandlesAssumption DEF StoreInit
<1>1. IsFiniteSet(Threads) /\ Cardinality(Threads) \in Nat /\ 0 \in 0..Cardinality(Threads)
  BY FS_CardinalityType
<1>2. Opened = {} /\ Len(handles) = 0
  BY DEF Opened, ToSet
<1>3. StoreTypeOK
  BY <1>1 DEF StoreTypeOK, IsInjective, NewEntry
<1>4. \A t \in Threads : th[t].pc = "idle"
  BY DEF Idle
<1>5. LeasesInv
  <2>1. \A e \in Entries : Leasers(e) = {} /\ entry[e].refs = 0
    BY <1>4 DEF Leasers, Leased, NewEntry
  <2> QED
    BY <1>2, <1>4, <2>1, FS_EmptySet DEF LeasesInv, Leased
<1>6. HoldersInv
  BY <1>4 DEF HoldersInv, InLock, NewEntry
<1>7. ConnectionsInv
  BY <1>2, <1>4 DEF ConnectionsInv, Closing
<1>8. CacheBounded
  BY <1>2 DEF CacheBounded
<1> QED
  BY <1>3, <1>5, <1>6, <1>7, <1>8 DEF StoreInv

\* Every step keeps the invariant.
LEMMA StoreStep == StoreInv /\ [StoreNext]_storeVars => StoreInv'
<1> SUFFICES ASSUME StoreInv, [StoreNext]_storeVars PROVE StoreInv'
  OBVIOUS
<1>1. CASE UNCHANGED storeVars
  <2>1. UNCHANGED <<handles, locks, entry, opened, th>>
    BY <1>1 DEF storeVars
  <2>2. StoreTypeOK'
    BY <2>1 DEF StoreInv, StoreTypeOK
  <2>3. LeasesInv'
    BY <2>1 DEF StoreInv, LeasesInv, Leased, Leasers, Opened
  <2>4. HoldersInv'
    BY <2>1 DEF StoreInv, HoldersInv, InLock
  <2>5. ConnectionsInv'
    BY <2>1 DEF StoreInv, ConnectionsInv, Closing, Opened
  <2>6. CacheBounded'
    BY <2>1 DEF StoreInv, CacheBounded, Opened, Runner
  <2> QED
    BY <2>2, <2>3, <2>4, <2>5, <2>6 DEF StoreInv
<1>2. CASE StoreNext
  <2>1. PICK t \in Threads :
          \/ Step(t)
          \/ Close(t) \/ \E b \in Books : Call(t, "book", b) \/ Call(t, "evict", b)
    BY <1>2 DEF StoreNext
  <2>2. CASE Close(t) \/ \E b \in Books : Call(t, "book", b) \/ Call(t, "evict", b)
    BY <2>2, BeginKeeps
  <2>3. CASE Lease(t)
    BY <2>3, LeaseKeeps
  <2>4. CASE Lock(t)
    BY <2>4, LockKeeps
  <2>5. CASE Handle(t)
    BY <2>5, HandleKeeps
  <2>6. CASE HandleFails(t) \/ Body(t)
    BY <2>6, SessionEndKeeps
  <2>7. CASE Pop(t)
    BY <2>7, PopKeeps
  <2>8. CASE CloseHandle(t)
    BY <2>8, CloseKeeps
  <2>9. CASE Release(t)
    BY <2>9, ReleaseKeeps
  <2> QED
    BY <2>1, <2>2, <2>3, <2>4, <2>5, <2>6, <2>7, <2>8, <2>9 DEF Step
<1> QED
  BY <1>1, <1>2

\* Leases, lock holders and connections stay in step with the cache of handles.
THEOREM StoreInductive == StoreSpec => []StoreInv
<1>1. StoreInit => StoreInv
  BY StoreBegins
<1>2. StoreInv /\ [StoreNext]_storeVars => StoreInv'
  BY StoreStep
<1> QED
  BY <1>1, <1>2, PTL DEF StoreSpec

\* For every number of threads, books and handles: one session at a time works on
\* a book, on its only connection, and the cache comes back to its limit.
THEOREM SafeHandles == StoreSpec => []HandlesAreSafe
<1>1. StoreInv => HandlesAreSafe
  <2> SUFFICES ASSUME StoreInv PROVE HandlesAreSafe
    OBVIOUS
  <2>1. StoreTypeOK /\ LeasesInv /\ HoldersInv /\ ConnectionsInv /\ CacheBounded
    BY DEF StoreInv
  <2>2. OneSession
    BY <2>1, SoleSession
  <2>3. SoleConnection
    <3>1. ASSUME NEW b \in Books
          PROVE  /\ opened[b] = Cardinality({t \in Threads : th[t].pc = "closing" /\ th[t].b = b})
                                + (IF b \in Opened THEN 1 ELSE 0)
                 /\ opened[b] <= 1
      <4> DEFINE C == {t \in Threads : th[t].pc = "closing" /\ th[t].b = b}
      <4>1. opened[b] = IF b \in Opened \/ C # {} THEN 1 ELSE 0
        BY <2>1 DEF ConnectionsInv, Closing
      <4>2. C # {} => b \notin Opened
        BY <2>1 DEF ConnectionsInv
      <4>3. CASE C = {}
        <5>1. Cardinality(C) = 0
          BY <4>3, FS_EmptySet
        <5> HIDE DEF C
        <5> QED
          BY <4>1, <4>3, <5>1 DEF C
      <4>4. CASE C # {}
        <5>1. PICK t \in Threads : C = {t}
          BY <2>2, <4>4 DEF OneSession, InLock
        <5>2. Cardinality(C) = 1
          BY <5>1, FS_Singleton
        <5> HIDE DEF C
        <5> QED
          BY <4>1, <4>2, <4>4, <5>2 DEF C
      <4> QED
        BY <4>3, <4>4
    <3>2. \A t \in Threads : th[t].pc = "body" => th[t].b \in Opened
      BY <2>1 DEF ConnectionsInv
    <3> QED
      BY <3>1, <3>2 DEF SoleConnection
  <2> QED
    BY <2>1, <2>2, <2>3 DEF HandlesAreSafe
<1> QED
  BY <1>1, StoreInductive, PTL

=============================================================================
