------------------------------- MODULE Shelf -------------------------------
(* The books as the reader's requests and the preparation see them: how far *)
(* they are read and remembered, in which pass and which life of the book,  *)
(* and what an answer about them is bound to.                               *)
EXTENDS Integers, FiniteSets, Sequences, SequencesExt, TLC

CONSTANTS
  Books,
  Chapters,       \* chapters of each book
  MaxEvents       \* bound on what is asked of the books and happens to them

ASSUME ChaptersAssumption == Chapters \in Nat \ {0}

VARIABLES
  shelf,    \* on the shelf or not, incarnation, pass, chapters read and
            \* remembered, and the chapters where memory was corrected
  events    \* history: how much has happened

NewBook == [on |-> TRUE, inc |-> 0, epoch |-> 0, mark |-> 0, done |-> 0, fixed |-> {}]

(* Nothing is read yet, or the first chapter of every book is.              *)
ShelfInit == \E c \in 0..1 : shelf = [b \in Books |-> [NewBook EXCEPT !.mark = c, !.done = c]]

Lower(m, n) == IF m < n THEN m ELSE n
HighWater(b) == Lower(shelf[b].mark, shelf[b].done)

(* A correction at a chapter changes the memory of that chapter and of the  *)
(* later ones.                                                              *)
Snapshot(b, at) == {c \in shelf[b].fixed : c <= at}

(* answer_scope: what the bank binds an answer to.                          *)
Scope(b, at) == [b |-> b, inc |-> shelf[b].inc, epoch |-> shelf[b].epoch,
                 at |-> at, memory |-> Snapshot(b, at)]

NoScope == [b |-> CHOOSE b \in Books : TRUE, inc |-> 0, epoch |-> 0, at |-> 0, memory |-> {}]

OfBook(b, xs) == {x \in xs : x.b = b}

(* PreparationScope.check. A prepared answer is worth paying for while the  *)
(* reader is still exactly there, and may be kept while the book it was     *)
(* made from is still that book.                                            *)
Unchanged(s) == /\ shelf[s.b].on /\ shelf[s.b].inc = s.inc /\ shelf[s.b].epoch = s.epoch
                /\ HighWater(s.b) >= s.at
Still(s) == Unchanged(s) /\ Scope(s.b, s.at) = s
Wanted(s) == Still(s) /\ shelf[s.b].mark = s.at

Nothing == [x \in {} |-> x]
With(f, k, v) == [x \in DOMAIN f \union {k} |-> IF x = k THEN v ELSE f[x]]
Less(f, xs) == [x \in DOMAIN f \ xs |-> f[x]]

Event == events < MaxEvents /\ events' = events + 1

-----------------------------------------------------------------------------
(* What becomes of a book.                                                  *)

Becomes(b, book) == shelf' = [shelf EXCEPT ![b] = book]

(* PUT /position: the chapter is finished, or merely opened again.          *)
Reported(b) ==
  /\ shelf[b].on
  /\ \E mark \in {shelf[b].mark, shelf[b].mark + 1} \intersect 0..Chapters :
        Becomes(b, [shelf[b] EXCEPT !.mark = mark])

(* The worker has caught up with the bookmark.                              *)
CaughtUp(b) ==
  /\ shelf[b].on /\ shelf[b].done < shelf[b].mark
  /\ Becomes(b, [shelf[b] EXCEPT !.done = shelf[b].mark])

StartedAgain(b) ==
  /\ shelf[b].on /\ shelf[b].mark > 0
  /\ Becomes(b, [shelf[b] EXCEPT !.epoch = @ + 1, !.mark = 0])

Corrected(b) ==
  /\ shelf[b].on /\ HighWater(b) > 0
  /\ HighWater(b) = shelf[b].mark /\ shelf[b].mark \notin shelf[b].fixed
  /\ Becomes(b, [shelf[b] EXCEPT !.fixed = @ \union {shelf[b].mark}])

Removed(b) == shelf[b].on /\ Becomes(b, [shelf[b] EXCEPT !.on = FALSE])

(* The memory files are kept, the catalog row is a new one.                 *)
Imported(b) ==
  /\ ~shelf[b].on
  /\ Becomes(b, [NewBook EXCEPT !.inc = shelf[b].inc + 1, !.fixed = shelf[b].fixed])

=============================================================================
