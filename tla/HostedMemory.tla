---------------------------- MODULE HostedMemory ----------------------------
(* The memory of a book that moves from the reader's machine to the hosted  *)
(* service: the import writes each kind of row again under identifiers of   *)
(* its own (hosted/local_migration.py), and from then on the service reads  *)
(* and corrects them with SQL of its own (hosted/tenant/repository.py).     *)
(* Before the move the book is StoryMemory's. Afterwards nothing extracts   *)
(* its chapters further: the import makes no job, and an upload of the same *)
(* file is another book.                                                    *)
EXTENDS StoryMemory, Functions

VARIABLE moved   \* the book's rows are the service's

hvars == <<vars, moved>>

HostedInit == Init /\ moved = FALSE

(* Every row is of a chapter the import brings along.                       *)
Representable ==
  \A r \in Range(entity) \union edges \union states \union aliases \union parts : r.from \in 1..Done

-----------------------------------------------------------------------------
(* The import. A row's new identifier is a hash of its old one: no two are  *)
(* the same, and their order is lost (here it is reversed).                 *)

NewId(e) == Len(entity) + 1 - e

MovedEntities_open == [e \in DOMAIN entity |-> [entity[NewId(e)] EXCEPT !.to = Never]]
MovedEntities == [e \in DOMAIN entity |-> entity[NewId(e)]]

MovedAliases == {[r EXCEPT !.ent = NewId(@)] : r \in aliases}

MovedEdges == {[r EXCEPT !.src = NewId(@), !.dst = NewId(@)] : r \in edges}

MovedStates == {[r EXCEPT !.ent = NewId(@)] : r \in states}

MovedParts == {[p EXCEPT !.ent = NewId(@)] : p \in parts}

MovedCorrections ==
  [i \in DOMAIN corrections |->
     [corrections[i] EXCEPT !.sources = {NewId(e) : e \in @}, !.targets = {NewId(e) : e \in @}]]

Move ==
  /\ ~moved /\ moved' = TRUE
  /\ prepared = NoDraft /\ asked = NoAsk
  /\ Done >= 1 /\ Representable
  /\ entity' = MovedEntities
  /\ aliases' = MovedAliases
  /\ edges' = MovedEdges
  /\ states' = MovedStates
  /\ parts' = MovedParts
  /\ corrections' = MovedCorrections
  /\ UNCHANGED <<told, bookmark, passes, prepared, asked>>

-----------------------------------------------------------------------------
(* What the service tells at a bookmark.                                    *)

Receipted(r) == r.from \in 1..Done

SeenEntities(b) == {e \in DOMAIN entity : Live(entity[e], b) /\ Receipted(entity[e])}

SeenEdges(b) ==
  {r \in edges : /\ Live(r, b) /\ Receipted(r)
                 /\ Live(entity[r.src], b) /\ Live(entity[r.dst], b)}

SeenChapters(b) == {k \in 1..Done : k <= b}

(* Names are read from every row of the book, whatever the bookmark.        *)
Named(i) ==
  [ kind    |-> corrections[i].kind,
    at      |-> corrections[i].at,
    sources |-> {entity[e].name : e \in corrections[i].sources},
    targets |-> {entity[e].name : e \in corrections[i].targets} ]

ToldCorrections(b) == {Named(i) : i \in {j \in DOMAIN corrections : corrections[j].at <= b}}

Snapshot(b) ==
  [ entities      |-> {<<entity[e].name, entity[e].from>> : e \in SeenEntities(b)},
    relationships |-> {<<entity[r.src].name, entity[r.dst].name, r.from>> : r \in SeenEdges(b)},
    events        |-> SeenChapters(b),
    corrections   |-> ToldCorrections(b) ]

-----------------------------------------------------------------------------
(* The reader's correction on the service: one transaction that holds the   *)
(* reading state, so the frontier cannot move between its check and writes. *)

InScope(at) == at = bookmark /\ at \in 1..Done

Collides(e, at, name) == \E d \in DOMAIN entity \ {e} : entity[d].name = name /\ Live(entity[d], at)

Replaceable(e, at, name) ==
  /\ entity[e].from < at /\ at < entity[e].to
  /\ name # entity[e].name /\ ~Collides(e, at, name)

(* What is read of the source at the frontier.                              *)
FormsAt(e, at, name) ==
  ({entity[e].name} \union {r.form : r \in {a \in aliases : a.ent = e /\ a.from <= at}}) \ {name}

TiesAt_anyEnd(e, at) == {r \in edges : e \in {r.src, r.dst} /\ Live(r, at)}

TiesAt(e, at) ==
  {r \in edges : /\ e \in {r.src, r.dst} /\ Live(r, at)
                 /\ Live(entity[r.src], at) /\ Live(entity[r.dst], at)}

PartsAt(e, at) == {p \in parts : p.ent = e /\ p.from <= at /\ p.event <= at}

StateAt(e, at) ==
  LET now == {r \in states : r.ent = e /\ Live(r, at)}
  IN  {r \in now : \A s \in now : s.from <= r.from}

(* What later chapters said of it, each kind by one INSERT ... SELECT.      *)
LaterForms(e, t, at) == {[r EXCEPT !.ent = t] : r \in {a \in aliases : a.ent = e /\ a.from > at}}

Retied(r, e, t) == [r EXCEPT !.src = IF @ = e THEN t ELSE @, !.dst = IF @ = e THEN t ELSE @]
LaterTies(e, t, at) == {Retied(r, e, t) : r \in {x \in edges : e \in {x.src, x.dst} /\ x.from > at}}

LaterStates(e, t, at) == {[r EXCEPT !.ent = t] : r \in {s \in states : s.ent = e /\ s.from > at}}

LaterParts(e, t, at) ==
  {[p EXCEPT !.ent = t, !.from = IF @ < at THEN at ELSE @] :
     p \in {x \in parts : x.ent = e /\ (x.from > at \/ x.event > at)}}

ClosedAt(e, at) == [entity EXCEPT ![e].to = at]

HostedReplace(e, at, name) ==
  LET t == Len(entity) + 1 IN
  /\ InScope(at) /\ Replaceable(e, at, name)
  /\ entity' = Append(ClosedAt(e, at), [name |-> name, from |-> at, to |-> Never, ch |-> at])
  /\ aliases' = aliases \union LaterForms(e, t, at)
       \union {[ent |-> t, form |-> f, from |-> at, ch |-> FirstSaid(Sayings({e}, at), f)] :
                     f \in FormsAt(e, at, name)}
  /\ states' = states \union {[r EXCEPT !.ent = t, !.from = at] : r \in StateAt(e, at)}
                      \union LaterStates(e, t, at)
  /\ edges' = edges \union {[Retied(r, e, t) EXCEPT !.from = at] : r \in TiesAt(e, at)}
                    \union LaterTies(e, t, at)
  /\ parts' = parts \union {[p EXCEPT !.ent = t, !.from = at] : p \in PartsAt(e, at)}
                    \union LaterParts(e, t, at)
  /\ corrections' = Append(corrections, [kind |-> "replace", at |-> at, sources |-> {e}, targets |-> {t}])
  /\ UNCHANGED <<told, prepared, bookmark, passes, asked>>

-----------------------------------------------------------------------------
(* The reader's position on the service: no further than its chapters.      *)

HostedRead ==
  /\ bookmark < Done /\ bookmark' = bookmark + 1
  /\ UNCHANGED <<rows, told, prepared, corrections, passes, asked>>

HostedNext ==
  \/ ~moved /\ Next /\ UNCHANGED moved
  \/ Move
  \/ /\ moved /\ UNCHANGED moved
     /\ \/ /\ MayCorrect("replace")
           /\ \E e \in DOMAIN entity, name \in Renames : HostedReplace(e, bookmark, name)
        \/ HostedRead
        \/ StartAgain

HostedSpec == HostedInit /\ [][HostedNext]_hvars
-----------------------------------------------------------------------------
\* A book tells the same story after the move as before, at every bookmark: the
\* same people with the same ends, the same ties, scenes, states and
\* corrections, and the service's own queries tell what the local views told
\* by name (_insert_all; memory_snapshot, _correction_history_rows).
MigrationKeepsTheStory ==
  [][ moved' # moved =>
        \A b \in Bookmarks :
          /\ View(b)'.cards = {[c EXCEPT !.id = NewId(@)] : c \in View(b).cards}
          /\ View(b)'.graph = {<<NewId(x[1]), NewId(x[2]), x[3]>> : x \in View(b).graph}
          /\ View(b)'.timeline = View(b).timeline
          /\ Snapshot(b)' =
               [ entities      |-> {<<c.name, entity[c.id].from>> : c \in View(b).cards},
                 relationships |-> {<<entity[r.src].name, entity[r.dst].name, r.from>> : r \in Ties(b)},
                 events        |-> View(b).chapters,
                 corrections   |-> {Named(i) : i \in View(b).history} ] ]_hvars

\* A correction on the service does to the rows what the same correction does
\* on the reader's machine, for the chapters read and for those ahead
\* (repository.replace_memory_entity, corrections.replace_entity).
SameCorrection ==
  [][ moved /\ Len(corrections') > Len(corrections) =>
        LET c == corrections'[Len(corrections')] IN
        \E e \in c.sources, t \in c.targets : Replace(e, c.at, entity'[t].name) ]_hvars
=============================================================================
