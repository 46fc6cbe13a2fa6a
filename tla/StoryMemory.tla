---------------------------- MODULE StoryMemory ----------------------------
(* The derived memory of one book: rows that hold from a chapter of the     *)
(* story on, the bookmark views that read them (memory/dal.py), the chapter *)
(* commit that writes them (ingest/extraction/pipeline.py), and the         *)
(* reader's and the operator's corrections of an identity                   *)
(* (memory/corrections.py, api/views.py). Ingestion may be far ahead of the *)
(* reader, and a reader who starts the book again keeps the memory, so a    *)
(* correction may be dated long before what is already remembered.          *)
(*                                                                          *)
(* Each row carries, besides the columns of the code, a history field `ch`: *)
(* the chapter whose text (or whose reader) first said what the row says.   *)
EXTENDS Integers, Sequences, FiniteSets, FiniteSetsExt

CONSTANTS
  People,          \* the names the chapters use, one per person
  Renames,         \* the names corrections give, none of them a name of People
  Nicknamed,       \* those of People a chapter may call by a second form,
  Nickname,        \* this one
  Chapters,        \* chapters of the book
  MaxEntities,     \* bound on identity rows
  MaxCorrections,  \* bound on corrections
  Kinds,           \* corrections made: "replace", "split", "merge"
  MaxPasses        \* bound on "start again" by the reader

ASSUME ChaptersAssumption == Chapters \in Nat \ {0} /\ MaxPasses \in Nat
ASSUME PeopleAssumption == IsFiniteSet(People)

VARIABLES
  entity,       \* identity rows, by id: [name, from, to, ch]
  aliases,      \* [ent, form, from, ch]
  edges,        \* [src, dst, from, to, ch]
  states,       \* [ent, from, to, ch]
  parts,        \* participants: [event, ent, from]; event k is of chapter k
  told,         \* for each completed chapter, the people it names
  prepared,     \* the chapter the worker holds outside the book's lock, or NoDraft
  corrections,  \* correction rows: [kind, at, sources, targets]
  bookmark,     \* chapters the reader has finished in this pass
  passes,       \* times the reader started again
  asked         \* a correction request between its check and its write, or NoAsk

rows == <<entity, aliases, edges, states, parts>>
vars == <<rows, told, prepared, corrections, bookmark, passes, asked>>

Never == Chapters + 1
NoDraft == [roster |-> {}, names |-> {}, called |-> {}]
NoAsk == [ent |-> 0, at |-> 0, name |-> ""]
Done == Len(told)

-----------------------------------------------------------------------------
(* Reads: every view of a bookmark goes through one filter.                 *)

Live_openChapter(r, b) == r.from <= b + 1 /\ b < r.to
Live(r, b) == r.from <= b /\ b < r.to

Visible(b) == {e \in DOMAIN entity : Live(entity[e], b)}

Aliases(e, b) == {a.form : a \in {r \in aliases : r.ent = e /\ r.from <= b}}

Ties(b) == {r \in edges : Live(r, b) /\ {r.src, r.dst} \subseteq Visible(b)}

(* The newest state that still holds, or none.                              *)
State(e, b) ==
  LET now == {r \in states : r.ent = e /\ Live(r, b)}
  IN  {r \in now : \A s \in now : s.from <= r.from}

Scenes(e, b) == {r.event : r \in {p \in parts : p.ent = e /\ p.event <= b /\ p.from <= b}}

(* What the reader can be told of one identity, with its ties by name.      *)
Card(e, b) ==
  [ id     |-> e,
    name   |-> entity[e].name,
    forms  |-> {entity[e].name} \union Aliases(e, b),
    state  |-> {r.ch : r \in State(e, b)},
    scenes |-> Scenes(e, b) ]

Graph(b) == { <<r.src, r.dst, r.ch>> : r \in Ties(b) }

Cast(b) == {Card(e, b) : e \in Visible(b)}

Timeline(b) == { <<k, {entity[e].name : e \in {x \in Visible(b) : k \in Scenes(x, b)}}>> : k \in 1..b }

(* The corrections the reader may be told of.                               *)
History(b) == {i \in DOMAIN corrections : corrections[i].at <= b}

View(b) == [ cards    |-> Cast(b),
             graph    |-> Graph(b),
             timeline |-> Timeline(b),
             history  |-> History(b),
             chapters |-> {k \in 1..Done : k <= b} ]

Roster(b) == { [id |-> e, name |-> entity[e].name, forms |-> Aliases(e, b)] : e \in Visible(b) }

(* The clamp of every route: what was asked, what was read and what is      *)
(* durably complete.                                                        *)
HighWater == IF bookmark < Done THEN bookmark ELSE Done
Effective(requested) == IF requested < HighWater THEN requested ELSE HighWater

-----------------------------------------------------------------------------
(* The worker: a chapter is prepared against a roster outside the lock and  *)
(* committed in one transaction, if the roster is still the same.           *)

Init ==
  /\ entity = <<>> /\ aliases = {} /\ edges = {} /\ states = {} /\ parts = {}
  /\ told = <<>> /\ prepared = NoDraft
  /\ corrections = <<>> /\ bookmark = 0 /\ passes = 0 /\ asked = NoAsk

Prepare(names, called) ==
  /\ prepared = NoDraft /\ Done < Chapters
  /\ prepared' = [roster |-> Roster(Done), names |-> names, called |-> called]
  /\ UNCHANGED <<rows, told, corrections, bookmark, passes, asked>>

(* A person is linked to the one identity that bears the name, else to the  *)
(* one that shares a form with it; two candidates are no link.              *)
Linked(roster, name, forms) ==
  LET exact == {r \in roster : r.name = name}
      known == {r \in roster : forms \intersect ({r.name} \union r.forms) # {}}
      hits  == IF exact # {} THEN exact ELSE known
  IN  IF Cardinality(hits) = 1 THEN {r.id : r \in hits} ELSE {}

(* The forms a chapter writes down for its people: every one of a new       *)
(* identity, of an old one those no identity of the roster is known by.     *)
Forms(draft, name) == {name} \union IF name \in draft.called THEN {Nickname} ELSE {}

Heard(draft) == UNION {{r.name} \union r.forms : r \in draft.roster}

Noted(draft, name, isNew) ==
  {f \in Forms(draft, name) : IF isNew THEN f # name ELSE f \notin Heard(draft)}

SameRoster_ignored(roster) == TRUE
SameRoster(roster) == roster = Roster(Done)

(* The state a chapter ends: the one its identity has when the chapter      *)
(* comes, unless it began in the same chapter.                              *)
Ended(ids, k) ==
  {r \in states : r.ent \in ids /\ r.from < k /\ r \in State(r.ent, k)}

Commit ==
  /\ prepared # NoDraft
  /\ LET k    == Done + 1
         link == [n \in prepared.names |-> Linked(prepared.roster, n, Forms(prepared, n))]
         new  == {n \in prepared.names : link[n] = {}}
         ord  == CHOOSE f \in [1..Cardinality(new) -> new] : \A n \in new : \E i \in DOMAIN f : f[i] = n
         id   == [n \in prepared.names |->
                    IF n \in new THEN Len(entity) + CHOOSE i \in DOMAIN ord : ord[i] = n
                    ELSE CHOOSE e \in link[n] : TRUE]
         ids  == {id[n] : n \in prepared.names}
     IN  /\ SameRoster(prepared.roster)
         /\ Len(entity) + Cardinality(new) <= MaxEntities
         /\ entity' = entity \o [i \in DOMAIN ord |->
                         [name |-> ord[i], from |-> k, to |-> Never, ch |-> k]]
         /\ states' = {IF r \in Ended(ids, k) THEN [r EXCEPT !.to = k] ELSE r : r \in states}
                      \union {[ent |-> e, from |-> k, to |-> Never, ch |-> k] : e \in ids}
         /\ aliases' = aliases \union
              UNION {{[ent |-> id[n], form |-> f, from |-> k, ch |-> k] : f \in Noted(prepared, n, n \in new)} :
                       n \in prepared.names}
         /\ edges' = edges \union
              {[src |-> id[x[1]], dst |-> id[x[2]], from |-> k, to |-> Never, ch |-> k] :
                 x \in {y \in prepared.names \X prepared.names : y[1] # y[2] /\ id[y[1]] <= id[y[2]]}}
         /\ parts' = parts \union {[event |-> k, ent |-> e, from |-> k] : e \in ids}
         /\ told' = Append(told, prepared.names)
  /\ prepared' = NoDraft
  /\ UNCHANGED <<corrections, bookmark, passes, asked>>

(* The identity roster changed while the provider worked: nothing is        *)
(* written, the chapter is prepared again.                                  *)
CommitStale ==
  /\ prepared # NoDraft /\ ~SameRoster(prepared.roster)
  /\ prepared' = NoDraft
  /\ UNCHANGED <<rows, told, corrections, bookmark, passes, asked>>

(* A write inside the transaction fails: all of it is rolled back.          *)
CommitFails ==
  /\ prepared # NoDraft
  /\ prepared' = NoDraft
  /\ UNCHANGED <<rows, told, corrections, bookmark, passes, asked>>

-----------------------------------------------------------------------------
(* Corrections. The sources end at the frontier `at`, the targets begin     *)
(* there, and what is visible at the frontier is copied to begin there too. *)

Correctable_fromTheSameChapter(ids, at) ==
  \A e \in ids : entity[e].from <= at /\ at < entity[e].to

Correctable(ids, at) ==
  \A e \in ids : entity[e].from < at /\ at < entity[e].to

Invalidated_fromTheStart(ids, at) ==
  [e \in DOMAIN entity |-> IF e \in ids THEN [entity[e] EXCEPT !.to = entity[e].from + 1] ELSE entity[e]]

Invalidated(ids, at) ==
  [e \in DOMAIN entity |-> IF e \in ids THEN [entity[e] EXCEPT !.to = at] ELSE entity[e]]

Fresh(name, at) == [name |-> name, from |-> at, to |-> Never, ch |-> at]

(* The dependencies of `ids` that the operator must resolve at `at`.        *)
OldAliases(ids, at) == {r \in aliases : r.ent \in ids /\ r.from <= at}
OldTies(ids, at) == {r \in Ties(at) : {r.src, r.dst} \intersect ids # {}}
OldParts(ids, at) == {p \in parts : p.ent \in ids /\ p.event <= at /\ p.from <= at}

Onto(r, ids, t) == [r EXCEPT !.src = IF @ \in ids THEN t ELSE @, !.dst = IF @ \in ids THEN t ELSE @]

(* The forms of `ids` are the target's, each once, but for its own name.    *)
Sayings(ids, at) ==
  {<<r.form, r.ch>> : r \in OldAliases(ids, at)} \union {<<entity[e].name, entity[e].ch>> : e \in ids}

FirstSaid(said, form) ==
  CHOOSE k \in {x[2] : x \in {y \in said : y[1] = form}} : \A x \in said : x[1] = form => k <= x[2]

CopiedForms(ids, t, at, name) ==
  LET said == Sayings(ids, at)
  IN  {[ent |-> t, form |-> f, from |-> at, ch |-> FirstSaid(said, f)] : f \in {x[1] : x \in said} \ {name}}

(* The copies that begin at the frontier, as what is known of the target.   *)
CopiedAliases(ids, t, at) == {[r EXCEPT !.ent = t, !.from = at] : r \in OldAliases(ids, at)}
CopiedTies(ties, ids, t, at) == {[Onto(r, ids, t) EXCEPT !.from = at] : r \in ties}
CopiedStates(e, t, at) == {[r EXCEPT !.ent = t, !.from = at] : r \in State(e, at)}
CopiedParts(ids, t, at) == {[p EXCEPT !.ent = t, !.from = at] : p \in OldParts(ids, at)}

Recorded(kind, at, ids, targets) ==
  Append(corrections, [kind |-> kind, at |-> at, sources |-> ids, targets |-> targets])

(* What later chapters already said of the source follows it, each row at   *)
(* the chapter it had.                                                      *)
CarriedForms(e, t, at) == {[r EXCEPT !.ent = t] : r \in {a \in aliases : a.ent = e /\ a.from > at}}
CarriedTies(e, t, at) ==
  {Onto(r, {e}, t) : r \in {x \in edges : e \in {x.src, x.dst} /\ x.from > at}}
CarriedStates_none(e, t, at) == {}

CarriedStates(e, t, at) == {[r EXCEPT !.ent = t] : r \in {s \in states : s.ent = e /\ s.from > at}}
CarriedParts(e, t, at) ==
  {[p EXCEPT !.ent = t, !.from = IF @ > at THEN @ ELSE at] :
     p \in {x \in parts : x.ent = e /\ (x.from > at \/ x.event > at)}}

Replace(e, at, name) ==
  LET t == Len(entity) + 1 IN
  /\ Correctable({e}, at) /\ name # entity[e].name
  /\ entity' = Append(Invalidated({e}, at), Fresh(name, at))
  /\ aliases' = aliases \union CopiedForms({e}, t, at, name) \union CarriedForms(e, t, at)
  /\ edges' = edges \union CopiedTies(OldTies({e}, at), {e}, t, at) \union CarriedTies(e, t, at)
  /\ states' = states \union CopiedStates(e, t, at) \union CarriedStates(e, t, at)
  /\ parts' = parts \union CopiedParts({e}, t, at) \union CarriedParts(e, t, at)
  /\ corrections' = Recorded("replace", at, {e}, {t})

(* A split gives every alias, tie and scene to an explicit choice of the    *)
(* two replacements (here one choice for each kind), which get no state; a  *)
(* merge gives all of them to the one target and drops ties among sources.  *)
Split(e, at, names, sides) ==
  LET t(i) == Len(entity) + i IN
  /\ Correctable({e}, at) /\ \A r \in OldTies({e}, at) : r.src # r.dst
  /\ entity' = Invalidated({e}, at) \o <<Fresh(names[1], at), Fresh(names[2], at)>>
  /\ aliases' = aliases \union UNION {CopiedAliases({e}, t(i), at) : i \in sides.aliases}
  /\ edges' = edges \union UNION {CopiedTies(OldTies({e}, at), {e}, t(i), at) : i \in sides.edges}
  /\ parts' = parts \union UNION {CopiedParts({e}, t(i), at) : i \in sides.events}
  /\ corrections' = Recorded("split", at, {e}, {t(1), t(2)})
  /\ UNCHANGED states

Merge(ids, at, name) ==
  LET t == Len(entity) + 1 IN
  /\ Cardinality(ids) >= 2 /\ Correctable(ids, at)
  /\ entity' = Append(Invalidated(ids, at), Fresh(name, at))
  /\ aliases' = aliases \union CopiedForms(ids, t, at, name)
  /\ edges' = edges \union
       CopiedTies({r \in OldTies(ids, at) : ~({r.src, r.dst} \subseteq ids)}, ids, t, at)
  /\ parts' = parts \union CopiedParts(ids, t, at)
  /\ corrections' = Recorded("merge", at, ids, {t})
  /\ UNCHANGED states

MayCorrect(kind) ==
  /\ kind \in Kinds
  /\ Len(corrections) < MaxCorrections
  /\ Len(entity) + (IF kind = "split" THEN 2 ELSE 1) <= MaxEntities

(* The reader's correction: the route checks that the request is of the     *)
(* current frontier, then takes the book's lock for the write.              *)
Ask(e, name) ==
  /\ asked = NoAsk /\ MayCorrect("replace")
  /\ bookmark >= 1 /\ Effective(bookmark) = bookmark
  /\ asked' = [ent |-> e, at |-> bookmark, name |-> name]
  /\ UNCHANGED <<rows, told, prepared, corrections, bookmark, passes>>

CorrectMemory ==
  /\ asked # NoAsk /\ MayCorrect("replace")
  /\ \/ Replace(asked.ent, asked.at, asked.name)
     \/ /\ ~Correctable({asked.ent}, asked.at) \/ asked.name = entity[asked.ent].name
        /\ UNCHANGED <<rows, corrections>>
  /\ asked' = NoAsk
  /\ UNCHANGED <<told, prepared, bookmark, passes>>

Operate ==
  /\ \/ /\ MayCorrect("split")
        /\ \E e \in DOMAIN entity, at \in 1..Done, all, some \in SUBSET (1..2) :
             Split(e, at, <<"split", "split">>, [aliases |-> all, edges |-> some, events |-> all])
     \/ /\ MayCorrect("merge")
        /\ \E at \in 1..Done, e, f \in DOMAIN entity : e < f /\ Merge({e, f}, at, "merged")
  /\ UNCHANGED <<told, prepared, bookmark, passes, asked>>

-----------------------------------------------------------------------------
(* The reader.                                                              *)

Read ==
  /\ bookmark < Chapters /\ bookmark' = bookmark + 1
  /\ UNCHANGED <<rows, told, prepared, corrections, passes, asked>>

StartAgain ==
  /\ bookmark > 0 /\ passes < MaxPasses
  /\ bookmark' = 0 /\ passes' = passes + 1
  /\ UNCHANGED <<rows, told, prepared, corrections, asked>>

Next ==
  \/ \E names \in SUBSET People \ {{}} :
       \E called \in {{}} \union {{n} : n \in names \intersect Nicknamed} : Prepare(names, called)
  \/ Commit
  \/ CommitStale
  \/ CommitFails
  \/ \E e \in DOMAIN entity, name \in Renames : Ask(e, name)
  \/ CorrectMemory
  \/ Operate
  \/ Read
  \/ StartAgain

Spec == Init /\ [][Next]_vars
-----------------------------------------------------------------------------
Bookmarks == 0..Chapters
Moments == 1..Never

\* Rows have their shapes, and every interval is one the schema accepts: a row
\* ends, if it does, after the chapter it began in.
TypeOK ==
  /\ \A e \in DOMAIN entity : entity[e].from < entity[e].to /\ entity[e].to \in Moments
  /\ \A r \in edges \union states : r.from < r.to /\ {r.from, r.to} \subseteq Moments
  /\ \A r \in aliases \union states \union parts : r.ent \in DOMAIN entity
  /\ \A k \in DOMAIN told : told[k] \subseteq People
  /\ bookmark \in Bookmarks /\ passes \in 0..MaxPasses

\* No view of a bookmark shows anything that a later chapter was the first to
\* say, whatever corrections moved rows about: not a name, an alias, a tie, a
\* state or a scene (the promise of `_select` and of every copy a correction
\* makes).
NoSpoiler ==
  \A b \in Bookmarks :
    /\ \A e \in Visible(b) :
         /\ entity[e].ch <= b
         /\ \A a \in aliases : a.ent = e /\ a.from <= b => a.ch <= b
         /\ \A r \in State(e, b) : r.ch <= b
         /\ \A k \in Scenes(e, b) : k <= b
    /\ \A r \in Ties(b) : r.ch <= b

\* Every view is of well-formed rows and says nothing of later chapters
\* (MemoryDB._select, corrections.py).
ViewsAreSafe == TypeOK /\ NoSpoiler

\* While the only corrections are the reader's, whoever a completed chapter
\* names is still shown, under the name the chapter used, with that scene and
\* its ties, at every bookmark from that chapter on (replace_entity carries
\* the rows the source has at the frontier and after it; a commit links names
\* against a roster that no correction has changed under it).
MentionsKept ==
  (\A i \in DOMAIN corrections : corrections[i].kind = "replace") =>
    \A k \in 1..Done, b \in Bookmarks : k <= b =>
      /\ \A n \in told[k] : \E c \in View(b).cards : n \in c.forms /\ k \in c.scenes
      /\ Cardinality(told[k]) = 2 =>
           \E r \in Ties(b) :
              r.ch = k /\ told[k] \subseteq Card(r.src, b).forms \union Card(r.dst, b).forms

\* At one bookmark no two identities answer to one name of the story: what the
\* reader corrected once is one person from then on ("a one-for-one
\* replacement", corrections.replace_entity).  TLC refutes it once the reader has
\* started again (README, Findings): no run checks it.
OneIdentity ==
  \A b \in Bookmarks : \A c, d \in View(b).cards :
    c.forms \intersect d.forms \intersect People # {} => c.id = d.id

\* A chapter that is committed, and a correction, change nothing in the view of
\* any bookmark before them ("it must not rewrite an earlier bookmark's world
\* model", corrections.py).
EarlierViewsKept ==
  /\ told' # told => \A b \in 0..Done : View(b)' = View(b)
  /\ Len(corrections') > Len(corrections) =>
       \A b \in Bookmarks : b < corrections'[Len(corrections')].at => View(b)' = View(b)

Renamed(c, e, t, name) ==
  IF c.id # e THEN c ELSE [c EXCEPT !.id = t, !.name = name, !.forms = @ \union {name}]

\* A reader's correction of an identity that has no later end does nothing but
\* rename it, in the view of its frontier and of every later bookmark: each
\* alias, state, scene and tie the view had it still has, and no other.
CorrectionRenames ==
  LET c == corrections'[Len(corrections')] IN
    /\ Len(corrections') > Len(corrections) /\ c.kind = "replace"
    /\ \A e \in c.sources : entity[e].to = Never
    => \A e \in c.sources, t \in c.targets, b \in c.at..Chapters :
         /\ View(b)'.cards = {Renamed(d, e, t, entity'[t].name) : d \in View(b).cards}
         /\ View(b)'.graph =
              {<<IF x[1] = e THEN t ELSE x[1], IF x[2] = e THEN t ELSE x[2], x[3]>> : x \in View(b).graph}

\* What a correction does, it does from its frontier on and to the name alone
\* (corrections.replace_entity).
CorrectionIsLocal == [][EarlierViewsKept /\ CorrectionRenames]_vars
=============================================================================
