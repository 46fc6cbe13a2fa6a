---------------------------- MODULE PositionSync ----------------------------
(***************************************************************************)
(* How a reader's position travels from the page to the server: the        *)
(* debounced reporter and the reader page that drives it                   *)
(* (src/frontend/src/reader), the outbox in local storage                  *)
(* (src/frontend/src/pwa/offline.ts), and PUT position and its reset on    *)
(* the server, hosted (tenant/repository.py) or local (catalog.py).        *)
(*                                                                         *)
(* One book, one owner.  A page of the view is a chapter, so an offset, a  *)
(* completed chapter and a CFI are one number: in chapter p the reader has *)
(* completed p of them, and the affirmed end is position Chapters.  `far`  *)
(* of a request is what counts for the bookmark (completed_chapter, and    *)
(* high_water_offset where the server derives the chapters), `pos` is the  *)
(* cursor.  JavaScript runs to completion: an action is one task.          *)
(***************************************************************************)
EXTENDS Naturals, Sequences, FiniteSetsExt

CONSTANTS
    Devices,        \* browsers, each with a client id; numbered in the ids' order
    Chapters,       \* number of chapters
    Hosting,        \* {TRUE}: the hosted service, {FALSE}: the local one, or both in turn
    MaxEpoch,       \* bound: resets
    MaxSequence,    \* bound: page turns stop once a device has used so many
    MaxFailures     \* bound: lost calls, 503 answers, hidden and closed pages

ASSUME DevicesAssumption == Devices \subseteq Nat \ {0}
ASSUME ChaptersAssumption == Chapters \in Nat \ {0}
ASSUME HostingAssumption == Hosting \subseteq BOOLEAN
ASSUME BoundsAssumption == {MaxEpoch, MaxSequence, MaxFailures} \subseteq Nat

VARIABLES
    srv,        \* reading_state, of the hosted service or of the local one
    page,       \* the reader page of a device, with its PositionReporter
    line,       \* positionDeliveries: the tracked PUTs, the first one on its way
    clock,      \* positionAcknowledgments
    box,        \* the position mutation in the outbox
    flushes,    \* flushOfflineMutations
    seq,        \* nextPositionClientSequence
    drain,      \* drainAndDispose(..).then(flush) is outstanding
    sync,       \* a litlet:offline-sync event whose refresh is outstanding
    net,        \* keepalive PUTs whose page is gone
    failures,
    \* history
    label,      \* furthest position reported under an epoch
    read,       \* furthest position seen in the view of a pass
    affirmed,   \* the epoch whose end the reader of a device affirmed last
    excused     \* devices whose page dropped reports to load again

positionVars == <<srv, page, line, clock, box, flushes, seq, drain, sync, net, failures,
                  label, read, affirmed, excused>>

client  == <<page, line, clock, box, flushes, seq, drain, sync>>
history == <<label, read, affirmed, excused>>

-----------------------------------------------------------------------------
(* Types *)

None == [none |-> TRUE]

Epochs    == 0..MaxEpoch
Positions == 0..Chapters

Report == [pos : Positions, epoch : Epochs]
Body   == [pos : Positions, far : Positions, epoch : Epochs, base : Nat, seq : Nat]
Reply  == [status : {200}, mark : Positions, epoch : Epochs, version : Nat, applied : BOOLEAN]
          \cup {[status |-> 409]}

\* A tracked delivery.  `report` is what a live one carries for the reporter,
\* `finish` says it is the affirmation; `mine`: its reader page is still there;
\* `fresh`: and its generation is the reporter's.
Delivery == [kind : {"live", "replay"}, body : Body, report : Report \cup {None},
             finish : BOOLEAN, mine : BOOLEAN, fresh : BOOLEAN, reply : Reply \cup {None}]

\* busy: a delivery that awaits the canonical position after a 409; reload:
\* setLoadAttempt was called and the effect has not run again yet.
Reader == [pc : {"open", "resetting"}, at : Positions, pass : Epochs,
           epoch : Epochs, version : Nat, mark : Positions, shown : Positions,
           pending : Report \cup {None}, finish : Report \cup {None},
           busy : Delivery \cup {None}, reload : BOOLEAN]

Away == [pc |-> "away"]     \* the application runs, no book is open
Gone == [pc |-> "gone"]     \* it does not run

TypeOK ==
    /\ srv \in [hosted : Hosting, epoch : Epochs, version : Nat, mark : Positions, cur : Positions,
                high : Positions, by : Devices \cup {0}, seq : Nat]
    /\ srv.cur <= srv.high \/ ~srv.hosted
    /\ (srv.by = 0) <=> (srv.seq = 0)
    /\ page \in [Devices -> Reader \cup {Away, Gone}]
    /\ \A d \in Devices : line[d] \in Seq(Delivery) /\ (line[d] = <<>> => clock[d] = None)
    /\ clock \in [Devices -> {None} \cup [epoch : Epochs, seq : Nat, version : Nat]]
    /\ box \in [Devices -> {None} \cup Body]
    /\ flushes \in [Devices -> {"idle", "wait", "sending"}]
    /\ seq \in [Devices -> Nat]
    /\ drain \in [Devices -> BOOLEAN]
    /\ sync \in [Devices -> BOOLEAN]
    /\ \A o \in net : o.by \in Devices /\ o.body \in Body
    /\ failures \in 0..MaxFailures
    /\ {label, read} \subseteq [Epochs -> Positions]
    /\ affirmed \in [Devices -> {None} \cup [epoch : Epochs]] /\ excused \subseteq Devices

PositionInit ==
    /\ srv \in [hosted : Hosting, epoch : {0}, version : {0}, mark : {0}, cur : {0}, high : {0},
                by : {0}, seq : {0}]
    /\ page = [d \in Devices |-> Away]
    /\ line = [d \in Devices |-> <<>>]
    /\ clock = [d \in Devices |-> None]
    /\ box = [d \in Devices |-> None]
    /\ flushes = [d \in Devices |-> "idle"]
    /\ seq = [d \in Devices |-> 0]
    /\ drain = [d \in Devices |-> FALSE]
    /\ sync = [d \in Devices |-> FALSE]
    /\ net = {}
    /\ failures = 0
    /\ label = [e \in Epochs |-> 0]
    /\ read = [e \in Epochs |-> 0]
    /\ affirmed = [d \in Devices |-> None]
    /\ excused = {}

-----------------------------------------------------------------------------
(* The server *)

\* Faulty variants, named <definition>_<what is wrong>, stand before the
\* definitions they would replace; no specification uses them.

Accepts_anyEpoch(s, b) == b.base <= s.version \/ ~s.hosted
Accepts(s, b) == b.epoch = s.epoch /\ (b.base <= s.version \/ ~s.hosted)

Stale(s, b)    == b.base < s.version
Advances(s, b) == b.far > s.mark \/ b.pos > s.high
WinsTie(s, d, b) ==
    /\ b.far = s.mark /\ b.pos = s.high
    /\ d > s.by \/ (d = s.by /\ b.seq > s.seq)

Applies(s, d, b) == ~s.hosted \/ ~Stale(s, b) \/ Advances(s, b) \/ WinsTie(s, d, b)

\* update_position and set_position: the row after device d's request.
Updated(s, d, b) ==
    IF ~Applies(s, d, b) THEN s
    ELSE IF s.hosted
    THEN [s EXCEPT !.mark = Max({@, b.far}), !.high = Max({@, b.pos}), !.version = @ + 1,
                   !.cur = IF Stale(s, b) THEN Max({@, b.pos}) ELSE b.pos,
                   !.by = d, !.seq = b.seq]
    ELSE [s EXCEPT !.mark = Max({@, b.far, b.pos}), !.cur = b.pos]

Answer(s, d, b) ==
    IF ~Accepts(s, b) THEN [status |-> 409]
    ELSE LET n == Updated(s, d, b)
         IN  [status |-> 200, mark |-> n.mark, epoch |-> n.epoch, version |-> n.version,
              applied |-> Applies(s, d, b)]

Put(d, b) == srv' = IF Accepts(srv, b) THEN Updated(srv, d, b) ELSE srv

\* reset_position: the row of the next pass.
NextPass(s) ==
    [s EXCEPT !.epoch = @ + 1, !.version = IF s.hosted THEN @ + 1 ELSE @,
              !.mark = 0, !.cur = 0, !.high = 0, !.by = 0, !.seq = 0]

-----------------------------------------------------------------------------
(* The outbox *)

\* queuePosition: one mutation per book; reports of one pass are merged, one of
\* an older pass is dropped.
Queued_latestOnly(prev, b) == IF prev # None /\ prev.epoch > b.epoch THEN prev ELSE b
Queued_acrossPasses(prev, b) ==
    IF prev = None THEN [b EXCEPT !.far = Max({@, b.pos})]
    ELSE IF prev.epoch > b.epoch THEN prev
    ELSE [(IF b.seq < prev.seq THEN prev ELSE b) EXCEPT !.far = Max({b.far, b.pos, prev.far})]
Queued(prev, b) ==
    IF prev = None \/ prev.epoch < b.epoch THEN [b EXCEPT !.far = Max({@, b.pos})]
    ELSE IF prev.epoch > b.epoch THEN prev
    ELSE [(IF b.seq < prev.seq THEN prev ELSE b) EXCEPT !.far = Max({b.far, b.pos, prev.far})]

\* acknowledgePosition on the outbox: what was sent covers the item, or the item
\* inherits the version the request produced.
Acknowledged(item, b, r) ==
    IF item = None \/ ~r.applied \/ item.epoch # r.epoch THEN item
    ELSE IF b.seq >= item.seq /\ r.mark >= item.far THEN None
    ELSE IF item.base = b.base /\ r.version > b.base THEN [item EXCEPT !.base = r.version]
    ELSE item

\* acknowledgePosition on the clock that later live writes read.
Clocked(c, b, r) ==
    IF r.applied /\ r.version > b.base
       /\ (c = None \/ r.epoch > c.epoch \/ (r.epoch = c.epoch /\ b.seq >= c.seq))
    THEN [epoch |-> r.epoch, seq |-> b.seq, version |-> r.version]
    ELSE c

\* positionRequestBody: a delivery reads the clock when its turn comes.
OnTheWire(d, b) ==
    IF clock[d] # None /\ b.epoch = clock[d].epoch /\ b.seq > clock[d].seq
       /\ b.base < clock[d].version
    THEN [b EXCEPT !.base = clock[d].version]
    ELSE b

\* removeMutation: the item goes unless another one took its place.
Settled_forgetsSuccessor(d, item, now) ==
    /\ box' = [box EXCEPT ![d] = IF now = item THEN None ELSE now]
    /\ flushes' = [flushes EXCEPT ![d] = IF now \in {item, None} THEN "idle" ELSE @]
Settled(d, item, now) ==
    /\ box' = [box EXCEPT ![d] = IF now = item THEN None ELSE now]
    /\ flushes' = [flushes EXCEPT ![d] = IF now \in {item, None} THEN "idle" ELSE "wait"]

-----------------------------------------------------------------------------
(* The reporter and its page *)

IsOpen(d) == page[d].pc \in {"open", "resetting"}

InFlight(d) ==
    \/ IsOpen(d) /\ page[d].busy # None
    \/ \E i \in 1..Len(line[d]) : line[d][i].kind = "live" /\ line[d][i].mine

\* The reports a reporter answers for that its generation has not given up.
UnderWay(d) ==
    {line[d][i].report : i \in {j \in 1..Len(line[d]) : line[d][j].kind = "live" /\ line[d][j].fresh}}
    \cup (IF IsOpen(d) /\ page[d].busy # None /\ page[d].busy.fresh THEN {page[d].busy.report} ELSE {})

Unsent(p) == {p.finish, p.pending} \ {None}

\* cancel(): the line's deliveries are of an older generation now.
Cancelled(p) == [p EXCEPT !.pending = None, !.finish = None, !.busy = IF @ = None THEN @ ELSE [@ EXCEPT !.fresh = FALSE]]
Unfresh(ln)  == [i \in DOMAIN ln |-> [ln[i] EXCEPT !.fresh = FALSE]]
Orphaned(ln) == [i \in DOMAIN ln |-> [ln[i] EXCEPT !.fresh = FALSE, !.mine = FALSE]]

\* deliver's catch: a failed report is kept unless a newer one took its place.
Kept(p, e) ==
    IF ~e.fresh THEN p
    ELSE IF e.finish THEN [p EXCEPT !.finish = IF @ = None THEN e.report ELSE @]
    ELSE [p EXCEPT !.pending = IF @ = None THEN e.report ELSE @]

\* fire(): the affirmation goes before the newest relocation.
Chosen(p) == IF p.finish # None THEN p.finish ELSE p.pending
Taken(p)  == IF p.finish # None THEN [p EXCEPT !.finish = None] ELSE [p EXCEPT !.pending = None]

Live(p, n) ==
    [kind |-> "live", finish |-> p.finish # None, report |-> Chosen(p),
     body |-> [pos |-> Chosen(p).pos, far |-> Chosen(p).pos, epoch |-> Chosen(p).epoch,
               base |-> p.version, seq |-> n],
     mine |-> TRUE, fresh |-> TRUE, reply |-> None]

\* With page p and n sequence numbers used: what firing leaves behind.  A report
\* of another epoch than the page's is given up without a request.
Fired(d, p, n) ==
    IF InFlight(d) \/ Unsent(p) = {} THEN [page |-> p, line |-> line[d], seq |-> n]
    ELSE IF Chosen(p).epoch # p.epoch THEN [page |-> Taken(p), line |-> line[d], seq |-> n]
    ELSE [page |-> Taken(p), line |-> Append(line[d], Live(p, n + 1)), seq |-> n + 1]

\* retain(): the delivery under way, the affirmation, then the cursor are queued,
\* each with a number of its own; merging them one by one comes to this.
Retainable(d) == {r \in UnderWay(d) \cup Unsent(page[d]) : r.epoch = page[d].epoch}

Cursor(d) == IF page[d].pending # None THEN page[d].pending.pos
             ELSE IF page[d].finish # None THEN page[d].finish.pos
             ELSE (CHOOSE r \in UnderWay(d) : TRUE).pos

Retained(d) ==
    LET rs == Retainable(d)
        n  == seq[d] + Cardinality(rs)
    IN  IF rs = {} THEN [box |-> box[d], seq |-> seq[d]]
        ELSE [box |-> Queued(box[d], [pos |-> Cursor(d), far |-> Max({r.pos : r \in rs}),
                                      epoch |-> page[d].epoch, base |-> page[d].version,
                                      seq |-> n]),
              seq |-> n]

\* pagehide: retain, then flush.
Hidden(d) == Fired(d, page[d], Retained(d).seq)

Furthest(f, e, p) == [f EXCEPT ![e] = Max({@, p})]

\* api.position: the server's position, with a queued report of its epoch on top.
Queueing(d) == box[d] # None /\ box[d].epoch = srv.epoch
Mark(d) == IF Queueing(d) THEN Max({srv.mark, box[d].far}) ELSE srv.mark
Place(d) == IF Queueing(d) THEN box[d].pos ELSE srv.cur

-----------------------------------------------------------------------------
(* Reading *)

\* The reader page mounts or its effect runs again: it takes the canonical
\* position, and the view reports where it landed.
Open(d) ==
    /\ page[d] = Away
    /\ seq[d] < MaxSequence
    /\ LET at == Min({Place(d), Chapters - 1})
       IN  /\ page' = [page EXCEPT ![d] =
                  [pc |-> "open", at |-> at, pass |-> srv.epoch, epoch |-> srv.epoch,
                   version |-> srv.version, mark |-> Mark(d), shown |-> Mark(d),
                   pending |-> [pos |-> at, epoch |-> srv.epoch], finish |-> None,
                   busy |-> None, reload |-> FALSE]]
           /\ label' = Furthest(label, srv.epoch, at)
           /\ read' = Furthest(read, srv.epoch, at)
    /\ UNCHANGED <<srv, line, clock, box, flushes, seq, drain, sync, net, failures, affirmed, excused>>

\* A relocation in the view.  It may be the last one before the effect's cleanup.
Turn(d, p) ==
    /\ page[d].pc = "open"
    /\ seq[d] < MaxSequence
    /\ page' = [page EXCEPT ![d].at = p, ![d].pending = [pos |-> p, epoch |-> page[d].epoch]]
    /\ label' = Furthest(label, page[d].epoch, p)
    /\ read' = Furthest(read, page[d].pass, p)
    /\ UNCHANGED <<srv, line, clock, box, flushes, seq, drain, sync, net, failures, affirmed, excused>>

\* "Finish book": complete() and the fire() in it.
Finish(d) ==
    /\ page[d].pc = "open"
    /\ seq[d] < MaxSequence
    /\ page[d].at = Chapters - 1 /\ page[d].mark < Chapters
    /\ InFlight(d) => Unsent(page[d]) # {}         \* not while "saving"
    /\ LET p == [page[d] EXCEPT !.pending = None, !.finish = [pos |-> Chapters, epoch |-> page[d].epoch]]
           f == Fired(d, p, seq[d])
       IN  /\ page' = [page EXCEPT ![d] = f.page]
           /\ line' = [line EXCEPT ![d] = f.line]
           /\ seq' = [seq EXCEPT ![d] = f.seq]
    /\ label' = Furthest(label, page[d].epoch, Chapters)
    /\ read' = Furthest(read, page[d].pass, Chapters)
    /\ affirmed' = [affirmed EXCEPT ![d] = [epoch |-> page[d].epoch]]
    /\ excused' = excused \ {d}
    /\ UNCHANGED <<srv, clock, box, flushes, drain, sync, net, failures>>

\* The reporter's timer: debounce, retry or the follow-up of a delivery.
Fire(d) ==
    /\ IsOpen(d) /\ ~InFlight(d) /\ Unsent(page[d]) # {}
    /\ LET f == Fired(d, page[d], seq[d])
       IN  /\ page' = [page EXCEPT ![d] = f.page]
           /\ line' = [line EXCEPT ![d] = f.line]
           /\ seq' = [seq EXCEPT ![d] = f.seq]
    /\ UNCHANGED <<srv, clock, box, flushes, drain, sync, net, failures, history>>

\* The page is hidden, and comes back.
Hide(d) ==
    /\ IsOpen(d) /\ failures < MaxFailures
    /\ failures' = failures + 1
    /\ box' = [box EXCEPT ![d] = Retained(d).box]
    /\ page' = [page EXCEPT ![d] = Hidden(d).page]
    /\ line' = [line EXCEPT ![d] = Hidden(d).line]
    /\ seq' = [seq EXCEPT ![d] = Hidden(d).seq]
    /\ UNCHANGED <<srv, clock, flushes, drain, sync, net, history>>

\* The effect's cleanup: the reader leaves the book, or it is loaded again.
LeaveBook(d) ==
    /\ page[d].pc = "open"
    /\ box' = [box EXCEPT ![d] = Retained(d).box]
    /\ line' = [line EXCEPT ![d] = Orphaned(Hidden(d).line)]
    /\ seq' = [seq EXCEPT ![d] = Hidden(d).seq]
    /\ page' = [page EXCEPT ![d] = Away]
    /\ drain' = [drain EXCEPT ![d] = TRUE]
    /\ sync' = [sync EXCEPT ![d] = FALSE]
    /\ UNCHANGED <<srv, clock, flushes, net, failures, history>>

\* The tab is closed.  A request on its way is not lost with it.
Close(d) ==
    /\ page[d] # Gone /\ failures < MaxFailures
    /\ failures' = failures + 1
    /\ LET ln == IF IsOpen(d) THEN Hidden(d).line ELSE line[d]
       IN  net' = net \cup IF ln # <<>> /\ ln[1].reply = None
                           THEN {[by |-> d, body |-> OnTheWire(d, ln[1].body)]} ELSE {}
    /\ box' = IF IsOpen(d) THEN [box EXCEPT ![d] = Retained(d).box] ELSE box
    /\ seq' = IF IsOpen(d) THEN [seq EXCEPT ![d] = Hidden(d).seq] ELSE seq
    /\ page' = [page EXCEPT ![d] = Gone]
    /\ line' = [line EXCEPT ![d] = <<>>]
    /\ clock' = [clock EXCEPT ![d] = None]
    /\ flushes' = [flushes EXCEPT ![d] = "idle"]
    /\ drain' = [drain EXCEPT ![d] = FALSE]
    /\ sync' = [sync EXCEPT ![d] = FALSE]
    /\ UNCHANGED <<srv, history>>

-----------------------------------------------------------------------------
(* Deliveries *)

Foremost(d)  == line[d][1]
First(d, kind) == line[d] # <<>> /\ Foremost(d).kind = kind
Wire(d)  == OnTheWire(d, Foremost(d).body)

\* The head of the line is settled; with the last one its clock goes.
Pop_keepsClock(d, c) ==
    /\ line' = [line EXCEPT ![d] = Tail(@)]
    /\ clock' = [clock EXCEPT ![d] = c]
Pop(d, c) ==
    /\ line' = [line EXCEPT ![d] = Tail(@)]
    /\ clock' = [clock EXCEPT ![d] = IF Len(line[d]) = 1 THEN None ELSE c]

\* The request reaches the server; its answer is on the way back.
Serve(d) ==
    /\ line[d] # <<>> /\ Foremost(d).reply = None
    /\ Put(d, Wire(d))
    /\ line' = [line EXCEPT ![d][1].reply = Answer(srv, d, Wire(d))]
    /\ UNCHANGED <<page, clock, box, flushes, seq, drain, sync, net, failures, history>>

ServeOrphan(o) ==
    /\ o \in net
    /\ net' = net \ {o}
    /\ Put(o.by, o.body)
    /\ UNCHANGED <<client, failures, history>>

LoseOrphan(o) ==
    /\ o \in net /\ failures < MaxFailures
    /\ net' = net \ {o}
    /\ failures' = failures + 1
    /\ UNCHANGED <<srv, client, history>>

\* What the reader page takes over from a position the server or the outbox gave.
Learnt(p, e, version, mark) == IF e # p.epoch THEN p ELSE [p EXCEPT !.version = version, !.mark = mark]

\* A live PUT was accepted.  Where a chapter was completed the labels are fetched
\* again; that may fail, and then the whole delivery counts as failed.
Saved(d) ==
    /\ First(d, "live") /\ Foremost(d).reply # None /\ Foremost(d).reply.status = 200
    /\ LET r == Foremost(d).reply
           p == Learnt(page[d], r.epoch, r.version, r.mark)
           unlocks == Foremost(d).mine /\ r.epoch = page[d].epoch /\ r.mark > page[d].shown
       IN  /\ box' = [box EXCEPT ![d] = Acknowledged(@, Wire(d), r)]
           /\ Pop(d, Clocked(clock[d], Wire(d), r))
           /\ \/ /\ page' = IF ~Foremost(d).mine THEN page
                            ELSE [page EXCEPT ![d] = IF unlocks THEN [p EXCEPT !.shown = r.mark] ELSE p]
                 /\ failures' = failures
              \/ /\ unlocks /\ failures < MaxFailures
                 /\ page' = [page EXCEPT ![d] = Kept(p, Foremost(d))]
                 /\ failures' = failures + 1
    /\ UNCHANGED <<srv, flushes, seq, drain, sync, net, history>>

\* A live PUT was answered 409: the page asks for the canonical position.
Conflict(d) ==
    /\ First(d, "live") /\ Foremost(d).reply # None /\ Foremost(d).reply.status = 409
    /\ Pop(d, clock[d])
    /\ page' = IF Foremost(d).mine THEN [page EXCEPT ![d].busy = Foremost(d)] ELSE page
    /\ UNCHANGED <<srv, box, flushes, seq, drain, sync, net, failures, history>>

\* The connection fails, before or after the server has seen the request: a live
\* report goes to the outbox and counts as queued, a replay ends the flush.
Lose(d) ==
    /\ line[d] # <<>> /\ failures < MaxFailures
    /\ failures' = failures + 1
    /\ Pop(d, clock[d])
    /\ LET q == Queued(box[d], Wire(d))
       IN  IF Foremost(d).kind = "live"
           THEN /\ box' = [box EXCEPT ![d] = q]
                /\ page' = IF ~Foremost(d).mine THEN page
                           ELSE [page EXCEPT ![d] = Learnt(@, q.epoch, q.base, Max({@.mark, q.far}))]
                /\ flushes' = flushes
           ELSE /\ flushes' = [flushes EXCEPT ![d] = "idle"]
                /\ UNCHANGED <<box, page>>
    /\ UNCHANGED <<srv, seq, drain, sync, net, history>>

\* 429 or 5xx: the reporter keeps the report, a replay ends the flush.
Refuse(d) ==
    /\ line[d] # <<>> /\ failures < MaxFailures
    /\ failures' = failures + 1
    /\ Pop(d, clock[d])
    /\ page' = IF First(d, "live") THEN [page EXCEPT ![d] = Kept(@, Foremost(d))] ELSE page
    /\ flushes' = IF First(d, "live") THEN flushes ELSE [flushes EXCEPT ![d] = "idle"]
    /\ UNCHANGED <<srv, box, seq, drain, sync, net, history>>

\* The page takes the canonical position.  A view of another pass is to load again,
\* and what its reporter still held is discarded.
Adopt(d, stale, p) ==
    LET q == [p EXCEPT !.epoch = srv.epoch, !.version = srv.version, !.mark = Mark(d)]
    IN  IF stale
        THEN /\ page' = [page EXCEPT ![d] = [Cancelled(q) EXCEPT !.reload = TRUE]]
             /\ line' = [line EXCEPT ![d] = Unfresh(@)]
             /\ excused' = excused \cup {d}
        ELSE /\ page' = [page EXCEPT ![d] = q]
             /\ UNCHANGED <<line, excused>>

Canonical(d) ==
    /\ page[d].pc = "open" /\ page[d].busy # None
    /\ Adopt(d, srv.epoch # page[d].busy.report.epoch, [page[d] EXCEPT !.busy = None])
    /\ UNCHANGED <<srv, clock, box, flushes, seq, drain, sync, net, failures, label, read, affirmed>>

CanonicalFails(d) ==
    /\ IsOpen(d) /\ page[d].busy # None /\ failures < MaxFailures
    /\ failures' = failures + 1
    /\ page' = [page EXCEPT ![d] = Kept([@ EXCEPT !.busy = None], page[d].busy)]
    /\ UNCHANGED <<srv, line, clock, box, flushes, seq, drain, sync, net, history>>

-----------------------------------------------------------------------------
(* Replay of the outbox *)

\* flushOfflineMutations is called; one that runs already is joined.
Flushing(d) == flushes' = [flushes EXCEPT ![d] = IF @ = "idle" /\ box[d] # None THEN "wait" ELSE @]

Online(d) ==
    /\ page[d] # Gone /\ flushes[d] = "idle" /\ box[d] # None
    /\ Flushing(d)
    /\ UNCHANGED <<srv, page, line, clock, box, seq, drain, sync, net, failures, history>>

Launch(d) ==
    /\ page[d] = Gone
    /\ page' = [page EXCEPT ![d] = Away]
    /\ Flushing(d)
    /\ UNCHANGED <<srv, line, clock, box, seq, drain, sync, net, failures, history>>

\* The deliveries of the reader page that left are settled.
Drained(d) ==
    /\ drain[d]
    /\ \A i \in 1..Len(line[d]) : line[d][i].kind = "live" => line[d][i].mine
    /\ drain' = [drain EXCEPT ![d] = FALSE]
    /\ Flushing(d)
    /\ UNCHANGED <<srv, page, line, clock, box, seq, sync, net, failures, history>>

\* With no live delivery in the way the item is read again and sent.
LineClear(d) == line[d] = <<>>

Replay(d) ==
    /\ flushes[d] = "wait" /\ LineClear(d)
    /\ IF box[d] = None
       THEN /\ flushes' = [flushes EXCEPT ![d] = "idle"]
            /\ line' = line
       ELSE /\ flushes' = [flushes EXCEPT ![d] = "sending"]
            /\ line' = [line EXCEPT ![d] = Append(@,
                   [kind |-> "replay", body |-> box[d], report |-> None, finish |-> FALSE,
                    mine |-> FALSE, fresh |-> FALSE, reply |-> None])]
    /\ UNCHANGED <<srv, page, clock, box, seq, drain, sync, net, failures, history>>

\* A replay was answered, accepted or 409: unless it changed meanwhile, the
\* mutation is done with; an open page of the book is told.
Replayed(d) ==
    /\ First(d, "replay") /\ Foremost(d).reply # None
    /\ LET r   == Foremost(d).reply
           now == IF r.status = 200 THEN Acknowledged(box[d], Wire(d), r) ELSE box[d]
       IN  /\ Settled(d, Foremost(d).body, now)
           /\ Pop(d, IF r.status = 200 THEN Clocked(clock[d], Wire(d), r) ELSE clock[d])
    /\ sync' = [sync EXCEPT ![d] = IsOpen(d)]
    /\ UNCHANGED <<srv, page, seq, drain, net, failures, history>>

\* reconcileOffline: the page fetches the position again.
Reconcile(d) ==
    /\ sync[d] /\ page[d].pc = "open"
    /\ sync' = [sync EXCEPT ![d] = FALSE]
    /\ Adopt(d, srv.epoch # page[d].epoch, [page[d] EXCEPT !.shown = Mark(d)])
    /\ UNCHANGED <<srv, clock, box, flushes, seq, drain, net, failures, label, read, affirmed>>

ReconcileFails(d) ==
    /\ sync[d]
    /\ sync' = [sync EXCEPT ![d] = FALSE]
    /\ UNCHANGED <<srv, page, line, clock, box, flushes, seq, drain, net, failures, history>>

-----------------------------------------------------------------------------
(* Start over *)

\* The reader confirms: relocations are frozen, the reporter's work is cancelled.
StartOver(d) ==
    /\ page[d].pc = "open" /\ ~page[d].reload /\ page[d].mark > 0
    /\ page' = [page EXCEPT ![d] = [Cancelled(@) EXCEPT !.pc = "resetting"]]
    /\ line' = [line EXCEPT ![d] = Unfresh(@)]
    /\ affirmed' = [affirmed EXCEPT ![d] = None]        \* the reader gives the pass up
    /\ UNCHANGED <<srv, clock, box, flushes, seq, drain, sync, net, failures, label, read, excused>>

CanReset(d) == page[d].pc = "resetting" /\ srv.epoch = page[d].epoch /\ srv.epoch < MaxEpoch

\* The server starts the pass and the page follows; queued reports of older ones go.
Reset(d) ==
    /\ CanReset(d)
    /\ srv' = NextPass(srv)
    /\ page' = [page EXCEPT ![d].pc = "open", ![d].at = 0, ![d].pass = srv'.epoch,
                            ![d].epoch = srv'.epoch, ![d].version = srv'.version,
                            ![d].mark = 0, ![d].shown = 0]
    /\ box' = [box EXCEPT ![d] = IF @ # None /\ @.epoch < srv'.epoch THEN None ELSE @]
    /\ UNCHANGED <<line, clock, flushes, seq, drain, sync, net, failures, history>>

\* The answer is lost, or there is none: the dialog shows an error and is left.
ResetFails(d) ==
    /\ page[d].pc = "resetting"
    /\ \/ srv.epoch # page[d].epoch /\ UNCHANGED <<srv, failures>>
       \/ failures < MaxFailures /\ failures' = failures + 1
          /\ \/ CanReset(d) /\ srv' = NextPass(srv)
             \/ srv' = srv
    /\ page' = [page EXCEPT ![d].pc = "open"]
    /\ UNCHANGED <<line, clock, box, flushes, seq, drain, sync, net, history>>

-----------------------------------------------------------------------------

Reading(d) ==
    \/ Open(d) \/ Finish(d) \/ Hide(d) \/ LeaveBook(d) \/ Close(d)
    \/ StartOver(d) \/ Reset(d) \/ ResetFails(d)
    \/ \E p \in 0..(Chapters - 1) : Turn(d, p)

Delivering(d) ==
    \/ Fire(d) \/ Serve(d) \/ Saved(d) \/ Conflict(d) \/ Lose(d) \/ Refuse(d)
    \/ Canonical(d) \/ CanonicalFails(d)

Replaying(d) ==
    \/ Online(d) \/ Launch(d) \/ Drained(d) \/ Replay(d) \/ Replayed(d)
    \/ Reconcile(d) \/ ReconcileFails(d)

PositionNext ==
    \/ \E d \in Devices : Reading(d) \/ Delivering(d) \/ Replaying(d)
    \/ \E o \in net : ServeOrphan(o) \/ LoseOrphan(o)

PositionSpec == PositionInit /\ [][PositionNext]_positionVars

\* Timers fire, requests are answered, promises settle.
Runs ==
    \A d \in Devices :
        /\ WF_positionVars(Fire(d)) /\ WF_positionVars(Serve(d)) /\ WF_positionVars(Canonical(d))
        /\ WF_positionVars(Saved(d) \/ Conflict(d) \/ Replayed(d))
        /\ WF_positionVars(Replay(d)) /\ WF_positionVars(Drained(d))
        /\ WF_positionVars(page[d].pc = "open" /\ page[d].reload /\ LeaveBook(d))

\* The device comes online, or its reader starts the application, again and again.
Reconnects == \A d \in Devices : WF_positionVars(Online(d)) /\ WF_positionVars(Launch(d))

FairSpec      == PositionSpec /\ Runs
ReconnectSpec == PositionSpec /\ Runs /\ Reconnects

-----------------------------------------------------------------------------
(* Properties *)

\* What an earlier reading pass reported never counts in the current one: the
\* bookmark, to which everything shown is clamped, is within what pages of this
\* epoch reported, whatever was delayed, queued, merged, replayed or rebased.
OnlyItsPass == srv.mark <= label[srv.epoch]

\* Reading passes stay apart (update_position, reset_position): every number is in
\* its range, and no pass counts what another one reported.
PassesApart == TypeOK /\ OnlyItsPass

\* Device d still has the affirmation of epoch e in hand.
Held(d, e) ==
    \/ box[d] # None /\ box[d].epoch = e /\ box[d].far = Chapters
    \/ IsOpen(d) /\ page[d].finish = [pos |-> Chapters, epoch |-> e]
    \/ [pos |-> Chapters, epoch |-> e] \in UnderWay(d)

\* "Finish book" in a pass that goes on is counted or still held by the reporter,
\* a delivery or the outbox of the device, across failures, teardown, closed tabs
\* and other reports; excepted is a page that dropped its work to load again.
FinishKept ==
    \A d \in Devices :
        affirmed[d] = [epoch |-> srv.epoch] /\ d \notin excused
            => srv.mark = Chapters \/ Held(d, srv.epoch)

\* ... and once devices reconnect it is counted, unless the pass ends before or the
\* reader starts over.
FinishArrives ==
    \A d \in Devices : \A e \in Epochs :
        affirmed[d] = [epoch |-> e] /\ d \notin excused
            ~> srv.mark = Chapters \/ srv.epoch # e \/ affirmed[d] # [epoch |-> e] \/ d \in excused

\* The four statements below are what the repository's text says.  TLC refutes them,
\* and no run checks them: the README says how to see it, under Findings.

\* After a reset nothing read in an earlier pass advances the new one: "delayed
\* reports and old tabs fail with 409 instead of re-advancing the reset pass".
OnlyWhatWasRead == srv.mark <= read[srv.epoch]

\* An affirmation survives later relocations and network retries.
FinishSurvives ==
    \A d \in Devices :
        affirmed[d] = [epoch |-> srv.epoch] => srv.mark = Chapters \/ Held(d, srv.epoch)

\* A delivery that failed is tried again while the page stays open.
FailedReportsRetry ==
    \A d \in Devices : box[d] # None /\ IsOpen(d) ~> box[d] = None \/ flushes[d] # "idle" \/ ~IsOpen(d)

\* The replay of an older report never puts the cursor back behind a newer one of
\* the same client.
CursorKeepsOrder ==
    [][srv'.epoch = srv.epoch /\ srv'.by = srv.by /\ srv'.seq < srv.seq => srv'.cur >= srv.cur]_positionVars

=============================================================================
