---------------------------- MODULE OfflineMarks ----------------------------
(* Highlights, notes and bookmarks of the hosted reader: made in the tabs   *)
(* of a browser that several persons share (pwa/offline.ts, api.ts), kept   *)
(* in its outbox while the service cannot be reached, and replayed to       *)
(* tenant/api.py and tenant/repository.py. It composes the sign-in, which   *)
(* decides whose outbox is active, and the owner's provider settings.       *)
EXTENDS HostedAccounts, Sequences, SequencesExt

CONSTANTS
  Tabs,
  MaxIntents,      \* bound on the marks made, changed and deleted
  MaxLoads,        \* bound on the pages loaded
  MaxFaults        \* bound on the answers lost

ASSUME IntentsAreBounded == MaxIntents \in Nat

VARIABLES
  tab,       \* by tab: [pc, user, saw, purged, call], a page and its direct call
  owner,     \* litlet.offline.owner
  saved,     \* the person of litlet.offline.session
  outbox,    \* by owner: intents that wait, in localStorage
  flush,     \* by tab: flushOfflineMutations
  marks,     \* rows of highlights, annotations and bookmarks
  loads, faults,
  intents,
  fate       \* history of each intent: new, queued, dealt or withdrawn

reading == <<tab, owner, saved, outbox, flush, marks, loads, faults, intents, fate>>
vars == <<tenant, events, account, reading>>

(* An intent names a row, or a mark that is not on the server yet by a      *)
(* negative number. `edit` identifies its content, `at` is its createdAt.   *)
NoIntent == [kind |-> "none", target |-> 0, book |-> Nobody, at |-> 0, edit |-> 0]
Key(i)   == <<i.kind, i.target>>
Blank    == [pc |-> "blank", user |-> Nobody, saw |-> Nobody, purged |-> Nobody, call |-> NoIntent]
Idle     == [owner |-> Nobody, token |-> Nobody, todo |-> <<>>, sent |-> NoIntent, result |-> "none"]

Owners == Persons \union {Nobody}

ReadingInit ==
  /\ tab = [t \in Tabs |-> Blank] /\ owner = Nobody /\ saved = Nobody
  /\ outbox = [o \in Owners |-> {}] /\ flush = [t \in Tabs |-> Idle] /\ marks = <<>>
  /\ loads = 0 /\ faults = 0 /\ fate = [e \in 1..MaxIntents |-> "new"]

(* A behaviour is about the first sign-ins; or about the settings of an     *)
(* owner who is signed in; or about the marks of the owner and of another   *)
(* person who is signing in. The other budgets are used up.                 *)
Init ==
  /\ TenantInit /\ ReadingInit
  /\ \/ Fresh /\ events = MaxEvents /\ intents = MaxIntents
     \/ /\ events = 0 /\ intents = MaxIntents
        /\ \E l \in Logins : SignedInWith(l, [k \in {l} |-> Owner])
     \/ /\ events = MaxEvents /\ intents = 0
        /\ \E l \in Logins, k \in Logins, p \in Persons \ {Owner} :
             k # l /\ SignedInWith(l, [m \in {l, k} |-> IF m = l THEN Owner ELSE p])

-----------------------------------------------------------------------------
(* What the service answers to an intent, sent with a CSRF token read when  *)
(* `token` was the session cookie: the token must be that of the session,   *)
(* the book the visitor's own, and the mark there; a new mark may also be   *)
(* refused for its anchor, beyond the frontier of the book.                 *)
Found(i) ==
  \/ i.kind = "create"
  \/ i.target \in DOMAIN marks /\ marks[i.target].book = i.book /\ marks[i.target].live

Answers(i, token) ==
  IF Visitor = Nobody \/ token # cookie THEN {"denied"}
  ELSE IF Visitor # i.book \/ ~Found(i) THEN {"refused"}
  ELSE IF i.kind = "create" THEN {"ok", "refused"} ELSE {"ok"}

Applied(i) ==
  CASE i.kind = "create" -> Append(marks, [book |-> i.book, edit |-> i.edit, live |-> TRUE])
    [] i.kind = "update" -> [marks EXCEPT ![i.target].edit = i.edit]
    [] i.kind = "delete" -> [marks EXCEPT ![i.target].live = FALSE]

(* The service takes intent i and answers; the answer may be lost, or the   *)
(* service not be reached.                                                  *)
Served(i, token, result) ==
  \/ /\ result \in Answers(i, token)
     /\ marks' = IF result = "ok" THEN Applied(i) ELSE marks
     /\ UNCHANGED faults
  \/ /\ result = "lost" /\ faults < MaxFaults /\ faults' = faults + 1
     /\ "ok" \in Answers(i, token) /\ marks' = Applied(i)
  \/ result = "lost" /\ UNCHANGED <<marks, faults>>

-----------------------------------------------------------------------------
(* Loading a page: the old one is gone with its call and its flush; the new *)
(* one asks who is signed in, gives the outbox to that person and removes   *)
(* what the previous owner left in the browser.                             *)

Load(t) ==
  /\ intents < MaxIntents /\ loads < MaxLoads /\ loads' = loads + 1
  /\ \E saw \in {Visitor, "offline"} : tab' = [tab EXCEPT ![t] = [Blank EXCEPT !.pc = "asked", !.saw = saw]]
  /\ flush' = [flush EXCEPT ![t] = Idle]
  /\ UNCHANGED <<account, owner, saved, outbox, marks, faults, intents, fate>>

(* purgeOfflineTenant: the outbox goes at once, the owner only after the    *)
(* caches are deleted.                                                      *)
Purges(t, next) ==
  /\ outbox' = [outbox EXCEPT ![owner] = {}]
  /\ fate' = [e \in DOMAIN fate |-> IF \E i \in outbox[owner] : i.edit = e THEN "withdrawn" ELSE fate[e]]
  /\ saved' = Nobody
  /\ tab' = [tab EXCEPT ![t] = [Blank EXCEPT !.pc = "purging", !.saw = next, !.purged = owner]]

Settle(t) ==
  /\ tab[t].pc = "asked"
  /\ LET saw == tab[t].saw IN
     \/ /\ saw \in Persons /\ saw = owner
        /\ saved' = saw /\ tab' = [tab EXCEPT ![t] = [Blank EXCEPT !.pc = "open", !.user = saw]]
        /\ UNCHANGED <<outbox, fate>>
     \/ saw \in Owners /\ ~(saw \in Persons /\ saw = owner) /\ Purges(t, saw)
     \/ /\ saw = "offline"
        /\ tab' = [tab EXCEPT ![t] = [Blank EXCEPT !.pc = "open", !.user = saved]]
        /\ UNCHANGED <<saved, outbox, fate>>
     \/ saw = "offline" /\ saved # Nobody /\ Purges(t, Nobody)   \* the saved session is over
  /\ UNCHANGED <<account, owner, flush, marks, loads, faults, intents>>

Purged(t) ==
  /\ tab[t].pc = "purging"
  /\ LET next == tab[t].saw IN
     /\ owner' = IF next # Nobody THEN next ELSE IF owner = tab[t].purged THEN Nobody ELSE owner
     /\ saved' = IF next # Nobody THEN next ELSE saved
     /\ tab' = [tab EXCEPT ![t] = [Blank EXCEPT !.pc = "open", !.user = next]]
  /\ UNCHANGED <<account, outbox, flush, marks, loads, faults, intents, fate>>

(* api.logout: the session is revoked if the service is reached; the tenant *)
(* is purged in any case.                                                   *)
LeaveTab(t) ==
  /\ tab[t].pc = "open" /\ tab[t].user # Nobody
  /\ (Logout \/ UNCHANGED account)
  /\ Purges(t, Nobody)
  /\ UNCHANGED <<owner, flush, marks, loads, faults, intents>>

-----------------------------------------------------------------------------
(* The reader's changes.                                                    *)

Intends(t, kind, target) ==
  /\ tab[t].pc = "open" /\ tab[t].user # Nobody /\ tab[t].call = NoIntent
  /\ intents < MaxIntents /\ intents' = intents + 1
  /\ tab' = [tab EXCEPT ![t].call = [kind |-> kind, target |-> target, book |-> tab[t].user,
                                     at |-> intents', edit |-> intents']]
  /\ UNCHANGED <<account, owner, saved, outbox, flush, marks, loads, faults, fate>>

(* The marks a reader sees are the rows of the book and what waits for it.  *)
Shown(t) ==
  {r \in DOMAIN marks : marks[r].book = tab[t].user /\ marks[r].live} \union
  {i.target : i \in {j \in outbox[owner] : j.kind = "create" /\ j.book = tab[t].user}}

Change(t) ==
  \/ Intends(t, "create", -(intents + 1))
  \/ \E m \in Shown(t), kind \in {"update", "delete"} : Intends(t, kind, m)

(* queueMarkCreate, queueMarkUpdate, queueMarkDelete: what the outbox keeps *)
(* of box when intent i joins it. A change of a mark that still waits to be *)
(* created is folded into its creation, its deletion withdraws it.          *)
Creation(box, i) == {c \in box : c.kind = "create" /\ c.target = i.target}

Joined(box, i) ==
  CASE i.kind = "create" -> box \union {i}
    [] i.kind = "update" /\ Creation(box, i) # {} ->
         (box \ Creation(box, i)) \union {[c EXCEPT !.edit = i.edit] : c \in Creation(box, i)}
    [] i.kind = "delete" /\ Creation(box, i) # {} -> box \ Creation(box, i)
    [] OTHER -> {c \in box : c.target # i.target \/ (i.kind = "update" /\ c.kind = "delete")} \union {i}

Fates(box, i) ==
  LET kept == {c.edit : c \in Joined(box, i)} IN
  [e \in DOMAIN fate |-> IF e \in {c.edit : c \in box \union {i}} \ kept THEN "withdrawn"
                         ELSE IF e = i.edit THEN "queued" ELSE fate[e]]

(* The direct call ends. Only when the service was not reached, or did not  *)
(* answer, the intent joins the outbox of whoever is the owner now.         *)
CallEnds(t) ==
  LET i == tab[t].call IN
  /\ i # NoIntent
  /\ \E result \in {"ok", "refused", "denied", "lost"} :
       /\ Served(i, cookie, result)
       /\ IF result = "lost"
          THEN /\ outbox' = [outbox EXCEPT ![owner] = Joined(@, i)]
               /\ fate' = Fates(outbox[owner], i)
          ELSE UNCHANGED <<outbox, fate>>
  /\ tab' = [tab EXCEPT ![t].call = NoIntent]
  /\ UNCHANGED <<account, owner, saved, flush, loads, intents>>

-----------------------------------------------------------------------------
(* flushOfflineMutations, one at a time in a tab.                           *)

Begin(t) ==
  /\ tab[t].pc = "open" /\ flush[t].todo = <<>> /\ outbox[owner] # {}
  /\ cookie # Nobody \/ owner = Nobody
  /\ flush' = [flush EXCEPT ![t] = [Idle EXCEPT !.owner = owner, !.token = cookie,
       !.todo = [n \in 1..Cardinality(outbox[owner]) |->
                   Key(SetToSortSeq(outbox[owner], LAMBDA i, j : i.at < j.at)[n])]]]
  /\ UNCHANGED <<account, tab, owner, saved, outbox, marks, loads, faults, intents, fate>>

Dealt(i, result, lands) ==
  IF result \in {"ok", "refused"} \/ lands THEN [fate EXCEPT ![i.edit] = "dealt"] ELSE fate

Send(t) ==
  /\ flush[t].todo # <<>> /\ flush[t].sent = NoIntent
  /\ IF owner # flush[t].owner
     THEN flush' = [flush EXCEPT ![t] = Idle] /\ UNCHANGED <<marks, faults, fate>>
     ELSE LET waiting == {i \in outbox[owner] : Key(i) = Head(flush[t].todo)} IN
          \/ waiting = {} /\ flush' = [flush EXCEPT ![t].todo = Tail(@)] /\ UNCHANGED <<marks, faults, fate>>
          \/ \E i \in waiting, result \in {"ok", "refused", "denied", "lost"} :
               /\ Served(i, flush[t].token, result)
               /\ flush' = [flush EXCEPT ![t].sent = i, ![t].result = result]
               /\ fate' = Dealt(i, result, marks' # marks)
  /\ UNCHANGED <<account, tab, owner, saved, outbox, loads, intents>>

(* removeMutation: what was answered leaves the outbox, unless the reader   *)
(* changed it while it was on its way.                                      *)
Removed_byName(box, i) == {c \in box : Key(c) # Key(i)}
Removed(box, i) == box \ {i}

Receive(t) ==
  LET f == flush[t] IN
  /\ f.sent # NoIntent
  /\ IF owner # f.owner \/ f.result \in {"denied", "lost"}
     THEN flush' = [flush EXCEPT ![t] = Idle] /\ UNCHANGED outbox
     ELSE /\ outbox' = [outbox EXCEPT ![owner] = Removed(@, f.sent)]
          /\ flush' = [flush EXCEPT ![t] =
               [@ EXCEPT !.sent = NoIntent, !.result = "none",
                         !.todo = IF \E c \in outbox'[owner] : Key(c) = Head(f.todo) THEN f.todo ELSE Tail(f.todo)]]
  /\ UNCHANGED <<account, tab, owner, saved, marks, loads, faults, intents, fate>>

Marking ==
  \E t \in Tabs : \/ Load(t) \/ Settle(t) \/ Purged(t) \/ LeaveTab(t)
                  \/ Change(t) \/ CallEnds(t) \/ Begin(t) \/ Send(t) \/ Receive(t)

-----------------------------------------------------------------------------
Next ==
  \/ (SignIn \/ Logout) /\ UNCHANGED <<tenant, events, reading>>
  \/ Visitor = Owner /\ Requests /\ UNCHANGED <<account, reading>>
  \/ Background /\ UNCHANGED <<account, reading>>
  \/ Marking /\ UNCHANGED <<tenant, events>>

Spec == Init /\ [][Next]_vars

(* No login and no credential is distinguished, so TLC may permute them.    *)
Alike == Permutations(Logins) \union Permutations(Credentials) \union Permutations(Tabs)

-----------------------------------------------------------------------------
(* A change that waits in the outbox is never forgotten: it stays until the *)
(* service has dealt with that very content, however a replay on its way    *)
(* crosses a further change of the mark, or until the reader replaces it or *)
(* signs out (queueMark*, removeMutation).                                  *)
EditsKept ==
  \A e \in DOMAIN fate : fate[e] = "queued" => \E o \in Owners : \E i \in outbox[o] : i.edit = e

(* The owner's secrets stay readable, a setting that says ready has passed  *)
(* its validation with the secret it names (provider settings), and a       *)
(* sign-in gives one account and one session, or changes nothing (auth).    *)
AccountsHold == ReadyIsProven /\ RotationKeepsAll /\ OneAccount /\ FailedSignInKeepsSession
=============================================================================
