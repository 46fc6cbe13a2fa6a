--------------------------- MODULE HostedAccounts ---------------------------
(* Sign-in of the hosted service (auth/api.py, auth/repository.py,          *)
(* auth/oidc.py) in front of the owner's provider settings: persons who     *)
(* share a browser sign in from two of its tabs at once, for the first time *)
(* or again, and an operator may suspend an account.                        *)
EXTENDS ProviderSettings

CONSTANTS
  Persons,
  Logins,        \* logins, each used once; also the session it creates and
                 \* the candidate user it may insert
  Owner,         \* the person whose provider settings are modelled
  Nobody

ASSUME OwnerIsAPerson == Owner \in Persons
ASSUME NobodyIsNoOne == Nobody \notin Persons \union Logins

VARIABLES
  login,         \* [pc, who, old, saw, user] of each login
  users,         \* rows of users
  identity,      \* by person: the user of the external identity, or Nobody
  active,        \* the persons whose account is not suspended
  session,       \* [state, user, next]; next: the login that replaced it
  cookie         \* the browser's session cookie: a login, or Nobody

account == <<login, users, identity, active, session, cookie>>

NotBegun  == [pc |-> "new", who |-> Nobody, old |-> Nobody, saw |-> Nobody, user |-> Nobody]
NoSession == [state |-> "none", user |-> Nobody, next |-> Nobody]

(* Nobody has signed in yet.                                                *)
Fresh ==
  /\ login = [l \in Logins |-> NotBegun]
  /\ users = {} /\ identity = [p \in Persons |-> Nobody] /\ active = Persons
  /\ session = [l \in Logins |-> NoSession] /\ cookie = Nobody

(* Each person in who has resolved the login of that person; the owner's is *)
(* done, and the browser's.                                                 *)
SignedInWith(l, who) ==
  /\ login = [k \in Logins |->
       IF k \in DOMAIN who
       THEN [NotBegun EXCEPT !.pc = IF k = l THEN "done" ELSE "resolved",
                             !.who = who[k], !.old = IF k = l THEN Nobody ELSE l, !.user = k]
       ELSE [NotBegun EXCEPT !.pc = "failed"]]
  /\ users = DOMAIN who
  /\ identity = [p \in Persons |-> IF \E k \in DOMAIN who : who[k] = p
                                   THEN CHOOSE k \in DOMAIN who : who[k] = p ELSE Nobody]
  /\ active = Persons
  /\ session = [k \in Logins |-> IF k = l THEN [NoSession EXCEPT !.state = "live", !.user = l] ELSE NoSession]
  /\ cookie = l

Goes(l, pc) == login' = [login EXCEPT ![l].pc = pc]

BeginLogin(l) ==
  /\ login[l].pc = "new" /\ Goes(l, "away")
  /\ UNCHANGED <<users, identity, active, session, cookie>>

(* The callback consumes the attempt, which is then gone or has expired,    *)
(* and the provider vouches for the person, or not.                         *)
Callback(l) ==
  /\ login[l].pc = "away"
  /\ \/ \E p \in Persons : login' = [login EXCEPT ![l].pc = "known", ![l].who = p, ![l].old = cookie]
     \/ Goes(l, "failed")
  /\ UNCHANGED <<users, identity, active, session, cookie>>

(* resolve_identity: a first login inserts a candidate user; if another     *)
(* login linked the identity meanwhile, that user is taken and the          *)
(* candidate deleted.                                                       *)
LooksUp(l) ==
  /\ login[l].pc = "known"
  /\ login' = [login EXCEPT ![l].pc = "looked", ![l].saw = identity[login[l].who]]
  /\ UNCHANGED <<users, identity, active, session, cookie>>

Linked_byCandidate(l) == IF login[l].saw = Nobody THEN l ELSE login[l].saw
Linked(l) == IF identity[login[l].who] = Nobody THEN l ELSE identity[login[l].who]

Resolves(l) ==
  /\ login[l].pc = "looked"
  /\ identity' = [identity EXCEPT ![login[l].who] = Linked(l)]
  /\ users' = users \union {Linked(l)}
  /\ login' = [login EXCEPT ![l].pc = "resolved", ![l].user = Linked(l)]
  /\ UNCHANGED <<active, session, cookie>>

(* create_session: the old session of this browser ends and the new one     *)
(* begins in one transaction, which a suspended account undoes.             *)
Ended(l) ==
  IF login[l].old # Nobody /\ session[login[l].old].state = "live"
  THEN [session EXCEPT ![login[l].old].state = "replaced", ![login[l].old].next = l]
  ELSE session

Suspended_keepsRevocation(l) == Ended(l)
Suspended(l) == session

CreatesSession(l) ==
  /\ login[l].pc = "resolved"
  /\ IF login[l].who \in active
     THEN /\ session' = [Ended(l) EXCEPT ![l] = [state |-> "live", user |-> login[l].user, next |-> Nobody]]
          /\ Goes(l, "answered")
     ELSE session' = Suspended(l) /\ Goes(l, "failed")
  /\ UNCHANGED <<users, identity, active, cookie>>

SetsCookie(l) ==
  /\ login[l].pc = "answered" /\ Goes(l, "done") /\ cookie' = l
  /\ UNCHANGED <<users, identity, active, session>>

(* authenticate_session: a session that is over is revoked when it is used. *)
Visitor ==
  IF cookie # Nobody /\ session[cookie].state = "live" /\ login[cookie].who \in active
  THEN login[cookie].who ELSE Nobody

Expires(l) ==
  /\ session[l].state = "live"
  /\ session' = [session EXCEPT ![l].state = "over"]
  /\ UNCHANGED <<login, users, identity, active, cookie>>

Logout ==
  /\ Visitor # Nobody
  /\ session' = [session EXCEPT ![cookie].state = "over"]
  /\ cookie' = Nobody
  /\ UNCHANGED <<login, users, identity, active>>

Suspend(p) ==
  /\ p \in active /\ active' = active \ {p}
  /\ UNCHANGED <<login, users, identity, session, cookie>>

SignIn ==
  \/ \E l \in Logins : \/ BeginLogin(l) \/ Callback(l) \/ LooksUp(l) \/ Resolves(l)
                       \/ CreatesSession(l) \/ SetsCookie(l) \/ Expires(l)
  \/ \E p \in Persons : Suspend(p)

-----------------------------------------------------------------------------
(* A person has one account, also when two tabs sign in for the first time  *)
(* at once: every session is of the user the identity names, and no other   *)
(* user is left behind (resolve_identity).                                  *)
OneAccount ==
  /\ users = {identity[p] : p \in Persons} \ {Nobody}
  /\ \A l \in Logins : session[l].state # "none" => session[l].user = identity[login[l].who]

(* A sign-in ends the browser's previous session only by giving it the next *)
(* one: a sign-in that fails signs nobody out.                              *)
FailedSignInKeepsSession ==
  \A l \in Logins : session[l].state = "replaced" => session[session[l].next].state # "none"
=============================================================================
