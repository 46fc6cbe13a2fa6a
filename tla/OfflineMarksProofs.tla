-------------------------- MODULE OfflineMarksProofs --------------------------
(***************************************************************************)
(* Proofs about OfflineMarks for any number of credentials, jobs, persons, *)
(* logins and tabs, and about PositionSync for any number of devices and   *)
(* chapters. The provider settings, the sign-in, the outbox and the        *)
(* positions each have an inductive invariant over their own variables.    *)
(***************************************************************************)
EXTENDS OfflineMarks, PositionSync, SumTheorems, FiniteSetTheorems, TLAPS

-----------------------------------------------------------------------------
(* The provider settings *)

Selections    == {{}} \union {{c} : c \in Credentials}
Envelopes  == [state : {"none", "live", "deleted"}, secret : Nat, key : Nat]
SettingSet == [cred : Selections, enabled : BOOLEAN, status : {"unchecked", "offline", "ready", "invalid"},
               stamp : Nat, passed : Nat]
Checks     == [pc : {"idle", "read", "asking"}, cap : Capabilities, seen : SettingSet, secret : Nat]
Asks       == [pc : {"idle", "read", "resolved", "calling"}, seen : SettingSet, secret : Nat]
JobRows    == [state : {"none", "waiting", "pending", "running", "ended"}, cred : Selections, secret : Nat]
Rings      == {{1}, {1, 2}, {2}}

TenantTyped ==
    /\ cred \in [Credentials -> Envelopes] /\ secrets \in Nat
    /\ setting \in [Capabilities -> SettingSet]
    /\ check \in Checks /\ ask \in Asks
    /\ upload \in [busy : BOOLEAN, cred : Selections]
    /\ job \in [Jobs -> JobRows]
    /\ ring \in Rings

\* The secret n is the one stored for whatever setting s selects.
Proven(s, n) == \A c \in s.cred : cred[c].state = "live" /\ cred[c].secret = n

\* What was read of a setting is what it still is, unless its stamp has moved on.
StillSeen(p, seen) ==
    /\ seen.stamp <= setting[p].stamp
    /\ seen.stamp = setting[p].stamp => seen = setting[p]

\* A validation under way tries the secret that is stored, unless the setting moved on.
CheckSees ==
    check.pc # "idle" =>
        /\ StillSeen(check.cap, check.seen)
        /\ check.pc = "asking" /\ check.secret # 0 /\ check.seen.stamp = setting[check.cap].stamp =>
             Proven(check.seen, check.secret)

\* So does a question that has opened its secret.
AskSees ==
    ask.pc # "idle" =>
        /\ StillSeen("synthesis", ask.seen)
        /\ ask.pc # "read" =>
             /\ ask.seen.cred # {}
             /\ ask.seen.stamp = setting["synthesis"].stamp => Proven(ask.seen, ask.secret)

SettingsInv == TenantTyped /\ ReadyIsProven /\ RotationKeepsAll /\ CheckSees /\ AskSees

-----------------------------------------------------------------------------
(* The sign-in *)

Users      == Logins \union {Nobody}
LoginSet   == [pc : {"new", "away", "known", "looked", "resolved", "answered", "done", "failed"},
               who : Owners, old : Users, saw : Users, user : Users]
SessionSet == [state : {"none", "live", "over", "replaced"}, user : Users, next : Users]

AccountTyped ==
    /\ login \in [Logins -> LoginSet] /\ users \subseteq Logins
    /\ identity \in [Persons -> Users] /\ active \subseteq Persons
    /\ session \in [Logins -> SessionSet] /\ cookie \in Users

\* A login that has resolved its person has the one user of that person.
LoginsInv ==
    \A l \in Logins :
        /\ login[l].pc \in {"known", "looked", "resolved", "answered", "done"} => login[l].who \in Persons
        /\ login[l].pc \in {"resolved", "answered", "done"} =>
             login[l].user = identity[login[l].who] /\ login[l].user # Nobody
        /\ session[l].state # "none" => login[l].pc \in {"answered", "done"}
        /\ session[l].state = "replaced" => session[l].next \in Logins

AccountsInv == AccountTyped /\ LoginsInv /\ OneAccount /\ FailedSignInKeepsSession

-----------------------------------------------------------------------------
(* The outbox *)

OutboxTyped ==
    /\ owner \in Owners /\ intents \in 0..MaxIntents
    /\ DOMAIN fate = 1..MaxIntents /\ DOMAIN outbox = Owners
    /\ DOMAIN tab = Tabs /\ DOMAIN flush = Tabs
    /\ \A t \in Tabs : /\ "call" \in DOMAIN tab[t]
                       /\ {"todo", "sent", "result"} \subseteq DOMAIN flush[t]
                       /\ tab[t].pc = "purging" => tab[t].saw \in Owners

\* An intent that waits has a history, and one that is on its direct call has none yet.
WaitingInv ==
    /\ \A e \in 1..MaxIntents : e > intents => fate[e] = "new"
    /\ \A o \in Owners : \A i \in outbox[o] :
         "edit" \in DOMAIN i /\ i.edit \in 1..MaxIntents /\ fate[i.edit] # "new"

CallsInv ==
    /\ \A t \in Tabs : tab[t].call # NoIntent =>
         tab[t].call.edit \in 1..intents /\ fate[tab[t].call.edit] = "new" /\ "edit" \in DOMAIN tab[t].call
    /\ \A t, u \in Tabs : t # u /\ tab[t].call # NoIntent /\ tab[u].call # NoIntent =>
         tab[t].call.edit # tab[u].call.edit

\* What was answered, and has not left the outbox yet, was dealt with.
SentInv ==
    \A t \in Tabs : flush[t].sent # NoIntent /\ flush[t].result \notin {"denied", "lost"} =>
        /\ flush[t].sent.edit \in 1..MaxIntents
        /\ fate[flush[t].sent.edit] \notin {"new", "queued"}

OutboxInv == OutboxTyped /\ WaitingInv /\ CallsInv /\ SentInv /\ EditsKept

IInv == SettingsInv /\ AccountsInv /\ OutboxInv


-----------------------------------------------------------------------------
(* Lemmas about the operators of ProviderSettings *)

\* The active key is the newest of the ring.
LEMMA ActiveIsNewest ==
    ASSUME ring \in Rings
    PROVE  Active \in ring /\ Active \in Nat /\ (ring = {1, 2} => Active = 2)
<1>1. CASE ring = {1}
  BY <1>1 DEF Active
<1>2. CASE ring = {2}
  BY <1>2 DEF Active
<1>3. CASE ring = {1, 2}
  <2>1. 2 \in ring /\ \A l \in ring : l <= 2
    BY <1>3
  <2>2. Active \in ring /\ \A l \in ring : l <= Active
    BY <2>1 DEF Active
  <2> QED
    BY <1>3, <2>2
<1> QED
  BY <1>1, <1>2, <1>3 DEF Rings

\* A secret that was opened is the one stored.
LEMMA OpenedIsStored ==
    ASSUME TenantTyped, NEW cs \in Selections
    PROVE  /\ SecretOf(cs) \in Nat
           /\ SecretOf(cs) # 0 =>
                cs # {} /\ \A c \in cs : cred[c].state = "live" /\ cred[c].secret = SecretOf(cs)
<1>1. CASE cs = {}
  BY <1>1 DEF SecretOf
<1>2. ASSUME NEW c \in Credentials, cs = {c}
      PROVE  /\ SecretOf(cs) \in Nat
             /\ SecretOf(cs) # 0 => cred[c].state = "live" /\ cred[c].secret = SecretOf(cs)
  <2>1. (CHOOSE d \in cs : TRUE) = c
    BY <1>2
  <2>2. SecretOf(cs) = Opened(c)
    BY <1>2, <2>1 DEF SecretOf
  <2>3. cred[c] \in Envelopes
    BY DEF TenantTyped
  <2> QED
    BY <2>2, <2>3 DEF Opened, Envelopes
<1> QED
  BY <1>1, <1>2 DEF Selections

\* How a step may change one setting: its stamp moves on, or neither the setting
\* nor the secret it selects changes.
Moves(p) ==
    \/ setting'[p].stamp > setting[p].stamp
    \/ /\ setting'[p] = setting[p]
       /\ \A c \in setting[p].cred : cred[c].state = "live" =>
            cred'[c].state = "live" /\ cred'[c].secret = cred[c].secret

\* What was read of a setting stays true of it, or its stamp moves on.
LEMMA StillSeenKeeps ==
    ASSUME TenantTyped, TenantTyped', NEW p \in Capabilities, Moves(p),
           NEW seen \in SettingSet, StillSeen(p, seen)
    PROVE  /\ StillSeen(p, seen)'
           /\ seen.stamp = setting'[p].stamp => seen.stamp = setting[p].stamp
           /\ \A n \in Nat : seen.stamp = setting'[p].stamp /\ Proven(seen, n) => Proven(seen, n)'
<1>1. setting[p] \in SettingSet /\ setting'[p] \in SettingSet
  BY DEF TenantTyped
<1>2. setting[p].stamp \in Nat /\ setting'[p].stamp \in Nat /\ seen.stamp \in Nat
  BY <1>1 DEF SettingSet
<1>3. seen.stamp <= setting[p].stamp
  BY DEF StillSeen
<1>4. CASE setting'[p].stamp > setting[p].stamp
  BY <1>2, <1>3, <1>4 DEF StillSeen
<1>5. CASE /\ setting'[p] = setting[p]
           /\ \A c \in setting[p].cred : cred[c].state = "live" =>
                cred'[c].state = "live" /\ cred'[c].secret = cred[c].secret
  <2>1. StillSeen(p, seen)'
    BY <1>5 DEF StillSeen
  <2>2. ASSUME NEW n \in Nat, seen.stamp = setting'[p].stamp, Proven(seen, n) PROVE Proven(seen, n)'
    <3>1. seen = setting[p]
      BY <1>5, <2>2 DEF StillSeen
    <3> QED
      BY <1>5, <2>2, <3>1 DEF Proven
  <2> QED
    BY <1>5, <2>1, <2>2
<1> QED
  BY <1>4, <1>5 DEF Moves

\* A validation that goes on sees what it saw.
LEMMA CheckSeesKeeps ==
    ASSUME TenantTyped, TenantTyped', \A p \in Capabilities : Moves(p), CheckSees, check' = check
    PROVE  CheckSees'
<1> SUFFICES ASSUME check.pc # "idle"
             PROVE  /\ StillSeen(check.cap, check.seen)'
                    /\ check.pc = "asking" /\ check.secret # 0 /\ check.seen.stamp = setting'[check.cap].stamp =>
                         Proven(check.seen, check.secret)'
  BY DEF CheckSees, StillSeen, Proven
<1>1. check.cap \in Capabilities /\ check.seen \in SettingSet /\ check.secret \in Nat
  BY DEF TenantTyped, Checks
<1>2. StillSeen(check.cap, check.seen)
  BY DEF CheckSees
<1>3. Moves(check.cap)
  BY <1>1
<1>4. /\ StillSeen(check.cap, check.seen)'
      /\ check.seen.stamp = setting'[check.cap].stamp => check.seen.stamp = setting[check.cap].stamp
      /\ \A n \in Nat : check.seen.stamp = setting'[check.cap].stamp /\ Proven(check.seen, n) => Proven(check.seen, n)'
  <2> DEFINE s == check.seen
             p == check.cap
  <2>1. s \in SettingSet /\ p \in Capabilities /\ StillSeen(p, s) /\ Moves(p)
    BY <1>1, <1>2, <1>3
  <2>2. s' = s /\ p' = p
    OBVIOUS
  <2> QED
    BY <2>1, <2>2, StillSeenKeeps DEF StillSeen, Proven
<1> QED
  BY <1>1, <1>4 DEF CheckSees


\* So does a question.
LEMMA AskSeesKeeps ==
    ASSUME TenantTyped, TenantTyped', \A p \in Capabilities : Moves(p), AskSees, ask' = ask
    PROVE  AskSees'
<1> SUFFICES ASSUME ask.pc # "idle"
             PROVE  /\ StillSeen("synthesis", ask.seen)'
                    /\ ask.pc # "read" =>
                         /\ ask.seen.cred # {}
                         /\ ask.seen.stamp = setting'["synthesis"].stamp => Proven(ask.seen, ask.secret)'
  BY DEF AskSees, StillSeen, Proven
<1>1. "synthesis" \in Capabilities /\ ask.seen \in SettingSet /\ ask.secret \in Nat
  BY DEF TenantTyped, Asks, Capabilities
<1>2. StillSeen("synthesis", ask.seen)
  BY DEF AskSees
<1>3. Moves("synthesis")
  BY <1>1
<1>4. /\ StillSeen("synthesis", ask.seen)'
      /\ ask.seen.stamp = setting'["synthesis"].stamp => ask.seen.stamp = setting["synthesis"].stamp
      /\ \A n \in Nat : ask.seen.stamp = setting'["synthesis"].stamp /\ Proven(ask.seen, n) => Proven(ask.seen, n)'
  <2> DEFINE s == ask.seen
  <2>1. s \in SettingSet /\ StillSeen("synthesis", s)
    BY <1>1, <1>2
  <2>2. s' = s
    OBVIOUS
  <2> QED
    BY <1>1, <1>3, <2>1, <2>2, StillSeenKeeps DEF StillSeen, Proven
<1> QED
  BY <1>1, <1>4 DEF AskSees

-----------------------------------------------------------------------------
(* The steps of ProviderSettings *)

\* Where no setting changes and no live credential is lost, ready settings stay proven.
LEMMA QuietKeeps ==
    ASSUME SettingsInv, TenantTyped', setting' = setting, RotationKeepsAll',
           \A c \in Credentials : cred[c].state = "live" =>
             cred'[c].state = "live" /\ cred'[c].secret = cred[c].secret
    PROVE  ReadyIsProven' /\ \A p \in Capabilities : Moves(p)
<1> USE DEF SettingsInv
<1>1. \A p \in Capabilities : setting[p].cred \subseteq Credentials
  BY DEF TenantTyped, SettingSet, Selections
<1>2. \A p \in Capabilities : Moves(p)
  BY <1>1 DEF Moves
<1>3. ReadyIsProven'
  BY <1>1 DEF ReadyIsProven
<1> QED
  BY <1>2, <1>3

\* A credential that is new, or replaced.
LEMMA WrappedIsEnvelope ==
    ASSUME TenantTyped, NEW n \in Nat
    PROVE  Wrapped(n) \in Envelopes /\ Wrapped(n).key \in ring /\ Wrapped(n).state = "live" /\ Wrapped(n).secret = n
BY ActiveIsNewest DEF TenantTyped, Wrapped, Envelopes

\* The effect of a change of credential c on the settings and the jobs.
LEMMA UnsettledMoves ==
    ASSUME SettingsInv, NEW c \in Credentials, NEW enabled \in BOOLEAN, setting' = Unsettled(c, enabled),
           TenantTyped', \A d \in Credentials \ {c} : cred'[d] = cred[d]
    PROVE  ReadyIsProven' /\ \A p \in Capabilities : Moves(p)
<1> USE DEF SettingsInv
<1> SUFFICES ASSUME NEW p \in Capabilities
             PROVE  /\ Moves(p)
                    /\ setting'[p].status = "ready" =>
                         /\ setting'[p].passed # 0
                         /\ \A d \in setting'[p].cred : cred'[d].state = "live" /\ cred'[d].secret = setting'[p].passed
  BY DEF ReadyIsProven
<1>1. setting[p] \in SettingSet
  BY DEF TenantTyped
<1>2. CASE setting[p].cred = {c}
  <2>1. setting'[p] = [setting[p] EXCEPT !.status = "unchecked", !.passed = 0, !.stamp = @ + 1,
                                         !.enabled = @ /\ enabled]
    BY <1>2 DEF Unsettled
  <2>2. setting'[p].status = "unchecked" /\ setting'[p].stamp = setting[p].stamp + 1 /\ setting[p].stamp \in Nat
    BY <1>1, <2>1 DEF SettingSet
  <2> QED
    BY <2>2 DEF Moves
<1>3. CASE setting[p].cred # {c}
  <2>1. setting'[p] = setting[p]
    BY <1>3 DEF Unsettled
  <2>2. \A d \in setting[p].cred : d \in Credentials \ {c}
    BY <1>1, <1>3 DEF SettingSet, Selections
  <2> QED
    BY <2>1, <2>2 DEF Moves, ReadyIsProven
<1> QED
  BY <1>2, <1>3

\* A setting that is reset stays well typed.
LEMMA UnsettledTyped ==
    ASSUME TenantTyped, NEW c \in Credentials, NEW enabled \in BOOLEAN
    PROVE  Unsettled(c, enabled) \in [Capabilities -> SettingSet]
<1> SUFFICES ASSUME NEW p \in Capabilities PROVE Unsettled(c, enabled)[p] \in SettingSet
  BY DEF Unsettled
<1>1. setting[p] \in SettingSet
  BY DEF TenantTyped
<1> DEFINE stamp == setting[p].stamp + 1
           on    == setting[p].enabled /\ enabled
<1>3. stamp \in Nat /\ on \in BOOLEAN
  BY <1>1 DEF SettingSet
<1>2. [setting[p] EXCEPT !.status = "unchecked", !.passed = 0, !.stamp = stamp, !.enabled = on] \in SettingSet
  <2> HIDE DEF stamp, on
  <2> QED
    BY <1>1, <1>3 DEF SettingSet
<1> QED
  BY <1>1, <1>2 DEF Unsettled

\* Jobs whose configuration goes are jobs as before, with the secret they had.
LEMMA JobsWaitKeep ==
    ASSUME TenantTyped, NEW jobs
    PROVE  /\ JobsWait(jobs) \in [Jobs -> JobRows]
           /\ \A j \in Jobs : JobsWait(jobs)[j].secret = job[j].secret
<1> SUFFICES ASSUME NEW j \in Jobs
             PROVE JobsWait(jobs)[j] \in JobRows /\ JobsWait(jobs)[j].secret = job[j].secret
  BY DEF JobsWait
<1>1. job[j] \in JobRows
  BY DEF TenantTyped
<1>2. Waiting(j) \in JobRows /\ Waiting(j).secret = job[j].secret
  BY <1>1 DEF Waiting, JobRows, Selections
<1> QED
  BY <1>1, <1>2 DEF JobsWait

\* Jobs whose configuration is ready wait no more, with the secret they had.
LEMMA JobsReleasedKeep ==
    ASSUME TenantTyped, NEW cs \in Selections
    PROVE  /\ JobsReleased(cs) \in [Jobs -> JobRows]
           /\ \A j \in Jobs : JobsReleased(cs)[j].secret = job[j].secret
<1> SUFFICES ASSUME NEW j \in Jobs
             PROVE JobsReleased(cs)[j] \in JobRows /\ JobsReleased(cs)[j].secret = job[j].secret
  BY DEF JobsReleased
<1>1. job[j] \in JobRows
  BY DEF TenantTyped
<1>2. [job[j] EXCEPT !.state = "pending", !.cred = cs] \in JobRows
  BY <1>1 DEF JobRows
<1> QED
  BY <1>1, <1>2 DEF JobsReleased, JobRows


\* What CallsAreProven says of a step.
CallStep ==
    /\ \A j \in Jobs : job[j].secret = 0 /\ job'[j].secret # 0 =>
         Ready("extraction") /\ job'[j].secret = setting["extraction"].passed
    /\ ask.pc # "calling" /\ ask'.pc = "calling" =>
         Ready("synthesis") /\ ask.secret = setting["synthesis"].passed

\* No job opens a secret and no question goes to the provider.
NoCall == (\A j \in Jobs : job'[j].secret \in {0, job[j].secret}) /\ ask'.pc \in {"idle", ask.pc}

\* A step that starts no call calls with nothing unproven.
LEMMA NoCallIsProven ==
    ASSUME NoCall PROVE CallStep
BY DEF NoCall, CallStep

\* What a step owes when its validation and question go on, or are over.
LEMMA StepSettles ==
    ASSUME SettingsInv, TenantTyped', ReadyIsProven', RotationKeepsAll', \A p \in Capabilities : Moves(p),
           check' = check \/ check'.pc = "idle", ask' = ask \/ ask'.pc = "idle"
    PROVE  SettingsInv'
<1>1. CheckSees'
  <2>1. CASE check' = check
    BY <2>1, CheckSeesKeeps DEF SettingsInv
  <2>2. CASE check'.pc = "idle"
    BY <2>2 DEF CheckSees
  <2> QED
    BY <2>1, <2>2
<1>2. AskSees'
  <2>1. CASE ask' = ask
    BY <2>1, AskSeesKeeps DEF SettingsInv
  <2>2. CASE ask'.pc = "idle"
    BY <2>2 DEF AskSees
  <2> QED
    BY <2>1, <2>2
<1> QED
  BY <1>1, <1>2 DEF SettingsInv

\* A step that leaves the credentials and the settings alone.
LEMMA CalmKeeps ==
    ASSUME SettingsInv, TenantTyped', setting' = setting, cred' = cred, ring' = ring
    PROVE  ReadyIsProven' /\ RotationKeepsAll' /\ \A p \in Capabilities : Moves(p)
<1>1. RotationKeepsAll'
  BY DEF SettingsInv, RotationKeepsAll
<1> QED
  BY <1>1, QuietKeeps

\* A credential is stored, or replaced: the new envelope is under the active key.
LEMMA CreateKeeps ==
    ASSUME SettingsInv, NEW c \in Credentials, CreateCredential(c)
    PROVE  SettingsInv' /\ CallStep
<1> USE DEF SettingsInv
<1> DEFINE e == Wrapped(secrets')
<1>1. secrets' \in Nat /\ cred' = [cred EXCEPT ![c] = e] /\ cred[c].state = "none"
  BY DEF CreateCredential, TenantTyped
<1>2. UNCHANGED <<setting, check, upload, job, ask, ring>>
  BY DEF CreateCredential
<1>3. e \in Envelopes /\ e.key \in ring /\ e.state = "live"
  BY <1>1, WrappedIsEnvelope
<1> HIDE DEF e
<1>4. TenantTyped'
  BY <1>1, <1>2, <1>3 DEF TenantTyped
<1>5. RotationKeepsAll'
  BY <1>1, <1>2, <1>3 DEF RotationKeepsAll, TenantTyped
<1>6. ReadyIsProven' /\ \A p \in Capabilities : Moves(p)
  BY <1>1, <1>2, <1>4, <1>5, QuietKeeps DEF TenantTyped
<1> QED
  BY <1>2, <1>4, <1>5, <1>6, StepSettles, NoCallIsProven DEF NoCall

\* A replaced secret unsettles the settings that name it.
LEMMA ReplaceKeeps ==
    ASSUME SettingsInv, NEW c \in Credentials, ReplaceCredential(c)
    PROVE  SettingsInv' /\ CallStep
<1> USE DEF SettingsInv
<1> DEFINE e == Wrapped(secrets')
           jobs == {j \in Jobs : job[j].cred = {c}}
<1>1. secrets' \in Nat /\ cred' = [cred EXCEPT ![c] = e] /\ setting' = Unsettled(c, TRUE) /\ job' = JobsWait(jobs)
  BY DEF ReplaceCredential, TenantTyped
<1>2. UNCHANGED <<check, upload, ask, ring>>
  BY DEF ReplaceCredential
<1>3. e \in Envelopes /\ e.key \in ring
  BY <1>1, WrappedIsEnvelope
<1>4. /\ Unsettled(c, TRUE) \in [Capabilities -> SettingSet]
      /\ JobsWait(jobs) \in [Jobs -> JobRows] /\ \A j \in Jobs : JobsWait(jobs)[j].secret = job[j].secret
  BY UnsettledTyped, JobsWaitKeep
<1> HIDE DEF e, jobs
<1>5. TenantTyped'
  BY <1>1, <1>2, <1>3, <1>4 DEF TenantTyped
<1>6. RotationKeepsAll'
  BY <1>1, <1>2, <1>3 DEF RotationKeepsAll, TenantTyped
<1>7. ReadyIsProven' /\ \A p \in Capabilities : Moves(p)
  <2>1. \A d \in Credentials \ {c} : cred'[d] = cred[d]
    BY <1>1
  <2> QED
    BY <1>1, <1>5, <2>1, UnsettledMoves
<1> QED
  BY <1>1, <1>2, <1>4, <1>5, <1>6, <1>7, StepSettles, NoCallIsProven DEF NoCall

\* A deleted credential unsettles the settings that name it.
LEMMA DeleteKeeps ==
    ASSUME SettingsInv, NEW c \in Credentials, DeleteCredential(c)
    PROVE  SettingsInv' /\ CallStep
<1> USE DEF SettingsInv
<1> DEFINE e == [NoCred EXCEPT !.state = "deleted"]
           jobs == {j \in Jobs : job[j].cred = {c}}
<1>1. cred' = [cred EXCEPT ![c] = e] /\ setting' = Unsettled(c, FALSE) /\ job' = JobsWait(jobs)
  BY DEF DeleteCredential
<1>2. UNCHANGED <<secrets, check, upload, ask, ring>>
  BY DEF DeleteCredential
<1>3. e \in Envelopes /\ e.state = "deleted"
  BY DEF Envelopes, NoCred
<1>4. /\ Unsettled(c, FALSE) \in [Capabilities -> SettingSet]
      /\ JobsWait(jobs) \in [Jobs -> JobRows] /\ \A j \in Jobs : JobsWait(jobs)[j].secret = job[j].secret
  BY UnsettledTyped, JobsWaitKeep
<1> HIDE DEF e, jobs
<1>5. TenantTyped'
  BY <1>1, <1>2, <1>3, <1>4 DEF TenantTyped
<1>6. RotationKeepsAll'
  BY <1>1, <1>2, <1>3 DEF RotationKeepsAll, TenantTyped
<1>7. ReadyIsProven' /\ \A p \in Capabilities : Moves(p)
  <2>1. \A d \in Credentials \ {c} : cred'[d] = cred[d]
    BY <1>1
  <2> QED
    BY <1>1, <1>5, <2>1, UnsettledMoves
<1> QED
  BY <1>1, <1>2, <1>4, <1>5, <1>6, <1>7, StepSettles, NoCallIsProven DEF NoCall

\* A setting that is put is unsettled, and its stamp moves on.
LEMMA PutKeeps ==
    ASSUME SettingsInv, NEW p \in Capabilities, NEW cs \in Selections, PutSetting(p, cs)
    PROVE  SettingsInv' /\ CallStep
<1> USE DEF SettingsInv
<1> DEFINE stamp  == setting[p].stamp + 1
           status == IF cs = {} THEN "offline" ELSE "unchecked"
           s == [cred |-> cs, enabled |-> TRUE, stamp |-> stamp, passed |-> 0, status |-> status]
<1>1. setting' = [setting EXCEPT ![p] = s]
  BY DEF PutSetting
<1>2. UNCHANGED <<cred, secrets, check, upload, ask, ring>>
  BY DEF PutSetting
<1>3. setting[p].stamp \in Nat /\ setting[p] \in SettingSet
  BY DEF TenantTyped, SettingSet
<1>4. s \in SettingSet /\ s.stamp > setting[p].stamp /\ s.status # "ready"
  BY <1>3 DEF SettingSet
<1>5. job' \in [Jobs -> JobRows] /\ \A j \in Jobs : job'[j].secret = job[j].secret
  <2>1. job' = JobsWait(Jobs) \/ job' = job
    BY DEF PutSetting
  <2> QED
    BY <2>1, JobsWaitKeep DEF TenantTyped
<1> HIDE DEF s
<1>6. TenantTyped'
  BY <1>1, <1>2, <1>4, <1>5 DEF TenantTyped
<1>7. RotationKeepsAll'
  BY <1>2 DEF RotationKeepsAll
<1>8. setting'[p] = s /\ \A q \in Capabilities \ {p} : setting'[q] = setting[q]
  BY <1>1 DEF TenantTyped
<1>9. ReadyIsProven' /\ \A q \in Capabilities : Moves(q)
  BY <1>2, <1>4, <1>8 DEF ReadyIsProven, Moves
<1> QED
  BY <1>2, <1>5, <1>6, <1>7, <1>9, StepSettles, NoCallIsProven DEF NoCall


\* A validation reads the secret it is about to try.
LEMMA CheckReadsKeeps ==
    ASSUME SettingsInv, NEW p \in Capabilities, CheckReads(p)
    PROVE  SettingsInv' /\ CallStep
<1> USE DEF SettingsInv
<1> DEFINE k == [pc |-> "read", cap |-> p, seen |-> setting[p], secret |-> 0]
<1>1. check' = k /\ UNCHANGED <<cred, secrets, setting, upload, job, ask, ring>>
  BY DEF CheckReads
<1>2. setting[p] \in SettingSet /\ setting[p].stamp \in Nat
  BY DEF TenantTyped, SettingSet
<1>3. k \in Checks /\ k.pc = "read" /\ k.cap = p /\ k.seen = setting[p]
  BY <1>2 DEF Checks
<1> HIDE DEF k
<1>4. TenantTyped'
  BY <1>1, <1>3 DEF TenantTyped
<1>5. ReadyIsProven' /\ RotationKeepsAll' /\ \A q \in Capabilities : Moves(q)
  BY <1>1, <1>4, CalmKeeps
<1>6. CheckSees'
  BY <1>1, <1>2, <1>3 DEF CheckSees, StillSeen
<1>7. AskSees'
  BY <1>1, <1>4, <1>5, AskSeesKeeps
<1> QED
  BY <1>1, <1>4, <1>5, <1>6, <1>7, NoCallIsProven DEF NoCall

\* A validation opens the envelope of the secret it read, or gives up.
LEMMA CheckResolvesKeeps ==
    ASSUME SettingsInv, CheckResolves
    PROVE  SettingsInv' /\ CallStep
<1> USE DEF SettingsInv
<1> DEFINE n == SecretOf(check.seen.cred)
           k == [check EXCEPT !.pc = "asking", !.secret = n]
<1>1. check' = k /\ UNCHANGED <<cred, secrets, setting, upload, job, ask, ring>> /\ check.pc = "read"
  BY DEF CheckResolves
<1>2. check \in Checks /\ check.seen.cred \in Selections
  BY DEF TenantTyped, Checks, SettingSet
<1>3. n \in Nat /\ (n # 0 => Proven(check.seen, n))
  BY <1>2, OpenedIsStored DEF Proven
<1>4. k \in Checks /\ k.pc = "asking" /\ k.cap = check.cap /\ k.seen = check.seen /\ k.secret = n
  <2> HIDE DEF n
  <2> QED
    BY <1>2, <1>3 DEF Checks
<1> HIDE DEF k, n
<1>5. TenantTyped'
  BY <1>1, <1>4 DEF TenantTyped
<1>6. ReadyIsProven' /\ RotationKeepsAll' /\ \A q \in Capabilities : Moves(q)
  BY <1>1, <1>5, CalmKeeps
<1>7. CheckSees'
  BY <1>1, <1>3, <1>4 DEF CheckSees, StillSeen, Proven
<1>8. AskSees'
  BY <1>1, <1>5, <1>6, AskSeesKeeps
<1> QED
  BY <1>1, <1>5, <1>6, <1>7, <1>8, NoCallIsProven DEF NoCall

\* The answer of the provider is recorded only for the setting that was read, and its
\* secret is then the one that was tried.
LEMMA CheckRecordsKeeps ==
    ASSUME SettingsInv, NEW accepted \in BOOLEAN, CheckRecords(accepted)
    PROVE  SettingsInv' /\ CallStep
<1> USE DEF SettingsInv
<1> DEFINE p == check.cap
<1>1. check.pc = "asking" /\ (accepted => check.secret # 0)
  BY DEF CheckRecords
<1>2. check' = NoCheck /\ UNCHANGED <<cred, secrets, upload, ask, ring>>
  BY DEF CheckRecords
<1>3. p \in Capabilities /\ check.secret \in Nat /\ setting[p] \in SettingSet /\ setting[p].stamp \in Nat
  BY DEF TenantTyped, Checks, SettingSet
<1>4. NoCheck \in Checks /\ NoCheck.pc = "idle"
  BY DEF NoCheck, Checks, Unset, SettingSet, Selections, Capabilities
<1>5. RotationKeepsAll'
  BY <1>2 DEF RotationKeepsAll
<1>6. CASE SameSetting(p, check.seen)
  <2> DEFINE status == IF accepted THEN "ready" ELSE "invalid"
             passed == IF accepted THEN check.secret ELSE 0
             stamp  == setting[p].stamp + 1
             s      == [setting[p] EXCEPT !.status = status, !.passed = passed, !.stamp = stamp]
  <2>1. setting' = [setting EXCEPT ![p] = s]
    <3>1. setting' = [setting EXCEPT ![p].status = status, ![p].passed = passed, ![p].stamp = @ + 1]
      BY <1>6 DEF CheckRecords
    <3> QED
      BY <1>3, <3>1 DEF TenantTyped, SettingSet
  <2>2. job' = IF accepted /\ p = "extraction" THEN JobsReleased(setting[p].cred) ELSE job
    BY <1>6 DEF CheckRecords
  <2>3. status \in {"ready", "invalid"} /\ passed \in Nat /\ stamp \in Nat /\ stamp > setting[p].stamp
    BY <1>3
  <2>4. s \in SettingSet /\ s.stamp > setting[p].stamp /\ s.cred = setting[p].cred
        /\ s.status = status /\ s.passed = passed
    <3> HIDE DEF status, passed, stamp, p
    <3> QED
      BY <1>3, <2>3 DEF SettingSet
  <2>5. s.status = "ready" => s.passed # 0 /\ Proven(s, s.passed)
    <3>1. StillSeen(p, check.seen) /\ check.seen.stamp = setting[p].stamp
      BY <1>1, <1>6 DEF CheckSees, SameSetting
    <3>2. accepted => Proven(check.seen, check.secret) /\ check.seen = setting[p]
      BY <1>1, <3>1 DEF CheckSees, StillSeen
    <3> QED
      BY <1>1, <2>4, <3>2 DEF Proven
  <2>6. job' \in [Jobs -> JobRows] /\ \A j \in Jobs : job'[j].secret = job[j].secret
    <3>1. setting[p].cred \in Selections
      BY <1>3 DEF SettingSet
    <3> QED
      BY <2>2, <3>1, JobsReleasedKeep DEF TenantTyped
  <2> HIDE DEF s, p
  <2>7. TenantTyped'
    BY <1>2, <1>4, <2>1, <2>4, <2>6 DEF TenantTyped
  <2>8. setting'[p] = s /\ \A q \in Capabilities \ {p} : setting'[q] = setting[q]
    BY <1>3, <2>1 DEF TenantTyped
  <2>9. ReadyIsProven' /\ \A q \in Capabilities : Moves(q)
    BY <1>2, <2>4, <2>5, <2>8 DEF ReadyIsProven, Moves, Proven
  <2> QED
    BY <1>2, <1>4, <1>5, <2>6, <2>7, <2>9, StepSettles, NoCallIsProven DEF NoCall
<1>7. CASE ~SameSetting(p, check.seen)
  <2>1. UNCHANGED <<setting, job>>
    BY <1>7 DEF CheckRecords
  <2>2. TenantTyped'
    BY <1>2, <1>4, <2>1 DEF TenantTyped
  <2> QED
    BY <1>2, <1>4, <2>1, <2>2, CalmKeeps, StepSettles, NoCallIsProven DEF NoCall
<1> QED
  BY <1>6, <1>7

\* A step of an upload or of a job that opens no secret.
LEMMA JobStepKeeps ==
    ASSUME SettingsInv, UNCHANGED <<cred, secrets, setting, check, ask, ring>>,
           upload' \in [busy : BOOLEAN, cred : Selections], job' \in [Jobs -> JobRows],
           \A j \in Jobs : job'[j].secret \in {0, job[j].secret}
    PROVE  SettingsInv' /\ CallStep
<1> USE DEF SettingsInv
<1>1. TenantTyped'
  BY DEF TenantTyped
<1> QED
  BY <1>1, CalmKeeps, StepSettles, NoCallIsProven DEF NoCall

\* An upload reads the setting it may be bound to.
LEMMA UploadReadsKeeps ==
    ASSUME SettingsInv, UploadReads
    PROVE  SettingsInv' /\ CallStep
<1> DEFINE cs == IF Ready("extraction") THEN setting["extraction"].cred ELSE {}
<1>1. upload' = [busy |-> TRUE, cred |-> cs] /\ UNCHANGED <<cred, secrets, setting, check, job, ask, ring>>
  BY DEF UploadReads
<1>2. cs \in Selections
  BY DEF SettingsInv, TenantTyped, SettingSet, Selections, Capabilities
<1> HIDE DEF cs
<1>3. upload' \in [busy : BOOLEAN, cred : Selections]
  BY <1>1, <1>2
<1>4. job' \in [Jobs -> JobRows] /\ \A j \in Jobs : job'[j].secret \in {0, job[j].secret}
  BY <1>1 DEF SettingsInv, TenantTyped
<1> QED
  BY <1>1, <1>3, <1>4, JobStepKeeps

\* One job's row changes, and its secret goes or stays.
LEMMA OneJobKeeps ==
    ASSUME SettingsInv, NEW j \in Jobs, NEW row \in JobRows, job' = [job EXCEPT ![j] = row],
           row.secret \in {0, job[j].secret}
    PROVE  job' \in [Jobs -> JobRows] /\ \A k \in Jobs : job'[k].secret \in {0, job[k].secret}
BY DEF SettingsInv, TenantTyped

\* An upload inserts its job, bound or waiting.
LEMMA UploadInsertsKeeps ==
    ASSUME SettingsInv, NEW j \in Jobs, UploadInserts(j)
    PROVE  SettingsInv' /\ CallStep
<1> DEFINE state == IF upload.cred = {} THEN "waiting" ELSE "pending"
           row   == [state |-> state, cred |-> upload.cred, secret |-> 0]
<1>1. job' = [job EXCEPT ![j] = row] /\ upload' = NoUpload /\ UNCHANGED <<cred, secrets, setting, check, ask, ring>>
  BY DEF UploadInserts
<1>2. row \in JobRows /\ row.secret = 0
  BY DEF SettingsInv, TenantTyped, JobRows
<1>3. upload' \in [busy : BOOLEAN, cred : Selections]
  BY <1>1 DEF NoUpload, Selections
<1> HIDE DEF row
<1> QED
  BY <1>1, <1>2, <1>3, OneJobKeeps, JobStepKeeps

\* A worker that claims a job has no more than its reference: no secret is opened.
LEMMA ClaimKeeps ==
    ASSUME SettingsInv, NEW j \in Jobs, Claim(j)
    PROVE  SettingsInv' /\ CallStep
<1> DEFINE row == [job[j] EXCEPT !.state = "running"]
<1>1. job' = [job EXCEPT ![j] = row] /\ UNCHANGED <<cred, secrets, setting, check, upload, ask, ring>>
  BY DEF Claim
<1>2. row \in JobRows /\ row.secret = job[j].secret
  BY DEF SettingsInv, TenantTyped, JobRows
<1>3. upload' \in [busy : BOOLEAN, cred : Selections]
  BY <1>1 DEF SettingsInv, TenantTyped
<1> HIDE DEF row
<1> QED
  BY <1>1, <1>2, <1>3, OneJobKeeps, JobStepKeeps

\* A job that is left has no secret.
LEMMA LeaveKeeps ==
    ASSUME SettingsInv, NEW j \in Jobs, NEW state \in {"pending", "ended"}, Leave(j, state)
    PROVE  SettingsInv' /\ CallStep
<1> DEFINE row == [job[j] EXCEPT !.state = state, !.secret = 0]
<1>0. job[j] \in JobRows
  BY DEF SettingsInv, TenantTyped
<1>1. job' = [job EXCEPT ![j] = row] /\ UNCHANGED <<cred, secrets, setting, check, upload, ask, ring>>
  BY <1>0 DEF Leave, SettingsInv, TenantTyped, JobRows
<1>2. row \in JobRows /\ row.secret = 0
  BY <1>0 DEF JobRows
<1>3. upload' \in [busy : BOOLEAN, cred : Selections]
  BY <1>1 DEF SettingsInv, TenantTyped
<1> HIDE DEF row
<1> QED
  BY <1>1, <1>2, <1>3, OneJobKeeps, JobStepKeeps

\* The worker opens a secret only of the ready setting, whose secret it is.
LEMMA WorkerOpensKeeps ==
    ASSUME SettingsInv, NEW j \in Jobs, WorkerOpens(j)
    PROVE  SettingsInv' /\ CallStep
<1> USE DEF SettingsInv
<1> DEFINE n == SecretOf(job[j].cred)
           s == setting["extraction"]
<1>1. UNCHANGED <<cred, secrets, setting, check, upload, ask, ring>>
  BY DEF WorkerOpens
<1>2. upload' \in [busy : BOOLEAN, cred : Selections] /\ job[j] \in JobRows /\ job[j].cred \in Selections
  BY <1>1 DEF TenantTyped, JobRows
<1>3. n \in Nat /\ (n # 0 => job[j].cred # {} /\ \A c \in job[j].cred : cred[c].secret = n)
  BY <1>2, OpenedIsStored
<1>4. CASE ~MayOpen(j)
  <2> DEFINE row == [job[j] EXCEPT !.state = "ended"]
  <2>1. job' = [job EXCEPT ![j] = row]
    BY <1>4 DEF WorkerOpens
  <2>2. row \in JobRows /\ row.secret = job[j].secret
    BY <1>2 DEF JobRows
  <2> HIDE DEF row
  <2> QED
    BY <1>1, <1>2, <2>1, <2>2, OneJobKeeps, JobStepKeeps
<1>5. CASE MayOpen(j)
  <2> DEFINE row == [job[j] EXCEPT !.secret = n]
  <2>1. job' = [job EXCEPT ![j] = row]
    BY <1>5 DEF WorkerOpens
  <2>2. row \in JobRows /\ row.secret = n
    <3> HIDE DEF n
    <3> QED
      BY <1>2, <1>3 DEF JobRows
  <2>3. Ready("extraction") /\ s.cred = job[j].cred /\ n # 0
    BY <1>5 DEF MayOpen
  <2>4. n = s.passed
    <3>1. "extraction" \in Capabilities
      BY DEF Capabilities
    <3>2. \A c \in s.cred : cred[c].secret = s.passed
      BY <2>3, <3>1 DEF ReadyIsProven, Ready
    <3> QED
      BY <1>3, <2>3, <3>2
  <2> HIDE DEF row, n
  <2>5. job'[j] = row /\ \A k \in Jobs \ {j} : job'[k] = job[k]
    BY <2>1 DEF TenantTyped
  <2>6. TenantTyped'
    BY <1>1, <2>1, <2>2 DEF TenantTyped
  <2>7. SettingsInv'
    BY <1>1, <2>6, CalmKeeps, StepSettles
  <2>8. CallStep
    BY <1>1, <2>2, <2>3, <2>4, <2>5 DEF CallStep
  <2> QED
    BY <2>7, <2>8
<1> QED
  BY <1>4, <1>5


\* A step of a question alone.
LEMMA AskStepKeeps ==
    ASSUME SettingsInv, UNCHANGED <<cred, secrets, setting, check, upload, job, ring>>,
           ask' \in Asks, AskSees'
    PROVE  SettingsInv'
<1> USE DEF SettingsInv
<1>1. TenantTyped'
  BY DEF TenantTyped
<1>2. ReadyIsProven' /\ RotationKeepsAll' /\ \A q \in Capabilities : Moves(q)
  BY <1>1, CalmKeeps
<1>3. CheckSees'
  BY <1>1, <1>2, CheckSeesKeeps
<1> QED
  BY <1>1, <1>2, <1>3

\* A question that is not asked is idle.
LEMMA NoAskIsIdle == NoAsk \in Asks /\ NoAsk.pc = "idle"
BY DEF NoAsk, Asks, Unset, SettingSet, Selections

\* A question reads the setting it will use.
LEMMA AskReadsKeeps ==
    ASSUME SettingsInv, AskReads
    PROVE  SettingsInv' /\ CallStep
<1> DEFINE s == setting["synthesis"]
           a == [NoAsk EXCEPT !.pc = "read", !.seen = s]
<1>1. ask' = a /\ UNCHANGED <<cred, secrets, setting, check, upload, job, ring>>
  BY DEF AskReads
<1>2. s \in SettingSet /\ s.stamp \in Nat
  BY DEF SettingsInv, TenantTyped, SettingSet, Capabilities
<1>3. a \in Asks /\ a.pc = "read" /\ a.seen = s
  <2> HIDE DEF s
  <2> QED
    BY <1>2, NoAskIsIdle DEF Asks
<1> HIDE DEF a
<1>4. AskSees'
  BY <1>1, <1>2, <1>3 DEF AskSees, StillSeen
<1>5. CallStep
  BY <1>1, <1>3 DEF CallStep
<1> QED
  BY <1>1, <1>3, <1>4, <1>5, AskStepKeeps

\* A question opens the secret it read, or gives up.
LEMMA AskResolvesKeeps ==
    ASSUME SettingsInv, AskResolves
    PROVE  SettingsInv' /\ CallStep
<1> DEFINE n == SecretOf(ask.seen.cred)
           a == [ask EXCEPT !.pc = "resolved", !.secret = n]
<1>1. ask' \in {NoAsk, a} /\ (ask' = a => n # 0) /\ ask.pc = "read"
      /\ UNCHANGED <<cred, secrets, setting, check, upload, job, ring>>
  <2>1. ask' = IF n = 0 THEN NoAsk ELSE a
    BY DEF AskResolves
  <2>2. a.pc = "resolved" /\ ask.pc = "read"
    BY DEF AskResolves, SettingsInv, TenantTyped, Asks
  <2>3. a # NoAsk
    <3> HIDE DEF a
    <3> QED
      BY <2>2, NoAskIsIdle
  <2> QED
    BY <2>1, <2>2, <2>3 DEF AskResolves
<1>2. ask \in Asks /\ ask.seen.cred \in Selections
  BY DEF SettingsInv, TenantTyped, Asks, SettingSet
<1>3. n \in Nat /\ (n # 0 => ask.seen.cred # {} /\ Proven(ask.seen, n))
  BY <1>2, OpenedIsStored DEF SettingsInv, Proven
<1>4. a \in Asks /\ a.pc = "resolved" /\ a.seen = ask.seen /\ a.secret = n
  <2> HIDE DEF n
  <2> QED
    BY <1>2, <1>3 DEF Asks
<1>5. ask'.pc \in {"idle", "resolved"}
  BY <1>1, <1>4, NoAskIsIdle
<1> HIDE DEF a, n
<1>6. AskSees'
  BY <1>1, <1>3, <1>4, NoAskIsIdle DEF SettingsInv, AskSees, StillSeen, Proven
<1>7. CallStep
  BY <1>1, <1>5 DEF CallStep
<1> QED
  BY <1>1, <1>4, <1>6, <1>7, AskStepKeeps, NoAskIsIdle

\* The reservation finds the setting that was read, so the secret that was opened is
\* the one it passed with.
LEMMA AskReservesKeeps ==
    ASSUME SettingsInv, AskReserves
    PROVE  SettingsInv' /\ CallStep
<1> DEFINE a == [ask EXCEPT !.pc = "calling"]
           same == Ready("synthesis") /\ SameSetting("synthesis", ask.seen)
<1>1. ask' = (IF same THEN a ELSE NoAsk) /\ ask.pc = "resolved"
      /\ UNCHANGED <<cred, secrets, setting, check, upload, job, ring>>
  BY DEF AskReserves
<1>2. ask \in Asks
  BY DEF SettingsInv, TenantTyped
<1>3. a \in Asks /\ a.pc = "calling" /\ a.seen = ask.seen /\ a.secret = ask.secret
  BY <1>2 DEF Asks
<1> HIDE DEF a
<1>4. AskSees'
  BY <1>1, <1>3, NoAskIsIdle DEF SettingsInv, AskSees, StillSeen, Proven
<1>5. same => ask.secret = setting["synthesis"].passed
  <2> SUFFICES ASSUME same PROVE ask.secret = setting["synthesis"].passed
    OBVIOUS
  <2>1. "synthesis" \in Capabilities
    BY DEF Capabilities
  <2>2. StillSeen("synthesis", ask.seen) /\ ask.seen.cred # {} /\ Proven(ask.seen, ask.secret)
    BY <1>1 DEF SettingsInv, AskSees, SameSetting
  <2>3. ask.seen = setting["synthesis"]
    BY <2>2 DEF StillSeen, SameSetting
  <2>4. \A c \in ask.seen.cred : cred[c].secret = setting["synthesis"].passed
    BY <2>1, <2>3 DEF SettingsInv, ReadyIsProven, Ready
  <2> QED
    BY <2>2, <2>4 DEF Proven
<1>6. CallStep
  BY <1>1, <1>3, <1>5, NoAskIsIdle DEF CallStep
<1> QED
  BY <1>1, <1>3, <1>4, <1>6, AskStepKeeps, NoAskIsIdle

\* A question that is over leaves no call behind.
LEMMA AskSettlesKeeps ==
    ASSUME SettingsInv, AskSettles
    PROVE  SettingsInv' /\ CallStep
<1>1. ask' = NoAsk /\ UNCHANGED <<cred, secrets, setting, check, upload, job, ring>>
  BY DEF AskSettles
<1>2. AskSees' /\ CallStep
  BY <1>1, NoAskIsIdle DEF AskSees, CallStep
<1> QED
  BY <1>1, <1>2, AskStepKeeps, NoAskIsIdle

\* The processes start again with another ring, every live credential in it.
LEMMA RestartKeeps ==
    ASSUME SettingsInv, Restart, UNCHANGED <<cred, secrets, setting>>, ring' \in Rings, RotationKeepsAll'
    PROVE  SettingsInv' /\ CallStep
<1> USE DEF SettingsInv
<1>1. check' = NoCheck /\ NoCheck \in Checks /\ NoCheck.pc = "idle" /\ ask' = NoAsk
      /\ upload' \in [busy : BOOLEAN, cred : Selections]
  BY DEF Restart, NoCheck, Checks, Unset, SettingSet, Selections, NoUpload, Capabilities
<1>2. ASSUME NEW j \in Jobs PROVE job'[j] \in JobRows /\ job'[j].secret \in {0, job[j].secret}
  <2> DEFINE row == [job[j] EXCEPT !.state = "pending", !.secret = 0]
  <2>1. job[j] \in JobRows
    BY DEF TenantTyped
  <2>2. row \in JobRows /\ row.secret = 0
    BY <2>1 DEF JobRows
  <2>3. job'[j] \in {job[j], row}
    BY DEF Restart
  <2> HIDE DEF row
  <2> QED
    BY <2>1, <2>2, <2>3
<1>3. job' \in [Jobs -> JobRows]
  BY <1>2 DEF Restart
<1>4. TenantTyped'
  BY <1>1, <1>3, NoAskIsIdle DEF TenantTyped
<1>5. ReadyIsProven' /\ \A p \in Capabilities : Moves(p)
  BY <1>4, QuietKeeps
<1> QED
  BY <1>1, <1>2, <1>4, <1>5, NoAskIsIdle, StepSettles, NoCallIsProven DEF NoCall

\* A new master key makes nothing unreadable.
LEMMA AddKeyKeeps ==
    ASSUME SettingsInv, AddKey
    PROVE  SettingsInv' /\ CallStep
<1>1. ring' = {1, 2} /\ ring = {1} /\ UNCHANGED <<cred, secrets, setting>> /\ Restart
  BY DEF AddKey
<1>2. RotationKeepsAll' /\ ring' \in Rings
  BY <1>1 DEF SettingsInv, RotationKeepsAll, Rings
<1> QED
  BY <1>1, <1>2, RestartKeeps

\* The old key is dropped when no credential is under it.
LEMMA DropKeyKeeps ==
    ASSUME SettingsInv, DropKey
    PROVE  SettingsInv' /\ CallStep
<1>1. ring' = {2} /\ ring = {1, 2} /\ NoneLeft /\ UNCHANGED <<cred, secrets, setting>> /\ Restart
  BY DEF DropKey
<1>2. Active = 2
  BY <1>1, ActiveIsNewest DEF SettingsInv, TenantTyped
<1>3. RotationKeepsAll' /\ ring' \in Rings
  BY <1>1, <1>2 DEF RotationKeepsAll, NoneLeft, Rewrap, Rings
<1> QED
  BY <1>1, <1>3, RestartKeeps

\* A credential that is rewrapped is readable with the key it has then.
LEMMA RewrapKeeps ==
    ASSUME SettingsInv, NEW c \in Credentials, RewrapOne(c)
    PROVE  SettingsInv' /\ CallStep
<1> USE DEF SettingsInv
<1> DEFINE e == [cred[c] EXCEPT !.key = Active]
<1>1. cred' = [cred EXCEPT ![c] = e] /\ UNCHANGED <<secrets, setting, check, upload, job, ask, ring>>
  BY DEF RewrapOne
<1>2. cred[c] \in Envelopes /\ Active \in Nat /\ Active \in ring
  BY ActiveIsNewest DEF TenantTyped
<1>3. e \in Envelopes /\ e.key \in ring /\ e.state = cred[c].state /\ e.secret = cred[c].secret
  BY <1>2 DEF Envelopes
<1> HIDE DEF e
<1>4. TenantTyped'
  BY <1>1, <1>3 DEF TenantTyped
<1>5. RotationKeepsAll'
  BY <1>1, <1>3 DEF TenantTyped, RotationKeepsAll
<1>6. ReadyIsProven' /\ \A p \in Capabilities : Moves(p)
  BY <1>1, <1>3, <1>4, <1>5, QuietKeeps DEF TenantTyped
<1> QED
  BY <1>1, <1>4, <1>5, <1>6, StepSettles, NoCallIsProven DEF NoCall

\* The settings start empty.
LEMMA SettingsInit ==
    ASSUME TenantInit PROVE SettingsInv
<1>1. \A c \in Credentials : cred[c] = NoCred
  BY DEF TenantInit
<1>2. \A p \in Capabilities : setting[p] = Unset
  BY DEF TenantInit
<1>3. NoCred \in Envelopes /\ Unset \in SettingSet /\ NoCheck \in Checks /\ NoCheck.pc = "idle" /\ NoJob \in JobRows
      /\ NoUpload \in [busy : BOOLEAN, cred : Selections] /\ Unset.status = "unchecked" /\ NoCred.state = "none"
  BY DEF NoCred, Envelopes, Unset, SettingSet, NoCheck, Checks, NoJob, JobRows, NoUpload, Selections, Capabilities
<1>4. TenantTyped
  BY <1>3, NoAskIsIdle DEF TenantInit, TenantTyped, Rings
<1>5. ReadyIsProven /\ RotationKeepsAll
  BY <1>1, <1>2, <1>3 DEF ReadyIsProven, RotationKeepsAll
<1>6. CheckSees /\ AskSees
  BY <1>3, NoAskIsIdle DEF TenantInit, CheckSees, AskSees
<1> QED
  BY <1>4, <1>5, <1>6 DEF SettingsInv

\* Every step of the owner's requests and of the work behind them keeps the settings'
\* invariant, and calls the provider only with a proven secret.
LEMMA SettingsKeep ==
    ASSUME SettingsInv, Requests \/ Background
    PROVE  SettingsInv' /\ CallStep
<1>1. CASE Requests
  <2>1. ASSUME NEW c \in Credentials, CreateCredential(c) \/ ReplaceCredential(c) \/ DeleteCredential(c)
        PROVE  SettingsInv' /\ CallStep
    BY <2>1, CreateKeeps, ReplaceKeeps, DeleteKeeps
  <2>2. ASSUME NEW p \in Capabilities, CheckReads(p) \/ (\E c \in Credentials : PutSetting(p, {c})) \/ PutSetting(p, {})
        PROVE  SettingsInv' /\ CallStep
    <3>1. {} \in Selections /\ \A c \in Credentials : {c} \in Selections
      BY DEF Selections
    <3> QED
      BY <2>2, <3>1, CheckReadsKeeps, PutKeeps
  <2> QED
    BY <1>1, <2>1, <2>2, UploadReadsKeeps, AskReadsKeeps DEF Requests
<1>2. CASE Background
  <2>1. ASSUME NEW j \in Jobs,
               UploadInserts(j) \/ Claim(j) \/ WorkerOpens(j) \/ \E state \in {"pending", "ended"} : Leave(j, state)
        PROVE  SettingsInv' /\ CallStep
    BY <2>1, UploadInsertsKeeps, ClaimKeeps, WorkerOpensKeeps, LeaveKeeps
  <2>2. ASSUME CheckResolves \/ \E accepted \in BOOLEAN : CheckRecords(accepted)
        PROVE  SettingsInv' /\ CallStep
    BY <2>2, CheckResolvesKeeps, CheckRecordsKeeps
  <2>3. ASSUME AskResolves \/ AskReserves \/ AskSettles
        PROVE  SettingsInv' /\ CallStep
    BY <2>3, AskResolvesKeeps, AskReservesKeeps, AskSettlesKeeps
  <2>4. ASSUME AddKey \/ DropKey \/ \E c \in Credentials : RewrapOne(c)
        PROVE  SettingsInv' /\ CallStep
    BY <2>4, AddKeyKeeps, DropKeyKeeps, RewrapKeeps
  <2> QED
    BY <1>2, <2>1, <2>2, <2>3, <2>4 DEF Background
<1> QED
  BY <1>1, <1>2

\* Nothing else touches the settings.
LEMMA SettingsRest ==
    ASSUME SettingsInv, UNCHANGED tenant
    PROVE  SettingsInv' /\ CallStep
<1>1. SettingsInv'
  BY DEF SettingsInv, tenant, TenantTyped, ReadyIsProven, RotationKeepsAll, CheckSees, AskSees, StillSeen, Proven
<1>2. CallStep
  BY DEF tenant, CallStep
<1> QED
  BY <1>1, <1>2


-----------------------------------------------------------------------------
(* The steps of HostedAccounts *)

\* What AccountsInv says of one login and its session.
LEMMA OfLogin ==
    ASSUME AccountsInv, NEW l \in Logins
    PROVE  /\ login[l] \in LoginSet /\ session[l] \in SessionSet
           /\ login[l].pc \in {"known", "looked", "resolved", "answered", "done"} => login[l].who \in Persons
           /\ login[l].pc \in {"resolved", "answered", "done"} =>
                login[l].user = identity[login[l].who] /\ login[l].user # Nobody
           /\ session[l].state # "none" => login[l].pc \in {"answered", "done"}
           /\ session[l].state # "none" => session[l].user = identity[login[l].who]
           /\ session[l].state = "replaced" => session[l].next \in Logins /\ session[session[l].next].state # "none"
BY DEF AccountsInv, AccountTyped, LoginsInv, OneAccount, FailedSignInKeepsSession

\* One login goes on, and no account and no session changes.
LEMMA LoginGoesOn ==
    ASSUME AccountsInv, NEW l \in Logins, NEW row \in LoginSet, login' = [login EXCEPT ![l] = row],
           UNCHANGED <<users, identity, session, active>>, cookie' \in Users,
           row.pc \in {"known", "looked", "resolved", "answered", "done"} => row.who \in Persons,
           row.pc \in {"resolved", "answered", "done"} => row.user = identity[row.who] /\ row.user # Nobody,
           session[l].state # "none" => row.pc \in {"answered", "done"} /\ row.who = login[l].who
    PROVE  AccountsInv'
<1> USE DEF AccountsInv
<1>1. login'[l] = row /\ \A k \in Logins \ {l} : login'[k] = login[k]
  BY DEF AccountTyped
<1>2. AccountTyped'
  BY DEF AccountTyped
<1>3. LoginsInv'
  BY <1>1 DEF LoginsInv
<1>4. OneAccount'
  BY <1>1 DEF OneAccount
<1>5. FailedSignInKeepsSession'
  BY DEF FailedSignInKeepsSession
<1> QED
  BY <1>2, <1>3, <1>4, <1>5

\* A login begins with a transaction of its own.
LEMMA BeginLoginKeeps ==
    ASSUME AccountsInv, NEW l \in Logins, BeginLogin(l)
    PROVE  AccountsInv'
<1> DEFINE row == [login[l] EXCEPT !.pc = "away"]
<1>1. login' = [login EXCEPT ![l] = row] /\ UNCHANGED <<users, identity, active, session, cookie>> /\ login[l].pc = "new"
  BY DEF BeginLogin, Goes
<1>2. row \in LoginSet /\ row.pc = "away"
  BY OfLogin DEF LoginSet
<1>3. session[l].state = "none" /\ cookie' \in Users
  BY <1>1, OfLogin DEF AccountsInv, AccountTyped
<1> HIDE DEF row
<1> QED
  BY <1>1, <1>2, <1>3, LoginGoesOn

\* The callback consumes the login's transaction.
LEMMA CallbackKeeps ==
    ASSUME AccountsInv, NEW l \in Logins, Callback(l)
    PROVE  AccountsInv'
<1>1. UNCHANGED <<users, identity, active, session, cookie>> /\ login[l].pc = "away"
  BY DEF Callback
<1>2. session[l].state = "none" /\ cookie \in Users /\ login[l] \in LoginSet
  BY <1>1, OfLogin DEF AccountsInv, AccountTyped
<1>3. ASSUME NEW p \in Persons, login' = [login EXCEPT ![l].pc = "known", ![l].who = p, ![l].old = cookie]
      PROVE  AccountsInv'
  <2> DEFINE row == [login[l] EXCEPT !.pc = "known", !.who = p, !.old = cookie]
  <2>1. login' = [login EXCEPT ![l] = row]
    BY <1>2, <1>3 DEF AccountsInv, AccountTyped, LoginSet
  <2>2. row \in LoginSet /\ row.pc = "known" /\ row.who = p
    BY <1>2 DEF LoginSet, Owners
  <2> HIDE DEF row
  <2> QED
    BY <1>1, <1>2, <2>1, <2>2, LoginGoesOn
<1>4. CASE Goes(l, "failed")
  <2> DEFINE row == [login[l] EXCEPT !.pc = "failed"]
  <2>1. login' = [login EXCEPT ![l] = row]
    BY <1>4 DEF Goes
  <2>2. row \in LoginSet /\ row.pc = "failed"
    BY <1>2 DEF LoginSet
  <2> HIDE DEF row
  <2> QED
    BY <1>1, <1>2, <2>1, <2>2, LoginGoesOn
<1> QED
  BY <1>3, <1>4 DEF Callback

\* A sign-in looks the identity up before it inserts one.
LEMMA LooksUpKeeps ==
    ASSUME AccountsInv, NEW l \in Logins, LooksUp(l)
    PROVE  AccountsInv'
<1> DEFINE saw == identity[login[l].who]
           row == [login[l] EXCEPT !.pc = "looked", !.saw = saw]
<1>1. UNCHANGED <<users, identity, active, session, cookie>> /\ login[l].pc = "known"
  BY DEF LooksUp
<1>2. session[l].state = "none" /\ cookie \in Users /\ login[l] \in LoginSet /\ login[l].who \in Persons
  BY <1>1, OfLogin DEF AccountsInv, AccountTyped
<1>3. saw \in Users
  BY <1>2 DEF AccountsInv, AccountTyped
<1>4. login' = [login EXCEPT ![l] = row]
  BY <1>2 DEF LooksUp, AccountsInv, AccountTyped, LoginSet
<1>5. row \in LoginSet /\ row.pc = "looked" /\ row.who = login[l].who
  <2> HIDE DEF saw
  <2> QED
    BY <1>2, <1>3 DEF LoginSet
<1> HIDE DEF row
<1> QED
  BY <1>1, <1>2, <1>4, <1>5, LoginGoesOn

\* The first login of a person links the candidate user; every later one takes the
\* user that is linked.
LEMMA ResolvesKeeps ==
    ASSUME AccountsInv, NEW l \in Logins, Resolves(l)
    PROVE  AccountsInv'
<1> DEFINE p   == login[l].who
           u   == Linked(l)
           row == [login[l] EXCEPT !.pc = "resolved", !.user = u]
<1>1. UNCHANGED <<active, session, cookie>> /\ login[l].pc = "looked"
      /\ identity' = [identity EXCEPT ![p] = u] /\ users' = users \union {u}
  BY DEF Resolves
<1>2. session[l].state = "none" /\ login[l] \in LoginSet /\ p \in Persons
  BY <1>1, OfLogin
<1>3. identity[p] \in Users /\ u = IF identity[p] = Nobody THEN l ELSE identity[p]
  BY <1>2 DEF AccountsInv, AccountTyped, Linked
<1>4. u \in Logins /\ u # Nobody /\ u \in Users
  BY <1>3, NobodyIsNoOne DEF Users
<1>5. login' = [login EXCEPT ![l] = row]
  BY <1>2 DEF Resolves, AccountsInv, AccountTyped, LoginSet
<1>6. row \in LoginSet /\ row.pc = "resolved" /\ row.who = p /\ row.user = u
  <2> HIDE DEF u
  <2> QED
    BY <1>2, <1>4 DEF LoginSet
<1> HIDE DEF row, u
<1>7. login'[l] = row /\ \A k \in Logins \ {l} : login'[k] = login[k]
  BY <1>5 DEF AccountsInv, AccountTyped
<1>8. identity'[p] = u /\ \A q \in Persons \ {p} : identity'[q] = identity[q]
  BY <1>1, <1>2 DEF AccountsInv, AccountTyped
<1>9. \A q \in Persons : identity[q] # Nobody => identity'[q] = identity[q]
  BY <1>3, <1>8
<1>10. AccountTyped'
  BY <1>1, <1>4, <1>5, <1>6 DEF AccountsInv, AccountTyped
<1>11. ASSUME NEW k \in Logins \ {l}, login[k].pc \in {"resolved", "answered", "done"}
       PROVE  identity'[login[k].who] = identity[login[k].who]
  BY <1>9, <1>11, OfLogin
<1>12. LoginsInv'
  <2> SUFFICES ASSUME NEW k \in Logins
               PROVE  /\ login'[k].pc \in {"known", "looked", "resolved", "answered", "done"} => login'[k].who \in Persons
                      /\ login'[k].pc \in {"resolved", "answered", "done"} =>
                           login'[k].user = identity'[login'[k].who] /\ login'[k].user # Nobody
                      /\ session'[k].state # "none" => login'[k].pc \in {"answered", "done"}
                      /\ session'[k].state = "replaced" => session'[k].next \in Logins
    BY DEF LoginsInv
  <2>1. CASE k = l
    BY <1>1, <1>2, <1>4, <1>6, <1>7, <1>8, <2>1
  <2>2. CASE k # l
    BY <1>1, <1>7, <1>11, <2>2, OfLogin
  <2> QED
    BY <2>1, <2>2
<1>13. OneAccount'
  <2>1. users' = {identity'[q] : q \in Persons} \ {Nobody}
    <3>1. users = {identity[q] : q \in Persons} \ {Nobody}
      BY DEF AccountsInv, OneAccount
    <3>2. ASSUME NEW v \in users' PROVE v \in {identity'[q] : q \in Persons} \ {Nobody}
      BY <1>1, <1>2, <1>4, <1>8, <1>9, <3>1
    <3>3. ASSUME NEW q \in Persons, identity'[q] # Nobody PROVE identity'[q] \in users'
      BY <1>1, <1>8, <3>1, <3>3
    <3> QED
      BY <3>2, <3>3
  <2>2. ASSUME NEW k \in Logins, session'[k].state # "none" PROVE session'[k].user = identity'[login'[k].who]
    BY <1>1, <1>2, <1>7, <1>11, <2>2, OfLogin
  <2> QED
    BY <2>1, <2>2 DEF OneAccount
<1>14. FailedSignInKeepsSession'
  BY <1>1 DEF AccountsInv, FailedSignInKeepsSession
<1> QED
  BY <1>10, <1>12, <1>13, <1>14 DEF AccountsInv


\* A live session is over.
LEMMA SessionEnds ==
    ASSUME AccountsInv, NEW l \in Logins, session[l].state = "live", session' = [session EXCEPT ![l].state = "over"],
           UNCHANGED <<login, users, identity, active>>, cookie' \in Users
    PROVE  AccountsInv'
<1> DEFINE row == [session[l] EXCEPT !.state = "over"]
<1>1. session[l] \in SessionSet
  BY OfLogin
<1>2. row \in SessionSet /\ row.state = "over" /\ row.user = session[l].user
  BY <1>1 DEF SessionSet
<1>3. session' = [session EXCEPT ![l] = row]
  OBVIOUS
<1> HIDE DEF row
<1>4. session'[l] = row /\ \A k \in Logins \ {l} : session'[k] = session[k]
  BY <1>3 DEF AccountsInv, AccountTyped
<1>5. AccountTyped'
  BY <1>2, <1>3 DEF AccountsInv, AccountTyped
<1>6. \A k \in Logins : session[k].state # "none" => session'[k].state # "none"
  BY <1>2, <1>4
<1>7. LoginsInv'
  BY <1>2, <1>4 DEF AccountsInv, LoginsInv
<1>8. OneAccount'
  BY <1>2, <1>4 DEF AccountsInv, OneAccount
<1>9. FailedSignInKeepsSession'
  BY <1>2, <1>4, <1>6, OfLogin DEF FailedSignInKeepsSession
<1> QED
  BY <1>5, <1>7, <1>8, <1>9 DEF AccountsInv

\* A session that expires names its user still.
LEMMA ExpiresKeeps ==
    ASSUME AccountsInv, NEW l \in Logins, Expires(l)
    PROVE  AccountsInv'
BY SessionEnds DEF Expires, AccountsInv, AccountTyped

\* A session that is ended names its user still.
LEMMA LogoutKeeps ==
    ASSUME AccountsInv, Logout
    PROVE  AccountsInv'
<1>1. cookie # Nobody /\ session[cookie].state = "live"
  BY DEF Logout, Visitor
<1>2. cookie \in Logins
  BY <1>1 DEF AccountsInv, AccountTyped, Users
<1>3. session' = [session EXCEPT ![cookie].state = "over"] /\ cookie' \in Users
      /\ UNCHANGED <<login, users, identity, active>>
  BY DEF Logout, Users
<1> QED
  BY <1>1, <1>2, <1>3, SessionEnds

\* The old session of the browser is replaced and the new one begins together, or
\* the account is suspended and neither happens.
LEMMA CreatesSessionKeeps ==
    ASSUME AccountsInv, NEW l \in Logins, CreatesSession(l)
    PROVE  AccountsInv'
<1>1. UNCHANGED <<users, identity, active, cookie>> /\ login[l].pc = "resolved"
  BY DEF CreatesSession
<1>2. /\ login[l] \in LoginSet /\ session[l].state = "none" /\ login[l].who \in Persons
      /\ login[l].user = identity[login[l].who] /\ login[l].old \in Users /\ login[l].user \in Users
  BY <1>1, OfLogin DEF LoginSet
<1>3. CASE login[l].who \in active
  <2> DEFINE old == login[l].old
             row == [login[l] EXCEPT !.pc = "answered"]
             new == [state |-> "live", user |-> login[l].user, next |-> Nobody]
             end == [session[old] EXCEPT !.state = "replaced", !.next = l]
  <2>1. login' = [login EXCEPT ![l] = row] /\ session' = [Ended(l) EXCEPT ![l] = new]
    BY <1>3 DEF CreatesSession, Goes
  <2>2. row \in LoginSet /\ row.pc = "answered" /\ row.who = login[l].who /\ row.user = login[l].user
    BY <1>2 DEF LoginSet
  <2>3. new \in SessionSet /\ new.state = "live" /\ new.user = login[l].user
    BY <1>2 DEF SessionSet, Users
  <2>4. ASSUME old \in Logins
        PROVE end \in SessionSet /\ end.state = "replaced" /\ end.next = l /\ end.user = session[old].user
    BY <2>4, OfLogin DEF SessionSet, Users
  <2>5. ASSUME Ended(l) # session
        PROVE  old \in Logins /\ session[old].state = "live" /\ Ended(l) = [session EXCEPT ![old] = end]
    <3>1. old # Nobody /\ session[old].state = "live"
      BY <2>5 DEF Ended
    <3>2. old \in Logins
      BY <1>2, <3>1 DEF Users
    <3>3. Ended(l) = [session EXCEPT ![old].state = "replaced", ![old].next = l]
      BY <3>1 DEF Ended
    <3> QED
      BY <3>1, <3>2, <3>3 DEF AccountsInv, AccountTyped, SessionSet
  <2> HIDE DEF row, new, end, old
  <2>6. login'[l] = row /\ \A k \in Logins \ {l} : login'[k] = login[k]
    BY <2>1 DEF AccountsInv, AccountTyped
  <2>7. /\ session'[l] = new
        /\ \A k \in Logins \ {l} : \/ session'[k] = session[k]
                                   \/ k = old /\ session[k].state = "live" /\ session'[k] = end
    BY <2>1, <2>5 DEF AccountsInv, AccountTyped
  <2>8. AccountTyped'
    <3>1. session' \in [Logins -> SessionSet]
      BY <2>1, <2>3, <2>4, <2>5 DEF AccountsInv, AccountTyped
    <3> QED
      BY <1>1, <2>1, <2>2, <3>1 DEF AccountsInv, AccountTyped
  <2>9. ASSUME NEW k \in Logins
        PROVE  /\ session[k].state # "none" => session'[k].state # "none"
               /\ k # l => (session'[k].state # "none" <=> session[k].state # "none")
               /\ k # l => session'[k].user = session[k].user
               /\ session'[k].state = "replaced" =>
                    \/ session'[k].next = l
                    \/ session[k].state = "replaced" /\ session'[k].next = session[k].next
    BY <1>2, <2>3, <2>4, <2>7
  <2>10. LoginsInv'
    <3> SUFFICES ASSUME NEW k \in Logins
                 PROVE  /\ login'[k].pc \in {"known", "looked", "resolved", "answered", "done"} => login'[k].who \in Persons
                        /\ login'[k].pc \in {"resolved", "answered", "done"} =>
                             login'[k].user = identity'[login'[k].who] /\ login'[k].user # Nobody
                        /\ session'[k].state # "none" => login'[k].pc \in {"answered", "done"}
                        /\ session'[k].state = "replaced" => session'[k].next \in Logins
      BY DEF LoginsInv
    <3>1. session'[k].state = "replaced" => session'[k].next \in Logins
      BY <2>9, OfLogin
    <3>2. CASE k = l
      BY <1>1, <1>2, <2>2, <2>6, <3>1, <3>2, OfLogin
    <3>3. CASE k # l
      BY <1>1, <2>6, <2>9, <3>1, <3>3, OfLogin
    <3> QED
      BY <3>2, <3>3
  <2>11. OneAccount'
    <3>1. ASSUME NEW k \in Logins, session'[k].state # "none" PROVE session'[k].user = identity'[login'[k].who]
      BY <1>1, <1>2, <2>2, <2>3, <2>6, <2>7, <2>9, <3>1, OfLogin
    <3> QED
      BY <1>1, <3>1 DEF AccountsInv, OneAccount
  <2>12. FailedSignInKeepsSession'
    BY <2>3, <2>7, <2>9, OfLogin DEF FailedSignInKeepsSession
  <2> QED
    BY <2>8, <2>10, <2>11, <2>12 DEF AccountsInv
<1>4. CASE login[l].who \notin active
  <2> DEFINE row == [login[l] EXCEPT !.pc = "failed"]
  <2>1. login' = [login EXCEPT ![l] = row] /\ session' = session
    BY <1>4 DEF CreatesSession, Goes, Suspended
  <2>2. row \in LoginSet /\ row.pc = "failed"
    BY <1>2 DEF LoginSet
  <2>3. cookie' \in Users
    BY <1>1 DEF AccountsInv, AccountTyped
  <2> HIDE DEF row
  <2> QED
    BY <1>1, <1>2, <2>1, <2>2, <2>3, LoginGoesOn
<1> QED
  BY <1>3, <1>4

\* The browser takes the new session's cookie.
LEMMA SetsCookieKeeps ==
    ASSUME AccountsInv, NEW l \in Logins, SetsCookie(l)
    PROVE  AccountsInv'
<1> DEFINE row == [login[l] EXCEPT !.pc = "done"]
<1>1. login' = [login EXCEPT ![l] = row] /\ UNCHANGED <<users, identity, active, session>> /\ cookie' = l
      /\ login[l].pc = "answered"
  BY DEF SetsCookie, Goes
<1>2. row \in LoginSet /\ row.pc = "done" /\ row.who = login[l].who /\ row.user = login[l].user /\ l \in Users
  BY OfLogin DEF LoginSet, Users
<1> HIDE DEF row
<1> QED
  BY <1>1, <1>2, OfLogin, LoginGoesOn

\* A suspension changes no login and no session.
LEMMA SuspendKeeps ==
    ASSUME AccountsInv, NEW p \in Persons, Suspend(p)
    PROVE  AccountsInv'
BY DEF Suspend, AccountsInv, AccountTyped, LoginsInv, OneAccount, FailedSignInKeepsSession

\* Steps of the reader's marks leave the accounts alone.
LEMMA AccountsRest ==
    ASSUME AccountsInv, UNCHANGED account
    PROVE  AccountsInv'
BY DEF account, AccountsInv, AccountTyped, LoginsInv, OneAccount, FailedSignInKeepsSession

\* Every step of the sign-in keeps its invariant.
LEMMA AccountsKeep ==
    ASSUME AccountsInv, SignIn \/ Logout \/ UNCHANGED account
    PROVE  AccountsInv'
BY BeginLoginKeeps, CallbackKeeps, LooksUpKeeps, ResolvesKeeps, CreatesSessionKeeps, SetsCookieKeeps,
   ExpiresKeeps, LogoutKeeps, SuspendKeeps, AccountsRest DEF SignIn

\* A browser in which some have signed in, each person with one login.
LEMMA SignedInHolds ==
    ASSUME NEW l \in Logins, NEW D \in SUBSET Logins, l \in D, NEW who \in [D -> Persons],
           \A k, m \in D : who[k] = who[m] => k = m,
           SignedInWith(l, who)
    PROVE  AccountsInv
<1> DEFINE Row(k) == [NotBegun EXCEPT !.pc = IF k = l THEN "done" ELSE "resolved",
                                      !.who = who[k], !.old = IF k = l THEN Nobody ELSE l, !.user = k]
           failed == [NotBegun EXCEPT !.pc = "failed"]
           live   == [NoSession EXCEPT !.state = "live", !.user = l]
<1>1. /\ login = [k \in Logins |-> IF k \in D THEN Row(k) ELSE failed]
      /\ users = D /\ active = Persons /\ cookie = l
      /\ session = [k \in Logins |-> IF k = l THEN live ELSE NoSession]
      /\ identity = [p \in Persons |-> IF \E k \in D : who[k] = p THEN CHOOSE k \in D : who[k] = p ELSE Nobody]
  BY DEF SignedInWith
<1>2. /\ failed \in LoginSet /\ failed.pc = "failed"
      /\ live \in SessionSet /\ live.state = "live" /\ live.user = l
      /\ NoSession \in SessionSet /\ NoSession.state = "none"
  BY DEF NotBegun, LoginSet, NoSession, SessionSet, Users, Owners
<1>3. ASSUME NEW k \in D
      PROVE  /\ Row(k) \in LoginSet /\ Row(k).pc \in {"resolved", "done"} /\ (k = l => Row(k).pc = "done")
             /\ Row(k).who = who[k] /\ Row(k).user = k /\ who[k] \in Persons
  BY DEF NotBegun, LoginSet, Users, Owners
<1> HIDE DEF Row, failed, live
<1>4. ASSUME NEW k \in D PROVE identity[who[k]] = k
  <2>1. who[k] \in Persons /\ \E m \in D : who[m] = who[k]
    BY <1>3
  <2>2. identity[who[k]] = CHOOSE m \in D : who[m] = who[k]
    BY <1>1, <2>1
  <2>3. identity[who[k]] \in D /\ who[identity[who[k]]] = who[k]
    BY <2>1, <2>2
  <2> QED
    BY <2>3
<1>5. ASSUME NEW p \in Persons PROVE identity[p] \in D \union {Nobody}
  BY <1>1
<1>6. AccountTyped
  BY <1>1, <1>2, <1>3, <1>5 DEF AccountTyped, Users
<1>7. LoginsInv
  BY <1>1, <1>2, <1>3, <1>4, NobodyIsNoOne DEF LoginsInv
<1>8. OneAccount
  <2>1. users = {identity[p] : p \in Persons} \ {Nobody}
    BY <1>1, <1>3, <1>4, <1>5, NobodyIsNoOne
  <2> QED
    BY <1>1, <1>2, <1>3, <1>4, <2>1 DEF OneAccount
<1>9. FailedSignInKeepsSession
  BY <1>1, <1>2 DEF FailedSignInKeepsSession
<1> QED
  BY <1>6, <1>7, <1>8, <1>9 DEF AccountsInv

\* The accounts' invariant holds at first.
LEMMA AccountsInit ==
    ASSUME Init PROVE AccountsInv
<1>1. CASE Fresh
  <2>1. NotBegun \in LoginSet /\ NotBegun.pc = "new" /\ NoSession \in SessionSet /\ NoSession.state = "none"
    BY DEF NotBegun, LoginSet, NoSession, SessionSet, Users, Owners
  <2>2. AccountTyped
    BY <1>1, <2>1 DEF Fresh, AccountTyped, Users
  <2>3. LoginsInv /\ FailedSignInKeepsSession
    BY <1>1, <2>1 DEF Fresh, LoginsInv, FailedSignInKeepsSession
  <2>4. OneAccount
    BY <1>1, <2>1 DEF Fresh, OneAccount
  <2> QED
    BY <2>2, <2>3, <2>4 DEF AccountsInv
<1>2. ASSUME NEW l \in Logins, SignedInWith(l, [k \in {l} |-> Owner]) PROVE AccountsInv
  BY <1>2, SignedInHolds, OwnerIsAPerson
<1>3. ASSUME NEW l \in Logins, NEW k \in Logins, NEW p \in Persons \ {Owner}, k # l,
             SignedInWith(l, [m \in {l, k} |-> IF m = l THEN Owner ELSE p])
      PROVE  AccountsInv
  <2> DEFINE who == [m \in {l, k} |-> IF m = l THEN Owner ELSE p]
  <2>1. who \in [{l, k} -> Persons] /\ who[l] = Owner /\ who[k] = p
    BY <1>3, OwnerIsAPerson
  <2>2. SignedInWith(l, who)
    BY <1>3
  <2> HIDE DEF who
  <2> QED
    BY <1>3, <2>1, <2>2, SignedInHolds
<1> QED
  BY <1>1, <1>2, <1>3 DEF Init


-----------------------------------------------------------------------------
(* The steps of the outbox *)

\* A tab as OutboxTyped wants it.
TabOK(row) == "call" \in DOMAIN row /\ (row.pc = "purging" => row.saw \in Owners)

\* A flush that has not begun has nothing on its way.
LEMMA IdleSendsNothing == Idle.sent = NoIntent /\ {"todo", "sent", "result"} \subseteq DOMAIN Idle
BY DEF Idle

\* A page changes, and keeps its call or loses it; its flush goes on or is gone with it.
LEMMA TabMoves ==
    ASSUME OutboxInv, NEW t \in Tabs, NEW row, TabOK(row), row.call \in {NoIntent, tab[t].call},
           tab' = [tab EXCEPT ![t] = row], owner' \in Owners, UNCHANGED <<outbox, fate, intents>>,
           flush' = flush \/ flush' = [flush EXCEPT ![t] = Idle]
    PROVE  OutboxInv'
<1> USE DEF OutboxInv
<1>1. tab'[t] = row /\ \A u \in Tabs \ {t} : tab'[u] = tab[u]
  BY DEF OutboxTyped
<1>2. \A u \in Tabs : flush'[u] = flush[u] \/ flush'[u] = Idle
  BY DEF OutboxTyped
<1>3. OutboxTyped'
  <2>1. DOMAIN tab' = Tabs /\ DOMAIN flush' = Tabs
    BY DEF OutboxTyped
  <2> QED
    BY <1>1, <1>2, <2>1, IdleSendsNothing DEF OutboxTyped, TabOK
<1>4. WaitingInv' /\ EditsKept'
  BY DEF WaitingInv, EditsKept
<1>5. CallsInv'
  BY <1>1 DEF CallsInv, TabOK
<1>6. SentInv'
  BY <1>2, IdleSendsNothing DEF SentInv
<1> QED
  BY <1>3, <1>4, <1>5, <1>6

\* A tab that loads loses nothing of the outbox.
LEMMA LoadKeeps ==
    ASSUME OutboxInv, NEW t \in Tabs, Load(t)
    PROVE  OutboxInv'
<1>1. PICK saw \in {Visitor, "offline"} : tab' = [tab EXCEPT ![t] = [Blank EXCEPT !.pc = "asked", !.saw = saw]]
  BY DEF Load
<1> DEFINE row == [Blank EXCEPT !.pc = "asked", !.saw = saw]
<1>2. TabOK(row) /\ row.call = NoIntent /\ tab' = [tab EXCEPT ![t] = row]
  BY <1>1 DEF Blank, TabOK
<1>3. flush' = [flush EXCEPT ![t] = Idle] /\ UNCHANGED <<outbox, fate, intents>> /\ owner' \in Owners
  BY DEF Load, OutboxInv, OutboxTyped
<1> HIDE DEF row
<1> QED
  BY <1>2, <1>3, TabMoves

\* The owner's outbox goes, and what waited there is withdrawn.
LEMMA PurgesKeep ==
    ASSUME OutboxInv, NEW t \in Tabs, NEW next \in Owners, Purges(t, next), UNCHANGED <<owner, flush, intents>>
    PROVE  OutboxInv'
<1> USE DEF OutboxInv
<1> DEFINE row == [Blank EXCEPT !.pc = "purging", !.saw = next, !.purged = owner]
<1>1. /\ outbox' = [outbox EXCEPT ![owner] = {}] /\ tab' = [tab EXCEPT ![t] = row]
      /\ fate' = [e \in DOMAIN fate |-> IF \E i \in outbox[owner] : i.edit = e THEN "withdrawn" ELSE fate[e]]
  BY DEF Purges
<1>2. TabOK(row) /\ row.call = NoIntent
  BY DEF Blank, TabOK
<1> HIDE DEF row
<1>3. tab'[t] = row /\ \A u \in Tabs \ {t} : tab'[u] = tab[u]
  BY <1>1 DEF OutboxTyped
<1>4. outbox'[owner] = {} /\ \A o \in Owners \ {owner} : outbox'[o] = outbox[o]
  BY <1>1 DEF OutboxTyped
<1>5. OutboxTyped'
  <2>1. DOMAIN tab' = Tabs /\ DOMAIN outbox' = Owners /\ DOMAIN fate' = 1..MaxIntents
    BY <1>1 DEF OutboxTyped
  <2> QED
    BY <1>2, <1>3, <2>1 DEF OutboxTyped, TabOK
<1>6. \A e \in 1..MaxIntents :
        /\ fate[e] = "new" /\ (\A i \in outbox[owner] : i.edit # e) => fate'[e] = "new"
        /\ fate[e] # "new" => fate'[e] # "new"
        /\ fate'[e] = "queued" => fate[e] = "queued" /\ \A i \in outbox[owner] : i.edit # e
  BY <1>1 DEF OutboxTyped
<1>7. \A i \in outbox[owner] : i.edit \in 1..MaxIntents /\ fate[i.edit] # "new"
  BY DEF WaitingInv, OutboxTyped
<1>8. \A e \in 1..MaxIntents : fate[e] = "new" => fate'[e] = "new"
  BY <1>6, <1>7
<1>9. WaitingInv'
  BY <1>4, <1>6, <1>8 DEF WaitingInv
<1>10. \A e \in 1..intents : e \in 1..MaxIntents
  BY IntentsAreBounded DEF OutboxTyped
<1>11. CallsInv'
  BY <1>2, <1>3, <1>8, <1>10 DEF CallsInv
<1>12. SentInv'
  BY <1>6 DEF SentInv
<1>13. EditsKept'
  <2> SUFFICES ASSUME NEW e \in 1..MaxIntents, fate'[e] = "queued"
               PROVE  \E o \in Owners : \E i \in outbox'[o] : i.edit = e
    BY <1>5 DEF EditsKept, OutboxTyped
  <2>1. fate[e] = "queued" /\ \A i \in outbox[owner] : i.edit # e
    BY <1>6
  <2>2. PICK o \in Owners : \E i \in outbox[o] : i.edit = e
    BY <2>1 DEF EditsKept, OutboxTyped
  <2> QED
    BY <1>4, <2>1, <2>2
<1> QED
  BY <1>5, <1>9, <1>11, <1>12, <1>13

\* An answer about the session keeps, or purges, the owner's outbox.
LEMMA SettleKeeps ==
    ASSUME OutboxInv, NEW t \in Tabs, Settle(t)
    PROVE  OutboxInv'
<1> DEFINE saw == tab[t].saw
<1>1. UNCHANGED <<owner, flush, intents>> /\ owner' \in Owners
  BY DEF Settle, OutboxInv, OutboxTyped
<1>2. ASSUME NEW user, tab' = [tab EXCEPT ![t] = [Blank EXCEPT !.pc = "open", !.user = user]], UNCHANGED <<outbox, fate>>
      PROVE  OutboxInv'
  <2> DEFINE row == [Blank EXCEPT !.pc = "open", !.user = user]
  <2>1. TabOK(row) /\ row.call = NoIntent /\ tab' = [tab EXCEPT ![t] = row]
    BY <1>2 DEF Blank, TabOK
  <2> HIDE DEF row
  <2> QED
    BY <1>1, <1>2, <2>1, TabMoves
<1>3. ASSUME saw \in Owners, Purges(t, saw) PROVE OutboxInv'
  BY <1>1, <1>3, PurgesKeep
<1>4. ASSUME Purges(t, Nobody) PROVE OutboxInv'
  BY <1>1, <1>4, PurgesKeep DEF Owners
<1> QED
  BY <1>2, <1>3, <1>4 DEF Settle

\* After a purge the tab is the next owner's, without a call; the outbox and the
\* fates of what was in it stay as the purge's transaction left them.
LEMMA PurgedKeeps ==
    ASSUME OutboxInv, NEW t \in Tabs, Purged(t)
    PROVE  OutboxInv'
<1> DEFINE next == tab[t].saw
<1>1. next \in Owners /\ owner \in Owners
  BY DEF Purged, OutboxInv, OutboxTyped
<1>2. owner' \in Owners /\ UNCHANGED <<outbox, flush, fate, intents>>
      /\ tab' = [tab EXCEPT ![t] = [Blank EXCEPT !.pc = "open", !.user = next]]
  BY <1>1 DEF Purged, Owners
<1> DEFINE row == [Blank EXCEPT !.pc = "open", !.user = next]
<1>3. TabOK(row) /\ row.call = NoIntent /\ tab' = [tab EXCEPT ![t] = row]
  BY <1>2 DEF Blank, TabOK
<1> HIDE DEF row
<1> QED
  BY <1>2, <1>3, TabMoves

\* A tab that signs out purges its owner's outbox.
LEMMA LeaveTabKeeps ==
    ASSUME OutboxInv, NEW t \in Tabs, LeaveTab(t)
    PROVE  OutboxInv'
BY PurgesKeep DEF LeaveTab, Owners

\* A new intent has a number of its own.
LEMMA IntendsKeeps ==
    ASSUME OutboxInv, NEW t \in Tabs, NEW kind, NEW target, Intends(t, kind, target)
    PROVE  OutboxInv'
<1> USE DEF OutboxInv
<1> DEFINE i   == [kind |-> kind, target |-> target, book |-> tab[t].user, at |-> intents', edit |-> intents']
           row == [tab[t] EXCEPT !.call = i]
<1>1. /\ UNCHANGED <<owner, outbox, flush, fate>> /\ intents < MaxIntents /\ intents' = intents + 1
      /\ tab' = [tab EXCEPT ![t] = row]
  BY DEF Intends
<1>2. intents \in 0..MaxIntents /\ intents' \in 1..MaxIntents
  BY <1>1, IntentsAreBounded DEF OutboxTyped
<1>3. i.edit = intents' /\ "edit" \in DOMAIN i
  OBVIOUS
<1> HIDE DEF i
<1>4. row.call = i /\ TabOK(row)
  BY DEF OutboxTyped, TabOK
<1> HIDE DEF row
<1>5. tab'[t] = row /\ \A u \in Tabs \ {t} : tab'[u] = tab[u]
  BY <1>1 DEF OutboxTyped
<1>6. OutboxTyped'
  <2>1. DOMAIN tab' = Tabs /\ intents' \in 0..MaxIntents
    BY <1>1, <1>2, IntentsAreBounded DEF OutboxTyped
  <2> QED
    BY <1>1, <1>4, <1>5, <2>1 DEF OutboxTyped, TabOK
<1>7. WaitingInv' /\ SentInv' /\ EditsKept'
  BY <1>1, <1>2, IntentsAreBounded DEF WaitingInv, SentInv, EditsKept
<1>8. fate[intents'] = "new" /\ fate' = fate
  BY <1>1, <1>2, IntentsAreBounded DEF WaitingInv
<1>9. ASSUME NEW u \in Tabs \ {t}, tab[u].call # NoIntent
      PROVE  /\ tab'[u].call.edit \in 1..intents' /\ fate'[tab'[u].call.edit] = "new"
             /\ "edit" \in DOMAIN tab'[u].call /\ tab'[u].call.edit # intents'
  <2>1. tab[u].call.edit \in 1..intents /\ fate[tab[u].call.edit] = "new" /\ "edit" \in DOMAIN tab[u].call
    BY <1>9 DEF CallsInv
  <2> QED
    BY <1>1, <1>2, <1>5, <1>8, <2>1, IntentsAreBounded
<1>10. tab'[t].call.edit \in 1..intents' /\ fate'[tab'[t].call.edit] = "new" /\ "edit" \in DOMAIN tab'[t].call
       /\ tab'[t].call.edit = intents'
  BY <1>2, <1>3, <1>4, <1>5, <1>8
<1>11. CallsInv'
  BY <1>5, <1>9, <1>10 DEF CallsInv
<1> QED
  BY <1>6, <1>7, <1>11


\* What joins the outbox is the intent, under its own number or as the new content of
\* the creation that waits.
LEMMA JoinedHolds ==
    ASSUME NEW tray, NEW i, "edit" \in DOMAIN i, \A c \in tray : "edit" \in DOMAIN c
    PROVE  \A j \in Joined(tray, i) : "edit" \in DOMAIN j /\ (j \in tray \/ j.edit = i.edit)
<1>1. ASSUME NEW c \in tray
      PROVE  [c EXCEPT !.edit = i.edit].edit = i.edit /\ "edit" \in DOMAIN [c EXCEPT !.edit = i.edit]
  OBVIOUS
<1>2. Creation(tray, i) \subseteq tray
  BY DEF Creation
<1> SUFFICES ASSUME NEW j \in Joined(tray, i)
             PROVE  j \in tray \/ j = i \/ \E c \in tray : j = [c EXCEPT !.edit = i.edit]
  BY <1>1
<1>3. CASE i.kind = "create"
  <2>1. Joined(tray, i) = tray \union {i}
    BY <1>3 DEF Joined
  <2> QED
    BY <2>1
<1>4. CASE i.kind = "update" /\ Creation(tray, i) # {}
  <2>1. Joined(tray, i) = (tray \ Creation(tray, i)) \union {[c EXCEPT !.edit = i.edit] : c \in Creation(tray, i)}
    BY <1>4 DEF Joined
  <2> QED
    BY <1>2, <2>1
<1>5. CASE i.kind = "delete" /\ Creation(tray, i) # {}
  <2>1. Joined(tray, i) = tray \ Creation(tray, i)
    BY <1>5 DEF Joined
  <2> QED
    BY <2>1
<1>6. CASE i.kind # "create" /\ ~(i.kind \in {"update", "delete"} /\ Creation(tray, i) # {})
  <2>1. Joined(tray, i) = {c \in tray : c.target # i.target \/ (i.kind = "update" /\ c.kind = "delete")} \union {i}
    BY <1>6 DEF Joined
  <2> QED
    BY <2>1
<1> QED
  BY <1>3, <1>4, <1>5, <1>6

\* The intent of a call that got no answer joins the outbox; what it replaces there is
\* withdrawn.
LEMMA CallEndsKeeps ==
    ASSUME OutboxInv, NEW t \in Tabs, CallEnds(t)
    PROVE  OutboxInv'
<1> USE DEF OutboxInv
<1> DEFINE i   == tab[t].call
           row == [tab[t] EXCEPT !.call = NoIntent]
<1>1. i # NoIntent /\ tab' = [tab EXCEPT ![t] = row] /\ UNCHANGED <<owner, flush, intents>>
  BY DEF CallEnds
<1>2. row.call = NoIntent /\ TabOK(row)
  BY DEF OutboxTyped, TabOK
<1> HIDE DEF row
<1>3. CASE UNCHANGED <<outbox, fate>>
  BY <1>1, <1>2, <1>3, TabMoves DEF OutboxTyped
<1>4. CASE outbox' = [outbox EXCEPT ![owner] = Joined(@, i)] /\ fate' = Fates(outbox[owner], i)
  <2> DEFINE tray == outbox[owner]
             joined == Joined(tray, i)
  <2>1. i.edit \in 1..intents /\ i.edit \in 1..MaxIntents /\ fate[i.edit] = "new" /\ "edit" \in DOMAIN i
    BY <1>1, IntentsAreBounded DEF CallsInv, OutboxTyped
  <2>2. \A c \in tray : "edit" \in DOMAIN c /\ c.edit \in 1..MaxIntents /\ fate[c.edit] # "new"
    BY DEF WaitingInv, OutboxTyped
  <2>3. \A j \in joined : "edit" \in DOMAIN j /\ (j \in tray \/ j.edit = i.edit)
    BY <2>1, <2>2, JoinedHolds
  <2>4. outbox' = [outbox EXCEPT ![owner] = joined]
    BY <1>4
  <2>5. fate' = [e \in DOMAIN fate |->
                   IF e \in {c.edit : c \in tray \union {i}} \ {c.edit : c \in joined} THEN "withdrawn"
                   ELSE IF e = i.edit THEN "queued" ELSE fate[e]]
    BY <1>4 DEF Fates
  <2> HIDE DEF joined, i
  <2>6. outbox'[owner] = joined /\ \A o \in Owners \ {owner} : outbox'[o] = outbox[o]
    BY <2>4 DEF OutboxTyped
  <2>7. tab'[t] = row /\ \A u \in Tabs \ {t} : tab'[u] = tab[u]
    BY <1>1 DEF OutboxTyped
  <2>8. ASSUME NEW e \in 1..MaxIntents
        PROVE  /\ fate[e] = "new" /\ e # i.edit => fate'[e] = "new"
               /\ fate[e] # "new" => fate'[e] # "new"
               /\ fate'[i.edit] # "new"
               /\ fate'[e] = "queued" => e = i.edit \/ fate[e] = "queued"
               /\ fate'[e] = "queued" /\ (\E c \in tray \union {i} : c.edit = e) => \E c \in joined : c.edit = e
    <3>1. DOMAIN fate = 1..MaxIntents
      BY DEF OutboxTyped
    <3> QED
      BY <2>1, <2>2, <2>5, <3>1
  <2>9. OutboxTyped'
    <3>1. DOMAIN tab' = Tabs /\ DOMAIN outbox' = Owners /\ DOMAIN fate' = 1..MaxIntents
      BY <1>1, <2>4, <2>5 DEF OutboxTyped
    <3> QED
      BY <1>1, <1>2, <2>7, <3>1 DEF OutboxTyped, TabOK
  <2>10. WaitingInv'
    <3>1. ASSUME NEW e \in 1..MaxIntents, e > intents PROVE fate'[e] = "new"
      BY <2>1, <2>8, <3>1, IntentsAreBounded DEF WaitingInv, OutboxTyped
    <3>2. ASSUME NEW o \in Owners, NEW j \in outbox'[o]
          PROVE  "edit" \in DOMAIN j /\ j.edit \in 1..MaxIntents /\ fate'[j.edit] # "new"
      BY <2>1, <2>2, <2>3, <2>6, <2>8, <3>2 DEF WaitingInv
    <3> QED
      BY <1>1, <3>1, <3>2 DEF WaitingInv
  <2>11. CallsInv'
    <3>1. ASSUME NEW u \in Tabs \ {t}, tab[u].call # NoIntent
          PROVE  /\ tab[u].call.edit \in 1..intents /\ fate'[tab[u].call.edit] = "new"
                 /\ "edit" \in DOMAIN tab[u].call
      <4>1. tab[u].call.edit \in 1..intents /\ fate[tab[u].call.edit] = "new" /\ "edit" \in DOMAIN tab[u].call
            /\ tab[u].call.edit # i.edit
        BY <1>1, <3>1 DEF CallsInv, i
      <4>2. tab[u].call.edit \in 1..MaxIntents
        BY <4>1, IntentsAreBounded DEF OutboxTyped
      <4> QED
        BY <2>8, <4>1, <4>2
    <3> QED
      BY <1>1, <1>2, <2>7, <3>1 DEF CallsInv
  <2>12. SentInv'
    <3> SUFFICES ASSUME NEW u \in Tabs, flush[u].sent # NoIntent, flush[u].result \notin {"denied", "lost"}
                 PROVE  flush[u].sent.edit \in 1..MaxIntents /\ fate'[flush[u].sent.edit] \notin {"new", "queued"}
      BY <1>1 DEF SentInv
    <3>1. flush[u].sent.edit \in 1..MaxIntents /\ fate[flush[u].sent.edit] \notin {"new", "queued"}
      BY DEF SentInv
    <3> QED
      BY <2>1, <2>8, <3>1
  <2>13. EditsKept'
    <3> SUFFICES ASSUME NEW e \in 1..MaxIntents, fate'[e] = "queued"
                 PROVE  \E o \in Owners : \E j \in outbox'[o] : j.edit = e
      BY <2>9 DEF EditsKept, OutboxTyped
    <3>1. owner \in Owners
      BY DEF OutboxTyped
    <3>2. CASE e = i.edit
      BY <2>6, <2>8, <3>1, <3>2
    <3>3. CASE fate[e] = "queued"
      <4>1. PICK o \in Owners : \E j \in outbox[o] : j.edit = e
        BY <3>3 DEF EditsKept, OutboxTyped
      <4> QED
        BY <2>6, <2>8, <3>1, <4>1
    <3> QED
      BY <2>8, <3>2, <3>3
  <2> QED
    BY <2>9, <2>10, <2>11, <2>12, <2>13
<1> QED
  BY <1>3, <1>4 DEF CallEnds

\* One flush goes on; some intents may have been dealt with.
LEMMA FlushMoves ==
    ASSUME OutboxInv, NEW t \in Tabs, NEW f, flush' = [flush EXCEPT ![t] = f],
           {"todo", "sent", "result"} \subseteq DOMAIN f, UNCHANGED <<tab, owner, outbox, intents>>,
           DOMAIN fate' = DOMAIN fate,
           \A e \in 1..MaxIntents : fate'[e] = fate[e] \/ (fate[e] # "new" /\ fate'[e] = "dealt"),
           f.sent # NoIntent /\ f.result \notin {"denied", "lost"} =>
             f.sent.edit \in 1..MaxIntents /\ fate'[f.sent.edit] \notin {"new", "queued"}
    PROVE  OutboxInv'
<1> USE DEF OutboxInv
<1>1. flush'[t] = f /\ \A u \in Tabs \ {t} : flush'[u] = flush[u]
  BY DEF OutboxTyped
<1>2. OutboxTyped'
  <2>1. DOMAIN flush' = Tabs
    BY DEF OutboxTyped
  <2> QED
    BY <1>1, <2>1 DEF OutboxTyped
<1>3. WaitingInv'
  BY DEF WaitingInv
<1>4. CallsInv'
  <2>1. \A e \in 1..intents : e \in 1..MaxIntents
    BY IntentsAreBounded DEF OutboxTyped
  <2> QED
    BY <2>1 DEF CallsInv
<1>5. SentInv'
  BY <1>1 DEF SentInv
<1>6. EditsKept'
  BY DEF EditsKept, OutboxTyped
<1> QED
  BY <1>2, <1>3, <1>4, <1>5, <1>6

\* A replay takes the first change of the outbox, which stays there.
LEMMA BeginKeeps ==
    ASSUME OutboxInv, NEW t \in Tabs, Begin(t)
    PROVE  OutboxInv'
<1>1. PICK todo : flush' = [flush EXCEPT ![t] = [Idle EXCEPT !.owner = owner, !.token = cookie, !.todo = todo]]
  BY DEF Begin
<1> DEFINE f == [Idle EXCEPT !.owner = owner, !.token = cookie, !.todo = todo]
<1>2. f.sent = NoIntent /\ {"todo", "sent", "result"} \subseteq DOMAIN f
  BY DEF Idle
<1>3. UNCHANGED <<tab, owner, outbox, intents, fate>>
  BY DEF Begin
<1> HIDE DEF f
<1>4. flush' = [flush EXCEPT ![t] = f]
  BY <1>1 DEF f
<1> QED
  BY <1>2, <1>3, <1>4, FlushMoves

\* What the service dealt with is on record before its answer arrives.
LEMMA SendKeeps ==
    ASSUME OutboxInv, NEW t \in Tabs, Send(t)
    PROVE  OutboxInv'
<1>1. flush[t].sent = NoIntent /\ UNCHANGED <<tab, owner, outbox, intents>>
  BY DEF Send
<1>2. {"todo", "sent", "result"} \subseteq DOMAIN flush[t]
  BY DEF OutboxInv, OutboxTyped
<1>3. CASE flush' = [flush EXCEPT ![t] = Idle] /\ UNCHANGED fate
  BY <1>1, <1>3, IdleSendsNothing, FlushMoves
<1>4. CASE flush' = [flush EXCEPT ![t].todo = Tail(@)] /\ UNCHANGED fate
  <2> DEFINE f == [flush[t] EXCEPT !.todo = Tail(flush[t].todo)]
  <2>1. flush' = [flush EXCEPT ![t] = f]
    BY <1>4
  <2>2. f.sent = NoIntent /\ {"todo", "sent", "result"} \subseteq DOMAIN f
    BY <1>1, <1>2
  <2> HIDE DEF f
  <2> QED
    BY <1>1, <1>4, <2>1, <2>2, FlushMoves
<1>5. ASSUME NEW i \in outbox[owner], NEW result \in {"ok", "refused", "denied", "lost"}, NEW lands \in BOOLEAN,
             flush' = [flush EXCEPT ![t].sent = i, ![t].result = result], fate' = Dealt(i, result, lands)
      PROVE  OutboxInv'
  <2> DEFINE f == [flush[t] EXCEPT !.sent = i, !.result = result]
  <2>1. flush' = [flush EXCEPT ![t] = f]
    BY <1>2, <1>5 DEF OutboxInv, OutboxTyped
  <2>2. f.sent = i /\ f.result = result /\ {"todo", "sent", "result"} \subseteq DOMAIN f
    BY <1>2
  <2>3. i.edit \in 1..MaxIntents /\ fate[i.edit] # "new" /\ DOMAIN fate = 1..MaxIntents
    BY DEF OutboxInv, OutboxTyped, WaitingInv
  <2>4. fate' = fate \/ fate' = [fate EXCEPT ![i.edit] = "dealt"]
    BY <1>5 DEF Dealt
  <2>5. result \in {"ok", "refused"} => fate' = [fate EXCEPT ![i.edit] = "dealt"]
    BY <1>5 DEF Dealt
  <2> HIDE DEF f
  <2> QED
    BY <1>1, <2>1, <2>2, <2>3, <2>4, <2>5, FlushMoves
<1> QED
  <2> DEFINE waiting == {i \in outbox[owner] : Key(i) = Head(flush[t].todo)}
  <2>1. ASSUME NEW i \in waiting, NEW result \in {"ok", "refused", "denied", "lost"},
               flush' = [flush EXCEPT ![t].sent = i, ![t].result = result],
               fate' = Dealt(i, result, marks' # marks)
        PROVE  OutboxInv'
    BY <1>5, <2>1
  <2> QED
    BY <1>3, <1>4, <2>1 DEF Send

\* What leaves the outbox was dealt with.
LEMMA ReceiveKeeps ==
    ASSUME OutboxInv, NEW t \in Tabs, Receive(t)
    PROVE  OutboxInv'
<1> USE DEF OutboxInv
<1> DEFINE f == flush[t]
<1>1. f.sent # NoIntent /\ UNCHANGED <<tab, owner, intents, fate>>
  BY DEF Receive
<1>2. CASE owner # f.owner \/ f.result \in {"denied", "lost"}
  <2>1. flush' = [flush EXCEPT ![t] = Idle] /\ UNCHANGED outbox
    BY <1>2 DEF Receive
  <2> QED
    BY <1>1, <2>1, IdleSendsNothing, FlushMoves
<1>3. CASE ~(owner # f.owner \/ f.result \in {"denied", "lost"})
  <2> DEFINE todo == IF \E c \in outbox'[owner] : Key(c) = Head(f.todo) THEN f.todo ELSE Tail(f.todo)
             g    == [f EXCEPT !.sent = NoIntent, !.result = "none", !.todo = todo]
  <2>1. outbox' = [outbox EXCEPT ![owner] = @ \ {f.sent}] /\ flush' = [flush EXCEPT ![t] = g]
    BY <1>3 DEF Receive, Removed
  <2>2. g.sent = NoIntent /\ {"todo", "sent", "result"} \subseteq DOMAIN g
    BY DEF OutboxTyped
  <2> HIDE DEF g
  <2>3. flush'[t] = g /\ \A u \in Tabs \ {t} : flush'[u] = flush[u]
    BY <2>1 DEF OutboxTyped
  <2>4. outbox'[owner] = outbox[owner] \ {f.sent} /\ \A o \in Owners \ {owner} : outbox'[o] = outbox[o]
    BY <2>1 DEF OutboxTyped
  <2>5. OutboxTyped'
    <3>1. DOMAIN flush' = Tabs /\ DOMAIN outbox' = Owners
      BY <2>1 DEF OutboxTyped
    <3> QED
      BY <1>1, <2>2, <2>3, <3>1 DEF OutboxTyped
  <2>6. WaitingInv' /\ CallsInv' /\ SentInv'
    BY <1>1, <2>2, <2>3, <2>4 DEF WaitingInv, CallsInv, SentInv
  <2>7. EditsKept'
    <3> SUFFICES ASSUME NEW e \in 1..MaxIntents, fate[e] = "queued"
                 PROVE  \E o \in Owners : \E j \in outbox'[o] : j.edit = e
      BY <1>1, <2>5 DEF EditsKept, OutboxTyped
    <3>1. f.sent.edit # e
      BY <1>1, <1>3 DEF SentInv
    <3>2. PICK o \in Owners : \E j \in outbox[o] : j.edit = e
      BY DEF EditsKept, OutboxTyped
    <3> QED
      BY <2>4, <3>1, <3>2
  <2> QED
    BY <2>5, <2>6, <2>7
<1> QED
  BY <1>2, <1>3

\* Steps of the accounts leave the outbox alone.
LEMMA OutboxRest ==
    ASSUME OutboxInv, UNCHANGED reading
    PROVE  OutboxInv'
BY DEF reading, OutboxInv, OutboxTyped, WaitingInv, CallsInv, SentInv, EditsKept

\* Every step of the pages and their outbox keeps its invariant.
LEMMA OutboxKeeps ==
    ASSUME OutboxInv, Marking
    PROVE  OutboxInv'
<1>1. ASSUME NEW t \in Tabs, Change(t) PROVE OutboxInv'
  BY <1>1, IntendsKeeps DEF Change
<1> QED
  BY <1>1, LoadKeeps, SettleKeeps, PurgedKeeps, LeaveTabKeeps, CallEndsKeeps, BeginKeeps, SendKeeps, ReceiveKeeps
     DEF Marking

\* The outbox' invariant holds at first.
LEMMA OutboxInit ==
    ASSUME Init PROVE OutboxInv
<1>1. /\ tab = [t \in Tabs |-> Blank] /\ owner = Nobody /\ outbox = [o \in Owners |-> {}]
      /\ flush = [t \in Tabs |-> Idle] /\ fate = [e \in 1..MaxIntents |-> "new"] /\ intents \in {0, MaxIntents}
  BY DEF Init, ReadingInit
<1>2. TabOK(Blank) /\ Blank.call = NoIntent
  BY DEF Blank, TabOK
<1>3. OutboxTyped
  BY <1>1, <1>2, IdleSendsNothing, IntentsAreBounded DEF OutboxTyped, TabOK, Owners
<1>4. WaitingInv /\ CallsInv /\ SentInv /\ EditsKept
  BY <1>1, <1>2, IdleSendsNothing DEF WaitingInv, CallsInv, SentInv, EditsKept
<1> QED
  BY <1>3, <1>4 DEF OutboxInv

-----------------------------------------------------------------------------
(* The theorems *)

\* A step of the pages leaves the sign-in alone, unless it signs out.
LEMMA MarkingIsApart ==
    ASSUME Marking PROVE Logout \/ UNCHANGED account
BY DEF Marking, Load, Settle, Purged, LeaveTab, Change, Intends, CallEnds, Begin, Send, Receive

\* The whole invariant holds at first.
LEMMA InitHolds == Init => IInv
BY SettingsInit, AccountsInit, OutboxInit DEF Init, IInv

\* Every step keeps the whole invariant.
LEMMA StepKeeps ==
    ASSUME IInv, [Next]_vars
    PROVE  IInv' /\ CallStep
<1> USE DEF IInv
<1>1. CASE (SignIn \/ Logout) /\ UNCHANGED <<tenant, events, reading>>
  BY <1>1, AccountsKeep, SettingsRest, OutboxRest
<1>2. CASE (Requests \/ Background) /\ UNCHANGED <<account, reading>>
  BY <1>2, AccountsKeep, SettingsKeep, OutboxRest
<1>3. CASE Marking /\ UNCHANGED <<tenant, events>>
  BY <1>3, AccountsKeep, MarkingIsApart, SettingsRest, OutboxKeeps
<1>4. CASE UNCHANGED vars
  BY <1>4, AccountsKeep, SettingsRest, OutboxRest DEF vars
<1> QED
  BY <1>1, <1>2, <1>3, <1>4 DEF Next

\* The three invariants together are inductive.
THEOREM AccountsInductive == Spec => []IInv
BY InitHolds, StepKeeps, PTL DEF Spec

\* A ready setting has passed with the secret it selects, a rotation of the master key
\* loses no credential, a person has one account however two first logins cross, and a
\* sign-in that fails signs nobody out.
THEOREM Accounts == Spec => []AccountsHold
<1>1. IInv => AccountsHold
  BY DEF IInv, SettingsInv, AccountsInv, AccountsHold
<1> QED
  BY <1>1, AccountsInductive, PTL

\* A worker or a question goes to the provider only with the secret that passed the
\* validation of the setting in force.
THEOREM ProvenCalls == Spec => CallsAreProven
<1>1. ASSUME IInv, [Next]_vars
      PROVE  [/\ \A j \in Jobs : job[j].secret = 0 /\ job'[j].secret # 0 =>
                   Ready("extraction") /\ job'[j].secret = setting["extraction"].passed
              /\ ask.pc # "calling" /\ ask'.pc = "calling" =>
                   Ready("synthesis") /\ ask.secret = setting["synthesis"].passed]_tenant
  BY <1>1, StepKeeps DEF CallStep
<1> QED
  BY <1>1, AccountsInductive, PTL DEF Spec, CallsAreProven

\* A change that waits in an outbox stays there until it was dealt with, or withdrawn.
THEOREM KeptEdits == Spec => []EditsKept
<1>1. IInv => EditsKept
  BY DEF IInv, OutboxInv
<1> QED
  BY <1>1, AccountsInductive, PTL

-----------------------------------------------------------------------------
(* PositionSync: the inductive invariant *)

\* Of row s and reports l: a request is of a pass that was, its base was read
\* from the row, and its positions are covered by what was reported.
BodyOK(s, l, b) ==
  /\ b \in Body /\ b.seq > 0
  /\ b.epoch <= s.epoch /\ b.base <= s.version
  /\ b.far <= l[b.epoch] /\ b.pos <= l[b.epoch]

ReportOK(l, r) == r \in Report /\ r.pos <= l[r.epoch]

Acceptances == [status : {200}, mark : Positions, epoch : Epochs, version : Nat, applied : BOOLEAN]

\* Only a request of an earlier pass is refused; what was accepted is counted.
ReplyOK(s, b, r) ==
  \/ r = None
  \/ r = [status |-> 409] /\ b.epoch < s.epoch
  \/ /\ r \in Acceptances
     /\ r.epoch = b.epoch /\ r.version <= s.version /\ b.far <= r.mark
     /\ r.epoch = s.epoch => r.mark <= s.mark

DeliveryOK(s, l, q) ==
  /\ q \in Delivery
  /\ BodyOK(s, l, q.body) /\ ReplyOK(s, q.body, q.reply)
  /\ q.fresh => q.mine
  /\ q.mine => q.kind = "live"
  /\ q.kind = "live" =>
       /\ ReportOK(l, q.report)
       /\ q.report.epoch = q.body.epoch /\ q.report.pos <= q.body.far
       /\ q.finish <=> q.report.pos = Chapters

\* What is left of a delivery's page: a fresh one is of the page's epoch.
Ours(p, q) ==
  /\ q.mine => p.pc \in {"open", "resetting"}
  /\ q.fresh => p.pc = "open" /\ q.report.epoch = p.epoch

ReaderOK(s, l, p) ==
  /\ p \in Reader
  /\ p.epoch <= s.epoch /\ p.version <= s.version
  /\ p.pending # None => ReportOK(l, p.pending) /\ p.pending.epoch = p.epoch /\ p.pending.pos < Chapters
  /\ p.finish # None => ReportOK(l, p.finish) /\ p.finish.epoch = p.epoch /\ p.finish.pos = Chapters
  /\ p.busy # None => /\ DeliveryOK(s, l, p.busy) /\ Ours(p, p.busy)
                      /\ p.busy.kind = "live" /\ p.busy.report.epoch < s.epoch
  /\ p.pc = "resetting" => p.pending = None /\ p.finish = None

LineOK(s, l, p, ln) ==
  /\ ln \in Seq(Delivery)
  /\ \A i \in 1..Len(ln) : DeliveryOK(s, l, ln[i]) /\ Ours(p, ln[i])

Clocks == [epoch : Epochs, seq : Nat, version : Nat]

ClockOK(s, ln, c) ==
  /\ c # None => c \in Clocks /\ c.version <= s.version
  /\ ln = <<>> => c = None

DeviceOK(s, l, p, ln, c, b) ==
  /\ p \in {Away, Gone} \/ ReaderOK(s, l, p)
  /\ LineOK(s, l, p, ln) /\ ClockOK(s, ln, c)
  /\ b = None \/ BodyOK(s, l, b)

RowOK(s, l) ==
  /\ s \in [hosted : Hosting, epoch : Epochs, version : Nat, mark : Positions, cur : Positions,
            high : Positions, by : Devices \cup {0}, seq : Nat]
  /\ s.cur <= s.high \/ ~s.hosted
  /\ (s.by = 0) <=> (s.seq = 0)
  /\ s.mark <= l[s.epoch]

\* The affirmation of the row's pass: in the outbox, waiting, on its way.
Full(s, b) == b # None /\ b.epoch = s.epoch /\ b.far = Chapters
Carrying(s, q) == q.fresh /\ q.finish /\ q.report.epoch = s.epoch
Carries(s, ln) == \E i \in 1..Len(ln) : Carrying(s, ln[i])
Affirms(s, p) == p.pc \in {"open", "resetting"} /\ p.finish # None /\ p.finish.epoch = s.epoch

HeldIn(s, p, ln, b) == Full(s, b) \/ Affirms(s, p) \/ Carries(s, ln)

\* What was affirmed is of a pass that was, and in the row's it is counted or held.
AffirmedOK(s, p, ln, b, a, ex) ==
  /\ a # None => a \in [epoch : Epochs] /\ a.epoch <= s.epoch
  /\ a # None /\ a.epoch = s.epoch /\ ~ex => s.mark = Chapters \/ HeldIn(s, p, ln, b)

Domains ==
  /\ page = [d \in Devices |-> page[d]] /\ line = [d \in Devices |-> line[d]]
  /\ clock = [d \in Devices |-> clock[d]] /\ box = [d \in Devices |-> box[d]]
  /\ affirmed = [d \in Devices |-> affirmed[d]]

Smalls ==
  /\ flushes \in [Devices -> {"idle", "wait", "sending"}]
  /\ seq \in [Devices -> Nat] /\ drain \in [Devices -> BOOLEAN] /\ sync \in [Devices -> BOOLEAN]
  /\ failures \in 0..MaxFailures /\ {label, read} \subseteq [Epochs -> Positions]
  /\ excused \subseteq Devices

NetOK == \A o \in net : o.by \in Devices /\ BodyOK(srv, label, o.body)

SyncInv ==
  /\ Domains /\ Smalls /\ NetOK /\ RowOK(srv, label)
  /\ \A d \in Devices : DeviceOK(srv, label, page[d], line[d], clock[d], box[d])
  /\ \A d \in Devices : AffirmedOK(srv, page[d], line[d], box[d], affirmed[d], d \in excused)

-----------------------------------------------------------------------------
(* PositionSync: greatest numbers, and the row of the server *)

LEMMA GreatestOf == ASSUME NEW S \in SUBSET Nat, NEW n \in Nat, \A x \in S : x <= n, S # {}
                    PROVE  Max(S) \in S /\ \A x \in S : x <= Max(S)
<1> DEFINE T == {n - x : x \in S}
<1>1. \A x \in S : x \in Nat /\ n - x \in Nat /\ n - x \in T
  OBVIOUS
<1>2. T \subseteq Nat /\ T # {}
  BY <1>1
<1>3. PICK y \in T : \A z \in T : y <= z
  BY <1>2, LeastNat
<1>4. PICK m \in S : y = n - m
  BY <1>3
<1>5. ASSUME NEW x \in S
      PROVE  m >= x
  <2>1. n - m <= n - x
    BY <1>1, <1>3, <1>4
  <2> QED
    BY <1>1, <2>1
<1> QED
  BY <1>5 DEF Max

\* The greater of two numbers.
LEMMA GreaterOf == ASSUME NEW a \in Nat, NEW b \in Nat
                   PROVE  /\ Max({a, b}) \in Nat /\ Max({a, b}) \in {a, b}
                          /\ a <= Max({a, b}) /\ b <= Max({a, b})
<1>1. \A x \in {a, b} : x <= a + b
  OBVIOUS
<1> QED
  BY <1>1, GreatestOf, a + b \in Nat, {a, b} \in SUBSET Nat, {a, b} # {}

\* The greatest of three numbers.
LEMMA GreatestOfThree == ASSUME NEW a \in Nat, NEW b \in Nat, NEW c \in Nat
                   PROVE  /\ Max({a, b, c}) \in Nat /\ Max({a, b, c}) \in {a, b, c}
                          /\ a <= Max({a, b, c}) /\ b <= Max({a, b, c}) /\ c <= Max({a, b, c})
<1>1. \A x \in {a, b, c} : x <= a + b + c
  OBVIOUS
<1> QED
  BY <1>1, GreatestOf, a + b + c \in Nat, {a, b, c} \in SUBSET Nat, {a, b, c} # {}

\* Positions and epochs are natural numbers.
LEMMA PositionsAreNat == /\ Positions \subseteq Nat /\ Chapters \in Positions /\ 0 \in Positions /\ Chapters > 0
                         /\ Epochs \subseteq Nat /\ 0 \in Epochs /\ Chapters - 1 \in Positions
                         /\ \A x \in Positions : x <= Chapters
BY ChaptersAssumption, BoundsAssumption DEF Positions, Epochs

\* What the row and the reports do while a pass lasts, and from one to the next.
Grown(s, l, s2, l2) ==
  /\ l \in [Epochs -> Positions] /\ l2 \in [Epochs -> Positions] /\ \A e \in Epochs : l[e] <= l2[e]
  /\ s.epoch \in Epochs /\ s2.epoch \in Epochs /\ s.epoch <= s2.epoch
  /\ s.version \in Nat /\ s2.version \in Nat /\ s.version <= s2.version
  /\ s.mark \in Positions /\ s2.mark \in Positions
  /\ s2.epoch = s.epoch => s.mark <= s2.mark

\* What was within the row and the reports is within the grown ones.
LEMMA GrownFacts ==
  ASSUME NEW s, NEW l, NEW s2, NEW l2, Grown(s, l, s2, l2)
  PROVE  /\ \A e \in Epochs : \A x \in Positions : x <= l[e] => x <= l2[e]
         /\ \A x \in Epochs : (x <= s.epoch => x <= s2.epoch) /\ (x < s.epoch => x < s2.epoch)
         /\ \A x \in Nat : x <= s.version => x <= s2.version
         /\ \A x \in Epochs : x <= s.epoch /\ x = s2.epoch => x = s.epoch
         /\ \A x \in Positions : x <= s.mark /\ s2.epoch = s.epoch => x <= s2.mark
<1>1. ASSUME NEW e \in Epochs, NEW x \in Positions, x <= l[e]
      PROVE  x <= l2[e]
  <2>1. l[e] \in Positions /\ l2[e] \in Positions /\ l[e] <= l2[e]
    BY DEF Grown
  <2> QED
    BY <1>1, <2>1 DEF Positions
<1>2. s.epoch \in Nat /\ s2.epoch \in Nat /\ s.epoch <= s2.epoch
  BY DEF Grown, Epochs
<1>3. s.version \in Nat /\ s2.version \in Nat /\ s.version <= s2.version
  BY DEF Grown
<1>4. s.mark \in Nat /\ s2.mark \in Nat /\ (s2.epoch = s.epoch => s.mark <= s2.mark)
  BY DEF Grown, Positions
<1>5. \A x \in Epochs : (x <= s.epoch => x <= s2.epoch) /\ (x < s.epoch => x < s2.epoch)
  BY <1>2 DEF Epochs
<1>6. \A x \in Epochs : x <= s.epoch /\ x = s2.epoch => x = s.epoch
  BY <1>2 DEF Epochs
<1>7. \A x \in Nat : x <= s.version => x <= s2.version
  BY <1>3
<1>8. \A x \in Positions : x <= s.mark /\ s2.epoch = s.epoch => x <= s2.mark
  BY <1>4 DEF Positions
<1> QED
  BY <1>1, <1>5, <1>6, <1>7, <1>8

\* A request stays one while the row and the reports grow.
LEMMA BodyGrows ==
  ASSUME NEW s, NEW l, NEW s2, NEW l2, Grown(s, l, s2, l2), NEW b, BodyOK(s, l, b)
  PROVE  BodyOK(s2, l2, b)
<1>1. /\ b.pos \in Positions /\ b.far \in Positions /\ b.epoch \in Epochs /\ b.base \in Nat
  BY DEF BodyOK, Body
<1> QED
  BY <1>1, GrownFacts DEF BodyOK

\* A report stays one.
LEMMA ReportGrows ==
  ASSUME NEW s, NEW l, NEW s2, NEW l2, Grown(s, l, s2, l2), NEW r, ReportOK(l, r)
  PROVE  ReportOK(l2, r)
<1>1. r.pos \in Positions /\ r.epoch \in Epochs
  BY DEF ReportOK, Report
<1> QED
  BY <1>1, GrownFacts DEF ReportOK

\* An answer stays true of the row.
LEMMA ReplyGrows ==
  ASSUME NEW s, NEW l, NEW s2, NEW l2, Grown(s, l, s2, l2), NEW b, BodyOK(s, l, b), NEW r, ReplyOK(s, b, r)
  PROVE  ReplyOK(s2, b, r)
<1>1. b.epoch \in Epochs /\ b.epoch <= s.epoch
  BY DEF BodyOK, Body
<1>2. CASE r = None
  BY <1>2 DEF ReplyOK
<1>3. CASE r = [status |-> 409] /\ b.epoch < s.epoch
  BY <1>1, <1>3, GrownFacts DEF ReplyOK
<1>4. CASE r \in Acceptances /\ r.epoch = b.epoch /\ r.version <= s.version /\ b.far <= r.mark
           /\ (r.epoch = s.epoch => r.mark <= s.mark)
  <2>1. r.mark \in Positions /\ r.version \in Nat
    BY <1>4 DEF Acceptances
  <2> QED
    BY <1>1, <1>4, <2>1, GrownFacts DEF ReplyOK
<1> QED
  BY <1>2, <1>3, <1>4 DEF ReplyOK

\* A delivery stays one.
LEMMA DeliveryGrows ==
  ASSUME NEW s, NEW l, NEW s2, NEW l2, Grown(s, l, s2, l2), NEW q, DeliveryOK(s, l, q)
  PROVE  DeliveryOK(s2, l2, q)
BY BodyGrows, ReportGrows, ReplyGrows DEF DeliveryOK

\* A reader page stays one.
LEMMA ReaderGrows ==
  ASSUME NEW s, NEW l, NEW s2, NEW l2, Grown(s, l, s2, l2), NEW p, ReaderOK(s, l, p)
  PROVE  ReaderOK(s2, l2, p)
<1>1. p.epoch \in Epochs /\ p.version \in Nat /\ p.epoch <= s.epoch /\ p.version <= s.version
  BY DEF ReaderOK, Reader
<1>2. p.busy # None => DeliveryOK(s2, l2, p.busy)
  BY DeliveryGrows DEF ReaderOK
<1>3. p.busy # None => p.busy.report.epoch < s2.epoch
  <2>1. p.busy # None => p.busy.report.epoch \in Epochs /\ p.busy.report.epoch < s.epoch
    BY DEF ReaderOK, DeliveryOK, ReportOK, Report
  <2> QED
    BY <2>1, GrownFacts
<1>4. /\ p.pending # None => ReportOK(l2, p.pending)
      /\ p.finish # None => ReportOK(l2, p.finish)
  BY ReportGrows DEF ReaderOK
<1>5. p.epoch <= s2.epoch /\ p.version <= s2.version
  BY <1>1, GrownFacts
<1> QED
  BY <1>5, <1>2, <1>3, <1>4 DEF ReaderOK

\* What is true of a device stays true.
LEMMA DeviceGrows ==
  ASSUME NEW s, NEW l, NEW s2, NEW l2, Grown(s, l, s2, l2),
         NEW p, NEW ln, NEW c, NEW b, DeviceOK(s, l, p, ln, c, b)
  PROVE  DeviceOK(s2, l2, p, ln, c, b)
<1>1. p \in {Away, Gone} \/ ReaderOK(s2, l2, p)
  BY ReaderGrows DEF DeviceOK
<1>2. LineOK(s2, l2, p, ln)
  BY DeliveryGrows DEF DeviceOK, LineOK
<1>3. ClockOK(s2, ln, c)
  BY DEF DeviceOK, ClockOK, Clocks, Grown
<1>4. b = None \/ BodyOK(s2, l2, b)
  BY BodyGrows DEF DeviceOK
<1> QED
  BY <1>1, <1>2, <1>3, <1>4 DEF DeviceOK

Rows == [hosted : Hosting, epoch : Epochs, version : Nat, mark : Positions, cur : Positions,
         high : Positions, by : Devices \cup {0}, seq : Nat]

\* A row of the same pass that counts no less has grown.
LEMMA RowGrows ==
  ASSUME NEW s, NEW l, NEW s2, RowOK(s, l), RowOK(s2, l), l \in [Epochs -> Positions],
         s2.epoch = s.epoch, s.version <= s2.version, s.mark <= s2.mark
  PROVE  Grown(s, l, s2, l)
<1>1. /\ s.epoch \in Epochs /\ s.version \in Nat /\ s.mark \in Positions
      /\ s2.epoch \in Epochs /\ s2.version \in Nat /\ s2.mark \in Positions
  BY DEF RowOK
<1>2. \A e \in Epochs : l[e] \in Nat /\ s.epoch \in Nat
  BY <1>1, PositionsAreNat
<1> QED
  BY <1>1, <1>2 DEF Grown

\* A request that the row accepts is counted in it.
LEMMA UpdatedOK ==
  ASSUME NEW s, NEW l, RowOK(s, l), l \in [Epochs -> Positions], NEW d \in Devices, NEW b, BodyOK(s, l, b),
         Accepts(s, b)
  PROVE  /\ RowOK(Updated(s, d, b), l) /\ Updated(s, d, b).epoch = s.epoch
         /\ s.version <= Updated(s, d, b).version /\ s.mark <= Updated(s, d, b).mark
         /\ b.far <= Updated(s, d, b).mark
<1> DEFINE n == Updated(s, d, b)
<1>1. /\ s \in Rows /\ (s.cur <= s.high \/ ~s.hosted) /\ (s.by = 0 <=> s.seq = 0) /\ s.mark <= l[s.epoch]
      /\ s.hosted \in BOOLEAN
  BY HostingAssumption DEF RowOK, Rows
<1>2. /\ b.pos \in Positions /\ b.far \in Positions /\ b.epoch = s.epoch /\ b.base \in Nat /\ b.seq \in Nat
      /\ b.seq > 0 /\ b.far <= l[s.epoch] /\ b.pos <= l[s.epoch] /\ (s.hosted => b.base <= s.version)
  BY DEF BodyOK, Body, Accepts
<1>3. d # 0 /\ d \in Nat
  BY DevicesAssumption
<1>4. /\ s.mark \in Positions /\ s.cur \in Positions /\ s.high \in Positions /\ s.version \in Nat
      /\ l[s.epoch] \in Positions
  BY <1>1 DEF Rows
<1>5. Positions \subseteq Nat
  BY PositionsAreNat
<1>6. CASE ~Applies(s, d, b)
  <2>1. n = s
    BY <1>6 DEF Updated
  <2>2. ~(b.far > s.mark)
    BY <1>6 DEF Applies, Advances
  <2>3. b.far <= s.mark /\ s.mark <= s.mark /\ s.version <= s.version
    <3>1. s.mark \in Nat /\ b.far \in Nat /\ s.version \in Nat
      BY <1>2, <1>4, <1>5
    <3> QED
      BY <2>2, <3>1
  <2> HIDE DEF n
  <2> QED
    BY <1>1, <2>1, <2>3 DEF n
<1>7. CASE Applies(s, d, b) /\ s.hosted
  <2> DEFINE mark == Max({s.mark, b.far})
             high == Max({s.high, b.pos})
             cur == IF Stale(s, b) THEN Max({s.cur, b.pos}) ELSE b.pos
  <2>1. mark \in Positions /\ mark <= l[s.epoch] /\ s.mark <= mark /\ b.far <= mark
    <3>1. s.mark \in Nat /\ b.far \in Nat
      BY <1>2, <1>4, <1>5
    <3>2. mark \in {s.mark, b.far} /\ s.mark <= mark /\ b.far <= mark
      BY <3>1, GreaterOf
    <3> HIDE DEF mark
    <3> QED
      BY <1>1, <1>2, <1>4, <3>2
  <2>2. high \in Positions /\ s.high <= high /\ b.pos <= high
    <3>1. s.high \in Nat /\ b.pos \in Nat
      BY <1>2, <1>4, <1>5
    <3>2. high \in {s.high, b.pos} /\ s.high <= high /\ b.pos <= high
      BY <3>1, GreaterOf
    <3> HIDE DEF high
    <3> QED
      BY <1>2, <1>4, <3>2
  <2>3. cur \in Positions /\ cur <= high
    <3>1. s.cur \in Nat /\ b.pos \in Nat /\ s.high \in Nat
      BY <1>2, <1>4, <1>5
    <3>2. Max({s.cur, b.pos}) \in {s.cur, b.pos}
      BY <3>1, GreaterOf
    <3> HIDE DEF high
    <3>3. cur \in {s.cur, b.pos}
      BY <3>2
    <3> HIDE DEF cur
    <3>4. s.cur <= high
      BY <1>1, <1>5, <1>7, <2>2, <3>1
    <3> QED
      BY <1>2, <1>4, <2>2, <3>3, <3>4
  <2>4. n = [s EXCEPT !.mark = mark, !.high = high, !.version = @ + 1, !.cur = cur, !.by = d, !.seq = b.seq]
    BY <1>7 DEF Updated
  <2> HIDE DEF mark, high, cur
  <2>5. s = [hosted |-> s.hosted, epoch |-> s.epoch, version |-> s.version, mark |-> s.mark, cur |-> s.cur,
             high |-> s.high, by |-> s.by, seq |-> s.seq]
    BY <1>1 DEF Rows
  <2>6. n = [hosted |-> s.hosted, epoch |-> s.epoch, version |-> s.version + 1, mark |-> mark, cur |-> cur,
             high |-> high, by |-> d, seq |-> b.seq]
    BY <2>4, <2>5
  <2>7. n \in Rows
    BY <1>1, <1>2, <2>1, <2>2, <2>3, <2>6 DEF Rows
  <2>8. /\ n.mark = mark /\ n.epoch = s.epoch /\ n.version = s.version + 1 /\ n.cur = cur /\ n.high = high
        /\ n.by = d /\ n.seq = b.seq
    BY <2>6
  <2> HIDE DEF n
  <2>9. n.by # 0 /\ n.seq # 0 /\ n.cur <= n.high /\ n.mark <= l[n.epoch]
    BY <1>2, <1>3, <2>1, <2>3, <2>8
  <2>10. RowOK(n, l)
    BY <2>7, <2>9 DEF RowOK, Rows
  <2>11. s.version <= n.version
    BY <1>4, <2>8
  <2> QED
    BY <2>1, <2>8, <2>10, <2>11 DEF n
<1>8. CASE Applies(s, d, b) /\ ~s.hosted
  <2> DEFINE mark == Max({s.mark, b.far, b.pos})
  <2>1. mark \in Positions /\ mark <= l[s.epoch] /\ s.mark <= mark /\ b.far <= mark
    <3>1. s.mark \in Nat /\ b.far \in Nat /\ b.pos \in Nat
      BY <1>2, <1>4, <1>5
    <3>2. mark \in {s.mark, b.far, b.pos} /\ s.mark <= mark /\ b.far <= mark
      BY <3>1, GreatestOfThree
    <3> HIDE DEF mark
    <3> QED
      BY <1>1, <1>2, <1>4, <3>2
  <2>2. n = [s EXCEPT !.mark = mark, !.cur = b.pos]
    BY <1>8 DEF Updated
  <2> HIDE DEF mark
  <2>3. n \in Rows
    BY <1>1, <1>2, <2>1, <2>2 DEF Rows
  <2>4. /\ n.mark = mark /\ n.epoch = s.epoch /\ n.version = s.version /\ n.hosted = s.hosted
        /\ n.by = s.by /\ n.seq = s.seq
    BY <1>1, <2>2 DEF Rows
  <2> HIDE DEF n
  <2>5. RowOK(n, l)
    BY <1>1, <1>8, <2>1, <2>3, <2>4 DEF RowOK, Rows
  <2>6. s.version <= n.version
    BY <1>4, <2>4
  <2> QED
    BY <2>1, <2>4, <2>5, <2>6 DEF n
<1> QED
  BY <1>6, <1>7, <1>8

\* Device d's request reaches the server.
LEMMA PutGrows ==
  ASSUME RowOK(srv, label), label \in [Epochs -> Positions], label' = label,
         NEW d \in Devices, NEW b, BodyOK(srv, label, b), Put(d, b)
  PROVE  /\ RowOK(srv', label') /\ Grown(srv, label, srv', label') /\ srv'.epoch = srv.epoch
         /\ srv' \in {srv, Updated(srv, d, b)}
         /\ Accepts(srv, b) => srv' = Updated(srv, d, b)
<1>1. CASE Accepts(srv, b)
  <2>1. srv' = Updated(srv, d, b)
    BY <1>1 DEF Put
  <2>2. /\ RowOK(Updated(srv, d, b), label) /\ Updated(srv, d, b).epoch = srv.epoch
        /\ srv.version <= Updated(srv, d, b).version /\ srv.mark <= Updated(srv, d, b).mark
    BY <1>1, UpdatedOK
  <2> QED
    BY <2>1, <2>2, RowGrows
<1>2. CASE ~Accepts(srv, b)
  <2>1. srv' = srv
    BY <1>2 DEF Put
  <2>2. srv.version \in Nat /\ srv.mark \in Nat
    BY PositionsAreNat DEF RowOK
  <2>3. srv.version <= srv.version /\ srv.mark <= srv.mark
    BY <2>2
  <2> QED
    BY <1>2, <2>1, <2>3, RowGrows
<1> QED
  BY <1>1, <1>2

\* Its answer says what the row is now.
LEMMA AnswerOK ==
  ASSUME RowOK(srv, label), label \in [Epochs -> Positions], NEW d \in Devices, NEW b, BodyOK(srv, label, b),
         Put(d, b)
  PROVE  ReplyOK(srv', b, Answer(srv, d, b)) /\ Answer(srv, d, b) \in Reply
<1>1. CASE ~Accepts(srv, b)
  <2>1. Answer(srv, d, b) = [status |-> 409] /\ srv' = srv
    BY <1>1 DEF Answer, Put
  <2>2. b.epoch # srv.epoch /\ b.epoch \in Nat /\ srv.epoch \in Nat
    BY <1>1, PositionsAreNat DEF Accepts, BodyOK, Body, RowOK
  <2> QED
    BY <2>1, <2>2 DEF ReplyOK, Reply, BodyOK
<1>2. CASE Accepts(srv, b)
  <2> DEFINE n == Updated(srv, d, b)
             r == Answer(srv, d, b)
  <2>1. r = [status |-> 200, mark |-> n.mark, epoch |-> n.epoch, version |-> n.version, applied |-> Applies(srv, d, b)]
    BY <1>2 DEF Answer
  <2>2. RowOK(n, label) /\ n.epoch = srv.epoch /\ b.far <= n.mark /\ srv' = n /\ b.epoch = srv.epoch
    BY <1>2, UpdatedOK DEF Put, Accepts
  <2>3. n.mark \in Positions /\ n.epoch \in Epochs /\ n.version \in Nat /\ Applies(srv, d, b) \in BOOLEAN
    BY <2>2 DEF RowOK, Applies
  <2>4. n.mark <= n.mark /\ n.version <= n.version
    <3>1. n.mark \in Nat
      BY <2>3, PositionsAreNat
    <3> HIDE DEF n
    <3> QED
      BY <2>3, <3>1
  <2> HIDE DEF n, r
  <2>5. r \in Acceptances /\ r.mark = n.mark /\ r.epoch = n.epoch /\ r.version = n.version
    BY <2>1, <2>3 DEF Acceptances
  <2>6. ReplyOK(srv', b, r)
    BY <2>2, <2>4, <2>5 DEF ReplyOK
  <2>7. r \in Reply
    BY <2>5 DEF Acceptances, Reply
  <2> QED
    BY <2>6, <2>7 DEF r
<1> QED
  BY <1>1, <1>2

-----------------------------------------------------------------------------
(* PositionSync: requests, the outbox and the line *)

LEMMA NotNone == /\ \A b \in Body : b # None
                 /\ \A r \in Report : r # None
                 /\ \A q \in Delivery : q # None
                 /\ \A r \in Acceptances : r # None /\ r # [status |-> 409] /\ r.status = 200
                 /\ [status |-> 409] # None
                 /\ \A p \in Reader : p \notin {Away, Gone} /\ p.pc \in {"open", "resetting"}
                 /\ Away.pc = "away" /\ Gone.pc = "gone" /\ Away # Gone
<1>1. ASSUME NEW b \in Body PROVE b # None
  BY DEF Body, None
<1>2. ASSUME NEW r \in Report PROVE r # None
  BY DEF Report, None
<1>3. ASSUME NEW q \in Delivery PROVE q # None
  <2>1. "mine" \in DOMAIN q /\ DOMAIN None = {"none"}
    BY DEF Delivery, None
  <2> QED
    BY <2>1
<1>4. ASSUME NEW r \in Acceptances PROVE r # None /\ r # [status |-> 409] /\ r.status = 200
  <2>1. "mark" \in DOMAIN r /\ DOMAIN None = {"none"} /\ DOMAIN [status |-> 409] = {"status"} /\ r.status = 200
    BY DEF Acceptances, None
  <2> QED
    BY <2>1
<1>5. [status |-> 409] # None
  BY DEF None
<1>6. ASSUME NEW p \in Reader PROVE p \notin {Away, Gone} /\ p.pc \in {"open", "resetting"}
  <2>1. "at" \in DOMAIN p /\ DOMAIN Away = {"pc"} /\ DOMAIN Gone = {"pc"} /\ p.pc \in {"open", "resetting"}
    BY DEF Reader, Away, Gone
  <2> QED
    BY <2>1
<1>7. Away.pc = "away" /\ Gone.pc = "gone" /\ Away # Gone
  BY DEF Away, Gone
<1> QED
  BY <1>1, <1>2, <1>3, <1>4, <1>5, <1>6, <1>7

\* A merged mutation is a request still, and keeps an affirmed end of the pass.
LEMMA QueuedOK ==
  ASSUME NEW s, NEW l, s.epoch \in Epochs, l \in [Epochs -> Positions],
         NEW prev, prev = None \/ BodyOK(s, l, prev), NEW b, BodyOK(s, l, b)
  PROVE  /\ BodyOK(s, l, Queued(prev, b)) /\ Queued(prev, b) # None
         /\ Full(s, prev) \/ Full(s, b) => Full(s, Queued(prev, b))
<1> DEFINE q == Queued(prev, b)
<1>1. /\ b \in Body /\ b.pos \in Positions /\ b.far \in Positions /\ b.epoch \in Epochs /\ l[b.epoch] \in Positions
      /\ b.far <= l[b.epoch] /\ b.pos <= l[b.epoch] /\ b.epoch <= s.epoch
  BY DEF BodyOK, Body
<1>2. Positions \subseteq Nat /\ Epochs \subseteq Nat /\ \A x \in Positions : x <= Chapters /\ Chapters \in Nat
  BY PositionsAreNat
<1>3. ASSUME NEW c, BodyOK(s, l, c), NEW far \in Positions, far <= l[c.epoch]
      PROVE  /\ BodyOK(s, l, [c EXCEPT !.far = far])
             /\ [c EXCEPT !.far = far].epoch = c.epoch /\ [c EXCEPT !.far = far].far = far
  <2>1. c \in Body
    BY <1>3 DEF BodyOK
  <2>2. /\ [c EXCEPT !.far = far] \in Body /\ [c EXCEPT !.far = far].epoch = c.epoch
        /\ [c EXCEPT !.far = far].far = far /\ [c EXCEPT !.far = far].pos = c.pos
        /\ [c EXCEPT !.far = far].base = c.base /\ [c EXCEPT !.far = far].seq = c.seq
    BY <2>1, <1>3 DEF Body
  <2> QED
    BY <1>3, <2>2 DEF BodyOK
<1>4. CASE prev = None \/ prev.epoch < b.epoch
  <2> DEFINE far == Max({b.far, b.pos})
  <2>1. q = [b EXCEPT !.far = far]
    BY <1>4 DEF Queued
  <2>2. far \in {b.far, b.pos} /\ b.far <= far
    <3>1. b.far \in Nat /\ b.pos \in Nat
      BY <1>1, <1>2
    <3> QED
      BY <3>1, GreaterOf
  <2> HIDE DEF far
  <2>3. far \in Positions /\ far <= l[b.epoch]
    BY <1>1, <2>2
  <2>4. BodyOK(s, l, q) /\ q.epoch = b.epoch /\ q.far = far
    BY <1>3, <2>1, <2>3
  <2>5. ~Full(s, prev)
    <3>1. ASSUME prev # None PROVE prev.epoch \in Nat /\ s.epoch \in Nat /\ b.epoch \in Nat
      BY <1>1, <1>2, <3>1 DEF BodyOK, Body
    <3> QED
      BY <1>1, <1>4, <3>1 DEF Full
  <2>6. Full(s, b) => far = Chapters
    <3>1. b.far \in Nat /\ b.pos \in Nat /\ far \in Nat /\ far <= Chapters /\ Chapters \in Nat
      BY <1>1, <1>2, <2>3
    <3> QED
      BY <2>2, <3>1 DEF Full
  <2>7. q # None
    BY <2>4, NotNone DEF BodyOK
  <2> HIDE DEF q
  <2> QED
    BY <2>4, <2>5, <2>6, <2>7 DEF Full, q
<1>5. CASE prev # None /\ prev.epoch > b.epoch
  <2>1. q = prev
    <3>1. prev.epoch \in Nat /\ b.epoch \in Nat
      BY <1>1, <1>2, <1>5 DEF BodyOK, Body
    <3> QED
      BY <1>5, <3>1 DEF Queued
  <2>2. ~Full(s, b)
    <3>1. prev.epoch \in Nat /\ s.epoch \in Nat /\ b.epoch \in Nat /\ prev.epoch <= s.epoch
      BY <1>1, <1>2, <1>5 DEF BodyOK, Body
    <3> QED
      BY <1>5, <3>1 DEF Full
  <2> HIDE DEF q
  <2> QED
    BY <1>5, <2>1, <2>2 DEF q
<1>6. CASE prev # None /\ prev.epoch = b.epoch
  <2> DEFINE far == Max({b.far, b.pos, prev.far})
             c == IF b.seq < prev.seq THEN prev ELSE b
  <2>1. q = [c EXCEPT !.far = far]
    <3>1. b.epoch \in Nat
      BY <1>1, <1>2
    <3> QED
      BY <1>6, <3>1 DEF Queued
  <2>2. prev.far \in Positions /\ prev.far <= l[b.epoch]
    BY <1>6 DEF BodyOK, Body
  <2>3. far \in {b.far, b.pos, prev.far} /\ b.far <= far /\ prev.far <= far
    <3>1. b.far \in Nat /\ b.pos \in Nat /\ prev.far \in Nat
      BY <1>1, <1>2, <2>2
    <3> QED
      BY <3>1, GreatestOfThree
  <2> HIDE DEF far
  <2>4. far \in Positions /\ far <= l[b.epoch]
    BY <1>1, <2>2, <2>3
  <2>5. BodyOK(s, l, c) /\ c.epoch = b.epoch
    BY <1>6
  <2> HIDE DEF c
  <2>6. BodyOK(s, l, q) /\ q.epoch = b.epoch /\ q.far = far
    BY <1>3, <2>1, <2>4, <2>5
  <2>7. b.far = Chapters \/ prev.far = Chapters => far = Chapters
    <3>1. b.far \in Nat /\ prev.far \in Nat /\ far \in Nat /\ far <= Chapters /\ Chapters \in Nat
      BY <1>1, <1>2, <2>2, <2>4
    <3> QED
      BY <2>3, <3>1
  <2>8. q # None
    BY <2>6, NotNone DEF BodyOK
  <2> HIDE DEF q
  <2> QED
    BY <1>6, <2>6, <2>7, <2>8 DEF Full, q
<1>7. prev # None => prev.epoch \in Nat /\ b.epoch \in Nat
  BY <1>1, <1>2 DEF BodyOK, Body
<1>8. prev = None \/ prev.epoch < b.epoch \/ prev.epoch > b.epoch \/ prev.epoch = b.epoch
  BY <1>7
<1> QED
  BY <1>4, <1>5, <1>6, <1>8

\* A delivery goes out with the base that the clock knows.
Rebased(b, w) == w \in Body /\ w.epoch = b.epoch /\ w.far = b.far /\ w.pos = b.pos /\ w.seq = b.seq

\* What goes out is the delivery's report, as true as it was.
LEMMA WireOK ==
  ASSUME NEW d, NEW s, NEW l, NEW ln, ClockOK(s, ln, clock[d]), NEW b, BodyOK(s, l, b)
  PROVE  BodyOK(s, l, OnTheWire(d, b)) /\ Rebased(b, OnTheWire(d, b))
<1> DEFINE w == [b EXCEPT !.base = clock[d].version]
<1>1. CASE OnTheWire(d, b) = b
  BY <1>1 DEF BodyOK, Rebased
<1>2. CASE OnTheWire(d, b) # b
  <2>1. OnTheWire(d, b) = w /\ clock[d] # None
    BY <1>2 DEF OnTheWire
  <2>2. clock[d].version \in Nat /\ clock[d].version <= s.version
    BY <2>1 DEF ClockOK, Clocks
  <2>3. /\ w \in Body /\ w.epoch = b.epoch /\ w.far = b.far /\ w.pos = b.pos /\ w.seq = b.seq
        /\ w.base = clock[d].version
    BY <2>2 DEF BodyOK, Body
  <2> HIDE DEF w
  <2> QED
    BY <2>1, <2>2, <2>3 DEF BodyOK, Rebased
<1> QED
  BY <1>1, <1>2

\* What an accepted request takes from the outbox is counted.
LEMMA AcknowledgedOK ==
  ASSUME NEW s, NEW l, s.epoch \in Epochs, s.mark \in Positions,
         NEW item, item = None \/ BodyOK(s, l, item), NEW b,
         NEW r \in Acceptances, r.version <= s.version, r.epoch = s.epoch => r.mark <= s.mark
  PROVE  /\ Acknowledged(item, b, r) = None \/ BodyOK(s, l, Acknowledged(item, b, r))
         /\ Full(s, item) => Full(s, Acknowledged(item, b, r)) \/ s.mark = Chapters
<1> DEFINE n == [item EXCEPT !.base = r.version]
<1>1. CASE Acknowledged(item, b, r) = item
  BY <1>1
<1>4. item # None => n # None
  <2>1. item # None => n \in Body
    BY DEF BodyOK, Body, Acceptances
  <2> QED
    BY <2>1, NotNone
<1>2. CASE Acknowledged(item, b, r) = None /\ item # None
  <2>1. item.epoch = r.epoch /\ r.mark >= item.far
    <3> HIDE DEF n
    <3>1. Acknowledged(item, b, r) # item /\ Acknowledged(item, b, r) # n
      BY <1>2, <1>4
    <3> QED
      BY <3>1 DEF Acknowledged, n
  <2>2. ASSUME Full(s, item) PROVE s.mark = Chapters
    <3>1. r.mark <= s.mark /\ item.far = Chapters
      BY <2>1, <2>2 DEF Full
    <3>2. s.mark \in Nat /\ r.mark \in Nat /\ s.mark <= Chapters /\ Chapters \in Nat
      <4>1. r.mark \in Positions /\ s.mark \in Positions
        BY DEF Acceptances
      <4> QED
        BY <4>1, PositionsAreNat
    <3> QED
      BY <2>1, <3>1, <3>2
  <2> QED
    BY <1>2, <2>2
<1>3. CASE Acknowledged(item, b, r) = n /\ item # None
  <2>1. n \in Body /\ n.epoch = item.epoch /\ n.far = item.far /\ n.pos = item.pos /\ n.seq = item.seq /\ n.base = r.version
    BY <1>3 DEF BodyOK, Body, Acceptances
  <2>2. n # None
    BY <2>1, NotNone
  <2> HIDE DEF n
  <2> QED
    BY <1>3, <2>1, <2>2 DEF BodyOK, Full
<1> QED
  BY <1>1, <1>2, <1>3 DEF Acknowledged

\* A clock that knows no version the row never had.
ClockFits(s, c) == c # None => c \in Clocks /\ c.version <= s.version

\* A clock set from an accepted answer.
LEMMA ClockedOK ==
  ASSUME NEW s, NEW l, NEW c, ClockFits(s, c), NEW b, BodyOK(s, l, b), NEW r \in Acceptances, r.version <= s.version
  PROVE  ClockFits(s, Clocked(c, b, r))
<1> DEFINE n == [epoch |-> r.epoch, seq |-> b.seq, version |-> r.version]
<1>1. n \in Clocks /\ n.version = r.version
  BY DEF Clocks, Acceptances, BodyOK, Body
<1>2. Clocked(c, b, r) \in {c, n}
  BY DEF Clocked
<1> HIDE DEF n
<1> QED
  BY <1>1, <1>2 DEF ClockFits

\* The line without its head.
LEMMA TailOK ==
  ASSUME NEW s, NEW l, NEW p, NEW ln, LineOK(s, l, p, ln), ln # <<>>
  PROVE  /\ LineOK(s, l, p, Tail(ln)) /\ DeliveryOK(s, l, ln[1]) /\ Ours(p, ln[1])
         /\ Len(ln) # 1 => Tail(ln) # <<>>
         /\ Carries(s, ln) => Carrying(s, ln[1]) \/ Carries(s, Tail(ln))
<1>1. /\ ln \in Seq(Delivery) /\ Len(ln) \in Nat /\ Len(ln) > 0 /\ Tail(ln) \in Seq(Delivery)
      /\ Len(Tail(ln)) = Len(ln) - 1
      /\ \A i \in 1..(Len(ln) - 1) : Tail(ln)[i] = ln[i + 1]
  BY DEF LineOK
<1>2. \A i \in 1..(Len(ln) - 1) : i + 1 \in 1..Len(ln)
  BY <1>1
<1>3. LineOK(s, l, p, Tail(ln))
  BY <1>1, <1>2 DEF LineOK
<1>4. 1 \in 1..Len(ln)
  BY <1>1
<1>5. DeliveryOK(s, l, ln[1]) /\ Ours(p, ln[1])
  BY <1>4 DEF LineOK
<1>6. ASSUME Len(ln) # 1 PROVE Tail(ln) # <<>>
  <2> DEFINE rest == Tail(ln)
  <2>1. Len(rest) # 0
    BY <1>1, <1>6
  <2> HIDE DEF rest
  <2>2. rest # <<>>
    BY <2>1
  <2> QED
    BY <2>2 DEF rest
<1>7. ASSUME NEW i \in 1..Len(ln), Carrying(s, ln[i]), i # 1
      PROVE  Carries(s, Tail(ln))
  <2>1. i - 1 \in 1..(Len(ln) - 1) /\ Tail(ln)[i - 1] = ln[(i - 1) + 1] /\ (i - 1) + 1 = i
    BY <1>1, <1>7
  <2> QED
    BY <1>1, <1>7, <2>1 DEF Carries
<1> QED
  BY <1>3, <1>5, <1>6, <1>7 DEF Carries

\* One more delivery at the end of the line.
LEMMA AppendOK ==
  ASSUME NEW s, NEW l, NEW p, NEW ln, LineOK(s, l, p, ln), NEW q, DeliveryOK(s, l, q), Ours(p, q)
  PROVE  /\ LineOK(s, l, p, Append(ln, q)) /\ Append(ln, q) # <<>>
         /\ Carries(s, ln) \/ Carrying(s, q) => Carries(s, Append(ln, q))
<1>1. ln \in Seq(Delivery) /\ q \in Delivery /\ Len(ln) \in Nat
  BY DEF LineOK, DeliveryOK
<1>2. /\ Append(ln, q) \in Seq(Delivery) /\ Len(Append(ln, q)) = Len(ln) + 1
      /\ \A i \in 1..Len(ln) : Append(ln, q)[i] = ln[i]
      /\ Append(ln, q)[Len(ln) + 1] = q
  BY <1>1
<1>3. \A i \in 1..(Len(ln) + 1) : i \in 1..Len(ln) \/ i = Len(ln) + 1
  BY <1>1
<1>4. \A i \in 1..Len(ln) : i \in 1..(Len(ln) + 1)
  BY <1>1
<1>5. Len(ln) + 1 \in 1..(Len(ln) + 1)
  BY <1>1
<1>6. LineOK(s, l, p, Append(ln, q))
  BY <1>2, <1>3 DEF LineOK
<1>7. Append(ln, q) # <<>>
  BY <1>1, <1>2
<1>8. Carries(s, ln) \/ Carrying(s, q) => Carries(s, Append(ln, q))
  BY <1>2, <1>4, <1>5 DEF Carries
<1> QED
  BY <1>6, <1>7, <1>8

\* The same line beside another page.
LEMMA LineFits ==
  ASSUME NEW s, NEW l, NEW p, NEW ln, LineOK(s, l, p, ln), NEW p2,
         p.pc \in {"open", "resetting"} => p2.pc \in {"open", "resetting"},
         p.pc = "open" => p2.pc = "open" /\ p2.epoch = p.epoch
  PROVE  LineOK(s, l, p2, ln)
BY DEF LineOK, Ours

\* Deliveries of a generation that was given up, or of a page that is gone.
LEMMA UnfreshOK ==
  ASSUME NEW s, NEW l, NEW p, NEW ln, LineOK(s, l, p, ln), NEW p2,
         p.pc \in {"open", "resetting"} => p2.pc \in {"open", "resetting"}
  PROVE  LineOK(s, l, p2, Unfresh(ln)) /\ (ln # <<>> => Unfresh(ln) # <<>>)
<1>1. ln \in Seq(Delivery) /\ DOMAIN ln = 1..Len(ln) /\ Len(ln) \in Nat
  BY DEF LineOK
<1>2. ASSUME NEW i \in 1..Len(ln)
      PROVE  /\ DeliveryOK(s, l, [ln[i] EXCEPT !.fresh = FALSE]) /\ Ours(p2, [ln[i] EXCEPT !.fresh = FALSE])
             /\ [ln[i] EXCEPT !.fresh = FALSE] \in Delivery
  <2> DEFINE q == ln[i]
             u == [q EXCEPT !.fresh = FALSE]
  <2>1. DeliveryOK(s, l, q) /\ Ours(p, q) /\ q \in Delivery
    BY DEF LineOK, DeliveryOK
  <2> HIDE DEF q
  <2>2. /\ u \in Delivery /\ u.fresh = FALSE /\ u.mine = q.mine /\ u.kind = q.kind /\ u.body = q.body
        /\ u.report = q.report /\ u.finish = q.finish /\ u.reply = q.reply
    BY <2>1 DEF Delivery
  <2> HIDE DEF u
  <2> QED
    BY <2>1, <2>2 DEF DeliveryOK, Ours, u, q
<1>3. /\ Unfresh(ln) \in Seq(Delivery) /\ Len(Unfresh(ln)) = Len(ln)
      /\ \A i \in 1..Len(ln) : Unfresh(ln)[i] = [ln[i] EXCEPT !.fresh = FALSE]
  <2>1. Unfresh(ln) = [i \in 1..Len(ln) |-> [ln[i] EXCEPT !.fresh = FALSE]]
    BY <1>1 DEF Unfresh
  <2>2. Unfresh(ln) \in [1..Len(ln) -> Delivery]
    BY <1>2, <2>1
  <2>3. Unfresh(ln) \in Seq(Delivery) /\ DOMAIN Unfresh(ln) = 1..Len(ln)
    BY <1>1, <2>2
  <2> QED
    BY <1>1, <2>1, <2>3
<1>4. LineOK(s, l, p2, Unfresh(ln))
  BY <1>2, <1>3 DEF LineOK
<1> QED
  BY <1>1, <1>3, <1>4

\* The line of a page that is gone.
LEMMA OrphanedOK ==
  ASSUME NEW s, NEW l, NEW p, NEW ln, LineOK(s, l, p, ln), NEW p2
  PROVE  LineOK(s, l, p2, Orphaned(ln)) /\ (ln # <<>> => Orphaned(ln) # <<>>)
<1>1. ln \in Seq(Delivery) /\ DOMAIN ln = 1..Len(ln) /\ Len(ln) \in Nat
  BY DEF LineOK
<1> DEFINE orphan(i) == [ln[i] EXCEPT !.fresh = FALSE, !.mine = FALSE]
<1>2. ASSUME NEW i \in 1..Len(ln)
      PROVE  DeliveryOK(s, l, orphan(i)) /\ Ours(p2, orphan(i)) /\ orphan(i) \in Delivery
  <2> DEFINE q == ln[i]
             v == [q EXCEPT !.fresh = FALSE]
             u == [v EXCEPT !.mine = FALSE]
  <2>1. DeliveryOK(s, l, q) /\ q \in Delivery
    BY DEF LineOK, DeliveryOK
  <2> HIDE DEF q
  <2>2. /\ v \in Delivery /\ v.fresh = FALSE /\ v.kind = q.kind /\ v.body = q.body
        /\ v.report = q.report /\ v.finish = q.finish /\ v.reply = q.reply
    BY <2>1 DEF Delivery
  <2> HIDE DEF v
  <2>3. /\ u \in Delivery /\ u.fresh = FALSE /\ u.mine = FALSE /\ u.kind = q.kind /\ u.body = q.body
        /\ u.report = q.report /\ u.finish = q.finish /\ u.reply = q.reply
    BY <2>2 DEF Delivery
  <2>4. orphan(i) = u
    BY DEF u, v, q
  <2> HIDE DEF u, orphan
  <2> QED
    BY <2>1, <2>3, <2>4 DEF DeliveryOK, Ours
<1>3. /\ Orphaned(ln) \in Seq(Delivery) /\ Len(Orphaned(ln)) = Len(ln)
      /\ \A i \in 1..Len(ln) : Orphaned(ln)[i] = orphan(i)
  <2>1. Orphaned(ln) = [i \in 1..Len(ln) |-> orphan(i)]
    BY <1>1 DEF Orphaned
  <2> HIDE DEF orphan
  <2>2. Orphaned(ln) \in [1..Len(ln) -> Delivery]
    BY <1>2, <2>1
  <2>3. Orphaned(ln) \in Seq(Delivery) /\ DOMAIN Orphaned(ln) = 1..Len(ln)
    BY <1>1, <2>2
  <2> QED
    BY <1>1, <2>1, <2>3
<1> HIDE DEF orphan
<1>4. LineOK(s, l, p2, Orphaned(ln))
  BY <1>2, <1>3 DEF LineOK
<1> QED
  BY <1>1, <1>3, <1>4

-----------------------------------------------------------------------------
(* PositionSync: the reader page *)

LEMMA ReaderIs ==
  ASSUME NEW p \in Reader
  PROVE  p = [pc |-> p.pc, at |-> p.at, pass |-> p.pass, epoch |-> p.epoch, version |-> p.version,
              mark |-> p.mark, shown |-> p.shown, pending |-> p.pending, finish |-> p.finish,
              busy |-> p.busy, reload |-> p.reload]
BY DEF Reader

\* A page whose reporter holds what it held.
SameWork(p, p2) ==
  /\ p2.pc = p.pc /\ p2.epoch = p.epoch
  /\ p2.pending = p.pending /\ p2.finish = p.finish /\ p2.busy = p.busy

\* A page with the same work in hand is as good.
LEMMA SameWorkOK ==
  ASSUME NEW s, NEW l, NEW p, ReaderOK(s, l, p), NEW p2 \in Reader, SameWork(p, p2), p2.version <= s.version
  PROVE  ReaderOK(s, l, p2) /\ (Affirms(s, p) => Affirms(s, p2))
BY DEF ReaderOK, SameWork, Ours, Affirms

\* A page that learnt a version and a bookmark.
LEMMA LearntOK ==
  ASSUME NEW s, NEW l, NEW p, ReaderOK(s, l, p), NEW e, NEW v \in Nat, v <= s.version, NEW m \in Positions
  PROVE  ReaderOK(s, l, Learnt(p, e, v, m)) /\ SameWork(p, Learnt(p, e, v, m))
<1> DEFINE q == [p EXCEPT !.version = v]
           x == [q EXCEPT !.mark = m]
<1>1. p \in Reader
  BY DEF ReaderOK
<1>2. q \in Reader /\ SameWork(p, q) /\ q.version = v
  BY <1>1 DEF Reader, SameWork
<1> HIDE DEF q
<1>3. x \in Reader /\ SameWork(q, x) /\ x.version = v
  BY <1>2 DEF Reader, SameWork
<1> HIDE DEF x
<1>4. SameWork(p, x)
  BY <1>2, <1>3 DEF SameWork
<1>5. ReaderOK(s, l, x)
  BY <1>3, <1>4, SameWorkOK
<1>6. Learnt(p, e, v, m) = p \/ Learnt(p, e, v, m) = x
  BY DEF Learnt, x, q
<1>7. SameWork(p, p)
  BY DEF SameWork
<1> QED
  BY <1>4, <1>5, <1>6, <1>7

\* A page that shows another bookmark.
LEMMA ShownOK ==
  ASSUME NEW s, NEW l, NEW p, ReaderOK(s, l, p), NEW m \in Positions
  PROVE  ReaderOK(s, l, [p EXCEPT !.shown = m]) /\ SameWork(p, [p EXCEPT !.shown = m])
<1> DEFINE x == [p EXCEPT !.shown = m]
<1>1. p \in Reader /\ p.version <= s.version
  BY DEF ReaderOK
<1>2. x \in Reader /\ SameWork(p, x) /\ x.version = p.version
  BY <1>1 DEF Reader, SameWork
<1> HIDE DEF x
<1>3. ReaderOK(s, l, x)
  BY <1>1, <1>2, SameWorkOK
<1> QED
  BY <1>2, <1>3 DEF x

\* What failed is kept: an affirmation with it.
LEMMA KeptOK ==
  ASSUME NEW s, NEW l, NEW p, ReaderOK(s, l, p), NEW e, DeliveryOK(s, l, e), Ours(p, e)
  PROVE  /\ ReaderOK(s, l, Kept(p, e)) /\ Kept(p, e).pc = p.pc /\ Kept(p, e).epoch = p.epoch
         /\ Affirms(s, p) \/ Carrying(s, e) => Affirms(s, Kept(p, e))
<1>1. p \in Reader
  BY DEF ReaderOK
<1>2. CASE ~e.fresh
  BY <1>2 DEF Kept, Carrying
<1>3. CASE e.fresh
  <2>1. /\ p.pc = "open" /\ e.report.epoch = p.epoch /\ ReportOK(l, e.report) /\ e.report \in Report
        /\ (e.finish <=> e.report.pos = Chapters) /\ e.report # None
    BY <1>3, NotNone DEF Ours, DeliveryOK, ReportOK
  <2>2. CASE e.finish
    <3> DEFINE f == IF p.finish = None THEN e.report ELSE p.finish
               x == [p EXCEPT !.finish = f]
    <3>1. Kept(p, e) = x
      BY <1>3, <2>2 DEF Kept
    <3>2. /\ f # None /\ f \in Report /\ ReportOK(l, f) /\ f.epoch = p.epoch /\ f.pos = Chapters
      BY <2>1, <2>2 DEF ReaderOK, ReportOK
    <3> HIDE DEF f
    <3>3. /\ x \in Reader /\ x.finish = f /\ x.pc = p.pc /\ x.epoch = p.epoch /\ x.version = p.version
          /\ x.pending = p.pending /\ x.busy = p.busy
      BY <1>1, <3>2 DEF Reader
    <3> HIDE DEF x
    <3>4. ReaderOK(s, l, x)
      BY <2>1, <3>2, <3>3 DEF ReaderOK, Ours
    <3>5. Affirms(s, p) \/ Carrying(s, e) => Affirms(s, x)
      BY <2>1, <3>2, <3>3 DEF Affirms, Carrying, ReaderOK
    <3> QED
      BY <3>1, <3>3, <3>4, <3>5
  <2>3. CASE ~e.finish
    <3> DEFINE f == IF p.pending = None THEN e.report ELSE p.pending
               x == [p EXCEPT !.pending = f]
    <3>1. Kept(p, e) = x
      BY <1>3, <2>3 DEF Kept
    <3>2. /\ f # None /\ f \in Report /\ ReportOK(l, f) /\ f.epoch = p.epoch /\ f.pos < Chapters
      <4>1. e.report.pos < Chapters
        <5>1. e.report.pos \in Positions /\ e.report.pos # Chapters
          BY <2>1, <2>3 DEF Report
        <5> QED
          BY <5>1, ChaptersAssumption DEF Positions
      <4> QED
        BY <2>1, <4>1 DEF ReaderOK, ReportOK
    <3> HIDE DEF f
    <3>3. /\ x \in Reader /\ x.pending = f /\ x.pc = p.pc /\ x.epoch = p.epoch /\ x.version = p.version
          /\ x.finish = p.finish /\ x.busy = p.busy
      BY <1>1, <3>2 DEF Reader
    <3> HIDE DEF x
    <3>4. ReaderOK(s, l, x)
      BY <2>1, <3>2, <3>3 DEF ReaderOK, Ours
    <3>5. Affirms(s, p) \/ Carrying(s, e) => Affirms(s, x)
      BY <2>3, <3>3 DEF Affirms, Carrying
    <3> QED
      BY <3>1, <3>3, <3>4, <3>5
  <2> QED
    BY <2>2, <2>3
<1> QED
  BY <1>2, <1>3

\* A page that awaits no canonical position.
LEMMA IdleOK ==
  ASSUME NEW s, NEW l, NEW p, ReaderOK(s, l, p)
  PROVE  /\ ReaderOK(s, l, [p EXCEPT !.busy = None])
         /\ [p EXCEPT !.busy = None].pc = p.pc /\ [p EXCEPT !.busy = None].epoch = p.epoch
         /\ [p EXCEPT !.busy = None].busy = None
         /\ Affirms(s, p) => Affirms(s, [p EXCEPT !.busy = None])
<1> DEFINE x == [p EXCEPT !.busy = None]
<1>1. p \in Reader
  BY DEF ReaderOK
<1>2. /\ x \in Reader /\ x.busy = None /\ x.pc = p.pc /\ x.epoch = p.epoch /\ x.version = p.version
      /\ x.finish = p.finish /\ x.pending = p.pending
  BY <1>1 DEF Reader
<1> HIDE DEF x
<1>3. ReaderOK(s, l, x) /\ (Affirms(s, p) => Affirms(s, x))
  BY <1>2 DEF ReaderOK, Affirms
<1> QED
  BY <1>2, <1>3 DEF x

\* A reporter that was cancelled holds nothing, and what is on its way is not fresh.
LEMMA CancelledOK ==
  ASSUME NEW s, NEW l, NEW p, ReaderOK(s, l, p)
  PROVE  /\ ReaderOK(s, l, Cancelled(p))
         /\ Cancelled(p) \in Reader /\ Cancelled(p).pc = p.pc /\ Cancelled(p).epoch = p.epoch
         /\ Cancelled(p).version = p.version
         /\ Cancelled(p).pending = None /\ Cancelled(p).finish = None
         /\ Cancelled(p).busy # None => /\ DeliveryOK(s, l, Cancelled(p).busy) /\ ~Cancelled(p).busy.fresh
                                        /\ Cancelled(p).busy.kind = "live" /\ Cancelled(p).busy.report.epoch < s.epoch
<1> DEFINE b == IF p.busy = None THEN None ELSE [p.busy EXCEPT !.fresh = FALSE]
           q == [p EXCEPT !.pending = None]
           v == [q EXCEPT !.finish = None]
           x == [v EXCEPT !.busy = b]
<1>1. p \in Reader
  BY DEF ReaderOK
<1>2. b \in Delivery \cup {None} /\ (b # None => DeliveryOK(s, l, b) /\ ~b.fresh /\ b.kind = "live" /\ b.report.epoch < s.epoch
                                                 /\ p.pc \in {"open", "resetting"})
  <2>1. CASE p.busy = None
    BY <2>1
  <2>2. CASE p.busy # None
    <3> DEFINE old == p.busy
               u == [old EXCEPT !.fresh = FALSE]
    <3>1. DeliveryOK(s, l, old) /\ old \in Delivery /\ old.kind = "live" /\ old.report.epoch < s.epoch
      BY <2>2 DEF ReaderOK, DeliveryOK
    <3> HIDE DEF old
    <3>2. /\ u \in Delivery /\ u.fresh = FALSE /\ u.mine = old.mine /\ u.kind = old.kind /\ u.body = old.body
          /\ u.report = old.report /\ u.finish = old.finish /\ u.reply = old.reply
      BY <3>1 DEF Delivery
    <3>3. b = u
      BY <2>2 DEF u, old
    <3> HIDE DEF u
    <3>4. DeliveryOK(s, l, u)
      BY <3>1, <3>2 DEF DeliveryOK
    <3> HIDE DEF b
    <3> QED
      BY <1>1, <3>1, <3>2, <3>3, <3>4, NotNone
  <2> QED
    BY <2>1, <2>2
<1>3. Cancelled(p) = x
  BY DEF Cancelled, x, v, q, b
<1> HIDE DEF b
<1>4. /\ q \in Reader /\ q.pending = None /\ q.pc = p.pc /\ q.epoch = p.epoch /\ q.version = p.version
  BY <1>1 DEF Reader
<1> HIDE DEF q
<1>5. /\ v \in Reader /\ v.pending = None /\ v.finish = None /\ v.pc = p.pc /\ v.epoch = p.epoch /\ v.version = p.version
  BY <1>4 DEF Reader
<1> HIDE DEF v
<1>6. /\ x \in Reader /\ x.pending = None /\ x.finish = None /\ x.pc = p.pc /\ x.epoch = p.epoch
      /\ x.version = p.version /\ x.busy = b
  BY <1>2, <1>5 DEF Reader
<1> HIDE DEF x
<1>7. ReaderOK(s, l, x)
  BY <1>2, <1>6 DEF ReaderOK, Ours
<1> QED
  BY <1>2, <1>3, <1>6, <1>7

\* What fire sends first, and what is left with the reporter.
LEMMA TakenOK ==
  ASSUME NEW s, NEW l, NEW p, ReaderOK(s, l, p), Unsent(p) # {}
  PROVE  /\ ReaderOK(s, l, Taken(p)) /\ Taken(p).pc = p.pc /\ Taken(p).epoch = p.epoch
         /\ ReportOK(l, Chosen(p)) /\ Chosen(p).epoch = p.epoch /\ p.pc = "open"
         /\ (p.finish # None) <=> (Chosen(p).pos = Chapters)
         /\ p.finish # None => Chosen(p) = p.finish
<1>1. p \in Reader /\ p.pc = "open" /\ (p.finish # None \/ p.pending # None)
  BY NotNone DEF ReaderOK, Unsent
<1>2. CASE p.finish # None
  <2> DEFINE x == [p EXCEPT !.finish = None]
  <2>1. Taken(p) = x /\ Chosen(p) = p.finish
    BY <1>2 DEF Taken, Chosen
  <2>2. /\ x \in Reader /\ x.finish = None /\ x.pc = p.pc /\ x.epoch = p.epoch /\ x.version = p.version
        /\ x.pending = p.pending /\ x.busy = p.busy
    BY <1>1 DEF Reader
  <2> HIDE DEF x
  <2>3. ReaderOK(s, l, x)
    BY <2>2 DEF ReaderOK, Ours
  <2> QED
    BY <1>1, <1>2, <2>1, <2>2, <2>3 DEF ReaderOK
<1>3. CASE p.finish = None
  <2> DEFINE x == [p EXCEPT !.pending = None]
  <2>1. Taken(p) = x /\ Chosen(p) = p.pending
    BY <1>3 DEF Taken, Chosen
  <2>2. /\ x \in Reader /\ x.pending = None /\ x.pc = p.pc /\ x.epoch = p.epoch /\ x.version = p.version
        /\ x.finish = p.finish /\ x.busy = p.busy
    BY <1>1 DEF Reader
  <2> HIDE DEF x
  <2>3. ReaderOK(s, l, x)
    BY <2>2 DEF ReaderOK, Ours
  <2>4. ReportOK(l, p.pending) /\ p.pending.epoch = p.epoch /\ p.pending.pos # Chapters
    <3>1. ReportOK(l, p.pending) /\ p.pending.epoch = p.epoch /\ p.pending.pos < Chapters /\ p.pending.pos \in Nat
      BY <1>1, <1>3, PositionsAreNat DEF ReaderOK, ReportOK, Report
    <3> QED
      BY <3>1, ChaptersAssumption
  <2> QED
    BY <1>1, <1>3, <2>1, <2>2, <2>3, <2>4
<1> QED
  BY <1>2, <1>3

\* The delivery that firing makes.
LEMMA LiveOK ==
  ASSUME NEW s, NEW l, NEW p, ReaderOK(s, l, p), Unsent(p) # {}, NEW n \in Nat, n > 0
  PROVE  DeliveryOK(s, l, Live(p, n)) /\ Ours(p, Live(p, n)) /\ (Affirms(s, p) => Carrying(s, Live(p, n)))
<1> DEFINE r == Chosen(p)
           b == [pos |-> r.pos, far |-> r.pos, epoch |-> r.epoch, base |-> p.version, seq |-> n]
           q == Live(p, n)
<1>1. /\ ReportOK(l, r) /\ r \in Report /\ r.epoch = p.epoch /\ p.pc = "open"
      /\ (p.finish # None) <=> (r.pos = Chapters)
      /\ p.finish # None => r = p.finish
  BY TakenOK DEF ReportOK
<1>2. r.pos \in Positions /\ r.epoch \in Epochs /\ r.pos <= l[r.epoch] /\ r.pos <= r.pos
  <2>1. r.pos \in Positions /\ r.epoch \in Epochs /\ r.pos <= l[r.epoch]
    BY <1>1 DEF ReportOK, Report
  <2> HIDE DEF r
  <2>2. r.pos \in Nat
    BY <2>1, PositionsAreNat
  <2> QED
    BY <2>1, <2>2
<1>3. p.version \in Nat /\ p.version <= s.version /\ p.epoch <= s.epoch
  BY DEF ReaderOK, Reader
<1>4. /\ q = [kind |-> "live", finish |-> p.finish # None, report |-> r, body |-> b,
              mine |-> TRUE, fresh |-> TRUE, reply |-> None]
  BY DEF Live
<1> HIDE DEF r
<1>5. b \in Body /\ BodyOK(s, l, b) /\ b.epoch = r.epoch /\ b.far = r.pos
  BY <1>1, <1>2, <1>3 DEF Body, BodyOK
<1> HIDE DEF b, q
<1>6. /\ q.kind = "live" /\ q.finish = (p.finish # None) /\ q.report = r /\ q.body = b /\ q.mine = TRUE
      /\ q.fresh = TRUE /\ q.reply = None /\ (p.finish # None) \in BOOLEAN
  BY <1>4
<1>7. q \in Delivery
  BY <1>1, <1>4, <1>5, <1>6 DEF Delivery
<1>8. DeliveryOK(s, l, q)
  BY <1>1, <1>2, <1>5, <1>6, <1>7 DEF DeliveryOK, ReplyOK
<1>9. Ours(p, q)
  BY <1>1, <1>6 DEF Ours
<1>10. Affirms(s, p) => Carrying(s, q)
  BY <1>1, <1>6 DEF Affirms, Carrying
<1> QED
  BY <1>8, <1>9, <1>10 DEF q

\* Firing: an affirmation that waited is on its way.
LEMMA FiredOK ==
  ASSUME NEW d, NEW s, NEW l, NEW p, ReaderOK(s, l, p), LineOK(s, l, p, line[d]), NEW n \in Nat
  PROVE  /\ ReaderOK(s, l, Fired(d, p, n).page) /\ LineOK(s, l, Fired(d, p, n).page, Fired(d, p, n).line)
         /\ Fired(d, p, n).page.pc = p.pc /\ Fired(d, p, n).page.epoch = p.epoch
         /\ Fired(d, p, n).line = <<>> => line[d] = <<>>
         /\ Fired(d, p, n).seq \in Nat
         /\ Affirms(s, p) \/ Carries(s, line[d])
              => Affirms(s, Fired(d, p, n).page) \/ Carries(s, Fired(d, p, n).line)
<1>1. CASE InFlight(d) \/ Unsent(p) = {}
  <2>1. Fired(d, p, n) = [page |-> p, line |-> line[d], seq |-> n]
    BY <1>1 DEF Fired
  <2> QED
    BY <2>1
<1>2. CASE ~InFlight(d) /\ Unsent(p) # {}
  <2> DEFINE q == Live(p, n + 1)
             x == Taken(p)
             ln == Append(line[d], q)
  <2>1. /\ ReaderOK(s, l, x) /\ x.pc = p.pc /\ x.epoch = p.epoch /\ Chosen(p).epoch = p.epoch /\ p.pc = "open"
    BY <1>2, TakenOK
  <2>2. Fired(d, p, n) = [page |-> x, line |-> ln, seq |-> n + 1]
    BY <1>2, <2>1 DEF Fired
  <2>3. DeliveryOK(s, l, q) /\ Ours(p, q) /\ (Affirms(s, p) => Carrying(s, q))
    BY <1>2, LiveOK
  <2> HIDE DEF x, q
  <2>4. LineOK(s, l, p, ln) /\ ln # <<>> /\ (Carries(s, line[d]) \/ Carrying(s, q) => Carries(s, ln))
    BY <2>3, AppendOK
  <2> HIDE DEF ln
  <2>5. LineOK(s, l, x, ln)
    BY <2>1, <2>4, LineFits
  <2> QED
    BY <2>1, <2>2, <2>3, <2>4, <2>5
<1> QED
  BY <1>1, <1>2

\* The reports of a page that count are all of its epoch.
LEMMA RetainableIs ==
  ASSUME NEW d, NEW s, NEW l, ReaderOK(s, l, page[d]), LineOK(s, l, page[d], line[d])
  PROVE  /\ Retainable(d) = UnderWay(d) \cup Unsent(page[d])
         /\ \A r \in Retainable(d) : ReportOK(l, r) /\ r.epoch = page[d].epoch
<1> DEFINE p == page[d]
           ln == line[d]
<1>1. ASSUME NEW i \in 1..Len(ln), ln[i].kind = "live", ln[i].fresh
      PROVE  ReportOK(l, ln[i].report) /\ ln[i].report.epoch = p.epoch
  BY <1>1 DEF LineOK, DeliveryOK, Ours
<1>2. ASSUME p.busy # None, p.busy.fresh
      PROVE  ReportOK(l, p.busy.report) /\ p.busy.report.epoch = p.epoch
  BY <1>2 DEF ReaderOK, DeliveryOK, Ours
<1>3. ASSUME NEW r \in UnderWay(d) PROVE ReportOK(l, r) /\ r.epoch = p.epoch
  BY <1>1, <1>2, <1>3 DEF UnderWay
<1>4. ASSUME NEW r \in Unsent(p) PROVE ReportOK(l, r) /\ r.epoch = p.epoch
  BY <1>4 DEF Unsent, ReaderOK
<1> QED
  BY <1>3, <1>4 DEF Retainable

\* They are as many as their positions.
LEMMA ReportsFinite ==
  ASSUME NEW e, NEW rs, \A r \in rs : r \in Report /\ r.epoch = e
  PROVE  IsFiniteSet(rs) /\ Cardinality(rs) \in Nat /\ (rs # {} => Cardinality(rs) > 0)
<1> DEFINE ps == {r.pos : r \in rs}
           f == [x \in ps |-> CHOOSE r \in rs : r.pos = x]
<1>1. \A r \in rs : r = [pos |-> r.pos, epoch |-> e]
  BY DEF Report
<1>2. ps \subseteq Positions
  BY DEF Report
<1>3. IsFiniteSet(Positions)
  BY FS_Interval, ChaptersAssumption DEF Positions
<1>4. IsFiniteSet(ps)
  BY <1>2, <1>3, FS_Subset
<1>5. \A r \in rs : f[r.pos] = r
  <2>1. ASSUME NEW r \in rs, NEW u \in rs, u.pos = r.pos PROVE u = r
    BY <1>1, <2>1
  <2> QED
    BY <2>1
<1>6. f \in [ps -> rs] /\ \A r \in rs : \E x \in ps : f[x] = r
  <2>1. (\A x \in ps : \E r \in rs : x = r.pos) /\ (\A r \in rs : r.pos \in ps)
    OBVIOUS
  <2>2. f = [x \in ps |-> f[x]]
    OBVIOUS
  <2> HIDE DEF f, ps
  <2>3. \A x \in ps : f[x] \in rs
    BY <1>5, <2>1
  <2> QED
    BY <1>5, <2>1, <2>2, <2>3
<1> HIDE DEF f, ps
<1>7. f \in Surjection(ps, rs)
  BY <1>6 DEF Surjection
<1>8. IsFiniteSet(rs)
  BY <1>4, <1>7, FS_Surjection
<1> QED
  BY <1>8, FS_CardinalityType, FS_EmptySet

\* What the page retains covers all of it.
LEMMA RetainedOK ==
  ASSUME NEW d, NEW s, NEW l, s.epoch \in Epochs, l \in [Epochs -> Positions],
         ReaderOK(s, l, page[d]), LineOK(s, l, page[d], line[d]),
         box[d] = None \/ BodyOK(s, l, box[d]), seq[d] \in Nat
  PROVE  /\ Retained(d).box = None \/ BodyOK(s, l, Retained(d).box)
         /\ Retained(d).seq \in Nat
         /\ HeldIn(s, page[d], line[d], box[d]) => Full(s, Retained(d).box)
<1> DEFINE p == page[d]
           ln == line[d]
           rs == Retainable(d)
           n == seq[d] + Cardinality(rs)
           far == Max({r.pos : r \in rs})
           b == [pos |-> Cursor(d), far |-> far, epoch |-> p.epoch, base |-> p.version, seq |-> n]
<1>1. \A r \in rs : ReportOK(l, r) /\ r.epoch = p.epoch /\ r \in Report /\ r.pos \in Positions /\ r.pos <= l[p.epoch]
  <2>1. \A r \in rs : ReportOK(l, r) /\ r.epoch = p.epoch
    BY RetainableIs
  <2> HIDE DEF rs, p
  <2> QED
    BY <2>1 DEF ReportOK, Report
<1>2. rs = UnderWay(d) \cup Unsent(p)
  BY RetainableIs
<1>3. Cardinality(rs) \in Nat /\ (rs # {} => Cardinality(rs) > 0)
  BY <1>1, ReportsFinite
<1>4. Affirms(s, p) => \E r \in rs : r.pos = Chapters /\ p.epoch = s.epoch
  BY <1>2 DEF Affirms, ReaderOK, Unsent
<1>5. ASSUME Carries(s, ln) PROVE \E r \in rs : r.pos = Chapters /\ p.epoch = s.epoch
  <2>1. PICK i \in 1..Len(ln) : Carrying(s, ln[i])
    BY <1>5 DEF Carries
  <2>2. DeliveryOK(s, l, ln[i]) /\ Ours(p, ln[i])
    BY DEF LineOK
  <2>3. ln[i].kind = "live" /\ ln[i].fresh /\ ln[i].report.pos = Chapters /\ p.epoch = s.epoch
    BY <2>1, <2>2 DEF Carrying, DeliveryOK, Ours
  <2>4. ln[i].report \in UnderWay(d)
    BY <2>3 DEF UnderWay
  <2> QED
    BY <1>2, <2>3, <2>4
<1>6. CASE rs = {}
  <2>1. Retained(d) = [box |-> box[d], seq |-> seq[d]]
    BY <1>6 DEF Retained
  <2> HIDE DEF rs
  <2> QED
    BY <1>4, <1>5, <1>6, <2>1 DEF HeldIn
<1>7. CASE rs # {}
  <2>1. Retained(d) = [box |-> Queued(box[d], b), seq |-> n]
    BY <1>7 DEF Retained
  <2>2. far \in {r.pos : r \in rs} /\ \A r \in rs : r.pos <= far
    <3> DEFINE ps == {r.pos : r \in rs}
    <3>1. ps \in SUBSET Nat /\ ps # {} /\ \A x \in ps : x <= Chapters
      BY <1>1, <1>7, PositionsAreNat
    <3>2. Max(ps) \in ps /\ \A x \in ps : x <= Max(ps)
      BY <3>1, GreatestOf, ChaptersAssumption
    <3> QED
      BY <3>2
  <2>3. \E r \in rs : Cursor(d) = r.pos
    <3>1. CASE p.pending # None
      <4>1. Cursor(d) = p.pending.pos
        BY <3>1 DEF Cursor
      <4>2. p.pending \in rs
        BY <1>2, <3>1 DEF Unsent
      <4> QED
        BY <4>1, <4>2
    <3>2. CASE p.pending = None /\ p.finish # None
      <4>1. Cursor(d) = p.finish.pos
        BY <3>2 DEF Cursor
      <4>2. p.finish \in rs
        BY <1>2, <3>2 DEF Unsent
      <4> QED
        BY <4>1, <4>2
    <3>3. CASE p.pending = None /\ p.finish = None
      <4>1. UnderWay(d) # {}
        BY <1>2, <1>7, <3>3 DEF Unsent
      <4>2. (CHOOSE r \in UnderWay(d) : TRUE) \in UnderWay(d)
        BY <4>1
      <4>3. Cursor(d) = (CHOOSE r \in UnderWay(d) : TRUE).pos
        BY <3>3 DEF Cursor
      <4> QED
        BY <1>2, <4>2, <4>3
    <3> QED
      BY <3>1, <3>2, <3>3
  <2> HIDE DEF far
  <2>4. far \in Positions /\ far <= l[p.epoch] /\ Cursor(d) \in Positions /\ Cursor(d) <= l[p.epoch]
    BY <1>1, <2>2, <2>3
  <2>5. p.epoch \in Epochs /\ p.version \in Nat /\ p.epoch <= s.epoch /\ p.version <= s.version
    BY DEF ReaderOK, Reader
  <2>6. n \in Nat /\ n > 0
    BY <1>3, <1>7
  <2> HIDE DEF n, rs
  <2>7. b \in Body /\ BodyOK(s, l, b) /\ b.far = far /\ b.epoch = p.epoch
    BY <2>4, <2>5, <2>6 DEF Body, BodyOK
  <2>8. b # None
    BY <2>7, NotNone
  <2>9. Affirms(s, p) \/ Carries(s, ln) => Full(s, b)
    <3>1. ASSUME NEW r \in rs, r.pos = Chapters PROVE far = Chapters
      <4>1. Chapters <= far
        BY <2>2, <3>1
      <4>2. far \in Nat /\ far <= Chapters /\ Chapters \in Nat
        BY <2>4, PositionsAreNat
      <4> QED
        BY <4>1, <4>2
    <3> QED
      BY <1>4, <1>5, <2>7, <2>8, <3>1 DEF Full
  <2> HIDE DEF b
  <2>10. /\ BodyOK(s, l, Queued(box[d], b))
         /\ Full(s, box[d]) \/ Full(s, b) => Full(s, Queued(box[d], b))
    BY <2>7, QueuedOK
  <2> QED
    BY <2>1, <2>6, <2>9, <2>10 DEF HeldIn
<1> QED
  BY <1>6, <1>7

-----------------------------------------------------------------------------
(* PositionSync: the step of one device *)

\* The other devices are as they were.
Apart(d) ==
  /\ Domains'
  /\ \A x \in Devices \ {d} :
       /\ page'[x] = page[x] /\ line'[x] = line[x] /\ clock'[x] = clock[x] /\ box'[x] = box[x]
       /\ affirmed'[x] = affirmed[x] /\ (x \in excused' <=> x \in excused)

\* An affirmation in hand stays in hand while the row goes on.
LEMMA AffirmedGrows ==
  ASSUME NEW s, NEW l, NEW s2, NEW l2, Grown(s, l, s2, l2),
         NEW p, NEW ln, NEW b, NEW a, NEW ex, AffirmedOK(s, p, ln, b, a, ex),
         NEW p2, NEW ln2, NEW b2, NEW ex2, ex => ex2,
         s2.epoch = s.epoch /\ HeldIn(s, p, ln, b) => HeldIn(s, p2, ln2, b2) \/ s2.mark = Chapters \/ ex2
  PROVE  AffirmedOK(s2, p2, ln2, b2, a, ex2)
<1>1. CASE a = None
  BY <1>1 DEF AffirmedOK
<1>2. CASE a # None
  <2>1. a \in [epoch : Epochs] /\ a.epoch \in Epochs /\ a.epoch <= s.epoch
    BY <1>2 DEF AffirmedOK
  <2>2. a.epoch <= s2.epoch
    BY <2>1, GrownFacts
  <2>3. ASSUME a.epoch = s2.epoch, ~ex2
        PROVE  s2.mark = Chapters \/ HeldIn(s2, p2, ln2, b2)
    <3>1. s2.epoch = s.epoch
      BY <2>1, <2>3, GrownFacts
    <3>2. CASE s.mark = Chapters
      <4>1. s2.mark \in Positions /\ Chapters <= s2.mark
        BY <3>1, <3>2 DEF Grown
      <4> QED
        BY <4>1, ChaptersAssumption DEF Positions
    <3>3. CASE HeldIn(s, p, ln, b)
      <4>1. HeldIn(s, p2, ln2, b2) \/ s2.mark = Chapters
        BY <2>3, <3>1, <3>3
      <4> QED
        BY <3>1, <4>1 DEF HeldIn, Full, Affirms, Carries, Carrying
    <3> QED
      BY <1>2, <2>3, <3>1, <3>2, <3>3 DEF AffirmedOK
  <2> QED
    BY <1>2, <2>1, <2>2, <2>3 DEF AffirmedOK
<1> QED
  BY <1>1, <1>2

\* A step of device d keeps the invariant when what it leaves d with is right.
LEMMA ClientKeeps ==
  ASSUME SyncInv, NEW d \in Devices, Apart(d), Smalls', RowOK(srv', label'), Grown(srv, label, srv', label'),
         \A o \in net' : o \in net \/ (o.by \in Devices /\ BodyOK(srv', label', o.body)),
         DeviceOK(srv', label', page'[d], line'[d], clock'[d], box'[d]),
         AffirmedOK(srv', page'[d], line'[d], box'[d], affirmed'[d], d \in excused')
  PROVE  SyncInv'
<1>1. ASSUME NEW o \in net' PROVE o.by \in Devices /\ BodyOK(srv', label', o.body)
  <2>1. CASE o \in net
    <3>1. o.by \in Devices /\ BodyOK(srv, label, o.body)
      BY <2>1 DEF SyncInv, NetOK
    <3> QED
      BY <3>1, BodyGrows
  <2> QED
    BY <1>1, <2>1
<1>2. ASSUME NEW x \in Devices
      PROVE  /\ DeviceOK(srv', label', page'[x], line'[x], clock'[x], box'[x])
             /\ AffirmedOK(srv', page'[x], line'[x], box'[x], affirmed'[x], x \in excused')
  <2>1. CASE x = d
    BY <2>1
  <2>2. CASE x # d
    <3>1. /\ DeviceOK(srv, label, page[x], line[x], clock[x], box[x])
          /\ AffirmedOK(srv, page[x], line[x], box[x], affirmed[x], x \in excused)
      BY DEF SyncInv
    <3>2. DeviceOK(srv', label', page[x], line[x], clock[x], box[x])
      BY <3>1, DeviceGrows
    <3>3. AffirmedOK(srv', page[x], line[x], box[x], affirmed[x], x \in excused)
      BY <3>1, AffirmedGrows
    <3>4. /\ page'[x] = page[x] /\ line'[x] = line[x] /\ clock'[x] = clock[x] /\ box'[x] = box[x]
          /\ affirmed'[x] = affirmed[x] /\ (x \in excused') = (x \in excused)
      BY <2>2 DEF Apart
    <3> QED
      BY <3>2, <3>3, <3>4
  <2> QED
    BY <2>1, <2>2
<1>3. NetOK'
  BY <1>1 DEF NetOK
<1> QED
  BY <1>2, <1>3 DEF SyncInv, Apart

\* The row and the reports have grown from themselves.
LEMMA Steady == ASSUME SyncInv PROVE Grown(srv, label, srv, label) /\ label \in [Epochs -> Positions]
<1>1. /\ label \in [Epochs -> Positions] /\ srv.version \in Nat /\ srv.mark \in Positions /\ srv.epoch \in Epochs
  BY DEF SyncInv, RowOK, Smalls
<1>2. /\ \A e \in Epochs : label[e] \in Nat
      /\ srv.version \in Nat /\ srv.mark \in Nat /\ srv.epoch \in Nat
  BY <1>1, PositionsAreNat
<1>3. (\A e \in Epochs : label[e] <= label[e]) /\ srv.version <= srv.version /\ srv.mark <= srv.mark /\ srv.epoch <= srv.epoch
  BY <1>2
<1> QED
  BY <1>1, <1>3 DEF Grown

\* A step of device d that nothing of the row or the reports follows from.
LEMMA QuietStep ==
  ASSUME SyncInv, NEW d \in Devices, Apart(d), Smalls', UNCHANGED <<srv, label, net, affirmed>>,
         d \in excused => d \in excused',
         DeviceOK(srv, label, page'[d], line'[d], clock'[d], box'[d]),
         HeldIn(srv, page[d], line[d], box[d])
           => HeldIn(srv, page'[d], line'[d], box'[d]) \/ srv.mark = Chapters \/ d \in excused'
  PROVE  SyncInv'
<1>1. Grown(srv, label, srv, label)
  BY Steady
<1>2. AffirmedOK(srv, page[d], line[d], box[d], affirmed[d], d \in excused)
  BY DEF SyncInv
<1>3. AffirmedOK(srv, page'[d], line'[d], box'[d], affirmed[d], d \in excused')
  <2> DEFINE ex == d \in excused
             ex2 == d \in excused'
  <2>1. /\ ex => ex2
        /\ srv.epoch = srv.epoch /\ HeldIn(srv, page[d], line[d], box[d])
             => HeldIn(srv, page'[d], line'[d], box'[d]) \/ srv.mark = Chapters \/ ex2
    OBVIOUS
  <2>2. AffirmedOK(srv, page[d], line[d], box[d], affirmed[d], ex)
    BY <1>2
  <2> HIDE DEF ex, ex2
  <2>3. AffirmedOK(srv, page'[d], line'[d], box'[d], affirmed[d], ex2)
    BY <1>1, <2>1, <2>2, AffirmedGrows
  <2> QED
    BY <2>3 DEF ex2
<1>4. RowOK(srv, label)
  BY DEF SyncInv
<1> QED
  BY <1>1, <1>3, <1>4, ClientKeeps

\* The reports grow by what the page shows.
LEMMA FurthestOK ==
  ASSUME SyncInv, NEW e \in Epochs, NEW x \in Positions
  PROVE  /\ Furthest(label, e, x) \in [Epochs -> Positions] /\ x <= Furthest(label, e, x)[e]
         /\ Grown(srv, label, srv, Furthest(label, e, x)) /\ RowOK(srv, Furthest(label, e, x))
         /\ Furthest(read, e, x) \in [Epochs -> Positions]
<1> DEFINE f == Furthest(label, e, x)
<1>1. label \in [Epochs -> Positions] /\ read \in [Epochs -> Positions] /\ RowOK(srv, label)
  BY DEF SyncInv, Smalls
<1>2. ASSUME NEW g \in [Epochs -> Positions]
      PROVE  Max({g[e], x}) \in Positions /\ x <= Max({g[e], x}) /\ g[e] <= Max({g[e], x})
  <2> DEFINE y == Max({g[e], x})
  <2>1. g[e] \in Nat /\ x \in Nat /\ g[e] \in Positions
    BY PositionsAreNat
  <2>2. y \in {g[e], x} /\ x <= y /\ g[e] <= y
    BY <2>1, GreaterOf
  <2> HIDE DEF y
  <2>3. y \in Positions
    BY <2>1, <2>2
  <2> QED
    BY <2>2, <2>3 DEF y
<1>3. \A g \in [Epochs -> Positions] : Furthest(g, e, x) = [g EXCEPT ![e] = Max({g[e], x})]
  BY DEF Furthest
<1>4. f \in [Epochs -> Positions] /\ x <= f[e] /\ label[e] <= f[e] /\ \A k \in Epochs \ {e} : f[k] = label[k]
  BY <1>1, <1>2, <1>3
<1>5. Furthest(read, e, x) \in [Epochs -> Positions]
  BY <1>1, <1>2, <1>3
<1> HIDE DEF f
<1>6. \A k \in Epochs : label[k] <= f[k]
  <2>1. \A k \in Epochs : label[k] \in Nat
    BY <1>1, PositionsAreNat
  <2>2. \A k \in Epochs : label[k] <= label[k]
    BY <2>1
  <2> QED
    BY <1>4, <2>2
<1>7. Grown(srv, label, srv, f)
  BY <1>1, <1>4, <1>6, Steady DEF Grown
<1>8. srv.mark <= f[srv.epoch]
  <2>1. srv.mark \in Positions /\ srv.epoch \in Epochs /\ srv.mark <= label[srv.epoch]
    BY <1>1 DEF RowOK
  <2> QED
    BY <1>7, <2>1, GrownFacts
<1>9. RowOK(srv, f)
  BY <1>1, <1>8 DEF RowOK
<1> QED
  BY <1>4, <1>5, <1>7, <1>9 DEF f

\* What the invariant says of one device.
LEMMA DeviceIs ==
  ASSUME SyncInv, NEW d \in Devices
  PROVE  /\ DeviceOK(srv, label, page[d], line[d], clock[d], box[d])
         /\ LineOK(srv, label, page[d], line[d]) /\ ClockOK(srv, line[d], clock[d])
         /\ box[d] = None \/ BodyOK(srv, label, box[d])
         /\ AffirmedOK(srv, page[d], line[d], box[d], affirmed[d], d \in excused)
         /\ IsOpen(d) => ReaderOK(srv, label, page[d])
         /\ ~IsOpen(d) => page[d] \in {Away, Gone}
         /\ seq[d] \in Nat /\ RowOK(srv, label) /\ srv.epoch \in Epochs /\ srv.version \in Nat
         /\ srv.mark \in Positions /\ srv.cur \in Positions /\ label \in [Epochs -> Positions]
<1>1. /\ DeviceOK(srv, label, page[d], line[d], clock[d], box[d])
      /\ AffirmedOK(srv, page[d], line[d], box[d], affirmed[d], d \in excused)
      /\ RowOK(srv, label) /\ seq[d] \in Nat /\ label \in [Epochs -> Positions]
  BY DEF SyncInv, Smalls
<1>2. IsOpen(d) => ReaderOK(srv, label, page[d])
  BY <1>1, NotNone DEF DeviceOK, IsOpen
<1>3. ~IsOpen(d) => page[d] \in {Away, Gone}
  BY <1>1, NotNone DEF DeviceOK, IsOpen, ReaderOK
<1> QED
  BY <1>1, <1>2, <1>3 DEF DeviceOK, RowOK

\* What device d has is replaced; writing back what it had changes nothing.
Replaced(f, d, x) == [f EXCEPT ![d] = x]

\* Writing back what a device has changes nothing.
LEMMA Unmoved == ASSUME SyncInv, NEW d \in Devices
                 PROVE  /\ page = Replaced(page, d, page[d]) /\ line = Replaced(line, d, line[d])
                        /\ clock = Replaced(clock, d, clock[d]) /\ box = Replaced(box, d, box[d])
BY DEF SyncInv, Domains, Replaced

\* Four writes at device d leave the other devices as they were.
LEMMA MovesAlone ==
  ASSUME SyncInv, NEW d \in Devices, NEW p, NEW ln, NEW c, NEW b,
         page' = Replaced(page, d, p), line' = Replaced(line, d, ln),
         clock' = Replaced(clock, d, c), box' = Replaced(box, d, b),
         affirmed' = [x \in Devices |-> affirmed'[x]],
         \A x \in Devices \ {d} : affirmed'[x] = affirmed[x] /\ (x \in excused' <=> x \in excused)
  PROVE  Apart(d) /\ page'[d] = p /\ line'[d] = ln /\ clock'[d] = c /\ box'[d] = b
<1>1. /\ page = [x \in Devices |-> page[x]] /\ line = [x \in Devices |-> line[x]]
      /\ clock = [x \in Devices |-> clock[x]] /\ box = [x \in Devices |-> box[x]]
  BY DEF SyncInv, Domains
<1>2. /\ page' = [x \in Devices |-> page'[x]] /\ page'[d] = p /\ \A x \in Devices \ {d} : page'[x] = page[x]
  BY <1>1 DEF Replaced
<1>3. /\ line' = [x \in Devices |-> line'[x]] /\ line'[d] = ln /\ \A x \in Devices \ {d} : line'[x] = line[x]
  BY <1>1 DEF Replaced
<1>4. /\ clock' = [x \in Devices |-> clock'[x]] /\ clock'[d] = c /\ \A x \in Devices \ {d} : clock'[x] = clock[x]
  BY <1>1 DEF Replaced
<1>5. /\ box' = [x \in Devices |-> box'[x]] /\ box'[d] = b /\ \A x \in Devices \ {d} : box'[x] = box[x]
  BY <1>1 DEF Replaced
<1> QED
  BY <1>2, <1>3, <1>4, <1>5 DEF Apart, Domains

\* Nobody affirms, and nobody is excused.
LEMMA AffirmedStill == ASSUME SyncInv, UNCHANGED <<affirmed, excused>>, NEW d \in Devices
                       PROVE  /\ affirmed' = [x \in Devices |-> affirmed'[x]]
                              /\ \A x \in Devices \ {d} : affirmed'[x] = affirmed[x] /\ (x \in excused' <=> x \in excused)
BY DEF SyncInv, Domains

\* The lesser of two, and the positions a page opens with.
LEMMA LesserOf == ASSUME NEW a \in Nat, NEW b \in Nat
                  PROVE  Min({a, b}) \in {a, b} /\ Min({a, b}) <= a /\ Min({a, b}) <= b
<1>1. \E x \in {a, b} : \A y \in {a, b} : x <= y
  OBVIOUS
<1> QED
  BY <1>1 DEF Min

\* The position and the bookmark that a page opens with.
LEMMA PlacesOK == ASSUME SyncInv, NEW d \in Devices PROVE Place(d) \in Positions /\ Mark(d) \in Positions
<1>1. srv.cur \in Positions /\ srv.mark \in Positions
  BY DeviceIs
<1>2. CASE ~Queueing(d)
  BY <1>1, <1>2 DEF Place, Mark
<1>3. CASE Queueing(d)
  <2>1. box[d].pos \in Positions /\ box[d].far \in Positions
    BY <1>3, DeviceIs DEF Queueing, BodyOK, Body
  <2>2. box[d].far \in Nat /\ srv.mark \in Nat
    BY <1>1, <2>1, PositionsAreNat
  <2>3. Max({srv.mark, box[d].far}) \in {srv.mark, box[d].far}
    BY <2>2, GreaterOf
  <2>4. Max({srv.mark, box[d].far}) \in Positions
    BY <1>1, <2>1, <2>3
  <2> QED
    BY <1>3, <2>1, <2>4 DEF Place, Mark
<1> QED
  BY <1>2, <1>3

\* A book is opened: nothing of an earlier page of the device is this one's.
LEMMA OpenKeeps == ASSUME SyncInv, NEW d \in Devices, Open(d) PROVE SyncInv'
<1> DEFINE at == Min({Place(d), Chapters - 1})
           r == [pos |-> at, epoch |-> srv.epoch]
           p == [pc |-> "open", at |-> at, pass |-> srv.epoch, epoch |-> srv.epoch,
                 version |-> srv.version, mark |-> Mark(d), shown |-> Mark(d),
                 pending |-> r, finish |-> None, busy |-> None, reload |-> FALSE]
           l == Furthest(label, srv.epoch, at)
<1>1. /\ page[d] = Away /\ page' = [page EXCEPT ![d] = p] /\ label' = l /\ read' = Furthest(read, srv.epoch, at)
      /\ UNCHANGED <<srv, line, clock, box, flushes, seq, drain, sync, net, failures, affirmed, excused>>
  BY DEF Open
<1>2. at \in Positions /\ at < Chapters
  <2>1. Place(d) \in Nat /\ Chapters - 1 \in Nat /\ Place(d) \in Positions /\ Chapters - 1 \in Positions /\ Chapters \in Nat
    BY PlacesOK, PositionsAreNat, ChaptersAssumption
  <2>2. at \in {Place(d), Chapters - 1} /\ at <= Chapters - 1
    BY <2>1, LesserOf
  <2> HIDE DEF at
  <2> QED
    BY <2>1, <2>2
<1> HIDE DEF at
<1>3. srv.epoch \in Epochs /\ srv.version \in Nat /\ Mark(d) \in Positions
  BY DeviceIs, PlacesOK
<1>4. /\ l \in [Epochs -> Positions] /\ at <= l[srv.epoch] /\ Grown(srv, label, srv, l) /\ RowOK(srv, l)
      /\ Furthest(read, srv.epoch, at) \in [Epochs -> Positions]
  BY <1>2, <1>3, FurthestOK
<1> HIDE DEF l
<1>5. r \in Report /\ ReportOK(l, r) /\ r.epoch = srv.epoch /\ r.pos = at /\ r # None
  BY <1>2, <1>3, <1>4, NotNone DEF Report, ReportOK
<1> HIDE DEF r
<1>6. p \in Reader
  BY <1>2, <1>3, <1>5 DEF Reader
<1>7. /\ p.pc = "open" /\ p.epoch = srv.epoch /\ p.version = srv.version /\ p.pending = r
      /\ p.finish = None /\ p.busy = None
  OBVIOUS
<1> HIDE DEF p
<1>8. srv.epoch <= srv.epoch /\ srv.version <= srv.version
  <2>1. srv.epoch \in Nat /\ srv.version \in Nat
    BY <1>3, PositionsAreNat
  <2> QED
    BY <2>1
<1>9. ReaderOK(srv, l, p)
  BY <1>2, <1>5, <1>6, <1>7, <1>8 DEF ReaderOK
<1>10. DeviceOK(srv, l, page[d], line[d], clock[d], box[d])
  BY <1>4, DeviceIs, DeviceGrows
<1>11. LineOK(srv, l, p, line[d])
  BY <1>1, <1>10, NotNone, LineFits DEF DeviceOK
<1>12. DeviceOK(srv, l, p, line[d], clock[d], box[d])
  BY <1>9, <1>10, <1>11 DEF DeviceOK
<1>13. HeldIn(srv, page[d], line[d], box[d]) => HeldIn(srv, p, line[d], box[d])
  BY <1>1, NotNone DEF HeldIn, Affirms
<1>14. AffirmedOK(srv, p, line[d], box[d], affirmed[d], d \in excused)
  BY <1>4, <1>13, DeviceIs, AffirmedGrows
<1>15. /\ Apart(d) /\ page'[d] = p /\ line'[d] = line[d] /\ clock'[d] = clock[d] /\ box'[d] = box[d]
  <2>1. line' = Replaced(line, d, line[d]) /\ clock' = Replaced(clock, d, clock[d]) /\ box' = Replaced(box, d, box[d])
    BY <1>1, Unmoved
  <2>2. page' = Replaced(page, d, p)
    BY <1>1 DEF Replaced
  <2>3. UNCHANGED <<affirmed, excused>>
    BY <1>1
  <2> QED
    BY <2>1, <2>2, <2>3, MovesAlone, AffirmedStill
<1>16. Smalls'
  BY <1>1, <1>4 DEF SyncInv, Smalls
<1> QED
  BY <1>1, <1>4, <1>12, <1>14, <1>15, <1>16, ClientKeeps

\* A relocation.
LEMMA TurnKeeps == ASSUME SyncInv, NEW d \in Devices, NEW x \in 0..(Chapters - 1), Turn(d, x) PROVE SyncInv'
<1> DEFINE old == page[d]
           r == [pos |-> x, epoch |-> old.epoch]
           q == [old EXCEPT !.at = x]
           p == [q EXCEPT !.pending = r]
           l == Furthest(label, old.epoch, x)
<1>1. /\ old.pc = "open" /\ page' = [page EXCEPT ![d] = p] /\ label' = l /\ read' = Furthest(read, old.pass, x)
      /\ UNCHANGED <<srv, line, clock, box, flushes, seq, drain, sync, net, failures, affirmed, excused>>
  BY DEF Turn, SyncInv, Domains
<1>2. x \in Positions /\ x < Chapters
  BY ChaptersAssumption DEF Positions
<1>3. ReaderOK(srv, label, old)
  BY <1>1, DeviceIs DEF IsOpen
<1> HIDE DEF old
<1>4. old \in Reader /\ old.epoch \in Epochs /\ old.pass \in Epochs
  BY <1>3 DEF ReaderOK, Reader
<1>5. /\ l \in [Epochs -> Positions] /\ x <= l[old.epoch] /\ Grown(srv, label, srv, l) /\ RowOK(srv, l)
      /\ Furthest(read, old.pass, x) \in [Epochs -> Positions]
  BY <1>2, <1>4, FurthestOK
<1> HIDE DEF l
<1>6. r \in Report /\ ReportOK(l, r) /\ r.epoch = old.epoch /\ r.pos = x /\ r # None
  BY <1>2, <1>4, <1>5, NotNone DEF Report, ReportOK
<1> HIDE DEF r
<1>7. q \in Reader /\ SameWork(old, q) /\ q.version = old.version
  BY <1>2, <1>4 DEF Reader, SameWork
<1> HIDE DEF q
<1>8. /\ p \in Reader /\ p.pc = old.pc /\ p.epoch = old.epoch /\ p.version = old.version
      /\ p.pending = r /\ p.finish = old.finish /\ p.busy = old.busy
  BY <1>6, <1>7 DEF Reader, SameWork
<1> HIDE DEF p
<1>9. ReaderOK(srv, l, old)
  BY <1>3, <1>5, ReaderGrows
<1>10. ReaderOK(srv, l, p)
  BY <1>1, <1>2, <1>6, <1>8, <1>9 DEF ReaderOK, Ours
<1>11. DeviceOK(srv, l, old, line[d], clock[d], box[d])
  BY <1>5, DeviceIs, DeviceGrows DEF old
<1>12. LineOK(srv, l, p, line[d])
  BY <1>8, <1>11, LineFits DEF DeviceOK
<1>13. DeviceOK(srv, l, p, line[d], clock[d], box[d])
  BY <1>10, <1>11, <1>12 DEF DeviceOK
<1>14. HeldIn(srv, old, line[d], box[d]) => HeldIn(srv, p, line[d], box[d])
  BY <1>8 DEF HeldIn, Affirms
<1>15. AffirmedOK(srv, p, line[d], box[d], affirmed[d], d \in excused)
  BY <1>5, <1>14, DeviceIs, AffirmedGrows DEF old
<1>16. /\ Apart(d) /\ page'[d] = p /\ line'[d] = line[d] /\ clock'[d] = clock[d] /\ box'[d] = box[d]
  <2>1. line' = Replaced(line, d, line[d]) /\ clock' = Replaced(clock, d, clock[d]) /\ box' = Replaced(box, d, box[d])
    BY <1>1, Unmoved
  <2>2. page' = Replaced(page, d, p)
    BY <1>1 DEF Replaced
  <2>3. UNCHANGED <<affirmed, excused>>
    BY <1>1
  <2> QED
    BY <2>1, <2>2, <2>3, MovesAlone, AffirmedStill
<1>17. Smalls'
  BY <1>1, <1>5 DEF SyncInv, Smalls
<1> QED
  BY <1>1, <1>5, <1>13, <1>15, <1>16, <1>17, ClientKeeps

\* "Finish book": the affirmation waits or is on its way.
LEMMA FinishKeeps == ASSUME SyncInv, NEW d \in Devices, Finish(d) PROVE SyncInv'
<1> DEFINE old == page[d]
           r == [pos |-> Chapters, epoch |-> old.epoch]
           q == [old EXCEPT !.pending = None]
           p == [q EXCEPT !.finish = r]
           p1 == [old EXCEPT !.pending = None, !.finish = r]
           l == Furthest(label, old.epoch, Chapters)
           f == Fired(d, p1, seq[d])
           a == [epoch |-> old.epoch]
<1>1. /\ old.pc = "open" /\ page' = [page EXCEPT ![d] = f.page] /\ line' = [line EXCEPT ![d] = f.line]
      /\ seq' = [seq EXCEPT ![d] = f.seq]
      /\ label' = l /\ read' = Furthest(read, old.pass, Chapters)
      /\ affirmed' = [affirmed EXCEPT ![d] = a] /\ excused' = excused \ {d}
      /\ UNCHANGED <<srv, clock, box, flushes, drain, sync, net, failures>>
  BY DEF Finish
<1>20. p1 = p
  OBVIOUS
<1>2. ReaderOK(srv, label, old)
  BY <1>1, DeviceIs DEF IsOpen
<1> HIDE DEF old, f, p1
<1>3. old \in Reader /\ old.epoch \in Epochs /\ old.pass \in Epochs /\ old.epoch <= srv.epoch /\ Chapters \in Positions
  BY <1>2, PositionsAreNat DEF ReaderOK, Reader
<1>4. /\ l \in [Epochs -> Positions] /\ Chapters <= l[old.epoch] /\ Grown(srv, label, srv, l) /\ RowOK(srv, l)
      /\ Furthest(read, old.pass, Chapters) \in [Epochs -> Positions]
  BY <1>3, FurthestOK
<1> HIDE DEF l
<1>5. r \in Report /\ ReportOK(l, r) /\ r.epoch = old.epoch /\ r.pos = Chapters /\ r # None
  BY <1>3, <1>4, NotNone DEF Report, ReportOK
<1> HIDE DEF r
<1>6. /\ q \in Reader /\ q.pc = old.pc /\ q.epoch = old.epoch /\ q.version = old.version /\ q.busy = old.busy
      /\ q.pending = None
  BY <1>3 DEF Reader
<1> HIDE DEF q
<1>7. /\ p \in Reader /\ p.pc = old.pc /\ p.epoch = old.epoch /\ p.version = old.version /\ p.busy = old.busy
      /\ p.pending = None /\ p.finish = r
  BY <1>5, <1>6 DEF Reader
<1> HIDE DEF p
<1>8. ReaderOK(srv, l, old)
  BY <1>2, <1>4, ReaderGrows
<1>9. ReaderOK(srv, l, p)
  BY <1>1, <1>5, <1>7, <1>8 DEF ReaderOK, Ours
<1>10. DeviceOK(srv, l, old, line[d], clock[d], box[d])
  BY <1>4, DeviceIs, DeviceGrows DEF old
<1>11. LineOK(srv, l, p, line[d])
  BY <1>7, <1>10, LineFits DEF DeviceOK
<1>12. /\ ReaderOK(srv, l, f.page) /\ LineOK(srv, l, f.page, f.line) /\ (f.line = <<>> => line[d] = <<>>) /\ f.seq \in Nat
       /\ Affirms(srv, p) => Affirms(srv, f.page) \/ Carries(srv, f.line)
  <2>1. PICK n \in Nat : n = seq[d]
    BY DeviceIs
  <2> DEFINE F == Fired(d, p, n)
  <2>2. f = F
    BY <1>20, <2>1 DEF f
  <2>3. /\ ReaderOK(srv, l, F.page) /\ LineOK(srv, l, F.page, F.line) /\ (F.line = <<>> => line[d] = <<>>)
        /\ F.seq \in Nat /\ (Affirms(srv, p) => Affirms(srv, F.page) \/ Carries(srv, F.line))
    BY <1>9, <1>11, FiredOK
  <2> HIDE DEF F
  <2> QED
    BY <2>2, <2>3
<1>13. DeviceOK(srv, l, f.page, f.line, clock[d], box[d])
  BY <1>10, <1>12 DEF DeviceOK, ClockOK
<1>14. a # None /\ a \in [epoch : Epochs] /\ a.epoch = old.epoch
  BY <1>3 DEF None
<1>15. a.epoch = srv.epoch => HeldIn(srv, f.page, f.line, box[d])
  BY <1>1, <1>5, <1>7, <1>12, <1>14 DEF Affirms, HeldIn
<1> HIDE DEF a
<1>16. AffirmedOK(srv, f.page, f.line, box[d], a, d \in excused')
  BY <1>3, <1>14, <1>15 DEF AffirmedOK
<1>17. affirmed' = [y \in Devices |-> affirmed'[y]] /\ affirmed'[d] = a /\ \A y \in Devices \ {d} : affirmed'[y] = affirmed[y]
  BY <1>1 DEF SyncInv, Domains
<1>18. /\ Apart(d) /\ page'[d] = f.page /\ line'[d] = f.line /\ clock'[d] = clock[d] /\ box'[d] = box[d]
  <2>1. clock' = Replaced(clock, d, clock[d]) /\ box' = Replaced(box, d, box[d])
    BY <1>1, Unmoved
  <2>3. page' = Replaced(page, d, f.page) /\ line' = Replaced(line, d, f.line)
    BY <1>1 DEF Replaced
  <2>2. \A y \in Devices \ {d} : affirmed'[y] = affirmed[y] /\ (y \in excused' <=> y \in excused)
    BY <1>1, <1>17
  <2> QED
    BY <1>17, <2>1, <2>2, <2>3, MovesAlone
<1>19. Smalls'
  BY <1>1, <1>4, <1>12 DEF SyncInv, Smalls
<1> QED
  BY <1>1, <1>4, <1>13, <1>16, <1>17, <1>18, <1>19, ClientKeeps

\* A step of device d in which the row, the reports and the requests stay.
LEMMA DeviceStep ==
  ASSUME SyncInv, NEW d \in Devices, NEW p, NEW ln, NEW c, NEW b,
         page' = Replaced(page, d, p), line' = Replaced(line, d, ln),
         clock' = Replaced(clock, d, c), box' = Replaced(box, d, b),
         UNCHANGED <<srv, label, net, affirmed>>, excused' \in {excused, excused \cup {d}}, Smalls',
         DeviceOK(srv, label, p, ln, c, b),
         HeldIn(srv, page[d], line[d], box[d])
           => HeldIn(srv, p, ln, b) \/ srv.mark = Chapters \/ d \in excused'
  PROVE  SyncInv'
<1>1. /\ affirmed' = [x \in Devices |-> affirmed'[x]]
      /\ \A x \in Devices \ {d} : affirmed'[x] = affirmed[x] /\ (x \in excused' <=> x \in excused)
  BY DEF SyncInv, Domains
<1>2. Apart(d) /\ page'[d] = p /\ line'[d] = ln /\ clock'[d] = c /\ box'[d] = b
  BY <1>1, MovesAlone
<1>3. d \in excused => d \in excused'
  OBVIOUS
<1> QED
  BY <1>2, <1>3, QuietStep

\* The reporter's timer.
LEMMA FireKeeps == ASSUME SyncInv, NEW d \in Devices, Fire(d) PROVE SyncInv'
<1> DEFINE f == Fired(d, page[d], seq[d])
<1>1. /\ IsOpen(d) /\ page' = Replaced(page, d, f.page) /\ line' = Replaced(line, d, f.line)
      /\ seq' = [seq EXCEPT ![d] = f.seq]
      /\ UNCHANGED <<srv, clock, box, flushes, drain, sync, net, failures, label, read, affirmed, excused>>
  BY DEF Fire, Replaced, history
<1>2. /\ ReaderOK(srv, label, f.page) /\ LineOK(srv, label, f.page, f.line) /\ (f.line = <<>> => line[d] = <<>>)
      /\ f.seq \in Nat
      /\ Affirms(srv, page[d]) \/ Carries(srv, line[d]) => Affirms(srv, f.page) \/ Carries(srv, f.line)
  <2>1. PICK n \in Nat : n = seq[d]
    BY DeviceIs
  <2>2. PICK p : p = page[d]
    OBVIOUS
  <2>3. ReaderOK(srv, label, p) /\ LineOK(srv, label, p, line[d])
    BY <1>1, <2>2, DeviceIs
  <2> DEFINE g == Fired(d, p, n)
  <2>4. /\ ReaderOK(srv, label, g.page)
        /\ LineOK(srv, label, g.page, g.line)
    BY <2>3, FiredOK
  <2>5. g.line = <<>> => line[d] = <<>>
    BY <2>3, FiredOK
  <2>6. g.seq \in Nat
    BY <2>3, FiredOK
  <2>7. Affirms(srv, p) \/ Carries(srv, line[d]) => Affirms(srv, g.page) \/ Carries(srv, g.line)
    BY <2>3, FiredOK
  <2>8. f = g
    BY <2>1, <2>2
  <2> HIDE DEF f, g
  <2> QED
    BY <2>2, <2>4, <2>5, <2>6, <2>7, <2>8
<1> HIDE DEF f
<1>3. DeviceOK(srv, label, f.page, f.line, clock[d], box[d])
  BY <1>2, DeviceIs DEF DeviceOK, ClockOK
<1>4. HeldIn(srv, page[d], line[d], box[d]) => HeldIn(srv, f.page, f.line, box[d])
  BY <1>2 DEF HeldIn
<1>5. clock' = Replaced(clock, d, clock[d]) /\ box' = Replaced(box, d, box[d])
  BY <1>1, Unmoved
<1>6. Smalls'
  BY <1>1, <1>2 DEF SyncInv, Smalls
<1>7. UNCHANGED <<srv, label, net, affirmed>> /\ excused' \in {excused, excused \cup {d}}
  BY <1>1
<1> QED
  BY <1>1, <1>3, <1>4, <1>5, <1>6, <1>7, DeviceStep

\* What a page that is hidden leaves behind, in the outbox and on its way.
LEMMA HiddenOK ==
  ASSUME SyncInv, NEW d \in Devices, IsOpen(d)
  PROVE  /\ ReaderOK(srv, label, Hidden(d).page) /\ LineOK(srv, label, Hidden(d).page, Hidden(d).line)
         /\ Hidden(d).line = <<>> => line[d] = <<>>
         /\ Hidden(d).seq \in Nat
         /\ Retained(d).box = None \/ BodyOK(srv, label, Retained(d).box)
         /\ HeldIn(srv, page[d], line[d], box[d]) => Full(srv, Retained(d).box)
<1>1. /\ ReaderOK(srv, label, page[d]) /\ LineOK(srv, label, page[d], line[d])
      /\ box[d] = None \/ BodyOK(srv, label, box[d])
      /\ seq[d] \in Nat /\ srv.epoch \in Epochs /\ label \in [Epochs -> Positions]
  BY DeviceIs
<1>2. /\ Retained(d).box = None \/ BodyOK(srv, label, Retained(d).box)
      /\ Retained(d).seq \in Nat
      /\ HeldIn(srv, page[d], line[d], box[d]) => Full(srv, Retained(d).box)
  BY <1>1, RetainedOK
<1>3. PICK n \in Nat : n = Retained(d).seq
  BY <1>2
<1>4. /\ ReaderOK(srv, label, Fired(d, page[d], n).page)
      /\ LineOK(srv, label, Fired(d, page[d], n).page, Fired(d, page[d], n).line)
      /\ Fired(d, page[d], n).line = <<>> => line[d] = <<>>
      /\ Fired(d, page[d], n).seq \in Nat
  <2>1. ReaderOK(srv, label, page[d]) /\ LineOK(srv, label, page[d], line[d])
    BY <1>1
  <2> QED
    BY <2>1, FiredOK
<1> QED
  BY <1>2, <1>3, <1>4 DEF Hidden

\* The page is hidden, and comes back.
LEMMA HideKeeps == ASSUME SyncInv, NEW d \in Devices, Hide(d) PROVE SyncInv'
<1> DEFINE f == Hidden(d)
           b == Retained(d).box
<1>1. /\ IsOpen(d) /\ page' = Replaced(page, d, f.page) /\ line' = Replaced(line, d, f.line)
      /\ box' = Replaced(box, d, b)
      /\ seq' = [seq EXCEPT ![d] = f.seq] /\ failures < MaxFailures /\ failures' = failures + 1
      /\ UNCHANGED <<srv, clock, flushes, drain, sync, net, label, read, affirmed, excused>>
  BY DEF Hide, Replaced, history
<1>2. /\ ReaderOK(srv, label, f.page) /\ LineOK(srv, label, f.page, f.line) /\ (f.line = <<>> => line[d] = <<>>)
      /\ f.seq \in Nat
      /\ b = None \/ BodyOK(srv, label, b)
      /\ HeldIn(srv, page[d], line[d], box[d]) => Full(srv, b)
  BY <1>1, HiddenOK
<1> HIDE DEF f, b
<1>3. DeviceOK(srv, label, f.page, f.line, clock[d], b)
  BY <1>2, DeviceIs DEF DeviceOK, ClockOK
<1>4. HeldIn(srv, page[d], line[d], box[d]) => HeldIn(srv, f.page, f.line, b)
  BY <1>2 DEF HeldIn
<1>5. clock' = Replaced(clock, d, clock[d])
  BY <1>1, Unmoved
<1>6. Smalls'
  BY <1>1, <1>2, BoundsAssumption DEF SyncInv, Smalls
<1>7. UNCHANGED <<srv, label, net, affirmed>> /\ excused' \in {excused, excused \cup {d}}
  BY <1>1
<1> QED
  BY <1>1, <1>3, <1>4, <1>5, <1>6, <1>7, DeviceStep

\* The effect's cleanup.
LEMMA LeaveBookKeeps == ASSUME SyncInv, NEW d \in Devices, LeaveBook(d) PROVE SyncInv'
<1> DEFINE f == Hidden(d)
           b == Retained(d).box
           ln == Orphaned(f.line)
<1>1. /\ IsOpen(d) /\ page' = Replaced(page, d, Away) /\ line' = Replaced(line, d, ln)
      /\ box' = Replaced(box, d, b)
      /\ seq' = [seq EXCEPT ![d] = f.seq]
      /\ drain' = [drain EXCEPT ![d] = TRUE] /\ sync' = [sync EXCEPT ![d] = FALSE]
      /\ UNCHANGED <<srv, clock, flushes, net, failures, label, read, affirmed, excused>>
  BY DEF LeaveBook, Replaced, history, IsOpen
<1>2. /\ LineOK(srv, label, f.page, f.line) /\ (f.line = <<>> => line[d] = <<>>)
      /\ f.seq \in Nat
      /\ b = None \/ BodyOK(srv, label, b)
      /\ HeldIn(srv, page[d], line[d], box[d]) => Full(srv, b)
  BY <1>1, HiddenOK
<1> HIDE DEF f, b
<1>8. LineOK(srv, label, Away, ln) /\ (f.line # <<>> => ln # <<>>)
  BY <1>2, OrphanedOK
<1> HIDE DEF ln
<1>3. DeviceOK(srv, label, Away, ln, clock[d], b)
  BY <1>2, <1>8, DeviceIs DEF DeviceOK, ClockOK
<1>4. HeldIn(srv, page[d], line[d], box[d]) => HeldIn(srv, Away, ln, b)
  BY <1>2 DEF HeldIn
<1>5. clock' = Replaced(clock, d, clock[d])
  BY <1>1, Unmoved
<1>6. Smalls'
  BY <1>1, <1>2 DEF SyncInv, Smalls
<1>7. UNCHANGED <<srv, label, net, affirmed>> /\ excused' \in {excused, excused \cup {d}}
  BY <1>1
<1> QED
  BY <1>1, <1>3, <1>4, <1>5, <1>6, <1>7, DeviceStep

\* The tab is closed: what its page held is in the outbox.
LEMMA CloseKeeps == ASSUME SyncInv, NEW d \in Devices, Close(d) PROVE SyncInv'
<1> DEFINE ln == IF IsOpen(d) THEN Hidden(d).line ELSE line[d]
           b == IF IsOpen(d) THEN Retained(d).box ELSE box[d]
           o == [by |-> d, body |-> OnTheWire(d, ln[1].body)]
<1>1. /\ failures < MaxFailures /\ failures' = failures + 1
      /\ net' = net \cup IF ln # <<>> /\ ln[1].reply = None THEN {o} ELSE {}
      /\ page' = Replaced(page, d, Gone) /\ line' = Replaced(line, d, <<>>) /\ clock' = Replaced(clock, d, None)
      /\ flushes' = [flushes EXCEPT ![d] = "idle"] /\ drain' = [drain EXCEPT ![d] = FALSE]
      /\ sync' = [sync EXCEPT ![d] = FALSE]
      /\ UNCHANGED <<srv, label, read, affirmed, excused>>
  BY DEF Close, Replaced, history
<1>2. box' = Replaced(box, d, b)
  <2>1. CASE IsOpen(d)
    BY <2>1 DEF Close, Replaced
  <2>2. CASE ~IsOpen(d)
    BY <2>2, Unmoved DEF Close
  <2> QED
    BY <2>1, <2>2
<1>3. seq' \in [Devices -> Nat]
  <2>1. CASE IsOpen(d)
    BY <2>1, HiddenOK DEF Close, SyncInv, Smalls
  <2>2. CASE ~IsOpen(d)
    BY <2>2 DEF Close, SyncInv, Smalls
  <2> QED
    BY <2>1, <2>2
<1>4. ln # <<>> => o.by \in Devices /\ BodyOK(srv, label, o.body)
  <2>1. ln # <<>> => BodyOK(srv, label, ln[1].body)
    <3>1. CASE IsOpen(d)
      <4>1. LineOK(srv, label, Hidden(d).page, ln)
        BY <3>1, HiddenOK
      <4> HIDE DEF ln
      <4> QED
        BY <4>1, TailOK DEF DeliveryOK
    <3>2. CASE ~IsOpen(d)
      <4>1. LineOK(srv, label, page[d], ln)
        BY <3>2, DeviceIs
      <4> HIDE DEF ln
      <4> QED
        BY <4>1, TailOK DEF DeliveryOK
    <3> QED
      BY <3>1, <3>2
  <2> HIDE DEF ln
  <2>2. ln # <<>> => BodyOK(srv, label, OnTheWire(d, ln[1].body))
    BY <2>1, WireOK, DeviceIs
  <2> QED
    BY <2>2
<1>5. b = None \/ BodyOK(srv, label, b)
  BY HiddenOK, DeviceIs
<1>6. HeldIn(srv, page[d], line[d], box[d]) => Full(srv, b)
  <2>1. CASE IsOpen(d)
    BY <2>1, HiddenOK
  <2>2. CASE ~IsOpen(d)
    <3>1. ~Affirms(srv, page[d])
      BY <2>2 DEF Affirms, IsOpen
    <3>2. ~Carries(srv, line[d])
      BY <2>2, DeviceIs DEF Carries, Carrying, LineOK, DeliveryOK, Ours, IsOpen
    <3> QED
      BY <2>2, <3>1, <3>2 DEF HeldIn
  <2> QED
    BY <2>1, <2>2
<1> HIDE DEF b, ln
<1>7. DeviceOK(srv, label, Gone, <<>>, None, b)
  BY <1>5 DEF DeviceOK, LineOK, ClockOK
<1>8. AffirmedOK(srv, Gone, <<>>, b, affirmed[d], d \in excused)
  <2>1. HeldIn(srv, page[d], line[d], box[d]) => HeldIn(srv, Gone, <<>>, b)
    BY <1>6 DEF HeldIn
  <2> QED
    BY <2>1, DeviceIs, Steady, AffirmedGrows
<1>9. Apart(d) /\ page'[d] = Gone /\ line'[d] = <<>> /\ clock'[d] = None /\ box'[d] = b
  BY <1>1, <1>2, MovesAlone, AffirmedStill
<1>10. Smalls'
  <2>1. /\ flushes' \in [Devices -> {"idle", "wait", "sending"}] /\ drain' \in [Devices -> BOOLEAN]
        /\ sync' \in [Devices -> BOOLEAN]
    BY <1>1 DEF SyncInv, Smalls
  <2>2. failures' \in 0..MaxFailures
    BY <1>1, BoundsAssumption DEF SyncInv, Smalls
  <2>3. {label, read}' \subseteq [Epochs -> Positions] /\ excused' \subseteq Devices
    BY <1>1 DEF SyncInv, Smalls
  <2> QED
    BY <1>3, <2>1, <2>2, <2>3 DEF Smalls
<1>11. \A x \in net' : x \in net \/ (x.by \in Devices /\ BodyOK(srv', label', x.body))
  BY <1>1, <1>4
<1>12. RowOK(srv', label') /\ Grown(srv, label, srv', label')
  BY <1>1, Steady, DeviceIs
<1>13. /\ DeviceOK(srv', label', page'[d], line'[d], clock'[d], box'[d])
       /\ AffirmedOK(srv', page'[d], line'[d], box'[d], affirmed'[d], d \in excused')
  BY <1>1, <1>7, <1>8, <1>9
<1> QED
  BY <1>9, <1>10, <1>11, <1>12, <1>13, ClientKeeps

-----------------------------------------------------------------------------
(* PositionSync: deliveries are settled *)

LEMMA HeadIs ==
  ASSUME SyncInv, NEW d \in Devices, line[d] # <<>>
  PROVE  /\ DeliveryOK(srv, label, Foremost(d)) /\ Ours(page[d], Foremost(d)) /\ Foremost(d) \in Delivery
         /\ LineOK(srv, label, page[d], Tail(line[d]))
         /\ Carries(srv, line[d]) => Carrying(srv, Foremost(d)) \/ Carries(srv, Tail(line[d]))
         /\ BodyOK(srv, label, Wire(d)) /\ Wire(d) \in Body
         /\ Wire(d).epoch = Foremost(d).body.epoch /\ Wire(d).far = Foremost(d).body.far
         /\ Wire(d).pos = Foremost(d).body.pos /\ Wire(d).seq = Foremost(d).body.seq
         /\ ClockFits(srv, clock[d])
         /\ Foremost(d).mine => IsOpen(d) /\ ReaderOK(srv, label, page[d])
<1>1. LineOK(srv, label, page[d], line[d]) /\ ClockOK(srv, line[d], clock[d])
  BY DeviceIs
<1>2. /\ DeliveryOK(srv, label, line[d][1]) /\ Ours(page[d], line[d][1])
      /\ LineOK(srv, label, page[d], Tail(line[d]))
      /\ Carries(srv, line[d]) => Carrying(srv, line[d][1]) \/ Carries(srv, Tail(line[d]))
  BY <1>1, TailOK
<1>3. /\ DeliveryOK(srv, label, Foremost(d)) /\ Ours(page[d], Foremost(d))
      /\ Carries(srv, line[d]) => Carrying(srv, Foremost(d)) \/ Carries(srv, Tail(line[d]))
  BY <1>2 DEF Foremost
<1>4. Foremost(d) \in Delivery /\ BodyOK(srv, label, Foremost(d).body)
  BY <1>3 DEF DeliveryOK
<1>5. /\ BodyOK(srv, label, Wire(d)) /\ Wire(d) \in Body
      /\ Wire(d).epoch = Foremost(d).body.epoch /\ Wire(d).far = Foremost(d).body.far
      /\ Wire(d).pos = Foremost(d).body.pos /\ Wire(d).seq = Foremost(d).body.seq
  <2>1. BodyOK(srv, label, OnTheWire(d, Foremost(d).body)) /\ Rebased(Foremost(d).body, OnTheWire(d, Foremost(d).body))
    BY <1>1, <1>4, WireOK
  <2> QED
    BY <2>1 DEF Wire, Rebased
<1>6. ClockFits(srv, clock[d])
  BY <1>1 DEF ClockOK, ClockFits
<1>7. Foremost(d).mine => IsOpen(d)
  BY <1>3 DEF Ours, IsOpen
<1>8. Foremost(d).mine => ReaderOK(srv, label, page[d])
  BY <1>7, DeviceIs
<1> QED
  BY <1>2, <1>3, <1>4, <1>5, <1>6, <1>7, <1>8

\* What an answer says: refused means of an earlier pass, accepted means counted.
LEMMA AnsweredIs ==
  ASSUME SyncInv, NEW d \in Devices, line[d] # <<>>, Foremost(d).reply # None
  PROVE  /\ Foremost(d).reply.status = 409 => Foremost(d).body.epoch < srv.epoch
         /\ Foremost(d).reply.status = 200 =>
              /\ Foremost(d).reply \in Acceptances /\ Foremost(d).reply.epoch = Foremost(d).body.epoch
              /\ Foremost(d).reply.version <= srv.version /\ Foremost(d).body.far <= Foremost(d).reply.mark
              /\ Foremost(d).reply.epoch = srv.epoch => Foremost(d).reply.mark <= srv.mark
         /\ Foremost(d).reply.status \in {200, 409}
<1>1. ReplyOK(srv, Foremost(d).body, Foremost(d).reply)
  BY HeadIs DEF DeliveryOK
<1>2. CASE Foremost(d).reply = [status |-> 409] /\ Foremost(d).body.epoch < srv.epoch
  <2>1. Foremost(d).reply.status = 409
    BY <1>2
  <2> QED
    BY <1>2, <2>1
<1>3. CASE /\ Foremost(d).reply \in Acceptances
           /\ Foremost(d).reply.epoch = Foremost(d).body.epoch /\ Foremost(d).reply.version <= srv.version
           /\ Foremost(d).body.far <= Foremost(d).reply.mark
           /\ Foremost(d).reply.epoch = srv.epoch => Foremost(d).reply.mark <= srv.mark
  <2>1. Foremost(d).reply.status = 200
    BY <1>3, NotNone
  <2> QED
    BY <1>3, <2>1
<1> QED
  BY <1>1, <1>2, <1>3 DEF ReplyOK

\* An affirmation that reaches its end was accepted: it is counted.
LEMMA AcceptedCounts ==
  ASSUME SyncInv, NEW d \in Devices, line[d] # <<>>, Foremost(d).reply # None, Foremost(d).reply.status = 200,
         Foremost(d).body.epoch = srv.epoch, Foremost(d).body.far = Chapters
  PROVE  srv.mark = Chapters
<1>1. /\ Foremost(d).reply \in Acceptances /\ Chapters <= Foremost(d).reply.mark /\ Foremost(d).reply.mark <= srv.mark
  BY AnsweredIs
<1>2. srv.mark \in Positions /\ Foremost(d).reply.mark \in Positions
  BY <1>1, DeviceIs DEF Acceptances
<1> QED
  BY <1>1, <1>2, ChaptersAssumption DEF Positions

\* The head of the line that carries the affirmation of the row's pass.
LEMMA CarryingIs ==
  ASSUME SyncInv, NEW d \in Devices, line[d] # <<>>, Carrying(srv, Foremost(d))
  PROVE  /\ Foremost(d).mine /\ Foremost(d).kind = "live" /\ Foremost(d).fresh
         /\ Foremost(d).body.epoch = srv.epoch /\ Foremost(d).body.far = Chapters
<1>1. /\ Foremost(d).mine /\ Foremost(d).kind = "live" /\ Foremost(d).fresh
      /\ Foremost(d).body.epoch = srv.epoch /\ Chapters <= Foremost(d).body.far
      /\ Foremost(d).body \in Body
  BY HeadIs DEF Carrying, DeliveryOK, BodyOK
<1>2. Foremost(d).body.far \in Positions
  BY <1>1 DEF Body
<1> QED
  BY <1>1, <1>2, ChaptersAssumption DEF Positions

\* The head of the line leaves it.
LEMMA PopIs ==
  ASSUME SyncInv, NEW d \in Devices, line[d] # <<>>, NEW c, ClockFits(srv, c), Pop(d, c)
  PROVE  /\ line' = Replaced(line, d, Tail(line[d]))
         /\ \E c2 : clock' = Replaced(clock, d, c2) /\ ClockOK(srv, Tail(line[d]), c2)
<1> DEFINE c2 == IF Len(line[d]) = 1 THEN None ELSE c
<1>1. line' = Replaced(line, d, Tail(line[d])) /\ clock' = Replaced(clock, d, c2)
  BY DEF Pop, Replaced, SyncInv, Domains
<1>2. Len(line[d]) # 1 => Tail(line[d]) # <<>>
  BY TailOK, DeviceIs
<1>3. ClockOK(srv, Tail(line[d]), c2)
  BY <1>2 DEF ClockOK, ClockFits
<1> QED
  BY <1>1, <1>3

\* A step that settles the head of the line of device d.
LEMMA PopStep ==
  ASSUME SyncInv, NEW d \in Devices, line[d] # <<>>, NEW c, ClockFits(srv, c), Pop(d, c),
         NEW p, NEW b, page' = Replaced(page, d, p), box' = Replaced(box, d, b),
         UNCHANGED <<srv, label, net, affirmed, excused>>, Smalls',
         p \in {Away, Gone} \/ ReaderOK(srv, label, p), p.pc = page[d].pc, p.pc = "open" => p.epoch = page[d].epoch,
         b = None \/ BodyOK(srv, label, b),
         Affirms(srv, page[d]) => Affirms(srv, p),
         Full(srv, box[d]) => Full(srv, b) \/ srv.mark = Chapters,
         Carrying(srv, Foremost(d)) => Affirms(srv, p) \/ Full(srv, b) \/ srv.mark = Chapters
  PROVE  SyncInv'
<1>1. line' = Replaced(line, d, Tail(line[d]))
  BY PopIs
<1>2. PICK c2 : clock' = Replaced(clock, d, c2) /\ ClockOK(srv, Tail(line[d]), c2)
  BY PopIs
<1> DEFINE ln == Tail(line[d])
<1>3. LineOK(srv, label, page[d], ln) /\ (Carries(srv, line[d]) => Carrying(srv, Foremost(d)) \/ Carries(srv, ln))
  BY HeadIs
<1>4. ClockOK(srv, ln, c2) /\ line' = Replaced(line, d, ln)
  BY <1>1, <1>2
<1> HIDE DEF ln
<1>5. LineOK(srv, label, p, ln)
  BY <1>3, LineFits
<1>6. DeviceOK(srv, label, p, ln, c2, b)
  BY <1>4, <1>5 DEF DeviceOK
<1>7. HeldIn(srv, page[d], line[d], box[d]) => HeldIn(srv, p, ln, b) \/ srv.mark = Chapters
  BY <1>3 DEF HeldIn
<1>8. UNCHANGED <<srv, label, net, affirmed>> /\ excused' \in {excused, excused \cup {d}}
  OBVIOUS
<1> QED
  BY <1>2, <1>4, <1>6, <1>7, <1>8, DeviceStep

\* A live request was refused: the page asks for the canonical position.
LEMMA ConflictKeeps == ASSUME SyncInv, NEW d \in Devices, Conflict(d) PROVE SyncInv'
<1> DEFINE q == Foremost(d)
           old == page[d]
           x == [old EXCEPT !.busy = q]
<1>1. /\ line[d] # <<>> /\ q.kind = "live" /\ q.reply # None /\ q.reply.status = 409 /\ Pop(d, clock[d])
      /\ page' = IF q.mine THEN [page EXCEPT ![d].busy = q] ELSE page
      /\ UNCHANGED <<srv, box, flushes, seq, drain, sync, net, failures, label, read, affirmed, excused>>
  BY DEF Conflict, First, history
<1>2. /\ DeliveryOK(srv, label, q) /\ Ours(old, q) /\ q \in Delivery /\ ClockFits(srv, clock[d])
      /\ q.mine => ReaderOK(srv, label, old)
  BY <1>1, HeadIs
<1>3. q.body.epoch < srv.epoch /\ q.report.epoch = q.body.epoch
  BY <1>1, <1>2, AnsweredIs DEF DeliveryOK
<1>4. ~Carrying(srv, q)
  <2>1. q.body.epoch \in Nat /\ srv.epoch \in Nat
    BY <1>2, DeviceIs, PositionsAreNat DEF DeliveryOK, BodyOK, Body
  <2> QED
    BY <1>3, <2>1 DEF Carrying
<1>5. box' = Replaced(box, d, box[d]) /\ (box[d] = None \/ BodyOK(srv, label, box[d]))
  BY <1>1, Unmoved, DeviceIs
<1>6. Smalls'
  BY <1>1 DEF SyncInv, Smalls
<1>9. UNCHANGED <<srv, label, net, affirmed, excused>> /\ Pop(d, clock[d]) /\ line[d] # <<>>
  BY <1>1
<1>10. ~Carrying(srv, Foremost(d)) /\ ClockFits(srv, clock[d])
  BY <1>2, <1>4
<1>7. CASE ~q.mine
  <2>1. page' = Replaced(page, d, page[d]) /\ (page[d] \in {Away, Gone} \/ ReaderOK(srv, label, page[d]))
    BY <1>1, <1>7, Unmoved, DeviceIs
  <2> QED
    BY <1>5, <1>6, <1>9, <1>10, <2>1, PopStep
<1>8. CASE q.mine
  <2>1. page' = Replaced(page, d, x)
    BY <1>1, <1>8 DEF Replaced, SyncInv, Domains
  <2> HIDE DEF q, old
  <2>2. /\ x \in Reader /\ x.busy = q /\ x.pc = old.pc /\ x.epoch = old.epoch /\ x.version = old.version
        /\ x.pending = old.pending /\ x.finish = old.finish
    BY <1>2, <1>8 DEF ReaderOK, Reader
  <2> HIDE DEF x
  <2>3. ReaderOK(srv, label, x)
    BY <1>1, <1>2, <1>3, <1>8, <2>2 DEF ReaderOK, Ours
  <2>4. Affirms(srv, old) => Affirms(srv, x)
    BY <2>2 DEF Affirms
  <2>5. /\ Affirms(srv, page[d]) => Affirms(srv, x)
        /\ x.pc = page[d].pc /\ x.epoch = page[d].epoch
    BY <2>2, <2>4 DEF old
  <2> QED
    BY <1>5, <1>6, <1>9, <1>10, <2>1, <2>3, <2>5, PopStep
<1> QED
  BY <1>7, <1>8

\* A position learnt leaves the reporter as it is.
LEMMA SameWorkIs ==
  ASSUME NEW s, NEW p, NEW p2, SameWork(p, p2)
  PROVE  p2.pc = p.pc /\ p2.epoch = p.epoch /\ (Affirms(s, p) => Affirms(s, p2))
BY DEF SameWork, Affirms

\* A page or none with the work it had: the reader part of PopStep.
LEMMA PopSame ==
  ASSUME SyncInv, NEW d \in Devices, line[d] # <<>>, NEW c, ClockFits(srv, c), Pop(d, c),
         NEW p, NEW b, page' = Replaced(page, d, p), box' = Replaced(box, d, b),
         UNCHANGED <<srv, label, net, affirmed, excused>>, Smalls',
         p = page[d] \/ (ReaderOK(srv, label, p) /\ SameWork(page[d], p)),
         b = None \/ BodyOK(srv, label, b),
         Full(srv, box[d]) => Full(srv, b) \/ srv.mark = Chapters,
         Carrying(srv, Foremost(d)) => Full(srv, b) \/ srv.mark = Chapters
  PROVE  SyncInv'
<1>1. p \in {Away, Gone} \/ ReaderOK(srv, label, p)
  BY DeviceIs
<1>2. p.pc = page[d].pc /\ p.epoch = page[d].epoch /\ (Affirms(srv, page[d]) => Affirms(srv, p))
  BY SameWorkIs
<1> QED
  BY <1>1, <1>2, PopStep

\* The connection fails: a live report is in the outbox.
LEMMA LoseKeeps == ASSUME SyncInv, NEW d \in Devices, Lose(d) PROVE SyncInv'
<1> DEFINE b == Queued(box[d], Wire(d))
           old == page[d]
           p == Learnt(old, b.epoch, b.base, Max({old.mark, b.far}))
<1>1. /\ line[d] # <<>> /\ failures < MaxFailures /\ failures' = failures + 1 /\ Pop(d, clock[d])
      /\ UNCHANGED <<srv, seq, drain, sync, net, label, read, affirmed, excused>>
      /\ Foremost(d).kind = "live"
           => /\ box' = Replaced(box, d, b) /\ flushes' = flushes
              /\ page' = IF ~Foremost(d).mine THEN page ELSE Replaced(page, d, p)
      /\ Foremost(d).kind # "live"
           => /\ UNCHANGED <<box, page>> /\ flushes' = [flushes EXCEPT ![d] = "idle"]
  BY DEF Lose, history, Replaced
<1>2. UNCHANGED <<srv, label, net, affirmed, excused>> /\ Pop(d, clock[d]) /\ line[d] # <<>>
  BY <1>1
<1>3. /\ ClockFits(srv, clock[d]) /\ BodyOK(srv, label, Wire(d)) /\ Wire(d).epoch = Foremost(d).body.epoch
      /\ Wire(d).far = Foremost(d).body.far
      /\ Foremost(d).mine => ReaderOK(srv, label, page[d])
  BY <1>1, HeadIs
<1>4. Smalls'
  <2>1. flushes' \in [Devices -> {"idle", "wait", "sending"}]
    BY <1>1 DEF SyncInv, Smalls
  <2>2. failures' \in 0..MaxFailures
    BY <1>1, BoundsAssumption DEF SyncInv, Smalls
  <2> QED
    BY <1>1, <2>1, <2>2 DEF SyncInv, Smalls
<1>5. CASE Foremost(d).kind # "live"
  <2>1. ~Carrying(srv, Foremost(d))
    BY <1>1, <1>5, CarryingIs
  <2>2. page' = Replaced(page, d, page[d]) /\ box' = Replaced(box, d, box[d]) /\ (box[d] = None \/ BodyOK(srv, label, box[d]))
    BY <1>1, <1>5, Unmoved, DeviceIs
  <2>3. ClockFits(srv, clock[d])
    BY <1>3
  <2> QED
    BY <1>2, <1>4, <2>1, <2>2, <2>3, PopSame
<1>6. CASE Foremost(d).kind = "live"
  <2>1. /\ BodyOK(srv, label, b) /\ b # None
        /\ Full(srv, box[d]) \/ Full(srv, Wire(d)) => Full(srv, b)
    BY <1>3, DeviceIs, QueuedOK
  <2>2. Carrying(srv, Foremost(d)) => Full(srv, Wire(d))
    BY <1>1, <1>3, CarryingIs, NotNone DEF Full, BodyOK
  <2>3. Foremost(d).mine => ReaderOK(srv, label, p) /\ SameWork(old, p)
    <3>1. b.base \in Nat /\ b.base <= srv.version /\ b.far \in Positions
      BY <2>1 DEF BodyOK, Body
    <3> DEFINE m == Max({old.mark, b.far})
    <3>2. Foremost(d).mine => m \in Positions
      <4> SUFFICES ASSUME Foremost(d).mine PROVE m \in Positions
        OBVIOUS
      <4>1. old.mark \in Positions
        BY <1>3 DEF ReaderOK, Reader
      <4>2. old.mark \in Nat /\ b.far \in Nat
        BY <3>1, <4>1, PositionsAreNat
      <4>3. m \in {old.mark, b.far}
        BY <4>2, GreaterOf
      <4> HIDE DEF m
      <4> QED
        BY <3>1, <4>1, <4>3
    <3> HIDE DEF m, b
    <3> QED
      BY <1>3, <3>1, <3>2, LearntOK DEF m
  <2> HIDE DEF b, p
  <2>4. box' = Replaced(box, d, b)
    BY <1>1, <1>6
  <2>5. Carrying(srv, Foremost(d)) => Full(srv, b) \/ srv.mark = Chapters
    BY <2>1, <2>2
  <2>6. ClockFits(srv, clock[d])
    BY <1>3
  <2>7. PICK x : page' = Replaced(page, d, x) /\ (x = page[d] \/ (ReaderOK(srv, label, x) /\ SameWork(page[d], x)))
    <3>1. CASE ~Foremost(d).mine
      BY <1>1, <1>6, <3>1, Unmoved
    <3>2. CASE Foremost(d).mine
      BY <1>1, <1>6, <2>3, <3>2
    <3> QED
      BY <3>1, <3>2
  <2> QED
    BY <1>2, <1>4, <2>1, <2>4, <2>5, <2>6, <2>7, PopSame
<1> QED
  BY <1>5, <1>6

\* 429 or 5xx: the reporter has the report again.
LEMMA RefuseKeeps == ASSUME SyncInv, NEW d \in Devices, Refuse(d) PROVE SyncInv'
<1> DEFINE p == Kept(page[d], Foremost(d))
<1>1. /\ line[d] # <<>> /\ failures < MaxFailures /\ failures' = failures + 1 /\ Pop(d, clock[d])
      /\ UNCHANGED <<srv, box, seq, drain, sync, net, label, read, affirmed, excused>>
      /\ Foremost(d).kind = "live" => flushes' = flushes /\ page' = Replaced(page, d, p)
      /\ Foremost(d).kind # "live" => flushes' = [flushes EXCEPT ![d] = "idle"] /\ page' = page
  BY DEF Refuse, First, history, Replaced
<1>2. UNCHANGED <<srv, label, net, affirmed, excused>> /\ Pop(d, clock[d]) /\ line[d] # <<>>
  BY <1>1
<1>3. /\ ClockFits(srv, clock[d]) /\ DeliveryOK(srv, label, Foremost(d)) /\ Ours(page[d], Foremost(d))
      /\ Foremost(d).mine => ReaderOK(srv, label, page[d])
  BY <1>1, HeadIs
<1>4. Smalls'
  <2>1. flushes' \in [Devices -> {"idle", "wait", "sending"}]
    BY <1>1 DEF SyncInv, Smalls
  <2>2. failures' \in 0..MaxFailures
    BY <1>1, BoundsAssumption DEF SyncInv, Smalls
  <2> QED
    BY <1>1, <2>1, <2>2 DEF SyncInv, Smalls
<1>5. box' = Replaced(box, d, box[d]) /\ (box[d] = None \/ BodyOK(srv, label, box[d])) /\ ClockFits(srv, clock[d])
  BY <1>1, <1>3, Unmoved, DeviceIs
<1>6. CASE Foremost(d).kind # "live" \/ ~Foremost(d).fresh
  <2>1. ~Carrying(srv, Foremost(d))
    BY <1>1, <1>6, CarryingIs
  <2>2. page' = Replaced(page, d, page[d])
    BY <1>1, <1>6, Unmoved DEF Kept
  <2> QED
    BY <1>2, <1>4, <1>5, <2>1, <2>2, PopSame
<1>7. CASE Foremost(d).kind = "live" /\ Foremost(d).fresh
  <2>1. ReaderOK(srv, label, page[d])
    BY <1>3, <1>7 DEF DeliveryOK
  <2>2. /\ ReaderOK(srv, label, p) /\ p.pc = page[d].pc /\ p.epoch = page[d].epoch
        /\ Affirms(srv, page[d]) => Affirms(srv, p)
        /\ Carrying(srv, Foremost(d)) => Affirms(srv, p)
    BY <1>3, <2>1, KeptOK
  <2>3. page' = Replaced(page, d, p)
    BY <1>1, <1>7
  <2> HIDE DEF p
  <2> QED
    BY <1>2, <1>4, <1>5, <2>2, <2>3, PopStep
<1> QED
  BY <1>6, <1>7

\* What an accepted answer does to the outbox and to the clock.
LEMMA AcceptedIs ==
  ASSUME SyncInv, NEW d \in Devices, line[d] # <<>>, Foremost(d).reply # None, Foremost(d).reply.status = 200
  PROVE  /\ \/ Acknowledged(box[d], Wire(d), Foremost(d).reply) = None
            \/ BodyOK(srv, label, Acknowledged(box[d], Wire(d), Foremost(d).reply))
         /\ Full(srv, box[d])
              => Full(srv, Acknowledged(box[d], Wire(d), Foremost(d).reply)) \/ srv.mark = Chapters
         /\ ClockFits(srv, Clocked(clock[d], Wire(d), Foremost(d).reply))
<1> DEFINE r == Foremost(d).reply
<1>1. /\ r \in Acceptances /\ r.version <= srv.version /\ (r.epoch = srv.epoch => r.mark <= srv.mark)
  BY AnsweredIs
<1> HIDE DEF r
<1>2. /\ srv.epoch \in Epochs /\ srv.mark \in Positions /\ (box[d] = None \/ BodyOK(srv, label, box[d]))
  BY DeviceIs
<1>3. BodyOK(srv, label, Wire(d)) /\ ClockFits(srv, clock[d])
  BY HeadIs
<1>4. /\ Acknowledged(box[d], Wire(d), r) = None \/ BodyOK(srv, label, Acknowledged(box[d], Wire(d), r))
      /\ Full(srv, box[d]) => Full(srv, Acknowledged(box[d], Wire(d), r)) \/ srv.mark = Chapters
  BY <1>1, <1>2, AcknowledgedOK
<1>5. ClockFits(srv, Clocked(clock[d], Wire(d), r))
  BY <1>1, <1>3, ClockedOK
<1> QED
  BY <1>4, <1>5 DEF r

\* A live report was accepted.
LEMMA SavedKeeps == ASSUME SyncInv, NEW d \in Devices, Saved(d) PROVE SyncInv'
<1> DEFINE q == Foremost(d)
           r == q.reply
           old == page[d]
           p == Learnt(old, r.epoch, r.version, r.mark)
           shown == [p EXCEPT !.shown = r.mark]
           kept == Kept(p, q)
           b == Acknowledged(box[d], Wire(d), r)
           c == Clocked(clock[d], Wire(d), r)
<1>1. /\ line[d] # <<>> /\ r # None /\ r.status = 200 /\ Pop(d, c)
      /\ box' = Replaced(box, d, b)
      /\ UNCHANGED <<srv, flushes, seq, drain, sync, net, label, read, affirmed, excused>>
      /\ \/ failures' = failures
         \/ failures < MaxFailures /\ failures' = failures + 1
      /\ ~q.mine => page' = page
      /\ q.mine => page' \in {Replaced(page, d, shown), Replaced(page, d, p), Replaced(page, d, kept)}
  <2>1. /\ line[d] # <<>> /\ r # None /\ r.status = 200 /\ Pop(d, c) /\ box' = Replaced(box, d, b)
        /\ UNCHANGED <<srv, flushes, seq, drain, sync, net, label, read, affirmed, excused>>
    BY DEF Saved, First, history, Replaced
  <2> DEFINE unlocks == q.mine /\ r.epoch = page[d].epoch /\ r.mark > page[d].shown
  <2>2. \/ /\ page' = IF ~q.mine THEN page ELSE [page EXCEPT ![d] = IF unlocks THEN shown ELSE p]
           /\ failures' = failures
        \/ /\ unlocks /\ failures < MaxFailures /\ page' = [page EXCEPT ![d] = kept] /\ failures' = failures + 1
    BY DEF Saved
  <2>3. unlocks => q.mine
    OBVIOUS
  <2> HIDE DEF unlocks, q, r, p, shown, kept, b, c
  <2> QED
    BY <2>1, <2>2, <2>3 DEF Replaced
<1>2. UNCHANGED <<srv, label, net, affirmed, excused>> /\ Pop(d, c) /\ line[d] # <<>> /\ box' = Replaced(box, d, b)
  BY <1>1
<1>3. /\ q \in Delivery /\ DeliveryOK(srv, label, q) /\ Ours(old, q) /\ (q.mine => ReaderOK(srv, label, old))
  BY <1>1, HeadIs
<1>4. /\ r \in Acceptances /\ r.epoch = q.body.epoch /\ r.version <= srv.version /\ q.body.far <= r.mark
  BY <1>1, AnsweredIs
<1>5. (b = None \/ BodyOK(srv, label, b)) /\ (Full(srv, box[d]) => Full(srv, b) \/ srv.mark = Chapters) /\ ClockFits(srv, c)
  BY <1>1, AcceptedIs
<1>6. Carrying(srv, Foremost(d)) => Full(srv, b) \/ srv.mark = Chapters
  BY <1>1, CarryingIs, AcceptedCounts
<1>7. Smalls'
  <2>1. failures' \in 0..MaxFailures
    BY <1>1, BoundsAssumption DEF SyncInv, Smalls
  <2> HIDE DEF b, c, q, p, shown, kept
  <2> QED
    BY <1>1, <2>1 DEF SyncInv, Smalls
<1> HIDE DEF b, c
<1>8. CASE ~q.mine
  <2>1. page' = Replaced(page, d, page[d])
    BY <1>1, <1>8, Unmoved
  <2> QED
    BY <1>2, <1>5, <1>6, <1>7, <2>1, PopSame
<1>9. CASE q.mine
  <2>1. ReaderOK(srv, label, p) /\ SameWork(old, p)
    <3>1. r.version \in Nat /\ r.mark \in Positions
      BY <1>4 DEF Acceptances
    <3> HIDE DEF q, r, old
    <3> QED
      BY <1>3, <1>4, <1>9, <3>1, LearntOK
  <2>2. p.pc = old.pc /\ p.epoch = old.epoch /\ (Affirms(srv, old) => Affirms(srv, p))
    BY <2>1, SameWorkIs
  <2>3. ReaderOK(srv, label, shown) /\ SameWork(old, shown)
    <3>1. r.mark \in Positions
      BY <1>4 DEF Acceptances
    <3> HIDE DEF p, r
    <3>2. ReaderOK(srv, label, shown) /\ SameWork(p, shown)
      BY <2>1, <3>1, ShownOK
    <3> HIDE DEF shown
    <3> QED
      BY <2>1, <3>2 DEF SameWork
  <2>4. Ours(p, q)
    BY <1>3, <2>2 DEF Ours
  <2>5. /\ ReaderOK(srv, label, kept) /\ kept.pc = old.pc /\ kept.epoch = old.epoch
        /\ Affirms(srv, old) => Affirms(srv, kept)
    <3> HIDE DEF p, q, old
    <3>1. /\ ReaderOK(srv, label, kept) /\ kept.pc = p.pc /\ kept.epoch = p.epoch
          /\ Affirms(srv, p) => Affirms(srv, kept)
      BY <1>3, <2>1, <2>4, KeptOK
    <3> HIDE DEF kept
    <3> QED
      BY <2>2, <3>1
  <2> HIDE DEF p, shown, kept
  <2>6. CASE page' = Replaced(page, d, shown)
    BY <1>2, <1>5, <1>6, <1>7, <2>3, <2>6, PopSame
  <2>7. CASE page' = Replaced(page, d, p)
    BY <1>2, <1>5, <1>6, <1>7, <2>1, <2>7, PopSame
  <2>8. CASE page' = Replaced(page, d, kept)
    BY <1>2, <1>5, <1>6, <1>7, <2>5, <2>8, PopStep
  <2> QED
    BY <1>1, <1>9, <2>6, <2>7, <2>8
<1> QED
  BY <1>8, <1>9

\* A replay was answered: the item goes when it was counted, or is of an earlier pass.
LEMMA ReplayedKeeps == ASSUME SyncInv, NEW d \in Devices, Replayed(d) PROVE SyncInv'
<1> DEFINE q == Foremost(d)
           r == q.reply
           now == IF r.status = 200 THEN Acknowledged(box[d], Wire(d), r) ELSE box[d]
           b == IF now = q.body THEN None ELSE now
           c == IF r.status = 200 THEN Clocked(clock[d], Wire(d), r) ELSE clock[d]
<1>1. /\ line[d] # <<>> /\ q.kind = "replay" /\ r # None /\ Pop(d, c) /\ box' = Replaced(box, d, b)
      /\ flushes' = [flushes EXCEPT ![d] = IF now \in {q.body, None} THEN "idle" ELSE "wait"]
      /\ sync' = [sync EXCEPT ![d] = IsOpen(d)]
      /\ UNCHANGED <<srv, page, seq, drain, net, failures, label, read, affirmed, excused>>
  BY DEF Replayed, First, Settled, history, Replaced
<1>2. UNCHANGED <<srv, label, net, affirmed, excused>> /\ Pop(d, c) /\ line[d] # <<>> /\ box' = Replaced(box, d, b)
  BY <1>1
<1>3. /\ now = None \/ BodyOK(srv, label, now)
      /\ Full(srv, box[d]) => Full(srv, now) \/ srv.mark = Chapters
      /\ ClockFits(srv, c)
  <2>1. CASE r.status = 200
    BY <1>1, <2>1, AcceptedIs
  <2>2. CASE r.status # 200
    BY <1>1, <2>2, HeadIs, DeviceIs
  <2> QED
    BY <2>1, <2>2
<1> HIDE DEF now, c
<1>4. Full(srv, now) /\ now = q.body => srv.mark = Chapters
  <2> SUFFICES ASSUME Full(srv, now), now = q.body PROVE srv.mark = Chapters
    OBVIOUS
  <2>1. q.body.epoch = srv.epoch /\ q.body.far = Chapters
    BY DEF Full
  <2>2. r.status = 200
    <3>1. q.body.epoch \in Nat /\ srv.epoch \in Nat
      BY <2>1, DeviceIs, PositionsAreNat
    <3>2. r.status = 409 => q.body.epoch < srv.epoch
      BY <1>1, AnsweredIs
    <3>3. r.status \in {200, 409}
      BY <1>1, AnsweredIs
    <3> QED
      BY <2>1, <3>1, <3>2, <3>3
  <2> QED
    BY <1>1, <2>1, <2>2, AcceptedCounts
<1>5. (b = None \/ BodyOK(srv, label, b)) /\ (Full(srv, box[d]) => Full(srv, b) \/ srv.mark = Chapters)
  BY <1>3, <1>4
<1>6. ~Carrying(srv, Foremost(d))
  BY <1>1, CarryingIs
<1>7. page' = Replaced(page, d, page[d])
  BY <1>1, Unmoved
<1>8. Smalls'
  <2>1. sync' \in [Devices -> BOOLEAN]
    BY <1>1 DEF SyncInv, Smalls, IsOpen
  <2>2. flushes' \in [Devices -> {"idle", "wait", "sending"}]
    BY <1>1 DEF SyncInv, Smalls
  <2> QED
    BY <1>1, <2>1, <2>2 DEF SyncInv, Smalls
<1> HIDE DEF b
<1> QED
  BY <1>2, <1>3, <1>5, <1>6, <1>7, <1>8, PopSame

-----------------------------------------------------------------------------
(* PositionSync: the canonical position is taken *)

GivenUp(b) == IF b = None THEN None ELSE [b EXCEPT !.fresh = FALSE]

\* A reporter that was cancelled, field by field.
LEMMA CancelledIs ==
  ASSUME NEW p \in Reader
  PROVE  /\ Cancelled(p) \in Reader /\ Cancelled(p).pc = p.pc /\ Cancelled(p).epoch = p.epoch
         /\ Cancelled(p).version = p.version /\ Cancelled(p).pending = None /\ Cancelled(p).finish = None
         /\ Cancelled(p).busy = GivenUp(p.busy)
<1> DEFINE b == IF p.busy = None THEN None ELSE [p.busy EXCEPT !.fresh = FALSE]
           q == [p EXCEPT !.pending = None]
           v == [q EXCEPT !.finish = None]
           x == [v EXCEPT !.busy = b]
<1>1. b \in Delivery \cup {None}
  <2>1. p.busy \in Delivery \cup {None}
    BY DEF Reader
  <2>2. p.busy \in Delivery => [p.busy EXCEPT !.fresh = FALSE] \in Delivery
    BY DEF Delivery
  <2> QED
    BY <2>1, <2>2
<1>2. Cancelled(p) = x
  BY DEF Cancelled, x, v, q, b
<1>3. GivenUp(p.busy) = b
  BY DEF GivenUp
<1> HIDE DEF b
<1>4. /\ q \in Reader /\ q.pending = None /\ q.pc = p.pc /\ q.epoch = p.epoch /\ q.version = p.version
  BY DEF Reader
<1> HIDE DEF q
<1>5. /\ v \in Reader /\ v.pending = None /\ v.finish = None /\ v.pc = p.pc /\ v.epoch = p.epoch /\ v.version = p.version
  BY <1>4 DEF Reader
<1> HIDE DEF v
<1>6. /\ x \in Reader /\ x.pending = None /\ x.finish = None /\ x.pc = p.pc /\ x.epoch = p.epoch
      /\ x.version = p.version /\ x.busy = b
  BY <1>1, <1>5 DEF Reader
<1> HIDE DEF x
<1> QED
  BY <1>2, <1>3, <1>6

\* The page with the row's position; of another pass, its reporter is cancelled.
Adopted(s, p, m) == [p EXCEPT !.epoch = s.epoch, !.version = s.version, !.mark = m]
Reloading(p) == [Cancelled(p) EXCEPT !.reload = TRUE]

\* A page with the canonical position, cancelled or not.
LEMMA AdoptedOK ==
  ASSUME NEW s, NEW l, NEW p, ReaderOK(s, l, p), s.epoch \in Epochs, s.version \in Nat, NEW m \in Positions
  PROVE  /\ ReaderOK(s, l, Reloading(Adopted(s, p, m))) /\ Reloading(Adopted(s, p, m)).pc = p.pc
         /\ p.epoch = s.epoch => ReaderOK(s, l, Adopted(s, p, m)) /\ SameWork(p, Adopted(s, p, m))
<1> DEFINE u == [p EXCEPT !.epoch = s.epoch]
           v == [u EXCEPT !.version = s.version]
           q == [v EXCEPT !.mark = m]
<1>1. p \in Reader
  BY DEF ReaderOK
<1>2. Adopted(s, p, m) = q
  BY DEF Adopted
<1>3. /\ u \in Reader /\ u.epoch = s.epoch /\ u.pc = p.pc /\ u.pending = p.pending /\ u.finish = p.finish
      /\ u.busy = p.busy
  BY <1>1 DEF Reader
<1> HIDE DEF u
<1>4. /\ v \in Reader /\ v.epoch = s.epoch /\ v.version = s.version /\ v.pc = p.pc /\ v.pending = p.pending
      /\ v.finish = p.finish /\ v.busy = p.busy
  BY <1>3 DEF Reader
<1> HIDE DEF v
<1>5. /\ q \in Reader /\ q.epoch = s.epoch /\ q.version = s.version /\ q.pc = p.pc /\ q.pending = p.pending
      /\ q.finish = p.finish /\ q.busy = p.busy
  BY <1>4 DEF Reader
<1> HIDE DEF q
<1>6. s.epoch <= s.epoch /\ s.version <= s.version
  <2>1. s.epoch \in Nat
    BY PositionsAreNat
  <2> QED
    BY <2>1
<1>7. p.epoch = s.epoch => ReaderOK(s, l, q) /\ SameWork(p, q)
  <2>1. p.epoch = s.epoch => SameWork(p, q)
    BY <1>5 DEF SameWork
  <2> QED
    BY <1>5, <1>6, <2>1, SameWorkOK
<1>8. ReaderOK(s, l, Reloading(q)) /\ Reloading(q).pc = p.pc
  <2> DEFINE c == Cancelled(q)
             x == [c EXCEPT !.reload = TRUE]
  <2>1. /\ c \in Reader /\ c.pc = p.pc /\ c.epoch = s.epoch /\ c.version = s.version
        /\ c.pending = None /\ c.finish = None /\ c.busy = GivenUp(p.busy)
    BY <1>5, CancelledIs
  <2> HIDE DEF c
  <2>2. /\ x \in Reader /\ x.pc = p.pc /\ x.epoch = s.epoch /\ x.version = s.version
        /\ x.pending = None /\ x.finish = None /\ x.busy = GivenUp(p.busy)
    BY <2>1 DEF Reader
  <2>3. GivenUp(p.busy) # None => /\ DeliveryOK(s, l, GivenUp(p.busy)) /\ ~GivenUp(p.busy).fresh
                                  /\ GivenUp(p.busy).kind = "live" /\ GivenUp(p.busy).report.epoch < s.epoch
    <3>1. Cancelled(p).busy = GivenUp(p.busy)
      BY <1>1, CancelledIs
    <3>2. Cancelled(p).busy # None => /\ DeliveryOK(s, l, Cancelled(p).busy) /\ ~Cancelled(p).busy.fresh
                                      /\ Cancelled(p).busy.kind = "live" /\ Cancelled(p).busy.report.epoch < s.epoch
      BY CancelledOK
    <3> QED
      BY <3>1, <3>2
  <2>4. Reloading(q) = x
    BY DEF Reloading, c
  <2> HIDE DEF x
  <2>5. x.pc \in {"open", "resetting"}
    BY <2>2, NotNone
  <2>6. ReaderOK(s, l, x)
    BY <1>6, <2>2, <2>3, <2>5 DEF ReaderOK, Ours
  <2> QED
    BY <2>2, <2>4, <2>6
<1> QED
  BY <1>2, <1>7, <1>8

\* The page takes the canonical position; what it gives up is excused.
LEMMA AdoptKeeps ==
  ASSUME SyncInv, NEW d \in Devices, NEW stale \in BOOLEAN, NEW p, Adopt(d, stale, p),
         ReaderOK(srv, label, page[d]), ReaderOK(srv, label, p), p.pc = page[d].pc,
         ~stale => p.epoch = srv.epoch /\ SameWork(page[d], p),
         UNCHANGED <<srv, clock, box, net, label, affirmed>>,
         UNCHANGED <<flushes, seq, drain, failures, read>>, sync' \in [Devices -> BOOLEAN]
  PROVE  SyncInv'
<1> DEFINE a == Adopted(srv, p, Mark(d))
           x == Reloading(a)
<1>1. /\ ReaderOK(srv, label, x) /\ x.pc = p.pc
      /\ p.epoch = srv.epoch => ReaderOK(srv, label, a) /\ SameWork(p, a)
  BY PlacesOK, DeviceIs, AdoptedOK
<1>2. IF stale THEN page' = Replaced(page, d, x) /\ line' = Replaced(line, d, Unfresh(line[d])) /\ excused' = excused \cup {d}
      ELSE page' = Replaced(page, d, a) /\ UNCHANGED <<line, excused>>
  BY DEF Adopt, Adopted, Reloading, Replaced, SyncInv, Domains
<1> HIDE DEF a, x
<1>3. clock' = Replaced(clock, d, clock[d]) /\ box' = Replaced(box, d, box[d])
  BY Unmoved
<1>4. UNCHANGED <<srv, label, net, affirmed>> /\ excused' \in {excused, excused \cup {d}}
  BY <1>2
<1>5. Smalls'
  <2>1. excused' \subseteq Devices
    BY <1>2 DEF SyncInv, Smalls
  <2> QED
    BY <2>1 DEF SyncInv, Smalls
<1>6. /\ LineOK(srv, label, page[d], line[d]) /\ ClockOK(srv, line[d], clock[d]) /\ (box[d] = None \/ BodyOK(srv, label, box[d]))
      /\ page[d].pc \in {"open", "resetting"}
  <2>1. page[d] \in Reader
    BY DEF ReaderOK
  <2> QED
    BY <2>1, DeviceIs, NotNone
<1>7. CASE stale
  <2> DEFINE ln == Unfresh(line[d])
  <2>1. LineOK(srv, label, x, ln) /\ (line[d] # <<>> => ln # <<>>)
    BY <1>1, <1>6, UnfreshOK
  <2>2. page' = Replaced(page, d, x) /\ line' = Replaced(line, d, ln) /\ d \in excused'
    BY <1>2, <1>7
  <2> HIDE DEF ln
  <2>3. DeviceOK(srv, label, x, ln, clock[d], box[d])
    BY <1>1, <1>6, <2>1 DEF DeviceOK, ClockOK
  <2> QED
    BY <1>3, <1>4, <1>5, <2>2, <2>3, DeviceStep
<1>8. CASE ~stale
  <2>1. page' = Replaced(page, d, a) /\ line' = Replaced(line, d, line[d])
    BY <1>2, <1>8, Unmoved
  <2>2. ReaderOK(srv, label, a) /\ SameWork(page[d], a)
    BY <1>1, <1>8 DEF SameWork
  <2>3. a.pc = page[d].pc /\ a.epoch = page[d].epoch /\ (Affirms(srv, page[d]) => Affirms(srv, a))
    BY <2>2, SameWorkIs
  <2>4. LineOK(srv, label, a, line[d])
    BY <1>6, <2>3, LineFits
  <2>5. DeviceOK(srv, label, a, line[d], clock[d], box[d])
    BY <1>6, <2>2, <2>4 DEF DeviceOK
  <2>6. HeldIn(srv, page[d], line[d], box[d]) => HeldIn(srv, a, line[d], box[d])
    BY <2>3 DEF HeldIn
  <2> QED
    BY <1>3, <1>4, <1>5, <2>1, <2>5, <2>6, DeviceStep
<1> QED
  BY <1>7, <1>8

\* After a 409 the canonical position is taken.
LEMMA CanonicalKeeps == ASSUME SyncInv, NEW d \in Devices, Canonical(d) PROVE SyncInv'
<1> DEFINE p == [page[d] EXCEPT !.busy = None]
           stale == srv.epoch # page[d].busy.report.epoch
<1>1. /\ page[d].pc = "open" /\ page[d].busy # None /\ Adopt(d, stale, p)
      /\ UNCHANGED <<srv, clock, box, net, label, affirmed>> /\ UNCHANGED <<flushes, seq, drain, sync, failures, read>>
  BY DEF Canonical
<1>2. ReaderOK(srv, label, page[d])
  BY <1>1, DeviceIs DEF IsOpen
<1>3. ReaderOK(srv, label, p) /\ p.pc = page[d].pc
  BY <1>2, IdleOK
<1>4. stale = TRUE
  <2>1. page[d].busy.report.epoch \in Epochs /\ page[d].busy.report.epoch < srv.epoch
    BY <1>1, <1>2 DEF ReaderOK, DeliveryOK, ReportOK, Report
  <2>2. page[d].busy.report.epoch \in Nat /\ srv.epoch \in Nat
    BY <2>1, DeviceIs, PositionsAreNat
  <2> QED
    BY <2>1, <2>2
<1>5. sync' \in [Devices -> BOOLEAN]
  BY <1>1 DEF SyncInv, Smalls
<1> HIDE DEF p, stale
<1> QED
  BY <1>1, <1>2, <1>3, <1>4, <1>5, AdoptKeeps

\* After a replay the page fetches its position again.
LEMMA ReconcileKeeps == ASSUME SyncInv, NEW d \in Devices, Reconcile(d) PROVE SyncInv'
<1> DEFINE p == [page[d] EXCEPT !.shown = Mark(d)]
           stale == srv.epoch # page[d].epoch
<1>1. /\ page[d].pc = "open" /\ Adopt(d, stale, p) /\ sync' = [sync EXCEPT ![d] = FALSE]
      /\ UNCHANGED <<srv, clock, box, net, label, affirmed>> /\ UNCHANGED <<flushes, seq, drain, failures, read>>
  BY DEF Reconcile
<1>2. ReaderOK(srv, label, page[d])
  BY <1>1, DeviceIs DEF IsOpen
<1>3. ReaderOK(srv, label, p) /\ SameWork(page[d], p)
  BY <1>2, PlacesOK, ShownOK
<1>4. p.pc = page[d].pc /\ (~stale => p.epoch = srv.epoch /\ SameWork(page[d], p)) /\ stale \in BOOLEAN
  BY <1>3 DEF SameWork
<1>5. sync' \in [Devices -> BOOLEAN]
  BY <1>1 DEF SyncInv, Smalls
<1> HIDE DEF p, stale
<1> QED
  BY <1>1, <1>2, <1>3, <1>4, <1>5, AdoptKeeps

\* The canonical position does not come: the report is kept.
LEMMA CanonicalFailsKeeps == ASSUME SyncInv, NEW d \in Devices, CanonicalFails(d) PROVE SyncInv'
<1> DEFINE q == page[d].busy
           i == [page[d] EXCEPT !.busy = None]
           p == Kept(i, q)
<1>1. /\ IsOpen(d) /\ q # None /\ failures < MaxFailures /\ failures' = failures + 1
      /\ page' = Replaced(page, d, p)
      /\ UNCHANGED <<srv, line, clock, box, flushes, seq, drain, sync, net, label, read, affirmed, excused>>
  BY DEF CanonicalFails, history, Replaced, SyncInv, Domains
<1>2. ReaderOK(srv, label, page[d])
  BY <1>1, DeviceIs
<1>3. /\ ReaderOK(srv, label, i) /\ i.pc = page[d].pc /\ i.epoch = page[d].epoch
      /\ Affirms(srv, page[d]) => Affirms(srv, i)
  BY <1>2, IdleOK
<1>4. DeliveryOK(srv, label, q) /\ Ours(page[d], q)
  BY <1>1, <1>2 DEF ReaderOK
<1> HIDE DEF i, q
<1>5. Ours(i, q)
  BY <1>3, <1>4 DEF Ours
<1>6. /\ ReaderOK(srv, label, p) /\ p.pc = i.pc /\ p.epoch = i.epoch
      /\ Affirms(srv, i) => Affirms(srv, p)
  BY <1>3, <1>4, <1>5, KeptOK
<1> HIDE DEF p
<1>7. LineOK(srv, label, p, line[d])
  <2>1. LineOK(srv, label, page[d], line[d]) /\ p.pc = page[d].pc /\ p.epoch = page[d].epoch
    BY <1>3, <1>6, DeviceIs
  <2> QED
    BY <2>1, LineFits
<1>8. DeviceOK(srv, label, p, line[d], clock[d], box[d])
  BY <1>6, <1>7, DeviceIs DEF DeviceOK
<1>9. HeldIn(srv, page[d], line[d], box[d]) => HeldIn(srv, p, line[d], box[d])
  BY <1>3, <1>6 DEF HeldIn
<1>10. line' = Replaced(line, d, line[d]) /\ clock' = Replaced(clock, d, clock[d]) /\ box' = Replaced(box, d, box[d])
  BY <1>1, Unmoved
<1>11. UNCHANGED <<srv, label, net, affirmed>> /\ excused' \in {excused, excused \cup {d}}
  BY <1>1
<1>12. Smalls'
  BY <1>1, BoundsAssumption DEF SyncInv, Smalls
<1> QED
  BY <1>1, <1>8, <1>9, <1>10, <1>11, <1>12, DeviceStep

-----------------------------------------------------------------------------
(* PositionSync: the outbox is replayed *)

LEMMA FlushingOK ==
  ASSUME SyncInv, NEW d \in Devices, Flushing(d)
  PROVE  flushes' \in [Devices -> {"idle", "wait", "sending"}]
BY DEF Flushing, SyncInv, Smalls

\* Nothing of the positions moves.
LEMMA StillKeeps ==
  ASSUME SyncInv, UNCHANGED <<srv, page, line, clock, box, label, read, affirmed, excused, seq>>,
         flushes' \in [Devices -> {"idle", "wait", "sending"}], drain' \in [Devices -> BOOLEAN],
         sync' \in [Devices -> BOOLEAN], failures' \in 0..MaxFailures, net' \subseteq net
  PROVE  SyncInv'
<1>1. Domains' /\ RowOK(srv, label)'
  BY DEF SyncInv, Domains
<1>2. Smalls'
  BY DEF SyncInv, Smalls
<1>3. NetOK'
  BY DEF SyncInv, NetOK
<1>4. \A d \in Devices : DeviceOK(srv, label, page[d], line[d], clock[d], box[d])'
  BY DEF SyncInv
<1>5. \A d \in Devices : AffirmedOK(srv, page[d], line[d], box[d], affirmed[d], d \in excused)'
  BY DEF SyncInv
<1> QED
  BY <1>1, <1>2, <1>3, <1>4, <1>5 DEF SyncInv

\* The device comes online.
LEMMA OnlineKeeps == ASSUME SyncInv, NEW d \in Devices, Online(d) PROVE SyncInv'
<1>1. Flushing(d) /\ UNCHANGED <<srv, page, line, clock, box, label, read, affirmed, excused, seq, drain, sync, net, failures>>
  BY DEF Online, history
<1> QED
  BY <1>1, FlushingOK, StillKeeps DEF SyncInv, Smalls

\* The deliveries of a page that left are settled.
LEMMA DrainedKeeps == ASSUME SyncInv, NEW d \in Devices, Drained(d) PROVE SyncInv'
<1>1. /\ Flushing(d) /\ drain' = [drain EXCEPT ![d] = FALSE]
      /\ UNCHANGED <<srv, page, line, clock, box, label, read, affirmed, excused, seq, sync, net, failures>>
  BY DEF Drained, history
<1>2. drain' \in [Devices -> BOOLEAN]
  BY <1>1 DEF SyncInv, Smalls
<1> QED
  BY <1>1, <1>2, FlushingOK, StillKeeps DEF SyncInv, Smalls

\* The position is not fetched.
LEMMA ReconcileFailsKeeps == ASSUME SyncInv, NEW d \in Devices, ReconcileFails(d) PROVE SyncInv'
<1>1. /\ sync' = [sync EXCEPT ![d] = FALSE]
      /\ UNCHANGED <<srv, page, line, clock, box, label, read, affirmed, excused, seq, flushes, drain, net, failures>>
  BY DEF ReconcileFails, history
<1>2. sync' \in [Devices -> BOOLEAN]
  BY <1>1 DEF SyncInv, Smalls
<1> QED
  BY <1>1, <1>2, StillKeeps DEF SyncInv, Smalls

\* The application starts.
LEMMA LaunchKeeps == ASSUME SyncInv, NEW d \in Devices, Launch(d) PROVE SyncInv'
<1>1. /\ page[d] = Gone /\ page' = Replaced(page, d, Away) /\ Flushing(d)
      /\ UNCHANGED <<srv, line, clock, box, seq, drain, sync, net, failures, label, read, affirmed, excused>>
  BY DEF Launch, history, Replaced
<1>2. LineOK(srv, label, Away, line[d])
  BY <1>1, DeviceIs, LineFits, NotNone
<1>3. DeviceOK(srv, label, Away, line[d], clock[d], box[d])
  BY <1>2, DeviceIs DEF DeviceOK
<1>4. HeldIn(srv, page[d], line[d], box[d]) => HeldIn(srv, Away, line[d], box[d])
  BY <1>1, NotNone DEF HeldIn, Affirms
<1>5. line' = Replaced(line, d, line[d]) /\ clock' = Replaced(clock, d, clock[d]) /\ box' = Replaced(box, d, box[d])
  BY <1>1, Unmoved
<1>6. UNCHANGED <<srv, label, net, affirmed>> /\ excused' \in {excused, excused \cup {d}}
  BY <1>1
<1>7. Smalls'
  BY <1>1, FlushingOK DEF SyncInv, Smalls
<1> QED
  BY <1>1, <1>3, <1>4, <1>5, <1>6, <1>7, DeviceStep

\* The item of the outbox is sent.
LEMMA ReplayKeeps == ASSUME SyncInv, NEW d \in Devices, Replay(d) PROVE SyncInv'
<1> DEFINE q == [kind |-> "replay", body |-> box[d], report |-> None, finish |-> FALSE,
                 mine |-> FALSE, fresh |-> FALSE, reply |-> None]
           ln == Append(line[d], q)
<1>1. /\ UNCHANGED <<srv, page, clock, box, seq, drain, sync, net, failures, label, read, affirmed, excused>>
      /\ \/ box[d] = None /\ flushes' = [flushes EXCEPT ![d] = "idle"] /\ line' = line
         \/ box[d] # None /\ flushes' = [flushes EXCEPT ![d] = "sending"] /\ line' = Replaced(line, d, ln)
  BY DEF Replay, history, Replaced, SyncInv, Domains
<1>2. flushes' \in [Devices -> {"idle", "wait", "sending"}]
  BY <1>1 DEF SyncInv, Smalls
<1>3. CASE box[d] = None
  BY <1>1, <1>2, <1>3, StillKeeps DEF SyncInv, Smalls
<1>4. CASE box[d] # None
  <2>1. BodyOK(srv, label, box[d])
    BY <1>4, DeviceIs
  <2>2. q \in Delivery
    BY <2>1 DEF Delivery, BodyOK
  <2>3. /\ q.kind = "replay" /\ q.body = box[d] /\ ~q.mine /\ ~q.fresh /\ q.reply = None
    OBVIOUS
  <2>4. line' = Replaced(line, d, ln)
    BY <1>1, <1>4
  <2> HIDE DEF q
  <2>5. DeliveryOK(srv, label, q) /\ Ours(page[d], q)
    BY <2>1, <2>2, <2>3 DEF DeliveryOK, Ours, ReplyOK
  <2>6. LineOK(srv, label, page[d], ln) /\ ln # <<>> /\ (Carries(srv, line[d]) => Carries(srv, ln))
    BY <2>5, DeviceIs, AppendOK
  <2> HIDE DEF ln
  <2>7. DeviceOK(srv, label, page[d], ln, clock[d], box[d])
    BY <2>6, DeviceIs DEF DeviceOK, ClockOK
  <2>8. HeldIn(srv, page[d], line[d], box[d]) => HeldIn(srv, page[d], ln, box[d])
    BY <2>6 DEF HeldIn
  <2>9. page' = Replaced(page, d, page[d]) /\ clock' = Replaced(clock, d, clock[d]) /\ box' = Replaced(box, d, box[d])
    BY <1>1, Unmoved
  <2>10. UNCHANGED <<srv, label, net, affirmed>> /\ excused' \in {excused, excused \cup {d}}
    BY <1>1
  <2>11. Smalls'
    BY <1>1, <1>2 DEF SyncInv, Smalls
  <2> QED
    BY <2>4, <2>7, <2>8, <2>9, <2>10, <2>11, DeviceStep
<1> QED
  BY <1>3, <1>4

-----------------------------------------------------------------------------
(* PositionSync: start over *)

LEMMA StartOverKeeps == ASSUME SyncInv, NEW d \in Devices, StartOver(d) PROVE SyncInv'
<1> DEFINE c == Cancelled(page[d])
           p == [c EXCEPT !.pc = "resetting"]
           ln == Unfresh(line[d])
<1>1. /\ page[d].pc = "open" /\ page' = Replaced(page, d, p) /\ line' = Replaced(line, d, ln)
      /\ affirmed' = [affirmed EXCEPT ![d] = None]
      /\ UNCHANGED <<srv, clock, box, flushes, seq, drain, sync, net, failures, label, read, excused>>
  BY DEF StartOver, Replaced, SyncInv, Domains
<1>2. ReaderOK(srv, label, page[d])
  BY <1>1, DeviceIs DEF IsOpen
<1>3. /\ ReaderOK(srv, label, c) /\ c \in Reader /\ c.epoch = page[d].epoch /\ c.version = page[d].version
      /\ c.pending = None /\ c.finish = None
      /\ c.busy # None => /\ DeliveryOK(srv, label, c.busy) /\ ~c.busy.fresh
                          /\ c.busy.kind = "live" /\ c.busy.report.epoch < srv.epoch
  BY <1>2, CancelledOK
<1> HIDE DEF c
<1>4. /\ p \in Reader /\ p.pc = "resetting" /\ p.epoch = c.epoch /\ p.version = c.version
      /\ p.pending = None /\ p.finish = None /\ p.busy = c.busy
  BY <1>3 DEF Reader
<1> HIDE DEF p
<1>5. ReaderOK(srv, label, p)
  BY <1>3, <1>4 DEF ReaderOK, Ours
<1>6. LineOK(srv, label, p, ln) /\ (line[d] # <<>> => ln # <<>>)
  BY <1>4, DeviceIs, UnfreshOK
<1> HIDE DEF ln
<1>7. DeviceOK(srv, label, p, ln, clock[d], box[d])
  BY <1>5, <1>6, DeviceIs DEF DeviceOK, ClockOK
<1>8. affirmed' = [y \in Devices |-> affirmed'[y]] /\ affirmed'[d] = None /\ \A y \in Devices \ {d} : affirmed'[y] = affirmed[y]
  BY <1>1 DEF SyncInv, Domains
<1>9. /\ Apart(d) /\ page'[d] = p /\ line'[d] = ln /\ clock'[d] = clock[d] /\ box'[d] = box[d]
  <2>1. clock' = Replaced(clock, d, clock[d]) /\ box' = Replaced(box, d, box[d])
    BY <1>1, Unmoved
  <2>2. \A y \in Devices \ {d} : affirmed'[y] = affirmed[y] /\ (y \in excused' <=> y \in excused)
    BY <1>1, <1>8
  <2> QED
    BY <1>1, <1>8, <2>1, <2>2, MovesAlone
<1>10. AffirmedOK(srv', page'[d], line'[d], box'[d], affirmed'[d], d \in excused')
  BY <1>8 DEF AffirmedOK
<1>11. Smalls'
  BY <1>1 DEF SyncInv, Smalls
<1>12. RowOK(srv', label') /\ Grown(srv, label, srv', label')
  BY <1>1, Steady, DeviceIs
<1>13. DeviceOK(srv', label', page'[d], line'[d], clock'[d], box'[d])
  BY <1>1, <1>7, <1>9
<1>14. \A o \in net' : o \in net
  BY <1>1
<1> QED
  BY <1>9, <1>10, <1>11, <1>12, <1>13, <1>14, ClientKeeps

\* The row of the next pass.
LEMMA NextPassOK ==
  ASSUME SyncInv, srv.epoch < MaxEpoch
  PROVE  /\ RowOK(NextPass(srv), label) /\ Grown(srv, label, NextPass(srv), label)
         /\ NextPass(srv).epoch = srv.epoch + 1 /\ NextPass(srv).epoch \in Epochs /\ NextPass(srv).version \in Nat
<1> DEFINE s == NextPass(srv)
<1>1. /\ srv \in Rows /\ srv.epoch \in Epochs /\ srv.version \in Nat /\ srv.mark \in Positions /\ srv.hosted \in Hosting
      /\ label \in [Epochs -> Positions]
  BY Steady DEF SyncInv, RowOK, Rows
<1>2. srv.epoch + 1 \in Epochs /\ srv.epoch \in Nat /\ srv.epoch <= srv.epoch + 1 /\ srv.epoch + 1 # srv.epoch
  BY <1>1, BoundsAssumption DEF Epochs
<1>3. 0 \in Positions /\ \A e \in Epochs : label[e] \in Nat /\ label[e] <= label[e]
  <2>1. \A e \in Epochs : label[e] \in Positions
    BY <1>1
  <2>2. \A e \in Epochs : label[e] \in Nat
    BY <2>1, PositionsAreNat
  <2> QED
    BY <2>2, PositionsAreNat
<1>4. /\ s \in Rows /\ s.epoch = srv.epoch + 1 /\ s.version \in {srv.version, srv.version + 1}
      /\ s.mark = 0 /\ s.cur = 0 /\ s.high = 0 /\ s.by = 0 /\ s.seq = 0
  <2> DEFINE v == IF srv.hosted THEN srv.version + 1 ELSE srv.version
             s1 == [srv EXCEPT !.epoch = srv.epoch + 1]
             s2 == [s1 EXCEPT !.version = v]
             s3 == [s2 EXCEPT !.mark = 0]
             s4 == [s3 EXCEPT !.cur = 0]
             s5 == [s4 EXCEPT !.high = 0]
             s6 == [s5 EXCEPT !.by = 0]
             s7 == [s6 EXCEPT !.seq = 0]
  <2>1. v \in Nat /\ v \in {srv.version, srv.version + 1}
    BY <1>1
  <2>2. s = s7
    BY <1>1 DEF NextPass, Rows
  <2> HIDE DEF v, s
  <2>3. s1 \in Rows /\ s1.epoch = srv.epoch + 1
    BY <1>1, <1>2 DEF Rows
  <2> HIDE DEF s1
  <2>4. s2 \in Rows /\ s2.epoch = srv.epoch + 1 /\ s2.version = v
    BY <2>1, <2>3 DEF Rows
  <2> HIDE DEF s2
  <2>5. s3 \in Rows /\ s3.epoch = srv.epoch + 1 /\ s3.version = v /\ s3.mark = 0
    BY <1>3, <2>4 DEF Rows
  <2> HIDE DEF s3
  <2>6. s4 \in Rows /\ s4.epoch = srv.epoch + 1 /\ s4.version = v /\ s4.mark = 0 /\ s4.cur = 0
    BY <1>3, <2>5 DEF Rows
  <2> HIDE DEF s4
  <2>7. s5 \in Rows /\ s5.epoch = srv.epoch + 1 /\ s5.version = v /\ s5.mark = 0 /\ s5.cur = 0 /\ s5.high = 0
    BY <1>3, <2>6 DEF Rows
  <2> HIDE DEF s5
  <2>8. /\ s6 \in Rows /\ s6.epoch = srv.epoch + 1 /\ s6.version = v /\ s6.mark = 0 /\ s6.cur = 0 /\ s6.high = 0
        /\ s6.by = 0
    BY <2>7 DEF Rows
  <2> HIDE DEF s6
  <2>9. /\ s7 \in Rows /\ s7.epoch = srv.epoch + 1 /\ s7.version = v /\ s7.mark = 0 /\ s7.cur = 0 /\ s7.high = 0
        /\ s7.by = 0 /\ s7.seq = 0
    BY <2>8 DEF Rows
  <2> HIDE DEF s7
  <2> QED
    BY <2>1, <2>2, <2>9
<1> HIDE DEF s
<1>5. s.version \in Nat /\ srv.version <= s.version
  BY <1>1, <1>4
<1>6. 0 <= label[s.epoch]
  BY <1>2, <1>3, <1>4
<1>7. RowOK(s, label)
  BY <1>4, <1>6 DEF RowOK, Rows
<1>8. Grown(srv, label, s, label)
  BY <1>1, <1>2, <1>3, <1>4, <1>5 DEF Grown
<1> QED
  BY <1>2, <1>4, <1>5, <1>7, <1>8 DEF s

\* The pass begins and the page with it.
LEMMA ResetKeeps == ASSUME SyncInv, NEW d \in Devices, Reset(d) PROVE SyncInv'
<1> DEFINE s == NextPass(srv)
           old == page[d]
           p1 == [old EXCEPT !.pc = "open"]
           p2 == [p1 EXCEPT !.at = 0]
           p3 == [p2 EXCEPT !.pass = s.epoch]
           p4 == [p3 EXCEPT !.epoch = s.epoch]
           p5 == [p4 EXCEPT !.version = s.version]
           p6 == [p5 EXCEPT !.mark = 0]
           p == [p6 EXCEPT !.shown = 0]
           b == IF box[d] # None /\ box[d].epoch < s.epoch THEN None ELSE box[d]
<1>1. /\ old.pc = "resetting" /\ srv.epoch < MaxEpoch /\ srv' = s
      /\ box' = Replaced(box, d, b)
      /\ UNCHANGED <<line, clock, flushes, seq, drain, sync, net, failures, label, read, affirmed, excused>>
  BY DEF Reset, CanReset, history, Replaced, SyncInv, Domains
<1>2. page' = Replaced(page, d, p)
  BY <1>1 DEF Reset, Replaced, SyncInv, Domains
<1>3. /\ RowOK(s, label) /\ Grown(srv, label, s, label) /\ s.epoch = srv.epoch + 1 /\ s.epoch \in Epochs /\ s.version \in Nat
  BY <1>1, NextPassOK
<1>4. ReaderOK(srv, label, old) /\ old.pc = "resetting"
  BY <1>1, DeviceIs DEF IsOpen
<1> HIDE DEF s, old, b
<1>5. old \in Reader /\ 0 \in Positions
  BY <1>4, PositionsAreNat DEF ReaderOK
<1>6. /\ p1 \in Reader /\ p1.pc = "open" /\ p1.pending = old.pending /\ p1.finish = old.finish /\ p1.busy = old.busy
  BY <1>5 DEF Reader
<1> HIDE DEF p1
<1>7. /\ p2 \in Reader /\ p2.pc = "open" /\ p2.pending = old.pending /\ p2.finish = old.finish /\ p2.busy = old.busy
  BY <1>5, <1>6 DEF Reader
<1> HIDE DEF p2
<1>8. /\ p3 \in Reader /\ p3.pc = "open" /\ p3.pending = old.pending /\ p3.finish = old.finish /\ p3.busy = old.busy
  BY <1>3, <1>7 DEF Reader
<1> HIDE DEF p3
<1>9. /\ p4 \in Reader /\ p4.pc = "open" /\ p4.pending = old.pending /\ p4.finish = old.finish /\ p4.busy = old.busy
      /\ p4.epoch = s.epoch
  BY <1>3, <1>8 DEF Reader
<1> HIDE DEF p4
<1>10. /\ p5 \in Reader /\ p5.pc = "open" /\ p5.pending = old.pending /\ p5.finish = old.finish /\ p5.busy = old.busy
       /\ p5.epoch = s.epoch /\ p5.version = s.version
  BY <1>3, <1>9 DEF Reader
<1> HIDE DEF p5
<1>11. /\ p6 \in Reader /\ p6.pc = "open" /\ p6.pending = old.pending /\ p6.finish = old.finish /\ p6.busy = old.busy
       /\ p6.epoch = s.epoch /\ p6.version = s.version
  BY <1>5, <1>10 DEF Reader
<1> HIDE DEF p6
<1>12. /\ p \in Reader /\ p.pc = "open" /\ p.pending = old.pending /\ p.finish = old.finish /\ p.busy = old.busy
       /\ p.epoch = s.epoch /\ p.version = s.version
  BY <1>5, <1>11 DEF Reader
<1> HIDE DEF p
<1>13. ReaderOK(s, label, old)
  BY <1>3, <1>4, ReaderGrows
<1>14. s.epoch <= s.epoch /\ s.version <= s.version
  <2>1. s.epoch \in Nat
    BY <1>3, PositionsAreNat
  <2> QED
    BY <1>3, <2>1
<1>15. ReaderOK(s, label, p)
  BY <1>4, <1>12, <1>13, <1>14 DEF ReaderOK, Ours
<1>16. DeviceOK(s, label, old, line[d], clock[d], box[d])
  BY <1>3, DeviceIs, DeviceGrows DEF old
<1>17. LineOK(s, label, p, line[d])
  BY <1>4, <1>12, <1>16, LineFits DEF DeviceOK
<1>18. DeviceOK(s, label, p, line[d], clock[d], b)
  BY <1>15, <1>16, <1>17 DEF DeviceOK, b
<1>19. AffirmedOK(s, p, line[d], b, affirmed[d], d \in excused)
  <2>1. s.epoch # srv.epoch
    BY <1>3, DeviceIs, PositionsAreNat
  <2> QED
    BY <1>3, <2>1, DeviceIs, AffirmedGrows
<1>20. line' = Replaced(line, d, line[d]) /\ clock' = Replaced(clock, d, clock[d])
  BY <1>1, Unmoved
<1>21. /\ Apart(d) /\ page'[d] = p /\ line'[d] = line[d] /\ clock'[d] = clock[d] /\ box'[d] = b
  BY <1>1, <1>2, <1>20, MovesAlone, AffirmedStill
<1>22. Smalls'
  BY <1>1 DEF SyncInv, Smalls
<1>23. /\ RowOK(srv', label') /\ Grown(srv, label, srv', label')
       /\ DeviceOK(srv', label', page'[d], line'[d], clock'[d], box'[d])
       /\ AffirmedOK(srv', page'[d], line'[d], box'[d], affirmed'[d], d \in excused')
  BY <1>1, <1>3, <1>18, <1>19, <1>21
<1>24. \A o \in net' : o \in net
  BY <1>1
<1> QED
  BY <1>21, <1>22, <1>23, <1>24, ClientKeeps

\* The answer to a reset is lost, or it fails: the page is open in its old pass.
LEMMA ResetFailsKeeps == ASSUME SyncInv, NEW d \in Devices, ResetFails(d) PROVE SyncInv'
<1> DEFINE old == page[d]
           p == [old EXCEPT !.pc = "open"]
<1>1. /\ old.pc = "resetting" /\ page' = Replaced(page, d, p)
      /\ UNCHANGED <<line, clock, box, flushes, seq, drain, sync, net, label, read, affirmed, excused>>
      /\ srv' = srv \/ (srv.epoch < MaxEpoch /\ srv' = NextPass(srv))
      /\ failures' = failures \/ (failures < MaxFailures /\ failures' = failures + 1)
  BY DEF ResetFails, CanReset, history, Replaced, SyncInv, Domains
<1>2. RowOK(srv', label) /\ Grown(srv, label, srv', label)
  BY <1>1, NextPassOK, Steady, DeviceIs
<1>3. DeviceOK(srv', label, old, line[d], clock[d], box[d])
  BY <1>2, DeviceIs, DeviceGrows
<1>4. ReaderOK(srv', label, old)
  BY <1>1, <1>2, DeviceIs, ReaderGrows DEF IsOpen
<1> HIDE DEF old
<1>5. /\ p \in Reader /\ p.pc = "open" /\ p.pending = old.pending /\ p.finish = old.finish /\ p.busy = old.busy
      /\ p.epoch = old.epoch /\ p.version = old.version
  BY <1>4 DEF ReaderOK, Reader
<1> HIDE DEF p
<1>6. ReaderOK(srv', label, p) /\ old.finish = None
  BY <1>1, <1>4, <1>5 DEF ReaderOK, Ours
<1>7. LineOK(srv', label, p, line[d])
  BY <1>1, <1>3, <1>5, LineFits DEF DeviceOK
<1>8. DeviceOK(srv', label, p, line[d], clock[d], box[d])
  BY <1>3, <1>6, <1>7 DEF DeviceOK
<1>9. AffirmedOK(srv', p, line[d], box[d], affirmed[d], d \in excused)
  <2>1. ~Affirms(srv, old)
    BY <1>6 DEF Affirms
  <2>2. srv'.epoch = srv.epoch /\ HeldIn(srv, old, line[d], box[d]) => HeldIn(srv, p, line[d], box[d])
    BY <2>1 DEF HeldIn, Full, Carries, Carrying
  <2>3. AffirmedOK(srv, old, line[d], box[d], affirmed[d], d \in excused)
    BY DeviceIs DEF old
  <2>4. Grown(srv, label, srv', label)
    BY <1>2
  <2> QED
    BY <2>2, <2>3, <2>4, AffirmedGrows
<1>10. /\ Apart(d) /\ page'[d] = p /\ line'[d] = line[d] /\ clock'[d] = clock[d] /\ box'[d] = box[d]
  <2>1. line' = Replaced(line, d, line[d]) /\ clock' = Replaced(clock, d, clock[d]) /\ box' = Replaced(box, d, box[d])
    BY <1>1, Unmoved
  <2>2. page' = Replaced(page, d, p) /\ UNCHANGED <<affirmed, excused>>
    BY <1>1
  <2> QED
    BY <2>1, <2>2, MovesAlone, AffirmedStill
<1>11. Smalls'
  <2>1. failures' \in 0..MaxFailures
    BY <1>1, BoundsAssumption DEF SyncInv, Smalls
  <2> QED
    BY <1>1, <2>1 DEF SyncInv, Smalls
<1>12. /\ RowOK(srv', label') /\ Grown(srv, label, srv', label')
       /\ DeviceOK(srv', label', page'[d], line'[d], clock'[d], box'[d])
       /\ AffirmedOK(srv', page'[d], line'[d], box'[d], affirmed'[d], d \in excused')
  BY <1>1, <1>2, <1>8, <1>9, <1>10
<1>13. \A o \in net' : o \in net
  BY <1>1
<1> QED
  BY <1>10, <1>11, <1>12, <1>13, ClientKeeps

-----------------------------------------------------------------------------
(* PositionSync: the server's side *)

\* The head of the line is answered.
LEMMA AnsweredOK ==
  ASSUME NEW s, NEW l, NEW p, NEW ln, LineOK(s, l, p, ln), ln # <<>>,
         NEW a \in Reply, ReplyOK(s, ln[1].body, a)
  PROVE  /\ LineOK(s, l, p, [ln EXCEPT ![1].reply = a]) /\ [ln EXCEPT ![1].reply = a] # <<>>
         /\ Carries(s, ln) => Carries(s, [ln EXCEPT ![1].reply = a])
<1> DEFINE old == ln[1]
           q == [old EXCEPT !.reply = a]
           ln2 == [ln EXCEPT ![1] = q]
<1>1. ln \in Seq(Delivery) /\ Len(ln) \in Nat /\ Len(ln) > 0 /\ DeliveryOK(s, l, old) /\ Ours(p, old) /\ old \in Delivery
  BY TailOK DEF LineOK
<1>2. [ln EXCEPT ![1].reply = a] = ln2
  BY <1>1
<1> HIDE DEF old
<1>3. /\ q \in Delivery /\ q.reply = a /\ q.kind = old.kind /\ q.body = old.body /\ q.report = old.report
      /\ q.finish = old.finish /\ q.mine = old.mine /\ q.fresh = old.fresh
  BY <1>1 DEF Delivery
<1> HIDE DEF q
<1>4. DeliveryOK(s, l, q) /\ Ours(p, q) /\ (Carrying(s, old) => Carrying(s, q))
  <2>1. ReplyOK(s, old.body, a)
    BY DEF old
  <2> QED
    BY <1>1, <1>3, <2>1 DEF DeliveryOK, Ours, Carrying
<1>5. /\ ln2 \in Seq(Delivery) /\ Len(ln2) = Len(ln) /\ \A i \in 1..Len(ln) : ln2[i] = IF i = 1 THEN q ELSE ln[i]
  BY <1>1, <1>3
<1> HIDE DEF ln2
<1>6. LineOK(s, l, p, ln2)
  BY <1>4, <1>5 DEF LineOK
<1>7. Carries(s, ln) => Carries(s, ln2)
  <2> SUFFICES ASSUME NEW i \in 1..Len(ln), Carrying(s, ln[i]) PROVE Carries(s, ln2)
    BY DEF Carries
  <2>1. Carrying(s, ln2[i])
    BY <1>4, <1>5 DEF old
  <2> QED
    BY <1>5, <2>1 DEF Carries
<1>8. ln2 # <<>>
  BY <1>1, <1>5
<1> QED
  BY <1>2, <1>6, <1>7, <1>8

\* The request of a device arrives.
LEMMA ServeKeeps == ASSUME SyncInv, NEW d \in Devices, Serve(d) PROVE SyncInv'
<1> DEFINE b == Wire(d)
           a == Answer(srv, d, b)
           ln == [line[d] EXCEPT ![1].reply = a]
<1>1. /\ line[d] # <<>> /\ Put(d, b) /\ line' = Replaced(line, d, ln)
      /\ UNCHANGED <<page, clock, box, flushes, seq, drain, sync, net, failures, label, read, affirmed, excused>>
  BY DEF Serve, history, Replaced, SyncInv, Domains
<1>2. BodyOK(srv, label, b) /\ b.epoch = line[d][1].body.epoch /\ b.far = line[d][1].body.far
  BY <1>1, HeadIs DEF Foremost
<1> HIDE DEF b
<1>3. RowOK(srv', label) /\ Grown(srv, label, srv', label) /\ srv'.epoch = srv.epoch
  BY <1>1, <1>2, Steady, DeviceIs, PutGrows
<1>4. ReplyOK(srv', b, a) /\ a \in Reply
  BY <1>1, <1>2, Steady, DeviceIs, AnswerOK
<1> HIDE DEF a
<1>5. ReplyOK(srv', line[d][1].body, a)
  BY <1>2, <1>4 DEF ReplyOK
<1>6. DeviceOK(srv', label, page[d], line[d], clock[d], box[d])
  BY <1>3, DeviceIs, DeviceGrows
<1>7. /\ LineOK(srv', label, page[d], ln) /\ ln # <<>>
      /\ Carries(srv', line[d]) => Carries(srv', ln)
  BY <1>1, <1>4, <1>5, <1>6, AnsweredOK DEF DeviceOK
<1> HIDE DEF ln
<1>8. DeviceOK(srv', label, page[d], ln, clock[d], box[d])
  BY <1>1, <1>6, <1>7 DEF DeviceOK, ClockOK
<1>9. AffirmedOK(srv', page[d], ln, box[d], affirmed[d], d \in excused)
  <2>1. HeldIn(srv, page[d], line[d], box[d]) => HeldIn(srv, page[d], ln, box[d])
    BY <1>3, <1>7 DEF HeldIn, Full, Affirms, Carries, Carrying
  <2>2. Grown(srv, label, srv', label)
    BY <1>3
  <2>3. AffirmedOK(srv, page[d], line[d], box[d], affirmed[d], d \in excused)
    BY DeviceIs
  <2> QED
    BY <2>1, <2>2, <2>3, AffirmedGrows
<1>10. /\ Apart(d) /\ page'[d] = page[d] /\ line'[d] = ln /\ clock'[d] = clock[d] /\ box'[d] = box[d]
  <2>1. page' = Replaced(page, d, page[d]) /\ clock' = Replaced(clock, d, clock[d]) /\ box' = Replaced(box, d, box[d])
    BY <1>1, Unmoved
  <2>2. UNCHANGED <<affirmed, excused>>
    BY <1>1
  <2> QED
    BY <1>1, <2>1, <2>2, MovesAlone, AffirmedStill
<1>11. Smalls'
  BY <1>1 DEF SyncInv, Smalls
<1>12. /\ RowOK(srv', label') /\ Grown(srv, label, srv', label')
       /\ DeviceOK(srv', label', page'[d], line'[d], clock'[d], box'[d])
       /\ AffirmedOK(srv', page'[d], line'[d], box'[d], affirmed'[d], d \in excused')
  BY <1>1, <1>3, <1>8, <1>9, <1>10
<1>13. \A o \in net' : o \in net
  BY <1>1
<1> QED
  BY <1>10, <1>11, <1>12, <1>13, ClientKeeps

\* A request whose page is gone arrives.
LEMMA ServeOrphanKeeps == ASSUME SyncInv, NEW o \in net, ServeOrphan(o) PROVE SyncInv'
<1>1. /\ Put(o.by, o.body) /\ net' \subseteq net
      /\ UNCHANGED <<page, line, clock, box, flushes, seq, drain, sync, failures, label, read, affirmed, excused>>
  BY DEF ServeOrphan, client, history
<1>2. o.by \in Devices /\ BodyOK(srv, label, o.body) /\ RowOK(srv, label) /\ label \in [Epochs -> Positions]
  BY Steady DEF SyncInv, NetOK
<1>3. RowOK(srv', label) /\ Grown(srv, label, srv', label) /\ srv'.epoch = srv.epoch
  BY <1>1, <1>2, PutGrows
<1>4. Domains' /\ Smalls'
  BY <1>1 DEF SyncInv, Domains, Smalls
<1>5. NetOK'
  <2>1. \A x \in net' : x.by \in Devices /\ BodyOK(srv', label, x.body)
    BY <1>1, <1>3, BodyGrows DEF SyncInv, NetOK
  <2> QED
    BY <1>1, <2>1 DEF NetOK
<1>6. ASSUME NEW d \in Devices
      PROVE  /\ DeviceOK(srv', label, page[d], line[d], clock[d], box[d])
             /\ AffirmedOK(srv', page[d], line[d], box[d], affirmed[d], d \in excused)
  <2>1. HeldIn(srv, page[d], line[d], box[d]) => HeldIn(srv, page[d], line[d], box[d])
    BY <1>3 DEF HeldIn, Full, Affirms, Carries, Carrying
  <2> QED
    BY <1>3, <2>1, DeviceIs, DeviceGrows, AffirmedGrows
<1> QED
  BY <1>1, <1>3, <1>4, <1>5, <1>6 DEF SyncInv

\* A request whose page is gone is lost.
LEMMA LoseOrphanKeeps == ASSUME SyncInv, NEW o \in net, LoseOrphan(o) PROVE SyncInv'
<1>1. /\ UNCHANGED <<srv, page, line, clock, box, label, read, affirmed, excused, seq, flushes, drain, sync>>
      /\ net' \subseteq net /\ failures < MaxFailures /\ failures' = failures + 1
  BY DEF LoseOrphan, client, history
<1>2. failures' \in 0..MaxFailures
  BY <1>1, BoundsAssumption DEF SyncInv, Smalls
<1> QED
  BY <1>1, <1>2, StillKeeps DEF SyncInv, Smalls

-----------------------------------------------------------------------------
(* PositionSync: the theorems *)

LEMMA SyncStarts == ASSUME PositionInit PROVE SyncInv
<1>1. Domains
  BY DEF PositionInit, Domains
<1>2. 0 \in Positions /\ 0 \in Epochs /\ 0 \in 0..MaxFailures /\ 0 <= 0
  BY PositionsAreNat, BoundsAssumption
<1>3. Smalls
  BY <1>2 DEF PositionInit, Smalls
<1>4. NetOK
  BY DEF PositionInit, NetOK
<1>5. srv.epoch = 0 /\ srv.mark = 0 /\ srv.cur = 0 /\ srv.high = 0 /\ srv.by = 0 /\ srv.seq = 0
  BY DEF PositionInit
<1>6. srv \in [hosted : Hosting, epoch : Epochs, version : Nat, mark : Positions, cur : Positions,
               high : Positions, by : Devices \cup {0}, seq : Nat]
  BY <1>2 DEF PositionInit
<1>7. label[0] = 0
  BY <1>2 DEF PositionInit
<1>8. RowOK(srv, label)
  BY <1>2, <1>5, <1>6, <1>7 DEF RowOK
<1>9. ASSUME NEW d \in Devices
      PROVE  page[d] = Away /\ line[d] = <<>> /\ clock[d] = None /\ box[d] = None /\ affirmed[d] = None
  BY DEF PositionInit
<1>10. \A d \in Devices : DeviceOK(srv, label, page[d], line[d], clock[d], box[d])
  <2>1. DeviceOK(srv, label, Away, <<>>, None, None)
    BY DEF DeviceOK, LineOK, ClockOK
  <2> QED
    BY <1>9, <2>1
<1>11. \A d \in Devices : AffirmedOK(srv, page[d], line[d], box[d], affirmed[d], d \in excused)
  BY <1>9 DEF AffirmedOK
<1> QED
  BY <1>1, <1>3, <1>4, <1>8, <1>10, <1>11 DEF SyncInv

\* A stuttering step.
LEMMA SyncStill == ASSUME SyncInv, UNCHANGED positionVars PROVE SyncInv'
<1>1. UNCHANGED <<srv, page, line, clock, box, label, read, affirmed, excused, seq, flushes, drain, sync, failures, net>>
  BY DEF positionVars
<1> QED
  BY <1>1, StillKeeps DEF SyncInv, Smalls

\* Every step keeps the invariant.
LEMMA SyncKeeps == ASSUME SyncInv, [PositionNext]_positionVars PROVE SyncInv'
<1>1. ASSUME NEW d \in Devices, Reading(d) PROVE SyncInv'
  BY <1>1, OpenKeeps, FinishKeeps, HideKeeps, LeaveBookKeeps, CloseKeeps, StartOverKeeps, ResetKeeps,
     ResetFailsKeeps, TurnKeeps DEF Reading
<1>2. ASSUME NEW d \in Devices, Delivering(d) PROVE SyncInv'
  BY <1>2, FireKeeps, ServeKeeps, SavedKeeps, ConflictKeeps, LoseKeeps, RefuseKeeps, CanonicalKeeps,
     CanonicalFailsKeeps DEF Delivering
<1>3. ASSUME NEW d \in Devices, Replaying(d) PROVE SyncInv'
  BY <1>3, OnlineKeeps, LaunchKeeps, DrainedKeeps, ReplayKeeps, ReplayedKeeps, ReconcileKeeps,
     ReconcileFailsKeeps DEF Replaying
<1>4. ASSUME NEW o \in net, ServeOrphan(o) \/ LoseOrphan(o) PROVE SyncInv'
  BY <1>4, ServeOrphanKeeps, LoseOrphanKeeps
<1> QED
  BY <1>1, <1>2, <1>3, <1>4, SyncStill DEF PositionNext

\* The invariant types every variable.
LEMMA SyncTypes == ASSUME SyncInv PROVE TypeOK
<1>1. RowOK(srv, label) /\ Smalls
  BY DEF SyncInv
<1>2. ASSUME NEW d \in Devices
      PROVE  /\ page[d] \in Reader \cup {Away, Gone}
             /\ line[d] \in Seq(Delivery) /\ (line[d] = <<>> => clock[d] = None)
             /\ clock[d] \in {None} \cup [epoch : Epochs, seq : Nat, version : Nat]
             /\ box[d] \in {None} \cup Body
             /\ affirmed[d] \in {None} \cup [epoch : Epochs]
  <2>1. /\ page[d] \in {Away, Gone} \/ ReaderOK(srv, label, page[d])
        /\ LineOK(srv, label, page[d], line[d]) /\ ClockOK(srv, line[d], clock[d])
        /\ box[d] = None \/ BodyOK(srv, label, box[d])
        /\ AffirmedOK(srv, page[d], line[d], box[d], affirmed[d], d \in excused)
    BY DEF SyncInv, DeviceOK
  <2> QED
    BY <2>1 DEF ReaderOK, LineOK, ClockOK, Clocks, BodyOK, AffirmedOK
<1>3. /\ page = [d \in Devices |-> page[d]] /\ line = [d \in Devices |-> line[d]]
      /\ clock = [d \in Devices |-> clock[d]] /\ box = [d \in Devices |-> box[d]]
      /\ affirmed = [d \in Devices |-> affirmed[d]]
  BY DEF SyncInv, Domains
<1>4. page \in [Devices -> Reader \cup {Away, Gone}]
  BY <1>2, <1>3
<1>5. clock \in [Devices -> {None} \cup [epoch : Epochs, seq : Nat, version : Nat]]
  BY <1>2, <1>3
<1>6. box \in [Devices -> {None} \cup Body]
  BY <1>2, <1>3
<1>7. affirmed \in [Devices -> {None} \cup [epoch : Epochs]]
  BY <1>2, <1>3
<1>8. \A o \in net : o.by \in Devices /\ o.body \in Body
  BY DEF SyncInv, NetOK, BodyOK
<1> QED
  BY <1>1, <1>2, <1>4, <1>5, <1>6, <1>7, <1>8 DEF TypeOK, RowOK, Smalls

\* An affirmation in hand, in the words of the model.
LEMMA HeldIs ==
  ASSUME SyncInv, NEW d \in Devices, HeldIn(srv, page[d], line[d], box[d])
  PROVE  Held(d, srv.epoch)
<1> DEFINE r == [pos |-> Chapters, epoch |-> srv.epoch]
<1>1. ASSUME NEW x \in Report, x.pos = Chapters, x.epoch = srv.epoch PROVE x = r
  BY <1>1 DEF Report
<1>2. CASE Full(srv, box[d])
  BY <1>2 DEF Full, Held
<1>3. CASE Affirms(srv, page[d])
  <2>1. IsOpen(d) /\ page[d].finish # None /\ page[d].finish.epoch = srv.epoch
    BY <1>3 DEF Affirms, IsOpen
  <2>2. page[d].finish \in Report /\ page[d].finish.pos = Chapters
    BY <2>1, DeviceIs DEF ReaderOK, ReportOK
  <2> QED
    BY <1>1, <2>1, <2>2 DEF Held
<1>4. CASE Carries(srv, line[d])
  <2>1. PICK i \in 1..Len(line[d]) : Carrying(srv, line[d][i])
    BY <1>4 DEF Carries
  <2>2. DeliveryOK(srv, label, line[d][i])
    BY DeviceIs DEF LineOK
  <2>3. /\ line[d][i].kind = "live" /\ line[d][i].fresh /\ line[d][i].report \in Report
        /\ line[d][i].report.pos = Chapters /\ line[d][i].report.epoch = srv.epoch
    BY <2>1, <2>2 DEF Carrying, DeliveryOK, ReportOK
  <2>4. line[d][i].report = r
    BY <1>1, <2>3
  <2>5. r \in UnderWay(d)
    BY <2>3, <2>4 DEF UnderWay
  <2> QED
    BY <2>5 DEF Held
<1> QED
  BY <1>2, <1>3, <1>4 DEF HeldIn

\* What the invariant says of passes and of affirmations.
LEMMA SyncImplies == ASSUME SyncInv PROVE PassesApart /\ FinishKept
<1>1. OnlyItsPass
  BY DEF SyncInv, RowOK, OnlyItsPass
<1>2. ASSUME NEW d \in Devices, affirmed[d] = [epoch |-> srv.epoch], d \notin excused
      PROVE  srv.mark = Chapters \/ Held(d, srv.epoch)
  <2>1. AffirmedOK(srv, page[d], line[d], box[d], affirmed[d], d \in excused)
    BY DeviceIs
  <2>2. affirmed[d] # None /\ affirmed[d].epoch = srv.epoch
    BY <1>2 DEF None
  <2> QED
    BY <1>2, <2>1, <2>2, HeldIs DEF AffirmedOK
<1> QED
  BY <1>1, <1>2, SyncTypes DEF PassesApart, FinishKept

\* What every reachable state of PositionSync satisfies: requests, answers, pages,
\* lines, clocks and the outbox say nothing that the row or a reader did not.
THEOREM SyncHolds == PositionSpec => []SyncInv
<1>1. PositionInit => SyncInv
  BY SyncStarts
<1>2. SyncInv /\ [PositionNext]_positionVars => SyncInv'
  BY SyncKeeps
<1> QED
  BY <1>1, <1>2, PTL DEF PositionSpec

\* Reading passes stay apart: whatever was delayed, queued, merged, replayed or
\* rebased, no pass counts what another one reported (update_position, reset_position).
THEOREM PassesStayApart == PositionSpec => []PassesApart
<1>1. SyncInv => PassesApart
  BY SyncImplies
<1> QED
  BY <1>1, SyncHolds, PTL

\* "Finish book" in a pass that goes on is counted, or still held by the reporter, a
\* delivery or the outbox, through failures, teardown and closed tabs
\* (complete, retain, queuePosition, acknowledgePosition).
THEOREM FinishIsKept == PositionSpec => []FinishKept
<1>1. SyncInv => FinishKept
  BY SyncImplies
<1> QED
  BY <1>1, SyncHolds, PTL

=============================================================================
