-------------------------- MODULE ProviderSettings --------------------------
(* One owner's provider credentials and model settings of the hosted        *)
(* service (tenant/api.py, tenant/repository.py, credentials.py): they are  *)
(* stored, replaced and deleted, a setting is validated by asking the       *)
(* provider between two transactions, and ingestion jobs and questions to a *)
(* book use them meanwhile. Several web processes may serve the owner; each *)
(* action is one transaction, or one wait for the provider.                 *)
EXTENDS Integers, FiniteSets

CONSTANTS
  Credentials,
  Jobs,
  MaxSecrets,      \* bound on the secrets the owner enters
  MaxEvents        \* bound on the owner's requests

Capabilities == {"extraction", "synthesis"}

VARIABLES
  cred,      \* [state, secret, key]; key is the master key version it is wrapped with
  secrets,   \* secrets entered so far
  setting,   \* by capability: [cred, enabled, status, stamp], and the history
             \* field `passed`: the secret the provider accepted
  check,     \* a validation in progress
  upload,    \* an upload between its reading of the setting and its insert
  job,       \* [state, cred, secret]; secret is held by the running worker
  ask,       \* a question to a book in progress
  ring,      \* the master keys the processes hold; the newest is active
  events

tenant == <<cred, secrets, setting, check, upload, job, ask, ring>>

NoCred  == [state |-> "none", secret |-> 0, key |-> 0]
Unset   == [cred |-> {}, enabled |-> FALSE, status |-> "unchecked", stamp |-> 0, passed |-> 0]
NoCheck == [pc |-> "idle", cap |-> "extraction", seen |-> Unset, secret |-> 0]
NoAsk   == [pc |-> "idle", seen |-> Unset, secret |-> 0]
NoUpload == [busy |-> FALSE, cred |-> {}]
NoJob   == [state |-> "none", cred |-> {}, secret |-> 0]

TenantInit ==
  /\ cred = [c \in Credentials |-> NoCred] /\ secrets = 0
  /\ setting = [p \in Capabilities |-> Unset]
  /\ check = NoCheck /\ upload = NoUpload /\ ask = NoAsk
  /\ job = [j \in Jobs |-> NoJob]
  /\ ring = {1}

Event == events < MaxEvents /\ events' = events + 1

Active == CHOOSE k \in ring : \A l \in ring : l <= k

(* resolve_credential opens the envelope of a live credential; what it      *)
(* returns is the secret, or 0.                                             *)
Opened(c) == IF cred[c].state = "live" /\ cred[c].key \in ring THEN cred[c].secret ELSE 0

SecretOf(cs) == IF cs = {} THEN 0 ELSE Opened(CHOOSE c \in cs : TRUE)

-----------------------------------------------------------------------------
(* The owner's requests. A change of a credential unsettles the settings    *)
(* that select it, and its pending jobs wait for a configuration again.     *)

Unsettled_ofReadyOnly(c, enabled) ==
  [p \in Capabilities |->
     IF setting[p].cred = {c} THEN [setting[p] EXCEPT !.enabled = @ /\ enabled] ELSE setting[p]]
Unsettled(c, enabled) ==
  [p \in Capabilities |->
     IF setting[p].cred = {c}
     THEN [setting[p] EXCEPT !.status = "unchecked", !.passed = 0, !.stamp = @ + 1,
                             !.enabled = @ /\ enabled]
     ELSE setting[p]]

Waiting(j) == [job[j] EXCEPT !.state = "waiting", !.cred = {}]

JobsWait(jobs) == [j \in Jobs |-> IF j \in jobs /\ job[j].state = "pending" THEN Waiting(j) ELSE job[j]]

Wrapped(n) == [state |-> "live", secret |-> n, key |-> Active]

CreateCredential(c) ==
  /\ cred[c].state = "none" /\ secrets < MaxSecrets
  /\ secrets' = secrets + 1
  /\ cred' = [cred EXCEPT ![c] = Wrapped(secrets')]
  /\ UNCHANGED <<setting, check, upload, job, ask, ring>> /\ Event

ReplaceCredential(c) ==
  /\ cred[c].state = "live" /\ secrets < MaxSecrets
  /\ secrets' = secrets + 1
  /\ cred' = [cred EXCEPT ![c] = Wrapped(secrets')]
  /\ setting' = Unsettled(c, TRUE)
  /\ job' = JobsWait({j \in Jobs : job[j].cred = {c}})
  /\ UNCHANGED <<check, upload, ask, ring>> /\ Event

DeleteCredential(c) ==
  /\ cred[c].state = "live"
  /\ cred' = [cred EXCEPT ![c] = [NoCred EXCEPT !.state = "deleted"]]
  /\ setting' = Unsettled(c, FALSE)
  /\ job' = JobsWait({j \in Jobs : job[j].cred = {c}})
  /\ UNCHANGED <<secrets, check, upload, ask, ring>> /\ Event

(* upsert_provider_setting: a credential that is live now, or offline.      *)
PutSetting(p, cs) ==
  /\ \A c \in cs : cred[c].state = "live"
  /\ setting' = [setting EXCEPT ![p] = [cred |-> cs, enabled |-> TRUE, stamp |-> @.stamp + 1, passed |-> 0,
                                        status |-> IF cs = {} THEN "offline" ELSE "unchecked"]]
  /\ job' = IF p = "extraction" THEN JobsWait(Jobs) ELSE job
  /\ UNCHANGED <<cred, secrets, check, upload, ask, ring>> /\ Event

-----------------------------------------------------------------------------
(* validate_provider_setting: read, resolve, ask the provider, record.      *)

CheckReads(p) ==
  /\ check.pc = "idle" /\ setting[p].cred # {}
  /\ check' = [pc |-> "read", cap |-> p, seen |-> setting[p], secret |-> 0]
  /\ UNCHANGED <<cred, secrets, setting, upload, job, ask, ring>> /\ Event

CheckResolves ==
  /\ check.pc = "read"
  /\ check' = [check EXCEPT !.pc = "asking", !.secret = SecretOf(check.seen.cred)]
  /\ UNCHANGED <<cred, secrets, setting, upload, job, ask, ring, events>>

(* The jobs that waited start with the credential that is ready now.        *)
JobsReleased(cs) ==
  [j \in Jobs |-> IF job[j].state = "waiting" THEN [job[j] EXCEPT !.state = "pending", !.cred = cs] ELSE job[j]]

SameSetting_sameRow(p, seen) == setting[p].cred = seen.cred
SameSetting(p, seen) == setting[p].stamp = seen.stamp

CheckRecords(accepted) ==
  LET p == check.cap IN
  /\ check.pc = "asking" /\ (accepted => check.secret # 0)
  /\ IF SameSetting(p, check.seen)
     THEN /\ setting' = [setting EXCEPT ![p].status = IF accepted THEN "ready" ELSE "invalid",
                                        ![p].passed = IF accepted THEN check.secret ELSE 0,
                                        ![p].stamp = @ + 1]
          /\ job' = IF accepted /\ p = "extraction" THEN JobsReleased(setting[p].cred) ELSE job
     ELSE UNCHANGED <<setting, job>>
  /\ check' = NoCheck
  /\ UNCHANGED <<cred, secrets, upload, ask, ring, events>>

-----------------------------------------------------------------------------
(* Jobs. create_uploaded_book reads the setting without locking it, so the  *)
(* job it inserts may be bound to what was ready before.                    *)

Ready(p) == setting[p].enabled /\ setting[p].status = "ready"

UploadReads ==
  /\ ~upload.busy
  /\ upload' = [busy |-> TRUE, cred |-> IF Ready("extraction") THEN setting["extraction"].cred ELSE {}]
  /\ UNCHANGED <<cred, secrets, setting, check, job, ask, ring>> /\ Event

UploadInserts(j) ==
  /\ upload.busy /\ job[j].state = "none"
  /\ job' = [job EXCEPT ![j] = [state  |-> IF upload.cred = {} THEN "waiting" ELSE "pending",
                                cred   |-> upload.cred, secret |-> 0]]
  /\ upload' = NoUpload
  /\ UNCHANGED <<cred, secrets, setting, check, ask, ring, events>>

Claim(j) ==
  /\ job[j].state = "pending"
  /\ job' = [job EXCEPT ![j].state = "running"]
  /\ UNCHANGED <<cred, secrets, setting, check, upload, ask, ring, events>>

(* The worker opens the credential its job is bound to only while it is the *)
(* one selected and ready; otherwise the job fails for good.                *)
MayOpen_bound(j) == SecretOf(job[j].cred) # 0
MayOpen(j) ==
  /\ Ready("extraction") /\ setting["extraction"].cred = job[j].cred
  /\ SecretOf(job[j].cred) # 0

WorkerOpens(j) ==
  /\ job[j].state = "running" /\ job[j].secret = 0
  /\ job' = IF MayOpen(j) THEN [job EXCEPT ![j].secret = SecretOf(job[j].cred)]
            ELSE [job EXCEPT ![j].state = "ended"]
  /\ UNCHANGED <<cred, secrets, setting, check, upload, ask, ring, events>>

(* The job ends, or its lease expires and it is pending again.              *)
Leave(j, state) ==
  /\ job[j].state = "running"
  /\ job' = [job EXCEPT ![j].state = state, ![j].secret = 0]
  /\ UNCHANGED <<cred, secrets, setting, check, upload, ask, ring, events>>

-----------------------------------------------------------------------------
(* A question: the ready setting, its secret, then the reservation of its   *)
(* cost, which asks whether the setting is still the one read first.        *)

AskReads ==
  /\ ask.pc = "idle" /\ Ready("synthesis")
  /\ ask' = [NoAsk EXCEPT !.pc = "read", !.seen = setting["synthesis"]]
  /\ UNCHANGED <<cred, secrets, setting, check, upload, job, ring>> /\ Event

AskResolves ==
  /\ ask.pc = "read"
  /\ ask' = IF SecretOf(ask.seen.cred) = 0 THEN NoAsk
            ELSE [ask EXCEPT !.pc = "resolved", !.secret = SecretOf(ask.seen.cred)]
  /\ UNCHANGED <<cred, secrets, setting, check, upload, job, ring, events>>

AskReserves ==
  /\ ask.pc = "resolved"
  /\ ask' = IF Ready("synthesis") /\ SameSetting("synthesis", ask.seen)
            THEN [ask EXCEPT !.pc = "calling"] ELSE NoAsk
  /\ UNCHANGED <<cred, secrets, setting, check, upload, job, ring, events>>

AskSettles ==
  /\ ask.pc = "calling" /\ ask' = NoAsk
  /\ UNCHANGED <<cred, secrets, setting, check, upload, job, ring, events>>

-----------------------------------------------------------------------------
(* Rotation of the master key: all processes start again with both keys,    *)
(* the operator rewraps what the old key wraps, and once nothing is left of *)
(* it they start again without it. The requests in progress are lost, and   *)
(* the leases of the running jobs expire.                                   *)

Restart ==
  /\ check' = NoCheck /\ upload' = NoUpload /\ ask' = NoAsk
  /\ job' = [j \in Jobs |-> IF job[j].state = "running"
                            THEN [job[j] EXCEPT !.state = "pending", !.secret = 0] ELSE job[j]]

AddKey ==
  /\ ring = {1} /\ ring' = {1, 2} /\ Restart
  /\ UNCHANGED <<cred, secrets, setting>> /\ Event

Rewrap_newOnly(c) == ring = {2}
Rewrap(c) == cred[c].state = "live" /\ cred[c].key # Active

RewrapOne(c) ==
  /\ Rewrap(c)
  /\ cred' = [cred EXCEPT ![c].key = Active]
  /\ UNCHANGED <<secrets, setting, check, upload, job, ask, ring, events>>

NoneLeft == \A c \in Credentials : ~Rewrap(c)

DropKey ==
  /\ ring = {1, 2} /\ NoneLeft /\ ring' = {2} /\ Restart
  /\ UNCHANGED <<cred, secrets, setting, events>>

Requests ==
  \/ \E c \in Credentials : CreateCredential(c) \/ ReplaceCredential(c) \/ DeleteCredential(c)
  \/ \E p \in Capabilities : \/ CheckReads(p)
                             \/ \E c \in Credentials : PutSetting(p, {c})
                             \/ PutSetting(p, {})
  \/ UploadReads \/ AskReads

Background ==
  \/ CheckResolves \/ \E accepted \in BOOLEAN : CheckRecords(accepted)
  \/ \E j \in Jobs : \/ UploadInserts(j) \/ Claim(j) \/ WorkerOpens(j)
                     \/ \E state \in {"pending", "ended"} : Leave(j, state)
  \/ AskResolves \/ AskReserves \/ AskSettles
  \/ AddKey \/ DropKey \/ \E c \in Credentials : RewrapOne(c)

-----------------------------------------------------------------------------
(* A setting is ready only for the secret that is stored now: however a     *)
(* validation crosses a replacement, a deletion or another choice of the    *)
(* credential, its answer is never recorded for a secret it did not try.    *)
ReadyIsProven ==
  \A p \in Capabilities : setting[p].status = "ready" =>
    /\ setting[p].passed # 0
    /\ \A c \in setting[p].cred : cred[c].state = "live" /\ cred[c].secret = setting[p].passed

(* A worker or a question goes to the provider only with the secret that    *)
(* passed the validation of the setting in force at that moment, though the *)
(* job was bound, or the secret opened, earlier.                            *)
CallsAreProven ==
  [][/\ \A j \in Jobs : job[j].secret = 0 /\ job'[j].secret # 0 =>
          Ready("extraction") /\ job'[j].secret = setting["extraction"].passed
     /\ ask.pc # "calling" /\ ask'.pc = "calling" =>
          Ready("synthesis") /\ ask.secret = setting["synthesis"].passed]_tenant

(* Rotating the master key in the order of ADR 0025, all processes together, *)
(* never makes a stored credential unreadable (rewrap).                      *)
RotationKeepsAll == \A c \in Credentials : cred[c].state = "live" => cred[c].key \in ring
=============================================================================
