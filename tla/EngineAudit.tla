------------------------------ MODULE EngineAudit ------------------------------
(***************************************************************************)
(* From a request to its signed audit record: the handlers of               *)
(* portauth-engine/src/routes/evaluate.js, createAuditRecord of             *)
(* services/auditLogger.js and the audit signing key of                     *)
(* services/engineKeyStore.js.                                              *)
(*                                                                          *)
(* Requests of several engine processes interleave at every await.  The     *)
(* processes share the key table and the audit table; each caches the       *)
(* signing key.  What the checks of a credential decide is an input; which  *)
(* checks run, in which order, and what is recorded of them is the model.   *)
(*                                                                          *)
(* /evaluate and /evaluate/batch run the same steps and differ in how the   *)
(* credential is verified.  /evaluate/workflow runs a part of them for each *)
(* presented role and records a wrapping decision.                          *)
(***************************************************************************)
EXTENDS Integers, Sequences, FiniteSets

CONSTANTS
  Requests,   \* POSTs to the evaluate routes
  Workflows,  \* those to /evaluate/workflow
  Presents,   \* the roles a request presents credentials for, in order
  Fieldless,  \* requests with a usage limit, a constraint that names no field
  Roles,
  Policies,   \* active workflow policies
  Procs,      \* engine processes
  ProcOf,     \* the process that handles a request
  NoKey,      \* no signing key
  MaxCrashes, \* bound: crashes of a process
  MaxFaults   \* bound: awaits that throw

PolicyType == [combinator : {"requireAll", "requireAny", "threshold"},
               threshold : Nat, required : SUBSET Roles]

ASSUME RequestsType == Workflows \subseteq Requests /\ Fieldless \subseteq Requests
ASSUME PresentsType ==
  /\ Presents \in [Requests -> Seq(Roles)]
  /\ \A r \in Requests : r \in Workflows <=> Presents[r] # <<>>
ASSUME PoliciesType == Policies \subseteq PolicyType /\ Policies # {}
ASSUME ProcOfType == ProcOf \in [Requests -> Procs]
ASSUME NoKeyType == NoKey \notin Requests
ASSUME BoundsType == MaxCrashes \in Nat /\ MaxFaults \in Nat

VARIABLES
  pc,      \* what each request does next
  policy,  \* the workflow policy it loaded
  subs,    \* the sub-decisions of a workflow so far
  draft,   \* the record to be signed and written next
  kid,     \* the key it was signed with
  keys,    \* active audit keys in the database, named by the request that made one
  cache,   \* the key each process has cached
  audit,   \* rows of portauth_audit_records
  charged, \* requests whose stateful reservation was committed
  reply,   \* what the caller was told
  crashes, faults,
  unsigned \* history: requests whose signing failed

work == <<policy, subs, draft, kid>>
store == <<keys, audit, charged>>
bounds == <<crashes, faults>>
vars == <<pc, work, store, cache, reply, bounds, unsigned>>

Checks == {"verify", "constraints", "policy", "reserve"}
Writing == {"key", "select", "create", "record"}
PcStates == {"idle", "load", "respond", "done"} \cup Checks \cup Writing
Decisions == {"allow", "deny"}
Replies == Decisions \cup {"none", "invalid", "policy_unknown", "role_mismatch",
                           "internal_error", "audit_signing_failed", "lost"}

(* What is signed and written: the decision, whether it names a workflow    *)
(* policy, the sub-records it wraps, and whether it reports on a constraint *)
(* that has no field.                                                       *)
Content(decision, workflow, wraps, hole) ==
  [decision |-> decision, workflow |-> workflow, wraps |-> wraps, hole |-> hole]

Init ==
  /\ pc = [r \in Requests |-> "idle"]
  /\ policy = [r \in Requests |-> CHOOSE p \in Policies : TRUE]
  /\ subs = [r \in Requests |-> <<>>]
  /\ draft = [r \in Requests |-> Content("deny", FALSE, {}, FALSE)]
  /\ kid = [r \in Requests |-> NoKey]
  /\ keys = {}
  /\ cache = [p \in Procs |-> NoKey]
  /\ audit = {}
  /\ charged = {}
  /\ reply = [r \in Requests |-> "none"]
  /\ crashes = 0 /\ faults = 0
  /\ unsigned = {}

Goto(r, where) == pc' = [pc EXCEPT ![r] = where]

Answer(r, what) == Goto(r, "done") /\ reply' = [reply EXCEPT ![r] = what]

Sign(r, content) == Goto(r, "key") /\ draft' = [draft EXCEPT ![r] = content]

--------------------------------------------------------------------------------
(* Workflows: workflowEvaluator.js and the loop of /evaluate/workflow.      *)

RolesOf(r) == {Presents[r][i] : i \in DOMAIN Presents[r]}

CoversAnyRoles(p, roles) == roles \subseteq p.required

(* No required role is missing and no other role is presented. *)
Covers(p, roles) == p.required \subseteq roles /\ roles \subseteq p.required

AllowsIn(s) == {i \in DOMAIN s : s[i] = "allow"}

CombinedDenied(p, s) == IF AllowsIn(s) = {} THEN "denied" ELSE "allow"

(* threshold_n counts sub-decisions, not roles. *)
Combined(p, s) ==
  IF \/ p.combinator = "requireAll" /\ AllowsIn(s) = DOMAIN s
     \/ p.combinator = "requireAny" /\ AllowsIn(s) # {}
     \/ p.combinator = "threshold" /\ Cardinality(AllowsIn(s)) >= p.threshold
  THEN "allow" ELSE "deny"

(* The next credential, or after the last the decision over all of them. *)
NextEntry(r, decision) ==
  LET s == Append(subs[r], decision) IN
  /\ subs' = [subs EXCEPT ![r] = s]
  /\ IF Len(s) < Len(Presents[r])
       THEN Goto(r, "verify") /\ UNCHANGED draft
       ELSE Sign(r, Content(Combined(policy[r], s), TRUE, {<<r, i>> : i \in AllowsIn(s)}, FALSE))

--------------------------------------------------------------------------------
(* Arrival.                                                                 *)

Receive(r) ==
  /\ pc[r] = "idle"
  /\ Goto(r, IF r \in Workflows THEN "load" ELSE "verify")
  /\ UNCHANGED <<work, store, cache, reply, bounds, unsigned>>

(* 400: a required field is missing. *)
Reject(r) ==
  /\ pc[r] = "idle"
  /\ Answer(r, "invalid")
  /\ UNCHANGED <<work, store, cache, bounds, unsigned>>

(* The policy the id names, if it is active.  A request that does not       *)
(* present the required roles is denied at once, without an audit record.   *)
LoadPolicy(r) ==
  /\ pc[r] = "load"
  /\ \/ Answer(r, "policy_unknown") /\ UNCHANGED policy
     \/ \E p \in Policies :
          /\ policy' = [policy EXCEPT ![r] = p]
          /\ IF Covers(p, RolesOf(r))
               THEN Goto(r, "verify") /\ UNCHANGED reply
               ELSE Answer(r, "role_mismatch")
  /\ UNCHANGED <<subs, draft, kid, store, cache, bounds, unsigned>>

--------------------------------------------------------------------------------
(* The checks.                                                              *)

NextCheckReservesFirst(r, check) ==
  CASE check = "verify" -> "constraints"
    [] check = "constraints" -> IF r \in Workflows THEN "sign" ELSE "reserve"
    [] check = "reserve" -> "policy"
    [] check = "policy" -> "sign"

(* A workflow's credentials meet neither local policy nor stateful limits.  *)
NextCheck(r, check) ==
  CASE check = "verify" -> "constraints"
    [] check = "constraints" -> IF r \in Workflows THEN "sign" ELSE "policy"
    [] check = "policy" -> "reserve"
    [] check = "reserve" -> "sign"

(* The check passed: an allow lists the result of every constraint. *)
Pass(r) ==
  LET next == NextCheck(r, pc[r]) IN
  /\ IF next = "sign"
       THEN Sign(r, Content("allow", FALSE, {}, r \in Fieldless))
       ELSE Goto(r, next) /\ UNCHANGED draft
  /\ UNCHANGED subs

DenyStays(r, results) ==
  IF r \in Workflows
    THEN Goto(r, "verify") /\ UNCHANGED <<subs, draft>>
    ELSE Sign(r, Content("deny", FALSE, {}, results /\ r \in Fieldless)) /\ UNCHANGED subs

(* A denied request is recorded, with or without constraint results; a      *)
(* denied credential of a workflow only counts.                             *)
Deny(r, results) ==
  IF r \in Workflows
    THEN NextEntry(r, "deny")
    ELSE Sign(r, Content("deny", FALSE, {}, results /\ r \in Fieldless)) /\ UNCHANGED subs

(* verifyCredential or verifyDelegationChain, and the permission match. *)
VerifyCredential(r) ==
  /\ pc[r] = "verify"
  /\ Pass(r) \/ Deny(r, FALSE)
  /\ UNCHANGED <<policy, kid, store, cache, reply, bounds, unsigned>>

EvaluateConstraints(r) ==
  /\ pc[r] = "constraints"
  /\ Pass(r) \/ Deny(r, TRUE)
  /\ UNCHANGED <<policy, kid, store, cache, reply, bounds, unsigned>>

(* A local policy denial is recorded with the constraint results. *)
MergeLocalPolicy(r) ==
  /\ pc[r] = "policy"
  /\ Pass(r) \/ Deny(r, TRUE)
  /\ UNCHANGED <<policy, kid, store, cache, reply, bounds, unsigned>>

(* evaluateStatefulConstraints: the counters are committed, or not touched. *)
Reserve(r) ==
  /\ pc[r] = "reserve"
  /\ \/ Pass(r) /\ charged' = charged \cup {r}
     \/ Deny(r, TRUE) /\ UNCHANGED charged
  /\ UNCHANGED <<policy, kid, keys, audit, cache, reply, bounds, unsigned>>

--------------------------------------------------------------------------------
(* The signing key and the record.                                          *)

(* Signed: the record can be inserted. *)
SignWith(r, key) == Goto(r, "record") /\ kid' = [kid EXCEPT ![r] = key]

UseCachedKey(r) ==
  /\ pc[r] = "key"
  /\ IF cache[ProcOf[r]] = NoKey
       THEN Goto(r, "select") /\ UNCHANGED kid
       ELSE SignWith(r, cache[ProcOf[r]])
  /\ UNCHANGED <<policy, subs, draft, store, cache, reply, bounds, unsigned>>

(* SELECT ... WHERE active: found, the key is cached. *)
SelectKey(r) ==
  /\ pc[r] = "select"
  /\ \/ /\ keys = {}
        /\ Goto(r, "create") /\ UNCHANGED <<kid, cache>>
     \/ \E key \in keys :
          SignWith(r, key) /\ cache' = [cache EXCEPT ![ProcOf[r]] = key]
  /\ UNCHANGED <<policy, subs, draft, store, reply, bounds, unsigned>>

(* An awaited step of the handler throws.  /evaluate and /evaluate/batch    *)
(* answer 500, as /evaluate/workflow does for the policy it loads; past     *)
(* that nothing in /evaluate/workflow catches it, and the rejected promise  *)
(* of the handler ends the process with every request it serves.            *)
InFlight(p) == {r \in Requests : ProcOf[r] = p /\ pc[r] \notin {"idle", "done"}}

ProcessExits(p) ==
  /\ pc' = [r \in Requests |-> IF r \in InFlight(p) THEN "done" ELSE pc[r]]
  /\ reply' = [r \in Requests |-> IF r \in InFlight(p) THEN "lost" ELSE reply[r]]
  /\ cache' = [cache EXCEPT ![p] = NoKey]

Throw(r, error) ==
  IF r \in Workflows /\ pc[r] # "load"
    THEN ProcessExits(ProcOf[r])
    ELSE Answer(r, error) /\ UNCHANGED cache

SigningFails(r) ==
  /\ Throw(r, "audit_signing_failed")
  /\ unsigned' = unsigned \cup {r}

CreateKeyRegardless(r) ==
  /\ pc[r] = "create"
  /\ keys' = IF keys = {} THEN {r} ELSE keys
  /\ SignWith(r, r)
  /\ cache' = [cache EXCEPT ![ProcOf[r]] = r]
  /\ UNCHANGED <<policy, subs, draft, audit, charged, reply, bounds, unsigned>>

(* INSERT of a new key.  A purpose has one active key: when another request *)
(* made one since the SELECT, this one fails.                               *)
CreateKey(r) ==
  /\ pc[r] = "create"
  /\ IF keys = {}
       THEN /\ keys' = {r}
            /\ SignWith(r, r)
            /\ cache' = [cache EXCEPT ![ProcOf[r]] = r]
            /\ UNCHANGED <<reply, unsigned>>
       ELSE /\ SigningFails(r)
            /\ UNCHANGED <<keys, kid>>
  /\ UNCHANGED <<policy, subs, draft, audit, charged, bounds>>

RowId(r) == <<r, Len(subs[r]) + 1>>
Row(r) == [id |-> RowId(r), content |-> draft[r], kid |-> kid[r]]

(* After the INSERT a workflow goes on to its next credential. *)
Recorded(r) ==
  IF r \in Workflows /\ ~draft[r].workflow
    THEN NextEntry(r, "allow")
    ELSE Goto(r, "respond") /\ UNCHANGED <<subs, draft>>

InsertRecordOfAllows(r) ==
  /\ pc[r] = "record"
  /\ audit' = IF draft[r].decision = "allow" THEN audit \cup {Row(r)} ELSE audit
  /\ Recorded(r)
  /\ UNCHANGED <<policy, kid, keys, charged, cache, reply, bounds, unsigned>>

InsertRecord(r) ==
  /\ pc[r] = "record"
  /\ audit' = audit \cup {Row(r)}
  /\ Recorded(r)
  /\ UNCHANGED <<policy, kid, keys, charged, cache, reply, bounds, unsigned>>

Respond(r) ==
  /\ pc[r] = "respond"
  /\ Answer(r, draft[r].decision)
  /\ UNCHANGED <<work, store, cache, bounds, unsigned>>

--------------------------------------------------------------------------------
(* What goes wrong.                                                         *)

(* A check, or the load of the policy, throws; the reservation may have     *)
(* been committed.                                                          *)
CheckFails(r) ==
  /\ faults < MaxFaults /\ faults' = faults + 1
  /\ pc[r] \in Checks \cup {"load"}
  /\ Throw(r, "internal_error")
  /\ \/ UNCHANGED charged
     \/ pc[r] = "reserve" /\ charged' = charged \cup {r}
  /\ UNCHANGED <<work, keys, audit, crashes, unsigned>>

(* A statement on the key table fails; the INSERT may have taken effect. *)
KeyFails(r) ==
  /\ faults < MaxFaults /\ faults' = faults + 1
  /\ pc[r] \in {"select", "create"}
  /\ SigningFails(r)
  /\ \/ UNCHANGED keys
     \/ pc[r] = "create" /\ keys = {} /\ keys' = {r}
  /\ UNCHANGED <<work, audit, charged, crashes>>

RecordFailsAsSigning(r) ==
  /\ faults < MaxFaults /\ faults' = faults + 1
  /\ pc[r] = "record"
  /\ Throw(r, "audit_signing_failed")
  /\ audit' = audit \/ audit' = audit \cup {Row(r)}
  /\ UNCHANGED <<work, keys, charged, crashes, unsigned>>

(* The INSERT of the record fails; it may have taken effect. *)
RecordFails(r) ==
  /\ faults < MaxFaults /\ faults' = faults + 1
  /\ pc[r] = "record"
  /\ Throw(r, "internal_error")
  /\ audit' = audit \/ audit' = audit \cup {Row(r)}
  /\ UNCHANGED <<work, keys, charged, crashes, unsigned>>

Crash(p) ==
  /\ crashes < MaxCrashes /\ crashes' = crashes + 1
  /\ InFlight(p) # {}
  /\ ProcessExits(p)
  /\ UNCHANGED <<work, store, faults, unsigned>>

--------------------------------------------------------------------------------

Handle(r) ==
  \/ LoadPolicy(r)
  \/ VerifyCredential(r) \/ EvaluateConstraints(r) \/ MergeLocalPolicy(r) \/ Reserve(r)
  \/ UseCachedKey(r) \/ SelectKey(r) \/ CreateKey(r) \/ InsertRecord(r) \/ Respond(r)

Trouble(r) == CheckFails(r) \/ KeyFails(r) \/ RecordFails(r)

(* Every request has been dealt with. *)
AllDone ==
  /\ \A r \in Requests : pc[r] = "done"
  /\ UNCHANGED vars

Next ==
  \/ \E r \in Requests : Receive(r) \/ Reject(r) \/ Handle(r) \/ Trouble(r)
  \/ \E p \in Procs : Crash(p)
  \/ AllDone

Spec == Init /\ [][Next]_vars

(* Awaited calls return or throw while the process lives. *)
FairSpec == Spec /\ \A r \in Requests : WF_vars(Handle(r))
--------------------------------------------------------------------------------
(* verifyAuditRecord.                                                       *)

(* The record as it is rebuilt from the row: without the workflow columns.  *)
Rebuilt(content) == Content(content.decision, FALSE, {}, content.hole)

(* stableStringify writes undefined for a field that is not there, and what *)
(* was signed does not parse.                                               *)
Verifies(row) ==
  row.kid \in keys /\ ~row.content.hole /\ Rebuilt(row.content) = row.content

--------------------------------------------------------------------------------
(* Properties.                                                              *)

RowIds == Requests \X Nat
Contents == [decision : Decisions, workflow : BOOLEAN, wraps : SUBSET RowIds, hole : BOOLEAN]

(* Every variable has its type. *)
TypeOK ==
  /\ pc \in [Requests -> PcStates]
  /\ policy \in [Requests -> PolicyType]
  /\ subs \in [Requests -> Seq(Decisions)]
  /\ draft \in [Requests -> Contents]
  /\ kid \in [Requests -> Requests \cup {NoKey}]
  /\ keys \subseteq Requests
  /\ cache \in [Procs -> Requests \cup {NoKey}]
  /\ audit \subseteq [id : RowIds, content : Contents, kid : Requests \cup {NoKey}]
  /\ charged \subseteq Requests
  /\ reply \in [Requests -> Replies]
  /\ crashes \in 0..MaxCrashes /\ faults \in 0..MaxFaults
  /\ unsigned \subseteq Requests

(* The row that holds the decision of a whole request. *)
OwnId(r) == <<r, Len(Presents[r]) + 1>>

RowOf(id, decision) == \E row \in audit : row.id = id /\ row.content.decision = decision

(* Whoever is told allow or deny finds that decision on record, except for  *)
(* a workflow denied for its roles.                                         *)
DecisionOnRecord == \A r \in Requests : reply[r] \in Decisions => RowOf(OwnId(r), reply[r])

(* However many requests, on however many processes, meet an empty key      *)
(* table: what was signed, and what will be signed with a cached key, was   *)
(* signed with a key that is in the database.                               *)
SignaturesResolvable ==
  /\ \A row \in audit : row.kid \in keys
  /\ \A p \in Procs : cache[p] # NoKey => cache[p] \in keys

(* Counters are charged last: no request that was charged is denied.        *)
ChargedNotDenied ==
  \A r \in charged : reply[r] # "deny" /\ ~ \E row \in audit : row.id[1] = r /\ row.content.decision = "deny"

(* Whoever is told audit_signing_failed left no row behind. *)
SigningFailureLeavesNoRow ==
  \A r \in Requests : reply[r] = "audit_signing_failed" => ~ \E row \in audit : row.id[1] = r

AllowedRole(r, role) == \E i \in DOMAIN Presents[r] : Presents[r][i] = role /\ RowOf(<<r, i>>, "allow")

(* As many of the required roles produced an allow as the threshold asks.   *)
EnoughRoles(r) ==
  Cardinality({role \in policy[r].required : AllowedRole(r, role)}) >= policy[r].threshold

EachRoleOnce(r) == \A i, j \in DOMAIN Presents[r] : Presents[r][i] = Presents[r][j] => i = j

(* A workflow is allowed on the strength of recorded sub-decisions: under   *)
(* requireAll an allow for every required role, under requireAny for one of *)
(* them, under threshold for as many roles as it asks for, provided that no *)
(* role is presented twice.                                                 *)
WorkflowBacked ==
  \A r \in Workflows : reply[r] = "allow" =>
    LET p == policy[r] IN
    /\ p.combinator = "requireAll" => \A role \in p.required : AllowedRole(r, role)
    /\ p.combinator = "requireAny" => \E role \in p.required : AllowedRole(r, role)
    /\ p.combinator = "threshold" /\ EachRoleOnce(r) => EnoughRoles(r)

(* A workflow under a threshold is allowed only if at least n of the        *)
(* required roles produced an allow (docs/evaluation.md), however many      *)
(* credentials are presented for one of them.                               *)
ThresholdByRoles ==
  \A r \in Workflows :
    reply[r] = "allow" /\ policy[r].combinator = "threshold" => EnoughRoles(r)

(* Every request is answered while its process lives. *)
RequestAnswered == \A r \in Requests : pc[r] \in {"load", "verify"} ~> pc[r] = "done"

(* A request whose audit signing failed is told so. *)
SigningFailureReported == \A r \in unsigned : reply[r] = "audit_signing_failed"
================================================================================
