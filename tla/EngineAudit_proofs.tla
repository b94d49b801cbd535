--------------------------- MODULE EngineAudit_proofs ---------------------------
(***************************************************************************)
(* Proofs about EngineAudit, for any requests, policies, processes and      *)
(* bounds.                                                                  *)
(***************************************************************************)
EXTENDS EngineAudit, FiniteSetTheorems, TLAPS

USE DEF Goto, Answer, Sign, SignWith

--------------------------------------------------------------------------------
(* Type correctness.                                                        *)

(* Whatever is signed has the type of a record.                             *)
LEMMA ContentType ==
  ASSUME NEW decision \in Decisions, NEW workflow \in BOOLEAN,
         NEW wraps \in SUBSET RowIds, NEW hole \in BOOLEAN
  PROVE  Content(decision, workflow, wraps, hole) \in Contents
  BY DEF Content, Contents

LEMMA CombinedType == ASSUME NEW p, NEW s PROVE Combined(p, s) \in Decisions
  BY DEF Combined, Decisions

(* The next entry of a workflow leaves its sub-decisions and its draft typed. *)
LEMMA NextEntryType ==
  ASSUME TypeOK, NEW r \in Requests, NEW decision \in Decisions, NextEntry(r, decision)
  PROVE  /\ subs' \in [Requests -> Seq(Decisions)]
         /\ draft' \in [Requests -> Contents]
         /\ pc' \in [Requests -> PcStates]
<1> DEFINE s == Append(subs[r], decision)
<1>1. s \in Seq(Decisions)
  BY DEF TypeOK
<1>2. {<<r, i>> : i \in AllowsIn(s)} \in SUBSET RowIds
  BY <1>1 DEF AllowsIn, RowIds
<1>3. Content(Combined(policy[r], s), TRUE, {<<r, i>> : i \in AllowsIn(s)}, FALSE) \in Contents
  BY <1>2, CombinedType, ContentType
<1> QED
  BY <1>1, <1>3 DEF NextEntry, TypeOK, PcStates, Checks, Writing

LEMMA PassType ==
  ASSUME TypeOK, NEW r \in Requests, pc[r] \in Checks, Pass(r)
  PROVE  /\ pc' \in [Requests -> PcStates]
         /\ draft' \in [Requests -> Contents]
         /\ subs' \in [Requests -> Seq(Decisions)]
<1>1. Content("allow", FALSE, {}, r \in Fieldless) \in Contents
  BY DEF Content, Contents, Decisions
<1>2. NextCheck(r, pc[r]) \in Checks \cup {"sign"}
  BY DEF NextCheck, Checks
<1> QED
  BY <1>1, <1>2 DEF Pass, TypeOK, PcStates, Writing

LEMMA DenyType ==
  ASSUME TypeOK, NEW r \in Requests, NEW results \in BOOLEAN, Deny(r, results)
  PROVE  /\ pc' \in [Requests -> PcStates]
         /\ draft' \in [Requests -> Contents]
         /\ subs' \in [Requests -> Seq(Decisions)]
<1>1. Content("deny", FALSE, {}, results /\ r \in Fieldless) \in Contents
  BY DEF Content, Contents, Decisions
<1>2. CASE r \in Workflows
  BY <1>2, NextEntryType DEF Deny, Decisions
<1>3. CASE r \notin Workflows
  <2>1. draft' \in [Requests -> Contents]
    BY <1>1, <1>3 DEF Deny, TypeOK
  <2>2. /\ pc' \in [Requests -> PcStates]
        /\ subs' \in [Requests -> Seq(Decisions)]
    BY <1>3 DEF Deny, TypeOK, PcStates, Writing
  <2> QED
    BY <2>1, <2>2
<1> QED
  BY <1>2, <1>3

(* A row is written with the type of the audit table. *)
LEMMA RowType ==
  ASSUME TypeOK, NEW r \in Requests
  PROVE  Row(r) \in [id : RowIds, content : Contents, kid : Requests \cup {NoKey}]
  BY DEF TypeOK, Row, RowId, RowIds

(* An error, or the exit of a process, leaves the requests typed. *)
LEMMA ExitType ==
  ASSUME TypeOK, NEW p \in Procs, ProcessExits(p)
  PROVE  /\ pc' \in [Requests -> PcStates]
         /\ reply' \in [Requests -> Replies]
         /\ cache' \in [Procs -> Requests \cup {NoKey}]
  BY DEF TypeOK, ProcessExits, PcStates, Replies

LEMMA ThrowType ==
  ASSUME TypeOK, NEW r \in Requests, NEW error \in Replies, Throw(r, error)
  PROVE  /\ pc' \in [Requests -> PcStates]
         /\ reply' \in [Requests -> Replies]
         /\ cache' \in [Procs -> Requests \cup {NoKey}]
<1>1. CASE r \in Workflows /\ pc[r] # "load"
  BY <1>1, ExitType, ProcOfType DEF Throw
<1>2. CASE ~(r \in Workflows /\ pc[r] # "load")
  BY <1>2 DEF Throw, TypeOK, PcStates
<1> QED
  BY <1>1, <1>2

LEMMA TypeInit == Init => TypeOK
<1> SUFFICES ASSUME Init
             PROVE  TypeOK
  OBVIOUS
<1>1. (CHOOSE p \in Policies : TRUE) \in PolicyType
  BY PoliciesType
<1>2. Content("deny", FALSE, {}, FALSE) \in Contents
  BY ContentType DEF Decisions
<1>3. /\ policy \in [Requests -> PolicyType]
      /\ draft \in [Requests -> Contents]
  BY <1>1, <1>2 DEF Init
<1>4. /\ pc \in [Requests -> PcStates]
      /\ reply \in [Requests -> Replies]
      /\ subs \in [Requests -> Seq(Decisions)]
  BY DEF Init, PcStates, Replies
<1>5. /\ kid \in [Requests -> Requests \cup {NoKey}]
      /\ cache \in [Procs -> Requests \cup {NoKey}]
  BY DEF Init
<1>6. crashes \in 0..MaxCrashes /\ faults \in 0..MaxFaults
  BY BoundsType DEF Init
<1>7. /\ keys = {} /\ audit = {} /\ charged = {} /\ unsigned = {}
  BY DEF Init
<1> QED
  BY <1>3, <1>4, <1>5, <1>6, <1>7 DEF TypeOK

LEMMA TypeStep == TypeOK /\ [Next]_vars => TypeOK'
<1> SUFFICES ASSUME TypeOK, [Next]_vars
             PROVE  TypeOK'
  OBVIOUS
<1> USE DEF work, store, bounds
<1>1. ASSUME NEW r \in Requests, Receive(r) \/ Reject(r)
      PROVE  TypeOK'
  BY <1>1 DEF Receive, Reject, TypeOK, PcStates, Checks, Replies
<1>2. ASSUME NEW r \in Requests, LoadPolicy(r)
      PROVE  TypeOK'
  BY <1>2, PoliciesType DEF LoadPolicy, TypeOK, PcStates, Checks, Replies
<1>3. ASSUME NEW r \in Requests,
             VerifyCredential(r) \/ EvaluateConstraints(r) \/ MergeLocalPolicy(r) \/ Reserve(r)
      PROVE  TypeOK'
  <2>1. pc[r] \in Checks /\ (Pass(r) \/ Deny(r, TRUE) \/ Deny(r, FALSE))
    BY <1>3 DEF VerifyCredential, EvaluateConstraints, MergeLocalPolicy, Reserve, Checks
  <2>2. /\ pc' \in [Requests -> PcStates]
        /\ draft' \in [Requests -> Contents]
        /\ subs' \in [Requests -> Seq(Decisions)]
    BY <2>1, PassType, DenyType
  <2> QED
    BY <1>3, <2>2 DEF VerifyCredential, EvaluateConstraints, MergeLocalPolicy, Reserve, TypeOK
<1>4. ASSUME NEW r \in Requests, UseCachedKey(r) \/ SelectKey(r)
      PROVE  TypeOK'
  <2>1. pc' \in [Requests -> PcStates]
    BY <1>4 DEF UseCachedKey, SelectKey, TypeOK, PcStates, Writing
  <2>2. kid' \in [Requests -> Requests \cup {NoKey}]
    BY <1>4, ProcOfType DEF UseCachedKey, SelectKey, TypeOK
  <2>3. cache' \in [Procs -> Requests \cup {NoKey}]
    <3>1. CASE cache' = cache
      BY <3>1 DEF TypeOK
    <3>2. ASSUME NEW key \in keys, cache' = [cache EXCEPT ![ProcOf[r]] = key]
          PROVE  cache' \in [Procs -> Requests \cup {NoKey}]
      BY <3>2 DEF TypeOK
    <3> QED
      BY <1>4, <3>1, <3>2 DEF UseCachedKey, SelectKey
  <2> QED
    BY <1>4, <2>1, <2>2, <2>3 DEF UseCachedKey, SelectKey, TypeOK
<1>5. ASSUME NEW r \in Requests, CreateKey(r)
      PROVE  TypeOK'
  <2>1. CASE keys = {}
    <3>1. pc' \in [Requests -> PcStates]
      BY <1>5, <2>1 DEF CreateKey, TypeOK, PcStates, Writing
    <3>3. kid' \in [Requests -> Requests \cup {NoKey}]
      BY <1>5, <2>1 DEF CreateKey, TypeOK
    <3>2. cache' \in [Procs -> Requests \cup {NoKey}]
      BY <1>5, <2>1 DEF CreateKey, TypeOK
    <3> QED
      BY <1>5, <2>1, <3>1, <3>2, <3>3 DEF CreateKey, TypeOK
  <2>2. CASE keys # {}
    BY <1>5, <2>2, ThrowType DEF CreateKey, SigningFails, TypeOK, Replies
  <2> QED
    BY <2>1, <2>2
<1>6. ASSUME NEW r \in Requests, InsertRecord(r)
      PROVE  TypeOK'
  <2>1. /\ pc' \in [Requests -> PcStates]
        /\ draft' \in [Requests -> Contents]
        /\ subs' \in [Requests -> Seq(Decisions)]
    BY <1>6, NextEntryType DEF InsertRecord, Recorded, TypeOK, PcStates, Decisions
  <2> QED
    BY <1>6, <2>1, RowType DEF InsertRecord, TypeOK
<1>7. ASSUME NEW r \in Requests, Respond(r)
      PROVE  TypeOK'
  BY <1>7 DEF Respond, TypeOK, PcStates, Replies, Contents
<1>8. ASSUME NEW r \in Requests, Trouble(r)
      PROVE  TypeOK'
  <2>1. /\ pc' \in [Requests -> PcStates]
        /\ reply' \in [Requests -> Replies]
        /\ cache' \in [Procs -> Requests \cup {NoKey}]
    BY <1>8, ThrowType DEF Trouble, CheckFails, KeyFails, RecordFails, SigningFails, Replies
  <2>2. faults' \in 0..MaxFaults
    BY <1>8, BoundsType DEF Trouble, CheckFails, KeyFails, RecordFails, TypeOK
  <2> QED
    BY <1>8, <2>1, <2>2, RowType
       DEF Trouble, CheckFails, KeyFails, RecordFails, SigningFails, TypeOK
<1>9. ASSUME NEW p \in Procs, Crash(p)
      PROVE  TypeOK'
  BY <1>9, ExitType, BoundsType DEF Crash, TypeOK
<1>10. CASE UNCHANGED vars
  BY <1>10 DEF vars, TypeOK
<1> QED
  BY <1>1, <1>2, <1>3, <1>4, <1>5, <1>6, <1>7, <1>8, <1>9, <1>10 DEF Next, Handle, AllDone

(* Every variable keeps its type. *)
THEOREM TypeCorrect == Spec => []TypeOK
<1>1. Init => TypeOK
  BY TypeInit
<1>2. TypeOK /\ [Next]_vars => TypeOK'
  BY TypeStep
<1> QED
  BY <1>1, <1>2, PTL DEF Spec

--------------------------------------------------------------------------------
(* The inductive invariant, request by request.                             *)

Unrecorded(r) == ~ \E row \in audit : row.id[1] = r

AtEntry(r) == Len(subs[r]) < Len(Presents[r])
AtEnd(r) == Len(subs[r]) = Len(Presents[r])

(* A workflow has a sub-decision for each credential before the one it is   *)
(* at, and for all of them once the wrapping record is due.                 *)
Placed(r) ==
  IF r \in Workflows
    THEN /\ pc[r] \notin {"policy", "reserve"}
         /\ pc[r] \in {"idle", "load", "verify", "constraints"} => AtEntry(r)
         /\ pc[r] \in Writing => IF draft[r].workflow THEN AtEnd(r) ELSE AtEntry(r)
         /\ pc[r] = "respond" => draft[r].workflow /\ AtEnd(r)
    ELSE subs[r] = <<>>

(* What is told, or about to be told, is on record; before that a request   *)
(* that is no workflow has no row.                                          *)
Recording(r) ==
  /\ pc[r] # "done" => reply[r] = "none"
  /\ pc[r] = "respond" => RowOf(OwnId(r), draft[r].decision)
  /\ reply[r] \in Decisions => RowOf(OwnId(r), reply[r])
  /\ r \notin Workflows /\ pc[r] \notin {"respond", "done"} => Unrecorded(r)
  /\ reply[r] = "audit_signing_failed" => Unrecorded(r) /\ pc[r] = "done"

(* A request is charged in its last check, and an allow is all that follows. *)
Charging(r) ==
  r \in charged =>
    /\ r \notin Workflows
    /\ pc[r] \in Writing \cup {"respond", "done"}
    /\ pc[r] # "done" => draft[r].decision = "allow"
    /\ reply[r] # "deny"
    /\ ~ \E row \in audit : row.id[1] = r /\ row.content.decision = "deny"

Conclusive(r) == Covers(policy[r], RolesOf(r)) /\ AtEnd(r)

(* Every allow among the sub-decisions is on record, and the wrapping       *)
(* decision is the combination of all of them.                              *)
Backing(r) ==
  r \in Workflows =>
    /\ \A i \in DOMAIN subs[r] : subs[r][i] = "allow" => RowOf(<<r, i>>, "allow")
    /\ pc[r] \in Checks \cup Writing \cup {"respond"} => Covers(policy[r], RolesOf(r))
    /\ pc[r] \in Writing /\ ~draft[r].workflow => draft[r].decision = "allow"
    /\ pc[r] \in Writing \cup {"respond"} /\ draft[r].workflow =>
         draft[r].decision = Combined(policy[r], subs[r])
    /\ reply[r] = "allow" => Conclusive(r) /\ Combined(policy[r], subs[r]) = "allow"

Stage(r) == Placed(r) /\ Recording(r) /\ Charging(r) /\ Backing(r)

(* Every key in use, by a row, a cache or a request, is in the database.    *)
KeysKnown ==
  /\ SignaturesResolvable
  /\ \A r \in Requests : pc[r] = "record" => kid[r] \in keys

Inv == TypeOK /\ KeysKnown /\ \A r \in Requests : Stage(r)

--------------------------------------------------------------------------------
(* Requests that a step is not about.                                       *)

(* A request that is where it was, next to rows of other requests. *)
Still(q) ==
  /\ pc'[q] = pc[q] /\ policy'[q] = policy[q] /\ subs'[q] = subs[q]
  /\ draft'[q] = draft[q] /\ reply'[q] = reply[q]
  /\ q \in charged' <=> q \in charged

RowsOfOthers(q) ==
  /\ audit \subseteq audit'
  /\ \A row \in audit' : row \in audit \/ row.id[1] # q

Written(id, decision) == \E row \in audit' : row.id = id /\ row.content.decision = decision

(* A row that is on record stays there. *)
LEMMA RowStays ==
  ASSUME audit \subseteq audit', NEW id, NEW decision, RowOf(id, decision)
  PROVE  RowOf(id, decision)'
  BY DEF RowOf

(* The combined decision and the coverage depend on the request alone. *)
LEMMA SameCombination ==
  ASSUME NEW q \in Requests, policy'[q] = policy[q], subs'[q] = subs[q]
  PROVE  /\ Combined(policy[q], subs[q])' = Combined(policy[q], subs[q])
         /\ Covers(policy[q], RolesOf(q))' = Covers(policy[q], RolesOf(q))
         /\ AtEnd(q)' = AtEnd(q) /\ AtEntry(q)' = AtEntry(q)
  BY DEF Combined, Covers, RolesOf, AllowsIn, AtEnd, AtEntry

(* A request that is still, with no new row of its own, keeps its stage. *)
LEMMA StillStage ==
  ASSUME NEW q \in Requests, Stage(q), Still(q), RowsOfOthers(q)
  PROVE  Stage(q)'
<1> USE DEF Still, RowsOfOthers
<1>1. Placed(q)'
  BY SameCombination DEF Stage, Placed
<1>2. Recording(q)'
  BY RowStays DEF Stage, Recording, Unrecorded, OwnId
<1>3. Charging(q)'
  BY DEF Stage, Charging
<1>4. Backing(q)'
  BY RowStays, SameCombination DEF Stage, Backing, Conclusive
<1> QED
  BY <1>1, <1>2, <1>3, <1>4 DEF Stage

(* A request that ends without a decision, as when its process exits. *)
LEMMA EndedStage ==
  ASSUME NEW q \in Requests, Stage(q), pc[q] # "done",
         pc'[q] = "done", reply'[q] \notin Decisions \cup {"none"},
         policy'[q] = policy[q], subs'[q] = subs[q], audit \subseteq audit',
         reply'[q] = "audit_signing_failed" => Unrecorded(q)',
         q \in charged' => /\ q \in charged \/ pc[q] = "reserve"
                           /\ \A row \in audit' : row \in audit \/ row.id[1] # q
                                                     \/ row.content.decision # "deny"
  PROVE  Stage(q)'
<1>1. Placed(q)'
  BY SameCombination DEF Stage, Placed, Writing
<1>2. Recording(q)'
  BY DEF Stage, Recording, Unrecorded, Decisions
<1>3. Charging(q)'
  <2>1. pc[q] = "reserve" => q \notin Workflows /\ Unrecorded(q)
    BY DEF Stage, Placed, Recording
  <2> QED
    BY <2>1 DEF Stage, Charging, Unrecorded, Decisions
<1>4. Backing(q)'
  BY RowStays, SameCombination DEF Stage, Backing, Checks, Writing, Decisions
<1> QED
  BY <1>1, <1>2, <1>3, <1>4 DEF Stage

--------------------------------------------------------------------------------
(* The request a step is about.                                             *)

(* The next entry of a workflow: the decision it adds is a denial, or an    *)
(* allow that is on record.                                                 *)
LEMMA NextEntryStage ==
  ASSUME TypeOK, NEW r \in Requests, Stage(r), r \in Workflows,
         NEW decision \in Decisions, NextEntry(r, decision), AtEntry(r),
         pc[r] # "done", Covers(policy[r], RolesOf(r)),
         UNCHANGED <<policy, reply, charged>>, audit \subseteq audit',
         decision = "allow" => Written(RowId(r), "allow")
  PROVE  Stage(r)'
<1> DEFINE s == Append(subs[r], decision)
<1>1. /\ subs[r] \in Seq(Decisions) /\ Presents[r] \in Seq(Roles)
      /\ reply[r] = "none"
  BY PresentsType DEF TypeOK, Stage, Recording
<1>2. /\ Len(s) = Len(subs[r]) + 1 /\ s \in Seq(Decisions)
      /\ \A i \in DOMAIN s : s[i] = IF i = Len(subs[r]) + 1 THEN decision ELSE subs[r][i]
      /\ \A i \in DOMAIN s : i = Len(subs[r]) + 1 \/ i \in DOMAIN subs[r]
  BY <1>1
<1>3. /\ subs'[r] = s
      /\ \/ pc'[r] = "verify" /\ Len(s) < Len(Presents[r])
         \/ /\ pc'[r] = "key" /\ Len(s) = Len(Presents[r])
            /\ draft'[r].workflow /\ draft'[r].decision = Combined(policy[r], s)
  BY <1>1, <1>2 DEF NextEntry, TypeOK, AtEntry, Content
<1>4. Placed(r)'
  BY <1>3 DEF Placed, AtEntry, AtEnd, Writing
<1>5. Recording(r)'
  BY <1>1, <1>3 DEF Recording, Decisions
<1>6. Charging(r)'
  BY DEF Stage, Charging
<1>7. Backing(r)'
  <2>1. \A i \in DOMAIN s : s[i] = "allow" => RowOf(<<r, i>>, "allow")'
    <3> SUFFICES ASSUME NEW i \in DOMAIN s, s[i] = "allow"
                 PROVE  RowOf(<<r, i>>, "allow")'
      OBVIOUS
    <3>1. CASE i = Len(subs[r]) + 1
      <4>1. Written(RowId(r), "allow")
        BY <1>2, <3>1
      <4> QED
        BY <3>1, <4>1 DEF Written, RowId, RowOf
    <3>2. CASE i # Len(subs[r]) + 1
      <4>1. i \in DOMAIN subs[r] /\ subs[r][i] = "allow"
        BY <1>2, <3>2
      <4>2. RowOf(<<r, i>>, "allow")
        BY <4>1 DEF Stage, Backing
      <4> QED
        BY <4>2, RowStays
    <3> QED
      BY <3>1, <3>2
  <2>2. Covers(policy[r], RolesOf(r))'
    BY DEF Covers, RolesOf
  <2> QED
    BY <1>1, <1>3, <2>1, <2>2 DEF Backing, Writing, Checks, Combined, AllowsIn
<1> QED
  BY <1>4, <1>5, <1>6, <1>7 DEF Stage

LEMMA ArrivalStage ==
  ASSUME TypeOK, NEW r \in Requests, Stage(r), Receive(r) \/ Reject(r) \/ LoadPolicy(r)
  PROVE  Stage(r)'
<1> USE DEF store, work
<1>1. /\ subs' = subs /\ audit' = audit /\ charged' = charged
      /\ r \notin charged /\ reply[r] = "none"
  BY DEF Receive, Reject, LoadPolicy, Stage, Charging, Recording, Writing
<1>2. CASE pc'[r] = "done"
  <2>1. reply'[r] \in {"invalid", "policy_unknown", "role_mismatch"}
    BY <1>2 DEF Receive, Reject, LoadPolicy, TypeOK
  <2>2. Recording(r)' /\ Charging(r)'
    BY <1>1, <1>2, <2>1 DEF Recording, Charging, Decisions
  <2>3. Placed(r)' /\ Backing(r)'
    BY <1>1, <1>2, <2>1, RowStays DEF Stage, Placed, Backing, Writing, Checks
  <2> QED
    BY <2>2, <2>3 DEF Stage
<1>3. CASE pc'[r] # "done"
  <2>1. /\ reply' = reply
        /\ \/ pc'[r] = "load" /\ pc[r] = "idle"
           \/ pc'[r] = "verify" /\ pc[r] = "idle" /\ r \notin Workflows
           \/ pc'[r] = "verify" /\ pc[r] = "load" /\ Covers(policy'[r], RolesOf(r))
    BY <1>3 DEF Receive, Reject, LoadPolicy, TypeOK
  <2>2. Recording(r)' /\ Charging(r)'
    BY <1>1, <2>1 DEF Stage, Recording, Charging, Decisions, Unrecorded
  <2>3. Placed(r)'
    BY <1>1, <2>1 DEF Stage, Placed, Writing, AtEntry
  <2>4. Backing(r)'
    BY <1>1, <2>1, RowStays DEF Stage, Backing, Writing, Checks, Covers, RolesOf
  <2> QED
    BY <2>2, <2>3, <2>4 DEF Stage
<1> QED
  BY <1>2, <1>3

Checking(r) ==
  VerifyCredential(r) \/ EvaluateConstraints(r) \/ MergeLocalPolicy(r) \/ Reserve(r)

LEMMA CheckStage ==
  ASSUME TypeOK, NEW r \in Requests, Stage(r), Checking(r)
  PROVE  Stage(r)'
<1> USE DEF Checking, store
<1>1. /\ policy' = policy /\ reply' = reply /\ audit' = audit
      /\ pc[r] \in Checks /\ reply[r] = "none" /\ r \notin charged
  BY DEF VerifyCredential, EvaluateConstraints, MergeLocalPolicy, Reserve, Checks,
         Stage, Recording, Charging, Writing
<1>2. r \in Workflows => pc[r] \in {"verify", "constraints"} /\ charged' = charged
  BY DEF VerifyCredential, EvaluateConstraints, MergeLocalPolicy, Reserve, Stage, Placed
<1>3. CASE Pass(r)
  <2>1. /\ subs' = subs
        /\ \/ /\ pc'[r] \in {"constraints", "policy", "reserve"} /\ draft' = draft
              /\ r \in Workflows => pc'[r] = "constraints"
              /\ r \notin charged'
           \/ pc'[r] = "key" /\ draft'[r].decision = "allow" /\ ~draft'[r].workflow
    <3>1. CASE NextCheck(r, pc[r]) = "sign"
      BY <1>3, <3>1 DEF Pass, Content, TypeOK
    <3>2. CASE NextCheck(r, pc[r]) # "sign"
      <4>1. /\ NextCheck(r, pc[r]) \in {"constraints", "policy", "reserve"}
            /\ r \in Workflows => NextCheck(r, pc[r]) = "constraints"
            /\ pc[r] # "reserve"
        BY <1>1, <1>2, <3>2 DEF NextCheck, Checks
      <4>2. r \notin charged'
        BY <1>1, <4>1 DEF VerifyCredential, EvaluateConstraints, MergeLocalPolicy, Reserve
      <4> QED
        BY <1>3, <3>2, <4>1, <4>2 DEF Pass, TypeOK
    <3> QED
      BY <3>1, <3>2
  <2>2. Placed(r)'
    BY <1>1, <1>2, <2>1 DEF Stage, Placed, Writing, AtEntry, AtEnd
  <2>3. Recording(r)'
    BY <1>1, <2>1 DEF Stage, Recording, Decisions, Unrecorded, Checks
  <2>4. Charging(r)'
    <3>1. r \in charged' => r \notin Workflows /\ pc'[r] = "key" /\ draft'[r].decision = "allow"
      BY <1>1, <1>2, <2>1
    <3>2. r \notin Workflows => Unrecorded(r)
      BY <1>1 DEF Stage, Recording, Checks
    <3> QED
      BY <1>1, <3>1, <3>2 DEF Charging, Writing, Unrecorded
  <2>5. Backing(r)'
    BY <1>1, <1>2, <2>1, RowStays, SameCombination DEF Stage, Backing, Writing, Checks
  <2> QED
    BY <2>2, <2>3, <2>4, <2>5 DEF Stage
<1>4. ASSUME NEW results \in BOOLEAN, Deny(r, results), charged' = charged
      PROVE  Stage(r)'
  <2>1. CASE r \in Workflows
    BY <1>1, <1>2, <1>4, <2>1, NextEntryStage
       DEF Deny, Decisions, Stage, Placed, Backing, Checks
  <2>2. CASE r \notin Workflows
    <3>1. subs' = subs /\ pc'[r] = "key"
      BY <1>4, <2>2 DEF Deny, TypeOK
    <3>2. Recording(r)'
      BY <1>1, <2>2, <3>1 DEF Stage, Recording, Decisions, Unrecorded, Checks
    <3> QED
      BY <1>1, <1>4, <2>2, <3>1, <3>2 DEF Stage, Placed, Charging, Backing
  <2> QED
    BY <2>1, <2>2
<1>5. Pass(r) \/ (charged' = charged /\ (Deny(r, TRUE) \/ Deny(r, FALSE)))
  BY DEF VerifyCredential, EvaluateConstraints, MergeLocalPolicy, Reserve
<1> QED
  BY <1>3, <1>4, <1>5

(* A step from one stage of the writing of a record to another. *)
LEMMA KeyStage ==
  ASSUME NEW r \in Requests, Stage(r), pc[r] \in Writing, pc'[r] \in Writing,
         UNCHANGED <<policy, subs, draft, reply, audit, charged>>
  PROVE  Stage(r)'
<1>1. Placed(r)'
  BY SameCombination DEF Stage, Placed, Writing
<1>2. Recording(r)' /\ Charging(r)'
  BY DEF Stage, Recording, Charging, Writing, Decisions, Unrecorded
<1>3. Backing(r)'
  BY RowStays, SameCombination DEF Stage, Backing, Conclusive, Writing
<1> QED
  BY <1>1, <1>2, <1>3 DEF Stage

LEMMA RecordStage ==
  ASSUME TypeOK, NEW r \in Requests, Stage(r), InsertRecord(r)
  PROVE  Stage(r)'
<1>1. /\ pc[r] = "record" /\ audit' = audit \cup {Row(r)} /\ reply[r] = "none"
      /\ policy' = policy /\ charged' = charged /\ reply' = reply
  BY DEF InsertRecord, Stage, Recording
<1>2. Written(RowId(r), draft[r].decision)
  <2>1. Row(r).id = RowId(r) /\ Row(r).content.decision = draft[r].decision
    BY DEF Row
  <2> QED
    BY <1>1, <2>1 DEF Written
<1>3. CASE r \in Workflows /\ ~draft[r].workflow
  <2>1. NextEntry(r, "allow") /\ draft[r].decision = "allow" /\ AtEntry(r)
        /\ Covers(policy[r], RolesOf(r))
    BY <1>1, <1>3 DEF InsertRecord, Recorded, Stage, Placed, Backing, Writing
  <2> QED
    BY <1>1, <1>2, <1>3, <2>1, NextEntryStage DEF Decisions
<1>4. CASE ~(r \in Workflows /\ ~draft[r].workflow)
  <2>1. pc'[r] = "respond" /\ subs' = subs /\ draft' = draft
    BY <1>1, <1>4 DEF InsertRecord, Recorded, TypeOK
  <2>2. AtEnd(r)
    BY <1>1, <1>4, PresentsType DEF Stage, Placed, Writing, AtEnd
  <2>3. Placed(r)'
    BY <1>1, <1>4, <2>1, <2>2, SameCombination DEF Stage, Placed, Writing
  <2>4. Recording(r)'
    BY <1>1, <1>2, <2>1, <2>2 DEF Recording, Decisions, OwnId, AtEnd, Written, RowId, RowOf
  <2>5. Charging(r)'
    BY <1>1, <2>1 DEF Stage, Charging, Row, RowId, Writing
  <2>6. Backing(r)'
    BY <1>1, <2>1, RowStays, SameCombination DEF Stage, Backing, Writing, Checks
  <2> QED
    BY <2>3, <2>4, <2>5, <2>6 DEF Stage
<1> QED
  BY <1>3, <1>4

LEMMA RespondStage ==
  ASSUME TypeOK, NEW r \in Requests, Stage(r), Respond(r)
  PROVE  Stage(r)'
<1>1. /\ pc[r] = "respond" /\ pc'[r] = "done" /\ reply'[r] = draft[r].decision
      /\ UNCHANGED <<policy, subs, draft, audit, charged>>
  BY DEF Respond, TypeOK, work, store
<1>2. draft[r].decision \in Decisions
  BY DEF TypeOK, Contents
<1>3. Placed(r)'
  BY <1>1, SameCombination DEF Stage, Placed, Writing
<1>4. Recording(r)'
  BY <1>1, <1>2 DEF Stage, Recording, Decisions, OwnId, RowOf
<1>5. Charging(r)'
  BY <1>1 DEF Stage, Charging
<1>6. Backing(r)'
  BY <1>1, RowStays, SameCombination DEF Stage, Placed, Backing, Conclusive, Writing, Checks
<1> QED
  BY <1>3, <1>4, <1>5, <1>6 DEF Stage

(* A step that throws ends its request, or its process with all requests in *)
(* flight.                                                                  *)
ThrowingWith(r, error) ==
  /\ pc[r] \notin {"idle", "respond", "done"}
  /\ Throw(r, error)
  /\ error = "audit_signing_failed" => pc[r] \in Writing /\ audit' = audit
  /\ UNCHANGED <<policy, subs, draft>>
  /\ charged' = charged \/ (pc[r] = "reserve" /\ charged' = charged \cup {r})
  /\ audit' = audit \/ (pc[r] = "record" /\ audit' = audit \cup {Row(r)})

Throwing(r) == \E error \in {"internal_error", "audit_signing_failed"} : ThrowingWith(r, error)

LEMMA RowOfRequest ==
  ASSUME NEW r \in Requests
  PROVE  Row(r).id[1] = r /\ Row(r).content = draft[r]
  BY DEF Row, RowId

(* What a process leaves behind when it exits. *)
LEMMA ExitStage ==
  ASSUME TypeOK, NEW p \in Procs, ProcessExits(p), NEW q \in Requests, Stage(q),
         UNCHANGED <<policy, subs, draft, charged>>, audit \subseteq audit',
         \A row \in audit' : row \in audit \/ (row.id[1] \in InFlight(p) \cap Workflows)
  PROVE  Stage(q)'
<1>1. CASE q \in InFlight(p)
  <2>1. pc[q] # "done" /\ pc'[q] = "done" /\ reply'[q] = "lost"
    BY <1>1 DEF InFlight, ProcessExits
  <2>2. q \in charged => q \notin Workflows
    BY DEF Stage, Charging
  <2> QED
    BY <2>1, <2>2, EndedStage DEF Decisions
<1>2. CASE q \notin InFlight(p)
  <2>1. Still(q)
    BY <1>2 DEF Still, ProcessExits
  <2>2. RowsOfOthers(q)
    BY <1>2 DEF RowsOfOthers
  <2> QED
    BY <2>1, <2>2, StillStage
<1> QED
  BY <1>1, <1>2

LEMMA ThrowStage ==
  ASSUME TypeOK, NEW r \in Requests, Throwing(r), NEW q \in Requests, Stage(r), Stage(q)
  PROVE  Stage(q)'
<1> PICK error \in {"internal_error", "audit_signing_failed"} : ThrowingWith(r, error)
  BY DEF Throwing
<1> USE DEF ThrowingWith
<1>1. audit \subseteq audit' /\ \A row \in audit' : row \in audit \/ (row.id[1] = r /\ row.content = draft[r])
  BY RowOfRequest
<1>2. CASE r \in Workflows /\ pc[r] # "load"
  <2>1. ProcessExits(ProcOf[r]) /\ ProcOf[r] \in Procs /\ r \in InFlight(ProcOf[r])
    BY <1>2, ProcOfType DEF Throw, InFlight
  <2>2. charged' = charged
    BY <1>2 DEF Stage, Placed
  <2> QED
    BY <1>1, <1>2, <2>1, <2>2, ExitStage
<1>3. CASE ~(r \in Workflows /\ pc[r] # "load")
  <2>1. pc' = [pc EXCEPT ![r] = "done"] /\ reply' = [reply EXCEPT ![r] = error]
    BY <1>3 DEF Throw
  <2>2. CASE q = r
    <3>1. pc'[q] = "done" /\ reply'[q] = error /\ pc[q] # "done"
      BY <2>1, <2>2 DEF TypeOK
    <3>2. error = "audit_signing_failed" => Unrecorded(q)'
      <4> SUFFICES ASSUME error = "audit_signing_failed"
                   PROVE  Unrecorded(q)'
        OBVIOUS
      <4>1. r \notin Workflows /\ audit' = audit
        BY <1>3 DEF Writing
      <4>2. Unrecorded(q)
        BY <2>2, <4>1 DEF Stage, Recording
      <4> QED
        BY <4>1, <4>2 DEF Unrecorded
    <3>3. q \in charged' => /\ q \in charged \/ pc[q] = "reserve"
                            /\ pc[q] = "record" => draft[q].decision = "allow"
      BY <2>2 DEF Stage, Charging
    <3>4. q \in charged' => \A row \in audit' : \/ row \in audit \/ row.id[1] # q
                                                \/ row.content.decision # "deny"
      BY <1>1, <2>2, <3>3
    <3> QED
      BY <1>1, <3>1, <3>2, <3>3, <3>4, EndedStage DEF Decisions
  <2>3. CASE q # r
    <3>1. Still(q)
      BY <2>1, <2>3 DEF Still, TypeOK
    <3>2. RowsOfOthers(q)
      BY <1>1, <2>3 DEF RowsOfOthers
    <3> QED
      BY <3>1, <3>2, StillStage
  <2> QED
    BY <2>2, <2>3
<1> QED
  BY <1>2, <1>3

--------------------------------------------------------------------------------
(* Every step.                                                              *)

(* A step about one request leaves the others as they are. *)
LEMMA OneRequest ==
  ASSUME TypeOK, NEW r \in Requests, NEW q \in Requests, q # r,
         \/ Receive(r) \/ Reject(r) \/ LoadPolicy(r) \/ Checking(r)
         \/ UseCachedKey(r) \/ SelectKey(r) \/ InsertRecord(r) \/ Respond(r)
         \/ CreateKey(r) /\ keys = {}
  PROVE  Still(q) /\ RowsOfOthers(q)
<1> USE DEF work, store
<1>1. CASE Receive(r) \/ Reject(r) \/ LoadPolicy(r)
  BY <1>1 DEF Receive, Reject, LoadPolicy, Still, RowsOfOthers, TypeOK
<1>2. CASE Checking(r)
  BY <1>2 DEF Checking, VerifyCredential, EvaluateConstraints, MergeLocalPolicy, Reserve,
     Pass, Deny, NextEntry, Still, RowsOfOthers, TypeOK
<1>3. CASE UseCachedKey(r) \/ SelectKey(r) \/ (CreateKey(r) /\ keys = {})
  BY <1>3 DEF UseCachedKey, SelectKey, CreateKey, Still, RowsOfOthers, TypeOK
<1>4. CASE InsertRecord(r)
  BY <1>4, RowOfRequest DEF InsertRecord, Recorded, NextEntry, Still, RowsOfOthers, TypeOK
<1>5. CASE Respond(r)
  BY <1>5 DEF Respond, Still, RowsOfOthers, TypeOK
<1> QED
  BY <1>1, <1>2, <1>3, <1>4, <1>5

LEMMA TroubleThrows ==
  ASSUME TypeOK, NEW r \in Requests, Trouble(r) \/ (CreateKey(r) /\ keys # {})
  PROVE  Throwing(r)
<1> USE DEF work, store, Throwing, ThrowingWith
<1>1. CASE CheckFails(r)
  BY <1>1 DEF CheckFails, Checks
<1>2. CASE KeyFails(r)
  BY <1>2 DEF KeyFails, SigningFails, Writing
<1>3. CASE RecordFails(r)
  BY <1>3 DEF RecordFails
<1>4. CASE CreateKey(r) /\ keys # {}
  BY <1>4 DEF CreateKey, SigningFails, Writing
<1> QED
  BY <1>1, <1>2, <1>3, <1>4 DEF Trouble

LEMMA StageInit == Init => \A r \in Requests : Stage(r)
<1> SUFFICES ASSUME Init, NEW r \in Requests
             PROVE  Stage(r)
  OBVIOUS
<1>1. r \in Workflows => AtEntry(r)
  BY PresentsType DEF Init, AtEntry
<1> QED
  BY <1>1 DEF Init, Stage, Placed, Recording, Charging, Backing, Unrecorded, Writing, Checks, Decisions

LEMMA StageStep ==
  ASSUME TypeOK, \A r \in Requests : Stage(r), [Next]_vars, NEW q \in Requests
  PROVE  Stage(q)'
<1>1. ASSUME NEW r \in Requests, Receive(r) \/ Reject(r) \/ LoadPolicy(r)
      PROVE  Stage(q)'
  BY <1>1, ArrivalStage, OneRequest, StillStage
<1>2. ASSUME NEW r \in Requests, Checking(r)
      PROVE  Stage(q)'
  BY <1>2, CheckStage, OneRequest, StillStage
<1>3. ASSUME NEW r \in Requests, UseCachedKey(r) \/ SelectKey(r) \/ (CreateKey(r) /\ keys = {})
      PROVE  Stage(q)'
  <2>1. /\ pc[r] \in Writing /\ pc'[r] \in Writing
        /\ UNCHANGED <<policy, subs, draft, reply, audit, charged>>
    BY <1>3 DEF UseCachedKey, SelectKey, CreateKey, Writing, TypeOK, store
  <2> QED
    BY <1>3, <2>1, KeyStage, OneRequest, StillStage
<1>4. ASSUME NEW r \in Requests, InsertRecord(r)
      PROVE  Stage(q)'
  BY <1>4, RecordStage, OneRequest, StillStage
<1>5. ASSUME NEW r \in Requests, Respond(r)
      PROVE  Stage(q)'
  BY <1>5, RespondStage, OneRequest, StillStage
<1>6. ASSUME NEW r \in Requests, Trouble(r) \/ (CreateKey(r) /\ keys # {})
      PROVE  Stage(q)'
  BY <1>6, TroubleThrows, ThrowStage
<1>7. ASSUME NEW p \in Procs, Crash(p)
      PROVE  Stage(q)'
  BY <1>7, ExitStage DEF Crash, work, store
<1>8. CASE UNCHANGED vars
  <2>1. Still(q) /\ RowsOfOthers(q)
    BY <1>8 DEF vars, work, store, Still, RowsOfOthers
  <2> QED
    BY <2>1, StillStage
<1> QED
  BY <1>1, <1>2, <1>3, <1>4, <1>5, <1>6, <1>7, <1>8 DEF Next, Handle, AllDone, Checking

(* A key in use is one that was found in the table or put there.            *)
LEMMA KeysStep ==
  ASSUME TypeOK, KeysKnown, [Next]_vars
  PROVE  KeysKnown'
<1> USE DEF KeysKnown, SignaturesResolvable, work, store
<1>1. ASSUME NEW r \in Requests, Receive(r) \/ Reject(r) \/ LoadPolicy(r) \/ Respond(r)
      PROVE  KeysKnown'
  BY <1>1 DEF Receive, Reject, LoadPolicy, Respond, TypeOK
<1>2. ASSUME NEW r \in Requests, Checking(r)
      PROVE  KeysKnown'
  <2>1. \A q \in Requests : pc'[q] = "record" => pc[q] = "record"
    BY <1>2 DEF Checking, VerifyCredential, EvaluateConstraints, MergeLocalPolicy, Reserve,
       Pass, Deny, NextEntry, NextCheck, TypeOK
  <2> QED
    BY <1>2, <2>1 DEF Checking, VerifyCredential, EvaluateConstraints, MergeLocalPolicy, Reserve
<1>3. ASSUME NEW r \in Requests, UseCachedKey(r)
      PROVE  KeysKnown'
  BY <1>3, ProcOfType DEF UseCachedKey, TypeOK
<1>4. ASSUME NEW r \in Requests, SelectKey(r)
      PROVE  KeysKnown'
  <2>1. CASE Goto(r, "create") /\ UNCHANGED <<kid, cache>>
    BY <1>4, <2>1 DEF SelectKey, TypeOK
  <2>2. ASSUME NEW key \in keys, SignWith(r, key), cache' = [cache EXCEPT ![ProcOf[r]] = key]
        PROVE  KeysKnown'
    <3>1. \A q \in Requests : pc'[q] = "record" => kid'[q] \in keys
      BY <2>2 DEF TypeOK
    <3>2. \A p \in Procs : cache'[p] # NoKey => cache'[p] \in keys
      BY <2>2 DEF TypeOK
    <3> QED
      BY <1>4, <3>1, <3>2 DEF SelectKey
  <2> QED
    BY <1>4, <2>1, <2>2 DEF SelectKey
<1>5. ASSUME NEW r \in Requests, CreateKey(r), keys = {}
      PROVE  KeysKnown'
  BY <1>5, ProcOfType DEF CreateKey, TypeOK
<1>6. ASSUME NEW r \in Requests, InsertRecord(r)
      PROVE  KeysKnown'
  <2>1. \A q \in Requests : pc'[q] = "record" => pc[q] = "record"
    BY <1>6 DEF InsertRecord, Recorded, NextEntry, TypeOK
  <2>2. Row(r).kid \in keys
    BY <1>6 DEF InsertRecord, Row
  <2> QED
    BY <1>6, <2>1, <2>2 DEF InsertRecord
<1>7. ASSUME NEW p \in Procs, ProcessExits(p), UNCHANGED kid, keys \subseteq keys',
             \A row \in audit' : row.kid \in keys'
      PROVE  KeysKnown'
  BY <1>7 DEF ProcessExits, TypeOK
<1>8. ASSUME NEW r \in Requests, Trouble(r) \/ (CreateKey(r) /\ keys # {})
      PROVE  KeysKnown'
  <2>1. UNCHANGED kid /\ keys \subseteq keys'
    BY <1>8 DEF Trouble, CheckFails, KeyFails, RecordFails, CreateKey
  <2>2. \A row \in audit' : row.kid \in keys'
    <3>1. pc[r] = "record" => Row(r).kid \in keys
      BY DEF Row
    <3> QED
      BY <1>8, <2>1, <3>1 DEF Trouble, CheckFails, KeyFails, RecordFails, CreateKey
  <2>3. \E error : Throw(r, error)
    BY <1>8 DEF Trouble, CheckFails, KeyFails, RecordFails, CreateKey, SigningFails
  <2>4. CASE ProcessExits(ProcOf[r])
    BY <1>7, <2>1, <2>2, <2>4, ProcOfType
  <2>5. CASE (\E error : Answer(r, error)) /\ UNCHANGED cache
    BY <2>1, <2>2, <2>5 DEF TypeOK
  <2> QED
    BY <2>3, <2>4, <2>5 DEF Throw
<1>9. ASSUME NEW p \in Procs, Crash(p)
      PROVE  KeysKnown'
  BY <1>7, <1>9 DEF Crash
<1>10. CASE UNCHANGED vars
  BY <1>10 DEF vars
<1> QED
  BY <1>1, <1>2, <1>3, <1>4, <1>5, <1>6, <1>8, <1>9, <1>10 DEF Next, Handle, AllDone, Checking

LEMMA InvAlways == Spec => []Inv
<1>1. Init => Inv
  <2>1. Init => KeysKnown
    BY DEF Init, KeysKnown, SignaturesResolvable
  <2> QED
    BY <2>1, TypeInit, StageInit DEF Inv
<1>2. Inv /\ [Next]_vars => Inv'
  BY TypeStep, KeysStep, StageStep DEF Inv
<1> QED
  BY <1>1, <1>2, PTL DEF Spec

--------------------------------------------------------------------------------
(* The properties.                                                          *)

(* A decision that evaluate.js answers is on record when it is told.        *)
THEOREM DecisionTold == Spec => []DecisionOnRecord
<1>1. Inv => DecisionOnRecord
  BY DEF Inv, Stage, Recording, DecisionOnRecord
<1> QED
  BY <1>1, InvAlways, PTL

(* Whatever engineKeyStore.js signs with can be looked up by its kid.       *)
THEOREM KeysResolve == Spec => []SignaturesResolvable
<1>1. Inv => SignaturesResolvable
  BY DEF Inv, KeysKnown
<1> QED
  BY <1>1, InvAlways, PTL

(* The handlers charge the counters of no request they deny.                *)
THEOREM NoChargeOnDeny == Spec => []ChargedNotDenied
<1>1. Inv => ChargedNotDenied
  <2>1. TypeOK => charged \subseteq Requests
    BY DEF TypeOK
  <2> QED
    BY <2>1 DEF Inv, Stage, Charging, ChargedNotDenied
<1> QED
  BY <1>1, InvAlways, PTL

(* A request that is told its audit could not be signed left no record.     *)
THEOREM UnsignedUnrecorded == Spec => []SigningFailureLeavesNoRow
<1>1. Inv => SigningFailureLeavesNoRow
  BY DEF Inv, Stage, Recording, Unrecorded, SigningFailureLeavesNoRow
<1> QED
  BY <1>1, InvAlways, PTL

(* The sub-decisions that a workflow decision combines are those on record. *)
LEMMA BackingSuffices ==
  ASSUME TypeOK, NEW r \in Workflows, r \in Requests, Stage(r), reply[r] = "allow"
  PROVE  LET p == policy[r] IN
         /\ p.combinator = "requireAll" => \A role \in p.required : AllowedRole(r, role)
         /\ p.combinator = "requireAny" => \E role \in p.required : AllowedRole(r, role)
         /\ p.combinator = "threshold" /\ EachRoleOnce(r) => EnoughRoles(r)
<1> DEFINE p == policy[r]
           s == subs[r]
           allowed == {role \in p.required : AllowedRole(r, role)}
<1>1. /\ Covers(p, RolesOf(r)) /\ Combined(p, s) = "allow" /\ DOMAIN s = DOMAIN Presents[r]
      /\ \A i \in DOMAIN s : s[i] = "allow" => RowOf(<<r, i>>, "allow")
  <2>1. s \in Seq(Decisions) /\ Presents[r] \in Seq(Roles)
    BY PresentsType DEF TypeOK
  <2> QED
    BY <2>1 DEF Stage, Backing, Conclusive, AtEnd
<1>2. \A i \in AllowsIn(s) : AllowedRole(r, Presents[r][i])
  BY <1>1 DEF AllowsIn, AllowedRole
<1>3. \A i \in DOMAIN s : Presents[r][i] \in p.required
  BY <1>1 DEF Covers, RolesOf
<1>4. \A role \in p.required : \E i \in DOMAIN s : Presents[r][i] = role
  BY <1>1 DEF Covers, RolesOf
<1>5. \/ p.combinator = "requireAll" /\ AllowsIn(s) = DOMAIN s
      \/ p.combinator = "requireAny" /\ AllowsIn(s) # {}
      \/ p.combinator = "threshold" /\ Cardinality(AllowsIn(s)) >= p.threshold
  BY <1>1 DEF Combined
<1>6. ASSUME p.combinator = "requireAll"
      PROVE  \A role \in p.required : AllowedRole(r, role)
  BY <1>2, <1>4, <1>5, <1>6
<1>7. ASSUME p.combinator = "requireAny"
      PROVE  \E role \in p.required : AllowedRole(r, role)
  <2>1. PICK i \in AllowsIn(s) : TRUE
    BY <1>5, <1>7
  <2>2. i \in DOMAIN s
    BY DEF AllowsIn
  <2> QED
    BY <1>2, <1>3, <2>1, <2>2
<1>8. ASSUME p.combinator = "threshold", EachRoleOnce(r)
      PROVE  EnoughRoles(r)
  <2> DEFINE roleAt == [i \in AllowsIn(s) |-> Presents[r][i]]
  <2>1. IsFiniteSet(allowed)
    <3>1. Presents[r] \in Seq(Roles)
      BY PresentsType
    <3>2. Len(Presents[r]) \in Nat /\ DOMAIN Presents[r] = 1..Len(Presents[r])
      BY <3>1
    <3>3. IsFiniteSet(1..Len(Presents[r]))
      BY <3>2, FS_Interval, 1 \in Int, Len(Presents[r]) \in Int
    <3>4. IsFiniteSet(RolesOf(r))
      <4>1. Presents[r] \in Surjection(DOMAIN Presents[r], RolesOf(r))
        BY <3>1, <3>2 DEF RolesOf, Surjection
      <4> QED
        BY <3>2, <3>3, <4>1, FS_Surjection
    <3>5. allowed \subseteq RolesOf(r)
      BY <1>1 DEF Covers
    <3> QED
      BY <3>4, <3>5, FS_Subset, Zenon
  <2>2. roleAt \in Injection(AllowsIn(s), allowed)
    <3>1. \A i \in AllowsIn(s) : i \in DOMAIN s /\ Presents[r][i] \in allowed
      BY <1>2, <1>3 DEF AllowsIn
    <3>2. \A i, j \in AllowsIn(s) : roleAt[i] = roleAt[j] => i = j
      BY <1>1, <1>8, <3>1 DEF EachRoleOnce
    <3> QED
      BY <3>1, <3>2 DEF Injection, IsInjective
  <2>3. /\ IsFiniteSet(AllowsIn(s))
        /\ Cardinality(AllowsIn(s)) <= Cardinality(allowed)
    BY <2>1, <2>2, FS_Injection, Zenon
  <2>4. Cardinality(AllowsIn(s)) \in Nat /\ Cardinality(allowed) \in Nat
    BY <2>1, <2>3, FS_CardinalityType
  <2>5. p.threshold \in Nat
    BY DEF TypeOK, PolicyType
  <2> QED
    BY <1>5, <1>8, <2>3, <2>4, <2>5 DEF EnoughRoles
<1> QED
  BY <1>6, <1>7, <1>8

(* /evaluate/workflow allows only what recorded sub-decisions back.         *)
THEOREM WorkflowSound == Spec => []WorkflowBacked
<1>1. Inv => WorkflowBacked
  <2> SUFFICES ASSUME Inv, NEW r \in Workflows, reply[r] = "allow"
               PROVE  LET p == policy[r] IN
                      /\ p.combinator = "requireAll" => \A role \in p.required : AllowedRole(r, role)
                      /\ p.combinator = "requireAny" => \E role \in p.required : AllowedRole(r, role)
                      /\ p.combinator = "threshold" /\ EachRoleOnce(r) => EnoughRoles(r)
    BY DEF WorkflowBacked
  <2>1. r \in Requests /\ TypeOK /\ Stage(r)
    BY RequestsType DEF Inv
  <2> QED
    BY <2>1, BackingSuffices
<1> QED
  BY <1>1, InvAlways, PTL

--------------------------------------------------------------------------------
(* Which records verify, and who is told that signing failed.               *)

(* Only a workflow's own record names a workflow and wraps others, and only *)
(* a request with a field that is not there leaves a hole in one.           *)
Formed(r, content) ==
  /\ content.workflow => r \in Workflows
  /\ ~content.workflow => content.wraps = {}
  /\ content.hole => r \in Fieldless

FormInv ==
  /\ \A r \in Requests : Formed(r, draft[r])
  /\ \A row \in audit : Formed(row.id[1], row.content)

LEMMA FormedContent ==
  ASSUME NEW r, NEW decision, NEW workflow, NEW wraps, NEW hole,
         workflow => r \in Workflows, ~workflow => wraps = {}, hole => r \in Fieldless
  PROVE  Formed(r, Content(decision, workflow, wraps, hole))
  BY DEF Formed, Content

LEMMA FormInit == Init => FormInv
<1> SUFFICES ASSUME Init
             PROVE  FormInv
  OBVIOUS
<1>1. \A r \in Requests : draft[r] = Content("deny", FALSE, {}, FALSE)
  BY DEF Init
<1>2. \A r \in Requests : Formed(r, draft[r])
  BY <1>1, FormedContent
<1> QED
  BY <1>2 DEF Init, FormInv

(* A step leaves a draft as it is, or writes one that is well formed.       *)
LEMMA NextEntryForms ==
  ASSUME TypeOK, FormInv, NEW r \in Workflows, NEW decision, NextEntry(r, decision)
  PROVE  \A q \in Requests : Formed(q, draft'[q])
<1>1. r \in Requests
  BY RequestsType
<1> DEFINE s == Append(subs[r], decision)
           content == Content(Combined(policy[r], s), TRUE, {<<r, i>> : i \in AllowsIn(s)}, FALSE)
<1>2. UNCHANGED draft \/ draft' = [draft EXCEPT ![r] = content]
  BY DEF NextEntry
<1>3. Formed(r, content)
  BY FormedContent
<1> HIDE DEF content
<1> QED
  BY <1>1, <1>2, <1>3 DEF FormInv, TypeOK

LEMMA CheckForms ==
  ASSUME TypeOK, FormInv, NEW r \in Requests, NEW results \in BOOLEAN,
         Pass(r) \/ Deny(r, results)
  PROVE  \A q \in Requests : Formed(q, draft'[q])
<1>1. CASE UNCHANGED draft
  BY <1>1 DEF FormInv
<1>2. CASE draft' = [draft EXCEPT ![r] = Content("allow", FALSE, {}, r \in Fieldless)]
  <2>1. Formed(r, Content("allow", FALSE, {}, r \in Fieldless))
    BY FormedContent
  <2> QED
    BY <1>2, <2>1 DEF FormInv, TypeOK
<1>3. CASE draft' = [draft EXCEPT ![r] = Content("deny", FALSE, {}, results /\ r \in Fieldless)]
  <2>1. Formed(r, Content("deny", FALSE, {}, results /\ r \in Fieldless))
    BY FormedContent
  <2> QED
    BY <1>3, <2>1 DEF FormInv, TypeOK
<1>4. CASE r \in Workflows /\ NextEntry(r, "deny")
  BY <1>4, NextEntryForms
<1> QED
  BY <1>1, <1>2, <1>3, <1>4 DEF Pass, Deny

LEMMA FormStep == TypeOK /\ FormInv /\ [Next]_vars => FormInv'
<1> SUFFICES ASSUME TypeOK, FormInv, [Next]_vars
             PROVE  FormInv'
  OBVIOUS
<1> DEFINE Rows == \A row \in audit' : Formed(row.id[1], row.content)
           Drafts == \A q \in Requests : Formed(q, draft'[q])
<1>0. ASSUME Rows, Drafts
      PROVE  FormInv'
  BY <1>0 DEF FormInv, Formed
<1>1. ASSUME NEW r \in Requests
      PROVE  Formed(Row(r).id[1], Row(r).content)
  BY DEF FormInv, Row, RowId
<1>2. ASSUME UNCHANGED <<draft, audit>>
      PROVE  FormInv'
  BY <1>2 DEF FormInv, Formed
<1>3. ASSUME NEW r \in Requests, NEW results \in BOOLEAN, Pass(r) \/ Deny(r, results), UNCHANGED audit
      PROVE  FormInv'
  <2>1. Drafts
    BY <1>3, CheckForms
  <2>2. Rows
    BY <1>3 DEF FormInv
  <2> QED
    BY <1>0, <2>1, <2>2
<1>4. ASSUME NEW r \in Requests, Checking(r)
      PROVE  FormInv'
  BY <1>3, <1>4 DEF Checking, VerifyCredential, EvaluateConstraints, MergeLocalPolicy, Reserve, store
<1>5. ASSUME NEW r \in Requests, InsertRecord(r)
      PROVE  FormInv'
  <2>1. Rows
    BY <1>1, <1>5 DEF InsertRecord, FormInv
  <2>2. Drafts
    <3>1. CASE r \in Workflows /\ NextEntry(r, "allow")
      BY <3>1, NextEntryForms
    <3>2. CASE UNCHANGED draft
      BY <3>2 DEF FormInv
    <3> QED
      BY <1>5, <3>1, <3>2 DEF InsertRecord, Recorded
  <2> QED
    BY <1>0, <2>1, <2>2
<1>6. ASSUME NEW r \in Requests, RecordFails(r)
      PROVE  FormInv'
  <2>1. Rows
    BY <1>1, <1>6 DEF RecordFails, FormInv
  <2>2. Drafts
    BY <1>6 DEF RecordFails, FormInv, work
  <2> QED
    BY <1>0, <2>1, <2>2
<1>7. ASSUME NEW r \in Requests,
             \/ Receive(r) \/ Reject(r) \/ LoadPolicy(r) \/ UseCachedKey(r) \/ SelectKey(r)
             \/ CreateKey(r) \/ Respond(r) \/ CheckFails(r) \/ KeyFails(r)
      PROVE  FormInv'
  BY <1>2, <1>7 DEF Receive, Reject, LoadPolicy, UseCachedKey, SelectKey, CreateKey, Respond,
     CheckFails, KeyFails, work, store
<1>8. ASSUME NEW p \in Procs, Crash(p)
      PROVE  FormInv'
  BY <1>2, <1>8 DEF Crash, work, store
<1>9. CASE UNCHANGED vars
  BY <1>2, <1>9 DEF vars, work, store
<1> QED
  BY <1>4, <1>5, <1>6, <1>7, <1>8, <1>9 DEF Next, Handle, Trouble, AllDone, Checking

LEMMA FormAlways == Spec => [](TypeOK /\ FormInv)
<1>1. Init => TypeOK /\ FormInv
  BY TypeInit, FormInit
<1>2. TypeOK /\ FormInv /\ [Next]_vars => TypeOK' /\ FormInv'
  BY TypeStep, FormStep
<1> QED
  BY <1>1, <1>2, PTL DEF Spec

(* A record verifies exactly if it names no workflow policy and reports on  *)
(* no constraint without a field; one that does not is of such a request.   *)
VerifiesExactly ==
  \A row \in audit :
    /\ Verifies(row) <=> ~row.content.workflow /\ ~row.content.hole
    /\ ~Verifies(row) => row.id[1] \in Workflows \cup Fieldless

(* What verifyAuditRecord makes of the records of createAuditRecord: a      *)
(* record of a workflow never verifies, nor does one with such a constraint *)
(* in it, denied or allowed, and every other does.                          *)
THEOREM OrdinaryRecordsVerify == Spec => []VerifiesExactly
<1>1. Inv /\ FormInv => VerifiesExactly
  <2> SUFFICES ASSUME Inv, FormInv, NEW row \in audit
               PROVE  /\ Verifies(row) <=> ~row.content.workflow /\ ~row.content.hole
                      /\ ~Verifies(row) => row.id[1] \in Workflows \cup Fieldless
    BY DEF VerifiesExactly
  <2> DEFINE content == row.content
  <2>1. row.kid \in keys /\ Formed(row.id[1], content)
    BY DEF Inv, KeysKnown, SignaturesResolvable, FormInv
  <2>2. content \in Contents
    BY DEF Inv, TypeOK
  <2>3. content = Content(content.decision, content.workflow, content.wraps, content.hole)
    BY <2>2 DEF Contents, Content
  <2>4. Rebuilt(content) = content <=> ~content.workflow
    <3>1. CASE content.workflow
      BY <2>2, <3>1 DEF Rebuilt, Content, Contents
    <3>2. CASE ~content.workflow
      <4>1. content.workflow = FALSE /\ content.wraps = {}
        BY <2>1, <2>2, <3>2 DEF Formed, Contents
      <4> QED
        BY <2>3, <3>2, <4>1 DEF Rebuilt
    <3> QED
      BY <3>1, <3>2
  <2> QED
    BY <2>1, <2>4 DEF Verifies, Formed
<1> QED
  BY <1>1, InvAlways, FormAlways, PTL

(* A request whose signing failed, and that is no workflow, has its answer. *)
ToldUnsigned == \A r \in unsigned \ Workflows : pc[r] = "done" /\ reply[r] = "audit_signing_failed"

LEMMA ToldStep == TypeOK /\ ToldUnsigned /\ [Next]_vars => ToldUnsigned'
<1> SUFFICES ASSUME TypeOK, ToldUnsigned, [Next]_vars
             PROVE  ToldUnsigned'
  OBVIOUS
<1>1. ASSUME UNCHANGED unsigned,
             \A q \in unsigned \ Workflows : pc[q] = "done" => pc'[q] = pc[q] /\ reply'[q] = reply[q]
      PROVE  ToldUnsigned'
  BY <1>1 DEF ToldUnsigned
<1>2. ASSUME NEW p, ProcessExits(p)
      PROVE  \A q \in Requests : pc[q] = "done" => pc'[q] = pc[q] /\ reply'[q] = reply[q]
  BY <1>2 DEF ProcessExits, InFlight, TypeOK
<1>3. ASSUME NEW r \in Requests, NEW error, pc[r] # "done", Throw(r, error)
      PROVE  \A q \in Requests : pc[q] = "done" => pc'[q] = pc[q] /\ reply'[q] = reply[q]
  BY <1>2, <1>3 DEF Throw, TypeOK
<1>4. ASSUME NEW r \in Requests, pc[r] # "done", SigningFails(r)
      PROVE  ToldUnsigned'
  <2>1. \A q \in Requests : pc[q] = "done" => pc'[q] = pc[q] /\ reply'[q] = reply[q]
    BY <1>3, <1>4 DEF SigningFails
  <2>2. r \notin Workflows => pc'[r] = "done" /\ reply'[r] = "audit_signing_failed"
    BY <1>4 DEF SigningFails, Throw, TypeOK
  <2>3. unsigned' = unsigned \cup {r} /\ unsigned \subseteq Requests
    BY <1>4 DEF SigningFails, TypeOK
  <2> QED
    BY <2>1, <2>2, <2>3 DEF ToldUnsigned
<1>5. unsigned \subseteq Requests
  BY DEF TypeOK
<1>6. ASSUME NEW r \in Requests, CheckFails(r) \/ RecordFails(r)
      PROVE  ToldUnsigned'
  <2>1. pc[r] # "done" /\ UNCHANGED unsigned
    BY <1>6 DEF CheckFails, RecordFails, Checks
  <2>2. \E error : Throw(r, error)
    BY <1>6 DEF CheckFails, RecordFails
  <2> QED
    BY <1>1, <1>3, <1>5, <2>1, <2>2
<1>7. ASSUME NEW r \in Requests, KeyFails(r) \/ (CreateKey(r) /\ keys # {})
      PROVE  ToldUnsigned'
  BY <1>4, <1>7 DEF KeyFails, CreateKey
<1>8. ASSUME NEW r \in Requests, pc[r] # "done", UNCHANGED unsigned,
             \A q \in Requests : q # r => pc'[q] = pc[q] /\ reply'[q] = reply[q]
      PROVE  ToldUnsigned'
  BY <1>1, <1>5, <1>8
<1>9. ASSUME NEW r \in Requests, Pass(r) \/ (\E results : Deny(r, results)) \/ NextEntry(r, "allow")
      PROVE  \A q \in Requests : q # r => pc'[q] = pc[q]
  BY <1>9 DEF Pass, Deny, NextEntry, TypeOK
<1>10. ASSUME NEW r \in Requests, Checking(r)
       PROVE  ToldUnsigned'
  BY <1>8, <1>9, <1>10 DEF Checking, VerifyCredential, EvaluateConstraints, MergeLocalPolicy, Reserve
<1>11. ASSUME NEW r \in Requests, InsertRecord(r)
       PROVE  ToldUnsigned'
  BY <1>8, <1>9, <1>11 DEF InsertRecord, Recorded, TypeOK
<1>12. ASSUME NEW r \in Requests,
              \/ Receive(r) \/ Reject(r) \/ LoadPolicy(r) \/ UseCachedKey(r) \/ SelectKey(r)
              \/ (CreateKey(r) /\ keys = {}) \/ Respond(r)
       PROVE  ToldUnsigned'
  BY <1>8, <1>12 DEF Receive, Reject, LoadPolicy, UseCachedKey, SelectKey, CreateKey, Respond, TypeOK
<1>13. ASSUME NEW p \in Procs, Crash(p)
       PROVE  ToldUnsigned'
  BY <1>1, <1>2, <1>5, <1>13 DEF Crash
<1>14. CASE UNCHANGED vars
  BY <1>14 DEF vars, ToldUnsigned
<1> QED
  BY <1>6, <1>7, <1>10, <1>11, <1>12, <1>13, <1>14 DEF Next, Handle, Trouble, AllDone, Checking

(* Outside workflows SigningFailureReported holds: the request is answered  *)
(* by the handler that caught the failure, and nothing takes that back.     *)
THEOREM UnsignedIsTold == Spec => []ToldUnsigned
<1>1. Init => ToldUnsigned
  BY DEF Init, ToldUnsigned
<1> QED
  BY <1>1, TypeInit, TypeStep, ToldStep, PTL DEF Spec

--------------------------------------------------------------------------------
(* How much a request has before it.                                        *)

Rank == [idle |-> 12, load |-> 11, verify |-> 10, constraints |-> 9, policy |-> 8,
         reserve |-> 7, key |-> 6, select |-> 5, create |-> 4, record |-> 3,
         respond |-> 2, done |-> 0]

(* A bound on the steps it can still take: a credential costs at most twenty. *)
Left(r) ==
  IF pc[r] = "done" THEN 0
  ELSE 20 * (Len(Presents[r]) - Len(subs[r])) + Rank[pc[r]]

Lowered(r) == Left(r)' < Left(r)

FewerLeft ==
  /\ \A r \in Requests : Left(r) \in Nat /\ (Lowered(r) \/ Left(r)' = Left(r))
  /\ \E r \in Requests : Lowered(r)

LEMMA RankValues ==
  /\ Rank["idle"] = 12 /\ Rank["load"] = 11 /\ Rank["verify"] = 10
  /\ Rank["constraints"] = 9 /\ Rank["policy"] = 8 /\ Rank["reserve"] = 7
  /\ Rank["key"] = 6 /\ Rank["select"] = 5 /\ Rank["create"] = 4
  /\ Rank["record"] = 3 /\ Rank["respond"] = 2 /\ Rank["done"] = 0
  BY DEF Rank

(* Twenty times a number, and a smaller one. *)
LEMMA Twenties ==
  ASSUME NEW p \in Nat, NEW s \in Nat, NEW k \in Nat
  PROVE  /\ s <= p => 20 * (p - s) + k \in Nat /\ k <= 20 * (p - s) + k
         /\ \A j \in Nat : j < k => 20 * (p - s) + j < 20 * (p - s) + k
         /\ \A j \in Nat : j < 20 => 20 * (p - (s + 1)) + j < 20 * (p - s) + k
  OBVIOUS

(* A request that is not done has a credential or a step before it. *)
LEMMA LeftPositive ==
  ASSUME Inv, NEW r \in Requests
  PROVE  /\ Left(r) \in Nat /\ (pc[r] # "done" => 0 < Left(r))
         /\ Len(subs[r]) \in Nat /\ Len(Presents[r]) \in Nat
         /\ Rank[pc[r]] \in Nat
<1>1. /\ Len(subs[r]) \in Nat /\ Len(Presents[r]) \in Nat /\ pc[r] \in PcStates
      /\ r \notin Workflows => Len(subs[r]) = 0
  <2>1. subs[r] \in Seq(Decisions) /\ Presents[r] \in Seq(Roles) /\ pc[r] \in PcStates
    BY PresentsType DEF Inv, TypeOK
  <2> QED
    BY <2>1 DEF Inv, Stage, Placed
<1>2. pc[r] # "done" => Len(subs[r]) <= Len(Presents[r])
  <2>1. r \in Workflows /\ pc[r] # "done" => AtEntry(r) \/ AtEnd(r)
    BY <1>1 DEF Inv, Stage, Placed, PcStates, Checks, Writing
  <2> QED
    BY <1>1, <2>1 DEF AtEntry, AtEnd
<1>3. Rank[pc[r]] \in Nat /\ (pc[r] # "done" => 0 < Rank[pc[r]])
  BY <1>1, RankValues DEF PcStates, Checks, Writing
<1>4. CASE pc[r] = "done"
  BY <1>1, <1>3, <1>4 DEF Left
<1>5. CASE pc[r] # "done"
  <2>1. Left(r) \in Nat /\ Rank[pc[r]] <= Left(r)
    BY <1>1, <1>2, <1>3, <1>5, Twenties DEF Left
  <2> QED
    BY <1>1, <1>3, <1>5, <2>1
<1> QED
  BY <1>4, <1>5

(* It goes to a later step of the same credential, *)
LEMMA RankLowers ==
  ASSUME Inv, NEW r \in Requests, subs'[r] = subs[r], pc'[r] \in PcStates,
         pc[r] # "done", Rank[pc'[r]] < Rank[pc[r]]
  PROVE  Lowered(r)
<1>1. Rank[pc'[r]] \in Nat
  BY RankValues DEF PcStates, Checks, Writing
<1>2. CASE pc'[r] = "done"
  BY <1>2, LeftPositive DEF Lowered, Left
<1>3. CASE pc'[r] # "done"
  <2>1. /\ Len(subs[r]) \in Nat /\ Len(Presents[r]) \in Nat /\ Rank[pc[r]] \in Nat
    BY LeftPositive
  <2> QED
    BY <1>1, <1>3, <2>1, Twenties DEF Lowered, Left
<1> QED
  BY <1>2, <1>3

(* or to the next credential or the last record, *)
LEMMA NextEntryLowers ==
  ASSUME Inv, NEW r \in Requests, NEW decision \in Decisions, NextEntry(r, decision),
         pc[r] # "done"
  PROVE  Lowered(r)
<1>1. subs[r] \in Seq(Decisions)
  BY DEF Inv, TypeOK
<1>2. subs'[r] = Append(subs[r], decision) /\ pc'[r] \in {"verify", "key"}
  BY DEF NextEntry, Inv, TypeOK
<1>3. Len(subs'[r]) = Len(subs[r]) + 1 /\ Rank[pc'[r]] \in {10, 6}
  BY <1>1, <1>2, RankValues
<1>4. Len(subs[r]) \in Nat /\ Len(Presents[r]) \in Nat /\ Rank[pc[r]] \in Nat
  BY LeftPositive
<1>5. Rank[pc'[r]] \in Nat /\ Rank[pc'[r]] < 20
  BY <1>3
<1>6. 20 * (Len(Presents[r]) - (Len(subs[r]) + 1)) + Rank[pc'[r]]
        < 20 * (Len(Presents[r]) - Len(subs[r])) + Rank[pc[r]]
  BY <1>4, <1>5, Twenties
<1> QED
  BY <1>2, <1>3, <1>6 DEF Lowered, Left

(* or it ends. *)
LEMMA EndLowers ==
  ASSUME Inv, NEW r \in Requests, pc[r] # "done", pc'[r] = "done"
  PROVE  Lowered(r)
  BY LeftPositive DEF Lowered, Left

(* One request moves on and the others stay where they are. *)
LEMMA OneMoves ==
  ASSUME Inv, NEW r \in Requests, Lowered(r),
         \A q \in Requests : q # r => pc'[q] = pc[q] /\ subs'[q] = subs[q]
  PROVE  FewerLeft
<1>1. \A q \in Requests : q # r => Left(q)' = Left(q)
  BY DEF Left
<1> QED
  BY <1>1, LeftPositive DEF FewerLeft

(* A process that exits ends the requests it serves. *)
LEMMA ExitLowers ==
  ASSUME Inv, NEW p, ProcessExits(p), InFlight(p) # {}, UNCHANGED subs
  PROVE  FewerLeft
<1>1. \A q \in Requests : pc'[q] = IF q \in InFlight(p) THEN "done" ELSE pc[q]
  BY DEF ProcessExits
<1>2. ASSUME NEW q \in Requests, q \in InFlight(p)
      PROVE  Lowered(q)
  BY <1>1, <1>2, EndLowers DEF InFlight
<1>3. ASSUME NEW q \in Requests, q \notin InFlight(p)
      PROVE  Left(q)' = Left(q)
  BY <1>1, <1>3 DEF Left
<1>4. PICK q \in InFlight(p) : q \in Requests
  BY DEF InFlight
<1> QED
  BY <1>2, <1>3, <1>4, LeftPositive DEF FewerLeft

LEMMA CheckLowers ==
  ASSUME Inv, NEW r \in Requests, Checking(r)
  PROVE  FewerLeft
<1>1. TypeOK /\ pc[r] \in Checks
  BY DEF Inv, Checking, VerifyCredential, EvaluateConstraints, MergeLocalPolicy, Reserve, Checks
<1>2. Pass(r) \/ \E results \in BOOLEAN : Deny(r, results)
  BY DEF Checking, VerifyCredential, EvaluateConstraints, MergeLocalPolicy, Reserve
<1>3. \A q \in Requests : q # r => pc'[q] = pc[q] /\ subs'[q] = subs[q]
  BY <1>1, <1>2 DEF Pass, Deny, NextEntry, TypeOK
<1>4. CASE r \in Workflows /\ NextEntry(r, "deny")
  BY <1>1, <1>3, <1>4, NextEntryLowers, OneMoves DEF Checks, Decisions
<1>5. CASE ~(r \in Workflows /\ NextEntry(r, "deny"))
  <2>1. /\ subs' = subs
        /\ \/ pc'[r] = "key"
           \/ pc[r] = "verify" /\ pc'[r] = "constraints"
           \/ pc[r] = "constraints" /\ pc'[r] = "policy"
           \/ pc[r] = "policy" /\ pc'[r] = "reserve"
    BY <1>1, <1>2, <1>5 DEF Pass, Deny, NextCheck, Checks, TypeOK
  <2>2. pc'[r] \in PcStates /\ Rank[pc'[r]] < Rank[pc[r]] /\ pc[r] # "done"
    BY <1>1, <2>1, RankValues DEF Checks, Writing, PcStates
  <2> QED
    BY <1>3, <2>1, <2>2, RankLowers, OneMoves
<1> QED
  BY <1>4, <1>5

LEMMA HandlingLowers ==
  ASSUME Inv, NEW r \in Requests,
         \/ Receive(r) \/ Reject(r) \/ LoadPolicy(r) \/ UseCachedKey(r) \/ SelectKey(r)
         \/ (CreateKey(r) /\ keys = {}) \/ InsertRecord(r) \/ Respond(r)
  PROVE  FewerLeft
<1>1. TypeOK /\ pc[r] # "done"
  BY DEF Inv, Receive, Reject, LoadPolicy, UseCachedKey, SelectKey, CreateKey, InsertRecord, Respond
<1>2. \A q \in Requests : q # r => pc'[q] = pc[q] /\ subs'[q] = subs[q]
  BY <1>1, OneRequest DEF Still
<1>3. CASE NextEntry(r, "allow")
  BY <1>1, <1>2, <1>3, NextEntryLowers, OneMoves DEF Decisions
<1>4. CASE pc'[r] = "done"
  BY <1>1, <1>2, <1>4, EndLowers, OneMoves
<1>5. CASE pc'[r] # "done" /\ ~NextEntry(r, "allow")
  <2>1. /\ subs' = subs
        /\ \/ pc[r] = "idle" /\ pc'[r] \in {"load", "verify"}
           \/ pc[r] = "load" /\ pc'[r] = "verify"
           \/ pc[r] = "key" /\ pc'[r] \in {"select", "record"}
           \/ pc[r] = "select" /\ pc'[r] \in {"create", "record"}
           \/ pc[r] = "create" /\ pc'[r] = "record"
           \/ pc[r] = "record" /\ pc'[r] = "respond"
    BY <1>1, <1>5 DEF Receive, Reject, LoadPolicy, UseCachedKey, SelectKey, CreateKey,
       InsertRecord, Recorded, Respond, TypeOK, work
  <2>2. pc'[r] \in PcStates /\ Rank[pc'[r]] < Rank[pc[r]]
    BY <2>1, RankValues DEF Checks, Writing, PcStates
  <2> QED
    BY <1>1, <1>2, <2>1, <2>2, RankLowers, OneMoves
<1> QED
  BY <1>3, <1>4, <1>5

LEMMA TroubleLowers ==
  ASSUME Inv, NEW r \in Requests, Throwing(r)
  PROVE  FewerLeft
<1>1. TypeOK /\ pc[r] \notin {"idle", "done"} /\ subs' = subs /\ \E error : Throw(r, error)
  BY DEF Inv, Throwing, ThrowingWith
<1>2. CASE ProcessExits(ProcOf[r])
  <2>1. r \in InFlight(ProcOf[r])
    BY <1>1 DEF InFlight
  <2> QED
    BY <1>1, <1>2, <2>1, ExitLowers
<1>3. CASE pc' = [pc EXCEPT ![r] = "done"]
  <2>1. pc'[r] = "done" /\ \A q \in Requests : q # r => pc'[q] = pc[q]
    BY <1>1, <1>3 DEF TypeOK
  <2> QED
    BY <1>1, <2>1, EndLowers, OneMoves
<1> QED
  BY <1>1, <1>2, <1>3 DEF Throw

(* A request takes at most twelve steps to its answer and twenty more for   *)
(* each credential of a workflow, whatever fails and crashes: no handler of *)
(* evaluate.js goes back, and the loop over credentials gets shorter.       *)
THEOREM RequestsTerminate == Spec => [][FewerLeft]_vars
<1>1. ASSUME Inv, [Next]_vars
      PROVE  [FewerLeft]_vars
  <2>1. ASSUME NEW r \in Requests, Trouble(r) \/ (CreateKey(r) /\ keys # {})
        PROVE  FewerLeft
    BY <1>1, <2>1, TroubleThrows, TroubleLowers DEF Inv
  <2>2. ASSUME NEW p \in Procs, Crash(p)
        PROVE  FewerLeft
    BY <1>1, <2>2, ExitLowers DEF Crash, work
  <2>3. ASSUME NEW r \in Requests, Checking(r)
        PROVE  FewerLeft
    BY <1>1, <2>3, CheckLowers
  <2> QED
    BY <1>1, <2>1, <2>2, <2>3, HandlingLowers DEF Next, Handle, Checking, AllDone
<1> QED
  BY <1>1, InvAlways, PTL DEF Spec
================================================================================
