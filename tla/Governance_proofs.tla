-------------------------- MODULE Governance_proofs --------------------------
(***************************************************************************)
(* Proofs about Governance, for any requests, issuers, mapping rows,       *)
(* lifetimes and bounds.                                                   *)
(***************************************************************************)
EXTENDS Governance, SequenceTheorems, TLAPS

USE DEF tables, caches, At

-----------------------------------------------------------------------------
(* Type correctness.                                                       *)

CallType ==
    [stage : Stage, version : Nat, age : 0 .. Oldest, revision : Nat,
     shown : (SUBSET Issuer) \cup (SUBSET Row), asOf : Versions]

ManifestType ==
    [shown : (SUBSET Issuer) \cup (SUBSET Row), asOf : Versions, revision : Nat \cup {-1},
     age : 0 .. ManifestTtl]

MappingsType == [verdict : Verdicts, asOf : Versions, age : 0 .. MappingTtl]

(* The lifetimes are within the span that ages are counted to. *)
LEMMA OldestType ==
  Oldest \in Nat /\ Oldest >= 1 /\ ManifestTtl <= Oldest /\ MappingTtl <= Oldest
  BY ConstantsAssumption DEF Oldest, Longer

LEMMA EmptyTypes ==
  Idle \in CallType /\ NoManifest \in ManifestType /\ NoMappings \in MappingsType
  BY ConstantsAssumption, OldestType
  DEF Idle, NoManifest, NoMappings, CallType, ManifestType, MappingsType, Stage,
      Verdicts, Versions, Lost

LEMMA TypeInit == Init => TypeOK
<1> SUFFICES ASSUME Init
             PROVE  TypeOK
  OBVIOUS
<1>1. call \in [Call -> CallType] /\ manifest \in ManifestType /\ mappings \in MappingsType
  BY EmptyTypes DEF Init
<1>2. failures \in 0 .. MaxFailures /\ writes \in Seq(0 .. Oldest)
  BY ConstantsAssumption DEF Init
<1> QED
  BY <1>1, <1>2 DEF Init, TypeOK, Status, CallType, ManifestType, MappingsType

(* A row that decides a field is a trusted one. *)
LEMMA VerdictType ==
  ASSUME NEW rs
  PROVE  Verdict(rs) \in Verdicts
  BY DEF Verdict, Verdicts

(* A slot that is given a record of the type keeps the type. *)
LEMMA SlotType ==
  ASSUME TypeOK, NEW c \in Call, NEW new \in CallType, call' = [call EXCEPT ![c] = new]
  PROVE  call' \in [Call -> CallType]
  BY DEF TypeOK, CallType

LEMMA ReplyType ==
  ASSUME TypeOK, NEW c \in Call, Reply(c)
  PROVE  call' \in [Call -> CallType]
  BY EmptyTypes, SlotType DEF Reply

LEMMA StageType ==
  ASSUME TypeOK, NEW c \in Call, NEW stage \in Stage,
         call' = [call EXCEPT ![c].stage = stage]
  PROVE  call' \in [Call -> CallType]
  BY DEF TypeOK, CallType

(* A change of a table is written down with age 0. *)
LEMMA WriteType ==
  ASSUME TypeOK, Write
  PROVE  writes' \in Seq(0 .. Oldest)
  BY OldestType DEF TypeOK, Write

LEMMA FailsType ==
  ASSUME TypeOK, Fails \/ StatementFails
  PROVE  failures' \in 0 .. MaxFailures
  BY ConstantsAssumption DEF TypeOK, Fails, StatementFails

(* What is cached has its type. *)
LEMMA EntryType ==
  ASSUME TypeOK, NEW c \in Call
  PROVE  Expired(NewEntry(c)) \in ManifestType
<1>1. call[c] \in CallType
  BY DEF TypeOK, CallType
<1> QED
  BY <1>1, EmptyTypes, OldestType, ConstantsAssumption
  DEF Expired, NewEntry, Entry, CallType, ManifestType

LEMMA KeepType ==
  ASSUME TypeOK, NEW c \in Call, Keep(c)
  PROVE  mappings' \in MappingsType
<1>1. call[c] \in CallType /\ Verdict(call[c].shown) \in Verdicts
  BY VerdictType DEF TypeOK, CallType
<1> QED
  BY <1>1, EmptyTypes, OldestType, ConstantsAssumption DEF Keep, CallType, MappingsType

(* The passing of time leaves calls and caches typed. *)
LEMMA TickType ==
  ASSUME TypeOK, Tick
  PROVE  /\ call' \in [Call -> CallType]
         /\ writes' \in Seq(0 .. Oldest)
         /\ manifest' \in ManifestType /\ mappings' \in MappingsType
<1>1. \A age \in 0 .. Oldest : Older(age) \in 0 .. Oldest
  BY OldestType DEF Older
<1>2. call' \in [Call -> CallType]
  BY <1>1 DEF Tick, TypeOK, CallType
<1>3. writes' \in Seq(0 .. Oldest)
  <2>1. writes' \in [1 .. Len(writes) -> 0 .. Oldest] /\ Len(writes) \in Nat
    BY <1>1, LenProperties DEF Tick, TypeOK
  <2> QED
    BY <2>1, SeqDef
<1>4. manifest' \in ManifestType
  <2>1. manifest \in ManifestType /\ ManifestTtl \in Nat
    BY ConstantsAssumption DEF TypeOK, ManifestType
  <2>2. CASE manifest.age + 1 < ManifestTtl
    <3>1. [manifest EXCEPT !.age = manifest.age + 1] \in ManifestType
      BY <2>1, <2>2 DEF ManifestType
    <3> QED
      BY <2>2, <3>1 DEF Tick
  <2>3. CASE ~(manifest.age + 1 < ManifestTtl)
    BY <2>3, EmptyTypes DEF Tick
  <2> QED
    BY <2>2, <2>3
<1>5. mappings' \in MappingsType
  <2>1. mappings \in MappingsType /\ MappingTtl \in Nat
    BY ConstantsAssumption DEF TypeOK, MappingsType
  <2>2. CASE mappings.age + 1 < MappingTtl
    <3>1. [mappings EXCEPT !.age = mappings.age + 1] \in MappingsType
      BY <2>1, <2>2 DEF MappingsType
    <3> QED
      BY <2>2, <3>1 DEF Tick
  <2>3. CASE ~(mappings.age + 1 < MappingTtl)
    BY <2>3, EmptyTypes DEF Tick
  <2> QED
    BY <2>2, <2>3
<1> QED
  BY <1>2, <1>3, <1>4, <1>5

LEMMA TypeStep == TypeOK /\ [Next]_vars => TypeOK'
<1> SUFFICES ASSUME TypeOK, [Next]_vars
             PROVE  TypeOK'
  OBVIOUS
<1> USE DEF CallType, ManifestType, MappingsType
<1>1. ASSUME NEW c \in Call, NEW i \in Issuer, NEW status \in Status,
             NEW stage \in {"posted", "written"}, Change(c, i, status, stage)
      PROVE  TypeOK'
  <2>1. Now + 1 \in Nat
    BY LenProperties DEF TypeOK, Now
  <2>2. [[Idle EXCEPT !.stage = stage] EXCEPT !.version = Now + 1] \in CallType
    BY <2>1, EmptyTypes DEF Stage
  <2>3. call' \in [Call -> CallType]
    BY <1>1, <2>2, SlotType DEF Change
  <2>4. writes' \in Seq(0 .. Oldest)
    BY <1>1, WriteType DEF Change
  <2>5. issuers' \in [Issuer -> Status]
    BY <1>1 DEF Change, TypeOK
  <2> QED
    BY <1>1, <2>3, <2>4, <2>5 DEF Change, TypeOK
<1>2. ASSUME NEW c \in Call, Administer(c)
      PROVE  TypeOK'
  BY <1>1, <1>2 DEF Administer, PostIssuer, PutIssuer, DeleteIssuer, Status
<1>3. ASSUME NEW c \in Call, Bump(c)
      PROVE  TypeOK'
  <2>1. answered' \in Nat
    BY <1>3 DEF Bump, TypeOK, Longer
  <2>2. call' \in [Call -> CallType]
    BY <1>3, ReplyType DEF Bump
  <2>3. revision' \in Nat
    BY <1>3 DEF Bump, TypeOK
  <2>4. UNCHANGED <<tables, caches, section, closing, failures>>
    BY <1>3 DEF Bump
  <2> QED
    BY <2>1, <2>2, <2>3, <2>4 DEF TypeOK
<1>4. ASSUME NEW c \in Call, AnswerLost(c) \/ SigningFails(c)
      PROVE  TypeOK'
  BY <1>4, ReplyType, FailsType DEF AnswerLost, SigningFails, TypeOK
<1>5. ASSUME ChangeElsewhere \/ EditProfiles \/ Lapse
      PROVE  TypeOK'
  <2>1. writes' \in Seq(0 .. Oldest)
    BY <1>5, WriteType DEF ChangeElsewhere, EditProfiles, Lapse
  <2>2. issuers' \in [Issuer -> Status] /\ rows' \in SUBSET Row /\ lapsed' \in SUBSET Row
    BY <1>5 DEF ChangeElsewhere, EditProfiles, Lapse, TypeOK
  <2> QED
    BY <1>5, <2>1, <2>2 DEF ChangeElsewhere, EditProfiles, Lapse, TypeOK
<1>7. ASSUME NEW c \in Call, ServeManifest(c) \/ UseMappings(c)
      PROVE  TypeOK'
  BY <1>7 DEF ServeManifest, UseMappings, vars, TypeOK
<1>8. ASSUME NEW c \in Call, StartManifest(c)
      PROVE  TypeOK'
  <2>1. call' \in [Call -> CallType]
    <3>1. call[c] \in CallType /\ call \in [Call -> CallType] /\ revision \in Nat
      BY DEF TypeOK
    <3> DEFINE new == [[call[c] EXCEPT !.stage = "loading"] EXCEPT !.revision = revision]
    <3>2. new \in CallType
      BY <3>1 DEF Stage
    <3>3. call' = [call EXCEPT ![c] = new]
      BY <1>8 DEF StartManifest
    <3> HIDE DEF CallType
    <3> QED
      BY <3>1, <3>2, <3>3
  <2> QED
    BY <1>8, <2>1 DEF StartManifest, TypeOK
<1>9. /\ Now \in Versions
      /\ Shown \in (SUBSET Issuer) \cup (SUBSET Row)
      /\ rows \in (SUBSET Issuer) \cup (SUBSET Row)
  BY LenProperties DEF TypeOK, Now, Versions, Shown, Active
<1>10. ASSUME NEW c \in Call, LoadSection(c) \/ LoadMappings(c)
       PROVE  TypeOK'
  <2>1. call[c] \in CallType /\ call \in [Call -> CallType]
    BY DEF TypeOK
  <2>2. call' \in [Call -> CallType]
    <3>1. CASE LoadSection(c)
      <4> DEFINE new == [[[call[c] EXCEPT !.stage = "loaded"] EXCEPT !.shown = Shown]
                                   EXCEPT !.asOf = Now]
      <4>1. new \in CallType
        BY <1>9, <2>1 DEF Stage
      <4>2. call' = [call EXCEPT ![c] = new]
        BY <3>1 DEF LoadSection
      <4> HIDE DEF CallType
      <4> QED
        BY <2>1, <4>1, <4>2
    <3>2. CASE LoadMappings(c)
      <4> DEFINE new == [[[call[c] EXCEPT !.stage = "queried"] EXCEPT !.shown = rows]
                                   EXCEPT !.asOf = Now]
      <4>1. new \in CallType
        BY <1>9, <2>1 DEF Stage
      <4>2. call' = [call EXCEPT ![c] = new]
        BY <3>2 DEF LoadMappings
      <4> HIDE DEF CallType
      <4> QED
        BY <2>1, <4>1, <4>2
    <3> QED
      BY <1>10, <3>1, <3>2
  <2> QED
    BY <1>10, <2>2 DEF LoadSection, LoadMappings, TypeOK
<1>11. ASSUME NEW c \in Call, LoadFails(c)
       PROVE  TypeOK'
  <2>1. call' \in [Call -> CallType]
    BY <1>11, StageType DEF LoadFails, Stage
  <2> QED
    BY <1>11, <2>1, FailsType DEF LoadFails, TypeOK
<1>12. ASSUME NEW c \in Call, FinishManifest(c)
       PROVE  TypeOK'
  BY <1>12, ReplyType, EntryType DEF FinishManifest, TypeOK
<1>13. ASSUME NEW c \in Call, AskForMappings(c)
       PROVE  TypeOK'
  <2>1. call' \in [Call -> CallType]
    BY <1>13, StageType DEF AskForMappings, Stage
  <2> QED
    BY <1>13, <2>1 DEF AskForMappings, TypeOK
<1>14. ASSUME NEW c \in Call, MappingsArrive(c) \/ PoolClosed(c)
       PROVE  TypeOK'
  BY <1>14, ReplyType, KeepType DEF MappingsArrive, PoolClosed, TypeOK
<1>15. ASSUME NEW c \in Call, MappingsFail(c)
       PROVE  TypeOK'
  <2>1. call' \in [Call -> CallType]
    BY <1>15, StageType, ReplyType DEF MappingsFail, Stage
  <2> QED
    BY <1>15, <2>1, FailsType DEF MappingsFail, TypeOK
<1>16. ASSUME Restart
       PROVE  TypeOK'
  <2>1. call' \in [Call -> CallType] /\ manifest' \in ManifestType /\ mappings' \in MappingsType
    BY <1>16, EmptyTypes DEF Restart
  <2> QED
    BY <1>16, <2>1, FailsType DEF Restart, TypeOK
<1>17. ASSUME Tick
       PROVE  TypeOK'
  BY <1>17, TickType DEF Tick, TypeOK
<1>18. CASE UNCHANGED vars
  BY <1>18 DEF vars, TypeOK
<1> QED
  BY <1>2, <1>3, <1>4, <1>5, <1>7, <1>8, <1>10, <1>11, <1>12, <1>13, <1>14, <1>15, <1>16,
     <1>17, <1>18
  DEF Next, Begin, Advance, Mishap

(* Every state has its type, and a verdict that is a row is a trusted one   *)
(* (wellknown.js, governanceState.js, semanticResolver.js).                 *)
THEOREM TypeCorrect == Spec => []TypeOK
  BY TypeInit, TypeStep, PTL DEF Spec

-----------------------------------------------------------------------------
(* What was read is as old as its age says, and no older.                   *)

(* A change that what was read at asOf misses is no older than age. *)
Fresh(asOf, age) ==
    asOf # Lost => \A v \in DOMAIN writes : v > asOf => writes[v] <= age

CallInv(c) ==
    /\ call[c].stage \notin {"loaded", "queried"} => call[c].asOf = Lost
    /\ Fresh(call[c].asOf, call[c].age)
    /\ call[c].version <= Now
    /\ call[c].revision <= revision
    /\ At(c, "loaded") /\ call[c].revision = revision /\ call[c].asOf # Lost
         => call[c].asOf >= answered

CacheInv ==
    /\ Fresh(manifest.asOf, manifest.age)
    /\ Fresh(mappings.asOf, mappings.age)
    /\ manifest.revision <= revision
    /\ manifest.revision = revision /\ manifest.asOf # Lost => manifest.asOf >= answered

IInv == (\A c \in Call : CallInv(c)) /\ CacheInv /\ answered <= Now

LEMMA InvInit == Init => IInv
  BY DEF Init, IInv, CallInv, CacheInv, Fresh, Idle, NoManifest, NoMappings, Lost, Now

(* A step keeps the history if it changes no entry of it and adds at most a  *)
(* change that has just been made.                                           *)
HistoryKept ==
    /\ DOMAIN writes \subseteq DOMAIN writes'
    /\ \A v \in DOMAIN writes' : writes'[v] = 0 \/ (v \in DOMAIN writes /\ writes'[v] = writes[v])
    /\ Now <= Now'

LEMMA WriteKeeps ==
  ASSUME TypeOK, Write
  PROVE  HistoryKept
<1>1. writes \in Seq(0 .. Oldest) /\ Len(writes) \in Nat /\ DOMAIN writes = 1 .. Len(writes)
  BY LenProperties DEF TypeOK
<1>2. /\ Len(writes') = Len(writes) + 1
      /\ DOMAIN writes' = 1 .. Len(writes) + 1
      /\ \A v \in 1 .. Len(writes) : writes'[v] = writes[v]
      /\ writes'[Len(writes) + 1] = 0
  BY <1>1, OldestType DEF Write
<1> QED
  <2>1. DOMAIN writes \subseteq DOMAIN writes' /\ Now <= Now'
    BY <1>1, <1>2 DEF Now
  <2>2. ASSUME NEW v \in DOMAIN writes'
        PROVE  writes'[v] = 0 \/ (v \in DOMAIN writes /\ writes'[v] = writes[v])
    <3>1. CASE v \in 1 .. Len(writes)
      BY <1>1, <1>2, <3>1
    <3>2. CASE v = Len(writes) + 1
      BY <1>2, <3>2
    <3> QED
      BY <1>1, <1>2, <3>1, <3>2
  <2> QED
    BY <2>1, <2>2 DEF HistoryKept

LEMMA SameHistory == ASSUME TypeOK, writes' = writes PROVE HistoryKept
  BY DEF HistoryKept, TypeOK, Now

LEMMA FreshKept ==
  ASSUME HistoryKept, NEW asOf, NEW age \in Nat, Fresh(asOf, age)
  PROVE  Fresh(asOf, age)'
  BY DEF HistoryKept, Fresh

(* What is read now misses nothing. *)
LEMMA FreshNow ==
  ASSUME TypeOK, NEW age
  PROVE  Fresh(Now, age)
  BY DEF TypeOK, Fresh, Now

(* A slot that a step does not touch keeps its part of the invariant, if no  *)
(* change is answered without a new revision.                                *)
LEMMA Untouched ==
  ASSUME TypeOK, TypeOK', HistoryKept, NEW c \in Call, CallInv(c), call'[c] = call[c],
         (revision' = revision /\ answered' = answered) \/ revision' = revision + 1
  PROVE  CallInv(c)'
<1>1. /\ call[c].age \in Nat /\ call[c].version \in Nat /\ call[c].revision \in Nat
      /\ revision \in Nat /\ revision' \in Nat /\ Now \in Nat /\ Now' \in Nat
  BY OldestType, LenProperties DEF TypeOK, Now
<1>2. Fresh(call[c].asOf, call[c].age)'
  BY <1>1, FreshKept DEF CallInv
<1>3. call[c].version <= Now' /\ call[c].revision <= revision'
  BY <1>1 DEF CallInv, HistoryKept
<1>4. revision' = revision + 1 => call[c].revision # revision'
  BY <1>1 DEF CallInv
<1> QED
  BY <1>2, <1>3, <1>4 DEF CallInv, Fresh

(* Caches that a step does not touch.                                        *)
LEMMA SameCaches ==
  ASSUME TypeOK, TypeOK', HistoryKept, CacheInv, UNCHANGED caches,
         (revision' = revision /\ answered' = answered) \/ revision' = revision + 1
  PROVE  CacheInv'
<1>1. /\ manifest.age \in Nat /\ mappings.age \in Nat
      /\ manifest.revision \in Int /\ revision \in Nat
  BY ConstantsAssumption DEF TypeOK
<1>2. Fresh(manifest.asOf, manifest.age)' /\ Fresh(mappings.asOf, mappings.age)'
  BY <1>1, FreshKept DEF CacheInv
<1>3. /\ manifest.revision <= revision'
      /\ revision' = revision + 1 => manifest.revision # revision'
  BY <1>1 DEF CacheInv
<1> QED
  BY <1>2, <1>3 DEF CacheInv, Fresh

(* A step of one request, whose slot keeps its part. *)
LEMMA OneCall ==
  ASSUME TypeOK, TypeOK', IInv, HistoryKept, NEW c \in Call,
         \A d \in Call : d # c => call'[d] = call[d],
         CallInv(c)', CacheInv', answered' <= Now',
         (revision' = revision /\ answered' = answered) \/ revision' = revision + 1
  PROVE  IInv'
<1>1. ASSUME NEW d \in Call
      PROVE  CallInv(d)'
  <2>1. CASE d = c
    BY <2>1
  <2>2. CASE d # c
    BY <2>2, Untouched DEF IInv
  <2> QED
    BY <2>1, <2>2
<1> QED
  BY <1>1 DEF IInv

(* A slot between requests says nothing that could be wrong. *)
LEMMA IdleInv ==
  ASSUME TypeOK', NEW c \in Call, call'[c] = Idle
  PROVE  CallInv(c)'
<1>1. revision' \in Nat /\ Now' \in Nat
  BY LenProperties DEF TypeOK, Now
<1> QED
  BY <1>1 DEF CallInv, Fresh, Idle

LEMMA AnsweredBefore ==
  ASSUME TypeOK, TypeOK', IInv, HistoryKept, answered' = answered
  PROVE  answered' <= Now'
<1>1. Now \in Nat /\ Now' \in Nat /\ answered \in Nat
  BY LenProperties DEF TypeOK, Now
<1> QED
  BY <1>1 DEF IInv, HistoryKept

(* A request that only ends. *)
LEMMA ReplyKeeps ==
  ASSUME TypeOK, TypeOK', IInv, NEW c \in Call, Reply(c), UNCHANGED <<writes, revision, answered>>,
         CacheInv'
  PROVE  IInv'
<1>1. call'[c] = Idle /\ \A d \in Call : d # c => call'[d] = call[d]
  BY DEF Reply, TypeOK
<1>2. HistoryKept
  BY SameHistory
<1>3. answered' <= Now'
  BY <1>2, AnsweredBefore
<1> QED
  BY <1>1, <1>2, <1>3, IdleInv, OneCall

(* A request that only moves on, to a stage at which nothing has been read. *)
LEMMA StageKeeps ==
  ASSUME TypeOK, TypeOK', IInv, NEW c \in Call, NEW stage \in Stage,
         call[c].asOf = Lost, call' = [call EXCEPT ![c].stage = stage],
         UNCHANGED <<writes, revision, answered, caches>>
  PROVE  IInv'
<1>1. \A d \in Call : d # c => call'[d] = call[d]
  BY DEF TypeOK
<1>2. /\ call'[c].asOf = Lost /\ call'[c].version = call[c].version
      /\ call'[c].revision = call[c].revision
  BY DEF TypeOK
<1>3. HistoryKept
  BY SameHistory
<1>4. answered' <= Now' /\ CacheInv'
  BY <1>3, AnsweredBefore, SameCaches DEF IInv
<1>5. CallInv(c)'
  BY <1>2 DEF IInv, CallInv, Fresh, Now
<1> QED
  BY <1>1, <1>3, <1>4, <1>5, OneCall

(* What is cached on arrival is what the request has read. *)
LEMMA FinishKeeps ==
  ASSUME TypeOK, TypeOK', IInv, NEW c \in Call, FinishManifest(c)
  PROVE  CacheInv'
<1>1. UNCHANGED <<writes, revision, answered, mappings>>
  BY DEF FinishManifest
<1>2. Fresh(mappings.asOf, mappings.age)'
  BY <1>1 DEF IInv, CacheInv, Fresh
<1>3. CallInv(c) /\ At(c, "loaded") /\ revision \in Nat
  BY DEF IInv, FinishManifest, TypeOK
<1>4. CASE manifest' = NoManifest
  BY <1>1, <1>2, <1>3, <1>4 DEF CacheInv, Fresh, NoManifest
<1>5. CASE manifest' = NewEntry(c)
  <2>1. /\ manifest'.asOf = call[c].asOf /\ manifest'.age = call[c].age
        /\ manifest'.revision = call[c].revision
    BY <1>5 DEF NewEntry, Entry
  <2> QED
    BY <1>1, <1>2, <1>3, <2>1 DEF CacheInv, CallInv, Fresh
<1> QED
  BY <1>4, <1>5 DEF FinishManifest, Expired

LEMMA KeepKeeps ==
  ASSUME TypeOK, IInv, NEW c \in Call, Keep(c),
         UNCHANGED <<writes, revision, answered, manifest>>
  PROVE  CacheInv'
<1>1. CallInv(c) /\ CacheInv
  BY DEF IInv
<1>2. CASE mappings' = NoMappings
  BY <1>1, <1>2 DEF CacheInv, Fresh, NoMappings
<1>3. CASE mappings'.asOf = call[c].asOf /\ mappings'.age = call[c].age
  BY <1>1, <1>3 DEF CacheInv, CallInv, Fresh
<1> QED
  BY <1>2, <1>3 DEF Keep

(* Time passes for what was read as it passes for the changes. *)
LEMMA FreshTick ==
  ASSUME TypeOK, Tick, NEW asOf, NEW age \in 0 .. Oldest, Fresh(asOf, age)
  PROVE  asOf # Lost => \A v \in DOMAIN writes' : v > asOf => writes'[v] <= Older(age)
<1>1. /\ DOMAIN writes' = DOMAIN writes
      /\ \A v \in DOMAIN writes : writes'[v] = Older(writes[v]) /\ writes[v] \in 0 .. Oldest
  <2>1. writes \in Seq(0 .. Oldest)
    BY DEF TypeOK
  <2>2. \A v \in DOMAIN writes : writes[v] \in 0 .. Oldest
    BY <2>1, LenProperties, ElementOfSeq
  <2> QED
    BY <2>2 DEF Tick
<1>2. \A a \in 0 .. Oldest : a <= age => Older(a) <= Older(age)
  BY OldestType DEF Older
<1>3. ASSUME NEW v \in DOMAIN writes, asOf # Lost, v > asOf
      PROVE  writes'[v] <= Older(age)
  BY <1>1, <1>2, <1>3 DEF Fresh
<1> QED
  BY <1>1, <1>3

LEMMA TickKeeps ==
  ASSUME TypeOK, TypeOK', IInv, Tick
  PROVE  IInv'
<1>1. UNCHANGED <<revision, answered>> /\ Now' = Now /\ answered' <= Now'
  <2>1. writes \in Seq(0 .. Oldest) /\ writes' \in Seq(0 .. Oldest) /\ DOMAIN writes' = DOMAIN writes
    BY DEF TypeOK, Tick
  <2> QED
    BY <2>1, LenProperties DEF Tick, Now, IInv
<1>2. ASSUME NEW c \in Call
      PROVE  CallInv(c)'
  <2> DEFINE moves == call[c].stage \in {"loading", "loaded", "querying", "queried", "closing"}
  <2>1. CallInv(c) /\ call[c].age \in 0 .. Oldest
    BY DEF IInv, TypeOK
  <2>2. /\ call'[c].stage = call[c].stage /\ call'[c].asOf = call[c].asOf
        /\ call'[c].version = call[c].version /\ call'[c].revision = call[c].revision
        /\ moves => call'[c].age = Older(call[c].age)
    BY DEF Tick, TypeOK
  <2>3. ~moves => call[c].asOf = Lost
    BY <2>1 DEF CallInv
  <2>4. call[c].asOf # Lost =>
          \A v \in DOMAIN writes' : v > call[c].asOf => writes'[v] <= Older(call[c].age)
    BY <2>1, FreshTick DEF CallInv
  <2>5. Fresh(call[c].asOf, call[c].age)'
    BY <2>2, <2>3, <2>4 DEF Fresh
  <2> QED
    BY <1>1, <2>1, <2>2, <2>5 DEF CallInv
<1>3. CacheInv'
  <2>1. CacheInv /\ manifest.age \in 0 .. ManifestTtl /\ mappings.age \in 0 .. MappingTtl
    BY DEF IInv, TypeOK
  <2>2. manifest.age \in 0 .. Oldest /\ mappings.age \in 0 .. Oldest
    BY <2>1, OldestType, ConstantsAssumption
  <2>3. /\ manifest.asOf # Lost =>
             \A v \in DOMAIN writes' : v > manifest.asOf => writes'[v] <= Older(manifest.age)
        /\ mappings.asOf # Lost =>
             \A v \in DOMAIN writes' : v > mappings.asOf => writes'[v] <= Older(mappings.age)
    BY <2>1, <2>2, FreshTick DEF CacheInv
  <2>4. /\ Fresh(manifest.asOf, manifest.age)'
        /\ manifest'.revision <= revision'
        /\ manifest'.revision = revision' /\ manifest'.asOf # Lost => manifest'.asOf >= answered'
    <3>1. CASE manifest' = NoManifest
      BY <1>1, <3>1 DEF Fresh, NoManifest, TypeOK
    <3>2. CASE manifest' = [manifest EXCEPT !.age = @ + 1] /\ manifest.age + 1 < ManifestTtl
      <4>1. /\ manifest'.asOf = manifest.asOf /\ manifest'.revision = manifest.revision
            /\ manifest'.age = manifest.age + 1
        BY <3>2 DEF TypeOK
      <4>2. manifest'.age = Older(manifest.age)
        BY <2>1, <3>2, <4>1, OldestType, ConstantsAssumption DEF Older
      <4> QED
        BY <1>1, <2>1, <2>3, <4>1, <4>2 DEF CacheInv, Fresh
    <3> QED
      BY <3>1, <3>2 DEF Tick
  <2>5. Fresh(mappings.asOf, mappings.age)'
    <3>1. CASE mappings' = NoMappings
      BY <3>1 DEF Fresh, NoMappings
    <3>2. CASE mappings' = [mappings EXCEPT !.age = @ + 1] /\ mappings.age + 1 < MappingTtl
      <4>1. mappings'.asOf = mappings.asOf /\ mappings'.age = mappings.age + 1
        BY <3>2 DEF TypeOK
      <4>2. mappings'.age = Older(mappings.age)
        BY <2>1, <3>2, <4>1, OldestType, ConstantsAssumption DEF Older
      <4> QED
        BY <2>3, <4>1, <4>2 DEF Fresh
    <3> QED
      BY <3>1, <3>2 DEF Tick
  <2> QED
    BY <2>4, <2>5 DEF CacheInv
<1> QED
  BY <1>1, <1>2, <1>3 DEF IInv

(* A change through this process: its slot knows which one it was. *)
LEMMA ChangeKeeps ==
  ASSUME TypeOK, TypeOK', IInv, NEW c \in Call, NEW i \in Issuer, NEW status \in Status,
         NEW stage \in {"posted", "written"}, Change(c, i, status, stage)
  PROVE  IInv'
<1>1. /\ \A d \in Call : d # c => call'[d] = call[d]
      /\ call'[c] = [Idle EXCEPT !.stage = stage, !.version = Now + 1]
  BY DEF Change, TypeOK
<1>2. /\ call'[c].stage = stage /\ call'[c].asOf = Lost
      /\ call'[c].version = Now + 1 /\ call'[c].revision = 0
  BY <1>1 DEF Idle
<1>3. HistoryKept /\ Now' = Now + 1
  <2>1. Write /\ writes \in Seq(0 .. Oldest)
    BY DEF Change, TypeOK
  <2>2. Len(writes') = Len(writes) + 1
    BY <2>1, OldestType DEF Write
  <2> QED
    BY <2>1, <2>2, WriteKeeps DEF Now
<1>4. Now \in Nat /\ revision' \in Nat /\ UNCHANGED <<revision, answered, caches>>
  BY LenProperties DEF Change, Now, TypeOK
<1>5. CallInv(c)'
  BY <1>2, <1>3, <1>4 DEF CallInv, Fresh
<1>6. CacheInv' /\ answered' <= Now'
  BY <1>3, <1>4, SameCaches, AnsweredBefore DEF IInv
<1> QED
  BY <1>1, <1>3, <1>4, <1>5, <1>6, OneCall

(* A change that this process has no part in. *)
LEMMA OutsideKeeps ==
  ASSUME TypeOK, TypeOK', IInv, ChangeElsewhere \/ EditProfiles \/ Lapse
  PROVE  IInv'
<1>1. HistoryKept /\ UNCHANGED <<revision, answered, caches, call>>
  BY WriteKeeps DEF ChangeElsewhere, EditProfiles, Lapse
<1>2. CacheInv' /\ answered' <= Now'
  BY <1>1, SameCaches, AnsweredBefore DEF IInv
<1>3. ASSUME NEW d \in Call
      PROVE  CallInv(d)'
  BY <1>1, Untouched DEF IInv
<1> QED
  BY <1>2, <1>3 DEF IInv

(* The answer comes with a new revision: nothing that was begun before is    *)
(* taken for a manifest of this one.                                         *)
LEMMA BumpKeeps ==
  ASSUME TypeOK, TypeOK', IInv, NEW c \in Call, Bump(c)
  PROVE  IInv'
<1>1. call'[c] = Idle /\ \A d \in Call : d # c => call'[d] = call[d]
  BY DEF Bump, Reply, TypeOK
<1>2. HistoryKept /\ revision' = revision + 1 /\ UNCHANGED caches
  BY SameHistory DEF Bump
<1>3. CacheInv'
  BY <1>2, SameCaches DEF IInv
<1>4. answered' <= Now'
  <2>1. call[c].version <= Now /\ answered <= Now
    BY DEF IInv, CallInv
  <2> QED
    BY <2>1 DEF Bump, Longer, Now
<1> QED
  BY <1>1, <1>2, <1>3, <1>4, IdleInv, OneCall

(* A request notes the revision before it reads anything. *)
LEMMA StartKeeps ==
  ASSUME TypeOK, TypeOK', IInv, NEW c \in Call, StartManifest(c)
  PROVE  IInv'
<1>1. /\ \A d \in Call : d # c => call'[d] = call[d]
      /\ call'[c].stage = "loading" /\ call'[c].asOf = call[c].asOf
      /\ call'[c].version = call[c].version /\ call'[c].revision = revision
  BY DEF StartManifest, TypeOK
<1>2. HistoryKept /\ UNCHANGED <<writes, revision, answered, caches>>
  BY SameHistory DEF StartManifest
<1>3. CacheInv' /\ answered' <= Now'
  BY <1>2, SameCaches, AnsweredBefore DEF IInv
<1>4. call[c].asOf = Lost /\ call[c].version <= Now /\ revision \in Nat
  BY DEF IInv, CallInv, StartManifest, TypeOK
<1>5. CallInv(c)'
  BY <1>1, <1>2, <1>4 DEF CallInv, Fresh, Now
<1> QED
  BY <1>1, <1>2, <1>3, <1>5, OneCall

(* What a query returns misses no change, answered or not. *)
LEMMA LoadKeeps ==
  ASSUME TypeOK, TypeOK', IInv, NEW c \in Call, LoadSection(c) \/ LoadMappings(c)
  PROVE  IInv'
<1>1. /\ \A d \in Call : d # c => call'[d] = call[d]
      /\ call'[c].asOf = Now /\ call'[c].stage \in {"loaded", "queried"}
      /\ call'[c].version = call[c].version /\ call'[c].revision = call[c].revision
  BY DEF LoadSection, LoadMappings, TypeOK
<1>2. HistoryKept /\ UNCHANGED <<writes, revision, answered, caches>>
  BY SameHistory DEF LoadSection, LoadMappings
<1>3. CacheInv' /\ answered' <= Now'
  BY <1>2, SameCaches, AnsweredBefore DEF IInv
<1>4. /\ call[c].version <= Now /\ call[c].revision <= revision /\ answered <= Now
      /\ answered \in Nat /\ Now \in Nat
  BY LenProperties DEF IInv, CallInv, TypeOK, Now
<1>5. \A v \in DOMAIN writes' : ~(v > Now)
  BY <1>2, LenProperties DEF Now, TypeOK
<1>6. Fresh(call[c].asOf, call[c].age)'
  BY <1>1, <1>5 DEF Fresh
<1>7. CallInv(c)'
  BY <1>1, <1>2, <1>4, <1>6 DEF CallInv, Now
<1> QED
  BY <1>1, <1>2, <1>3, <1>7, OneCall

LEMMA LoadFailsKeeps ==
  ASSUME TypeOK, TypeOK', IInv, NEW c \in Call, LoadFails(c)
  PROVE  IInv'
<1>1. call[c].asOf = Lost
  BY DEF IInv, CallInv, LoadFails
<1> QED
  BY <1>1, StageKeeps DEF LoadFails, Stage

LEMMA RestartKeeps ==
  ASSUME TypeOK, TypeOK', IInv, Restart
  PROVE  IInv'
<1>1. ASSUME NEW c \in Call
      PROVE  CallInv(c)'
  <2>1. call'[c] = Idle
    BY DEF Restart
  <2> QED
    BY <2>1, IdleInv
<1>2. CacheInv'
  BY DEF Restart, CacheInv, Fresh, NoManifest, NoMappings
<1>3. answered' <= Now'
  BY LenProperties DEF Restart, Now, TypeOK
<1> QED
  BY <1>1, <1>2, <1>3 DEF IInv

LEMMA InvStep == TypeOK /\ IInv /\ [Next]_vars => IInv'
<1> SUFFICES ASSUME TypeOK, IInv, [Next]_vars
             PROVE  IInv'
  OBVIOUS
<1>0. TypeOK'
  BY TypeStep
<1>1. ASSUME UNCHANGED <<writes, revision, answered, caches>>
      PROVE  CacheInv'
  BY <1>0, <1>1, SameHistory, SameCaches DEF IInv
<1>2. ASSUME NEW c \in Call, Administer(c)
      PROVE  IInv'
  BY <1>0, <1>2, ChangeKeeps DEF Administer, PostIssuer, PutIssuer, DeleteIssuer, Status
<1>3. ASSUME NEW c \in Call, Bump(c)
      PROVE  IInv'
  BY <1>0, <1>3, BumpKeeps
<1>4. ASSUME NEW c \in Call, AnswerLost(c) \/ SigningFails(c)
      PROVE  IInv'
  <2>1. Reply(c) /\ UNCHANGED <<writes, revision, answered, caches>>
    BY <1>4 DEF AnswerLost, SigningFails
  <2> QED
    BY <1>0, <1>1, <2>1, ReplyKeeps
<1>5. CASE ChangeElsewhere \/ EditProfiles \/ Lapse
  BY <1>0, <1>5, OutsideKeeps
<1>6. ASSUME NEW c \in Call, AskForMappings(c)
      PROVE  IInv'
  <2>1. /\ \E stage \in Stage : call' = [call EXCEPT ![c].stage = stage]
        /\ UNCHANGED <<writes, revision, answered, caches>>
        /\ call[c].stage = "idle"
    BY <1>6 DEF AskForMappings, Stage
  <2>2. call[c].asOf = Lost
    BY <2>1 DEF IInv, CallInv
  <2> QED
    BY <1>0, <2>1, <2>2, StageKeeps
<1>7. ASSUME NEW c \in Call, StartManifest(c)
      PROVE  IInv'
  BY <1>0, <1>7, StartKeeps
<1>8. ASSUME NEW c \in Call, LoadSection(c) \/ LoadMappings(c)
      PROVE  IInv'
  BY <1>0, <1>8, LoadKeeps
<1>9. ASSUME NEW c \in Call, LoadFails(c)
      PROVE  IInv'
  BY <1>0, <1>9, LoadFailsKeeps
<1>10. ASSUME NEW c \in Call, FinishManifest(c)
       PROVE  IInv'
  <2>1. Reply(c) /\ UNCHANGED <<writes, revision, answered>>
    BY <1>10 DEF FinishManifest
  <2> QED
    BY <1>0, <1>10, <2>1, FinishKeeps, ReplyKeeps
<1>11. ASSUME NEW c \in Call, MappingsArrive(c) \/ PoolClosed(c)
       PROVE  IInv'
  <2>1. Keep(c) /\ Reply(c) /\ UNCHANGED <<writes, revision, answered, manifest>>
    BY <1>11 DEF MappingsArrive, PoolClosed
  <2> QED
    BY <1>0, <2>1, KeepKeeps, ReplyKeeps
<1>12. ASSUME NEW c \in Call, MappingsFail(c)
       PROVE  IInv'
  <2>1. UNCHANGED <<writes, revision, answered, caches>>
    BY <1>12 DEF MappingsFail
  <2>2. call[c].asOf = Lost
    BY <1>12 DEF MappingsFail, IInv, CallInv
  <2>3. CASE Reply(c)
    BY <1>0, <1>1, <2>1, <2>3, ReplyKeeps
  <2>4. CASE call' = [call EXCEPT ![c].stage = "closing"]
    BY <1>0, <2>1, <2>2, <2>4, StageKeeps DEF Stage
  <2> QED
    BY <1>12, <2>3, <2>4 DEF MappingsFail
<1>13. CASE Restart
  BY <1>0, <1>13, RestartKeeps
<1>14. CASE Tick
  BY <1>0, <1>14, TickKeeps
<1>15. CASE UNCHANGED vars \/ \E c \in Call : ServeManifest(c) \/ UseMappings(c)
  <2>1. UNCHANGED vars
    BY <1>15 DEF ServeManifest, UseMappings
  <2> QED
    BY <2>1 DEF vars, IInv, CallInv, CacheInv, Fresh, Now
<1> QED
  BY <1>2, <1>3, <1>4, <1>5, <1>6, <1>7, <1>8, <1>9, <1>10, <1>11, <1>12, <1>13, <1>14, <1>15
  DEF Next, Begin, Advance, Mishap

(* The inductive invariant: what was read is as old as its age says.        *)
THEOREM Invariant == Spec => [](TypeOK /\ IInv)
<1>1. Init => TypeOK /\ IInv
  BY TypeInit, InvInit
<1>2. TypeOK /\ IInv /\ [Next]_vars => (TypeOK /\ IInv)'
  BY TypeStep, InvStep
<1> QED
  BY <1>1, <1>2, PTL DEF Spec

-----------------------------------------------------------------------------
(* What follows from it.                                                   *)

(* A change that this process has answered is in every manifest it serves   *)
(* afterwards (cachedRevision, bumpGovernanceRevision).                     *)
THEOREM OwnChangesAlwaysShow == Spec => []OwnChangesShow
<1>1. TypeOK /\ IInv => OwnChangesShow
  BY DEF IInv, CacheInv, OwnChangesShow, Usable
<1> QED
  BY <1>1, Invariant, PTL

(* A manifest served from the cache misses no change older than its hour,   *)
(* and one that its request has put together none from before the request   *)
(* (cacheExpiresAt); a section whose query failed is left out.              *)
THEOREM ManifestNeverLags == Spec => []ManifestLagBounded
<1>1. ASSUME TypeOK, IInv, NEW v \in DOMAIN writes
      PROVE  /\ Usable /\ manifest.asOf # Lost /\ writes[v] >= ManifestTtl => v <= manifest.asOf
             /\ \A c \in Call :
                  At(c, "loaded") /\ call[c].asOf # Lost /\ writes[v] > call[c].age
                    => v <= call[c].asOf
  <2>1. writes[v] \in Nat /\ v \in Nat
    BY <1>1, ElementOfSeq, LenProperties, OldestType DEF TypeOK
  <2>2. ASSUME Usable, manifest.asOf # Lost, writes[v] >= ManifestTtl
        PROVE  v <= manifest.asOf
    <3>1. manifest.asOf \in Nat /\ manifest.age \in Nat
      BY <1>1, <2>2, ConstantsAssumption DEF TypeOK, Versions
    <3>2. ~(v > manifest.asOf)
      BY <1>1, <2>1, <2>2, <3>1, ConstantsAssumption DEF IInv, CacheInv, Fresh, Usable
    <3> QED
      BY <2>1, <3>1, <3>2
  <2>3. ASSUME NEW c \in Call, call[c].asOf # Lost, writes[v] > call[c].age
        PROVE  v <= call[c].asOf
    <3>1. call[c].asOf \in Nat /\ call[c].age \in Nat
      BY <1>1, <2>3, OldestType DEF TypeOK, Versions
    <3>2. ~(v > call[c].asOf)
      BY <1>1, <2>1, <2>3, <3>1 DEF IInv, CallInv, Fresh
    <3> QED
      BY <2>1, <3>1, <3>2
  <2> QED
    BY <2>2, <2>3
<1>2. TypeOK /\ IInv => ManifestLagBounded
  BY <1>1 DEF ManifestLagBounded
<1> QED
  BY <1>2, Invariant, PTL

(* And no mappings that miss an older change than their minute              *)
(* (loadMappings).                                                          *)
THEOREM MappingsNeverLag == Spec => []MappingsLagBounded
<1>1. ASSUME TypeOK, IInv
      PROVE  MappingsLagBounded
  <2> SUFFICES ASSUME NEW v \in DOMAIN writes, mappings.age < MappingTtl,
                      mappings.asOf # Lost, writes[v] >= MappingTtl
               PROVE  v <= mappings.asOf
    BY DEF MappingsLagBounded
  <2>1. /\ writes[v] \in Nat /\ v \in Nat /\ mappings.asOf \in Nat /\ mappings.age \in Nat
    BY <1>1, ElementOfSeq, LenProperties, OldestType DEF TypeOK, Versions
  <2>2. ~(v > mappings.asOf)
    BY <1>1, <2>1, ConstantsAssumption DEF IInv, CacheInv, Fresh
  <2> QED
    BY <2>1, <2>2
<1> QED
  BY <1>1, Invariant, PTL

-----------------------------------------------------------------------------
(* The stages of a request.                                                *)

(* How many steps a stage has before the answer. *)
Rank == [posted |-> 1, written |-> 1, loading |-> 2, loaded |-> 1,
         querying |-> 2, queried |-> 1, closing |-> 1, idle |-> 0]

Lower(c) == Rank[call'[c].stage] < Rank[call[c].stage]

LEMMA RankValues ==
    /\ Rank["posted"] = 1 /\ Rank["written"] = 1
    /\ Rank["loading"] = 2 /\ Rank["loaded"] = 1
    /\ Rank["querying"] = 2 /\ Rank["queried"] = 1 /\ Rank["closing"] = 1 /\ Rank["idle"] = 0
  BY DEF Rank

(* What a step does to its own request. *)
LEMMA StepLowers ==
  ASSUME TypeOK, NEW c \in Call, Advance(c) \/ Mishap(c)
  PROVE  /\ Lower(c) /\ call[c].stage # "idle"
         /\ call'[c].stage = "closing" => MappingsFail(c)
         /\ \A d \in Call : d # c => call'[d] = call[d]
<1>1. call \in [Call -> CallType]
  BY DEF TypeOK, CallType
<1> USE RankValues DEF Lower
<1>2. ASSUME Reply(c), call[c].stage # "idle"
      PROVE  /\ Lower(c) /\ call'[c].stage = "idle"
             /\ \A d \in Call : d # c => call'[d] = call[d]
  <2>1. call'[c].stage = "idle" /\ \A d \in Call : d # c => call'[d] = call[d]
    BY <1>1, <1>2 DEF Reply, Idle
  <2>2. call[c].stage \in Stage \ {"idle"}
    BY <1>1, <1>2 DEF CallType
  <2>3. 0 < Rank[call[c].stage]
    BY <2>2 DEF Stage
  <2> QED
    BY <2>1, <2>3
<1>3. CASE Bump(c) \/ AnswerLost(c) \/ FinishManifest(c) \/ SigningFails(c)
  BY <1>2, <1>3, Zenon DEF Bump, AnswerLost, FinishManifest, SigningFails
<1>4. CASE MappingsArrive(c) \/ PoolClosed(c) \/ (MappingsFail(c) /\ closing)
  BY <1>2, <1>4, Zenon DEF MappingsArrive, PoolClosed, MappingsFail
<1>6. CASE LoadSection(c) \/ LoadFails(c) \/ LoadMappings(c)
  BY <1>1, <1>6 DEF LoadSection, LoadFails, LoadMappings, CallType
<1>7. CASE MappingsFail(c) /\ ~closing
  BY <1>1, <1>7 DEF MappingsFail, CallType
<1> QED
  BY <1>3, <1>4, <1>6, <1>7, Zenon DEF Advance, Mishap

(* And what the other steps do to any request. *)
LEMMA OtherSteps ==
  ASSUME TypeOK, NEW d \in Call,
         \/ \E c \in Call : Begin(c) \/ Administer(c)
         \/ ChangeElsewhere \/ EditProfiles \/ Lapse \/ Restart \/ Tick
  PROVE  \/ call'[d].stage = call[d].stage
         \/ call'[d].stage = "idle" /\ Restart
         \/ call[d].stage = "idle" /\ call'[d].stage \in {"posted", "written", "loading", "querying"}
<1>1. call \in [Call -> CallType]
  BY DEF TypeOK, CallType
<1>2. ASSUME NEW c \in Call, Begin(c)
      PROVE  \/ call'[d].stage = call[d].stage
             \/ call[d].stage = "idle" /\ call'[d].stage \in {"loading", "querying"}
  BY <1>1, <1>2
  DEF Begin, ServeManifest, UseMappings, StartManifest, AskForMappings, vars, CallType
<1>3. ASSUME NEW c \in Call, NEW i, NEW status, NEW stage, Change(c, i, status, stage)
      PROVE  \/ call'[d].stage = call[d].stage
             \/ call[d].stage = "idle" /\ call'[d].stage = stage
  BY <1>1, <1>3 DEF Change, Idle
<1>4. ASSUME NEW c \in Call, Administer(c)
      PROVE  \/ call'[d].stage = call[d].stage
             \/ call[d].stage = "idle" /\ call'[d].stage \in {"posted", "written"}
  BY <1>3, <1>4 DEF Administer, PostIssuer, PutIssuer, DeleteIssuer
<1>5. CASE ChangeElsewhere \/ EditProfiles \/ Lapse
  BY <1>5 DEF ChangeElsewhere, EditProfiles, Lapse
<1>6. CASE Restart
  BY <1>6 DEF Restart, Idle
<1>7. CASE Tick
  BY <1>1, <1>7 DEF Tick, CallType
<1> QED
  BY <1>2, <1>4, <1>5, <1>6, <1>7

(* A request comes nearer to its answer with each of its steps, and is      *)
(* never sent back: a load is not repeated, and one that fails is answered  *)
(* with what there is (loadMappings, loadTrustedIssuerSummary).             *)
Nearer ==
    \A c \in Call :
      call'[c].stage # call[c].stage /\ call[c].stage # "idle" => Lower(c)

THEOREM RequestsTerminate == Spec => [][Nearer]_vars
<1>1. ASSUME TypeOK, Next
      PROVE  Nearer
  <2> SUFFICES ASSUME NEW d \in Call, call'[d].stage # call[d].stage, call[d].stage # "idle"
               PROVE  Lower(d)
    BY DEF Nearer
  <2>1. ASSUME NEW c \in Call, Advance(c) \/ Mishap(c)
        PROVE  Lower(d)
    BY <1>1, <2>1, StepLowers
  <2>2. ASSUME call'[d].stage = "idle"
        PROVE  Lower(d)
    <3>1. call[d].stage \in Stage \ {"idle"}
      BY <1>1 DEF TypeOK
    <3> QED
      BY <2>2, <3>1, RankValues DEF Lower, Stage
  <2> QED
    BY <1>1, <2>1, <2>2, OtherSteps DEF Next
<1>2. TypeOK /\ [Next]_vars => [Nearer]_vars
  BY <1>1
<1> QED
  BY <1>2, TypeCorrect, PTL DEF Spec

-----------------------------------------------------------------------------
(* Who closes the pool.                                                    *)

(* While the pool is closed, exactly one request closes it, and opens it again. *)
ClosedByOne ==
    /\ closing <=> \E c \in Call : At(c, "closing")
    /\ \A c, d \in Call : At(c, "closing") /\ At(d, "closing") => c = d

LEMMA CloserStep ==
  ASSUME TypeOK, ClosedByOne, Next
  PROVE  ClosedByOne'
<1>1. ASSUME closing' = closing, \A d \in Call : At(d, "closing")' <=> At(d, "closing")
      PROVE  ClosedByOne'
  BY <1>1 DEF ClosedByOne
<1>2. ASSUME NEW c \in Call, Advance(c) \/ Mishap(c), ~PoolClosed(c), ~MappingsFail(c)
      PROVE  ClosedByOne'
  <2>1. closing' = closing /\ call[c].stage # "closing"
    BY <1>2 DEF Advance, Mishap, Bump, LoadSection, FinishManifest, LoadMappings, MappingsArrive,
       AnswerLost, LoadFails, SigningFails
  <2> QED
    BY <1>1, <1>2, <2>1, StepLowers
<1>3. ASSUME NEW c \in Call, PoolClosed(c)
      PROVE  ClosedByOne'
  <2>1. /\ call'[c].stage # "closing" /\ \A d \in Call : d # c => call'[d] = call[d]
    <3>1. Advance(c) /\ ~MappingsFail(c)
      BY <1>3 DEF Advance, PoolClosed, MappingsFail
    <3> QED
      BY <3>1, StepLowers
  <2>2. At(c, "closing") /\ closing' = FALSE
    BY <1>3 DEF PoolClosed
  <2> QED
    BY <2>1, <2>2 DEF ClosedByOne
<1>4. ASSUME NEW c \in Call, MappingsFail(c)
      PROVE  ClosedByOne'
  <2>1. \A d \in Call : d # c => call'[d] = call[d]
    BY <1>4, StepLowers DEF Mishap
  <2>2. closing' = TRUE /\ call[c].stage = "querying"
    BY <1>4 DEF MappingsFail
  <2>3. call'[c].stage = IF closing THEN "idle" ELSE "closing"
    BY <1>4 DEF MappingsFail, Reply, Idle, TypeOK
  <2> QED
    BY <2>1, <2>2, <2>3 DEF ClosedByOne
<1>5. ASSUME Restart
      PROVE  ClosedByOne'
  BY <1>5 DEF Restart, Idle, ClosedByOne
<1>6. ASSUME \/ \E c \in Call : Begin(c) \/ Administer(c)
             \/ ChangeElsewhere \/ EditProfiles \/ Lapse \/ Tick
      PROVE  ClosedByOne'
  <2>1. closing' = closing
    BY <1>6 DEF Begin, ServeManifest, StartManifest, UseMappings, AskForMappings, vars, Administer,
       PostIssuer, PutIssuer, DeleteIssuer, Change, ChangeElsewhere, EditProfiles, Lapse, Tick
  <2>2. ASSUME NEW d \in Call
        PROVE  At(d, "closing")' <=> At(d, "closing")
    <3>1. CASE ~Restart
      BY <1>6, <3>1, OtherSteps
    <3>2. CASE Restart
      <4>1. closing' = FALSE /\ ~At(d, "closing")'
        BY <3>2 DEF Restart, Idle
      <4> QED
        BY <2>1, <4>1 DEF ClosedByOne
    <3> QED
      BY <3>1, <3>2
  <2> QED
    BY <1>1, <2>1, <2>2
<1> QED
  BY <1>2, <1>3, <1>4, <1>5, <1>6 DEF Next

(* However many loads of the mappings fail at once, the pool is closed by   *)
(* one of them, and is closed no longer than that request takes: none is    *)
(* left to close a pool that others use (loadMappings, closePool).          *)
THEOREM PoolReopens == Spec => []ClosedByOne
<1>1. Init => ClosedByOne
  BY DEF Init, Idle, ClosedByOne
<1>2. TypeOK /\ ClosedByOne /\ [Next]_vars => ClosedByOne'
  <2>1. ASSUME ClosedByOne, UNCHANGED vars
        PROVE  ClosedByOne'
    BY <2>1 DEF vars, ClosedByOne
  <2> QED
    BY <2>1, CloserStep
<1> QED
  BY <1>1, <1>2, TypeCorrect, PTL DEF Spec
=============================================================================
