----------------------------- MODULE Governance -----------------------------
(***************************************************************************)
(* What one engine process keeps of the receiver's configuration: the      *)
(* signed governance manifest, for an hour or until its revision counter   *)
(* moves, and the semantic mappings, for a minute.  The tables behind both *)
(* are shared: an administrator changes the registry of issuers through    *)
(* this process or another, the mapping profiles only with SQL.  The two   *)
(* loads meet in the connection pool, which a failing load of the mappings *)
(* closes.  The manifest has two sections read from a table, each by a     *)
(* query that fails on its own; nothing relates them, so a behaviour looks *)
(* at one of them.  Time is a number of ticks, kept as ages.               *)
(***************************************************************************)
EXTENDS Integers, Sequences

CONSTANTS
    Call,           \* requests the process works on at one time
    Issuer,         \* issuers that may be registered
    Row,            \* mapping rows for the one semantic field looked at
    TrustedRows,    \* those that are trusted
    ManifestTtl,    \* ticks a manifest is kept (an hour)
    MappingTtl,     \* ticks the mappings are kept (a minute)
    MaxWrites,      \* bound: changes of the two tables, rows that run out among them
    MaxFailures     \* bound: failing statements, failing signatures, exits

ASSUME ConstantsAssumption ==
    /\ TrustedRows \subseteq Row
    /\ Row \cap {"default", "mapping_profile_invalid", "semantic_alias_conflict"} = {}
    /\ ManifestTtl \in Nat \ {0} /\ MappingTtl \in Nat \ {0}
    /\ MaxWrites \in Nat /\ MaxFailures \in Nat

VARIABLES
    issuers,        \* [Issuer -> Status]: portauth_trusted_issuers
    rows,           \* active rows of portauth_mapping_profiles
    lapsed,         \* rows whose valid_until has passed
    writes,         \* history: the ages of the changes of both tables, first to last
    revision,       \* manifestRevision
    answered,       \* history: the last change this process has answered
    manifest,       \* cachedManifest and what goes with it
    mappings,       \* mappingCache and what goes with it
    section,        \* the section of the manifest that is looked at
    closing,        \* whether the pool is being closed
    call,           \* [Call -> record]: the request in this slot
    failures

tables == <<issuers, rows, lapsed, writes>>
caches == <<manifest, mappings>>
vars == <<tables, revision, answered, caches, section, closing, call, failures>>

Status == {"absent", "inactive", "active"}
Stage ==
    {"idle", "posted", "written", "loading", "loaded", "querying", "queried", "closing"}
Section == {"issuers", "profiles"}
Lost == -1                              \* as of no state: the load failed
Longer(a, b) == IF a < b THEN b ELSE a
Oldest == Longer(ManifestTtl, MappingTtl)
Older(age) == IF age < Oldest THEN age + 1 ELSE age

Active == {i \in Issuer : issuers[i] = "active"}
Now == Len(writes)

\* What the section shows, read now.
Shown == IF section = "issuers" THEN Active ELSE rows

NoManifest == [shown |-> {}, asOf |-> Lost, revision |-> -1, age |-> ManifestTtl]
NoMappings == [verdict |-> "default", asOf |-> Lost, age |-> MappingTtl]

\* A slot between requests.
Idle ==
    [stage |-> "idle", version |-> 0, age |-> 0, revision |-> 0, shown |-> {}, asOf |-> Lost]

At(c, stage) == call[c].stage = stage
Reply(c) == call' = [call EXCEPT ![c] = Idle]
Fails == failures < MaxFailures /\ failures' = failures + 1

Init ==
    /\ issuers = [i \in Issuer |-> "absent"]
    /\ rows = {}
    /\ lapsed = {}
    /\ writes = <<>>
    /\ revision = 0
    /\ answered = 0
    /\ manifest = NoManifest
    /\ mappings = NoMappings
    /\ section \in Section
    /\ closing = FALSE
    /\ call = [c \in Call |-> Idle]
    /\ failures = 0

-----------------------------------------------------------------------------
\* Changes of the tables.  What is refused (409, 404, 400) changes nothing.

Write == Now < MaxWrites /\ writes' = Append(writes, 0)

\* The statement of an admin request has taken effect; its process has not
\* heard of it yet.
Change(c, i, status, stage) ==
    /\ At(c, "idle")
    /\ Write
    /\ issuers' = [issuers EXCEPT ![i] = status]
    /\ call' = [call EXCEPT ![c] = [Idle EXCEPT !.stage = stage, !.version = Now + 1]]
    /\ UNCHANGED <<rows, lapsed, revision, answered, caches, section, closing, failures>>

PostIssuer(c, i) == issuers[i] = "absent" /\ Change(c, i, "active", "posted")
PutIssuer(c, i) ==
    /\ issuers[i] # "absent"
    /\ \E status \in {"inactive", "active"} \ {issuers[i]} : Change(c, i, status, "written")
DeleteIssuer(c, i) == issuers[i] # "absent" /\ Change(c, i, "absent", "written")

\* bumpGovernanceRevision, and the answer 200, 201 or 204.
Bump(c) ==
    /\ At(c, "posted") \/ At(c, "written")
    /\ revision' = revision + 1
    /\ answered' = Longer(answered, call[c].version)
    /\ Reply(c)
    /\ UNCHANGED <<tables, caches, section, closing, failures>>

\* The INSERT took effect and the connection broke: 500, and no bump.  (A PUT
\* or DELETE that fails ends the process: Restart.)
AnswerLost(c) ==
    /\ At(c, "posted")
    /\ Fails
    /\ Reply(c)
    /\ UNCHANGED <<tables, revision, answered, caches, section, closing>>

\* An administrator asked another process, which bumps only its own counter.
ChangeElsewhere ==
    /\ Write
    /\ \E i \in Issuer : \E status \in Status \ {issuers[i]} :
         issuers' = [issuers EXCEPT ![i] = status]
    /\ UNCHANGED <<rows, lapsed, revision, answered, caches, section, closing, call, failures>>

\* A row is removed, or one put in that is in force.
EditProfiles ==
    /\ Write
    /\ \E r \in Row :
         IF r \in rows
         THEN rows' = rows \ {r} /\ UNCHANGED lapsed
         ELSE rows' = rows \cup {r} /\ lapsed' = lapsed \ {r}
    /\ UNCHANGED <<issuers, revision, answered, caches, section, closing, call, failures>>

\* The end of a row's validity comes, and no statement is made.
Lapse ==
    /\ Write
    /\ \E r \in (rows \cap TrustedRows) \ lapsed : lapsed' = lapsed \cup {r}
    /\ UNCHANGED <<issuers, rows, revision, answered, caches, section, closing, call, failures>>

-----------------------------------------------------------------------------
\* GET /.well-known/agent-governance.

\* The cached manifest may still be served.
Usable ==
    /\ manifest.age < ManifestTtl
    /\ manifest.revision = revision

\* Mutant: every time it is served its hour begins again.
ServeManifestSliding(c) ==
    /\ At(c, "idle")
    /\ Usable
    /\ manifest' = [manifest EXCEPT !.age = 0]
    /\ UNCHANGED <<tables, revision, answered, mappings, section, closing, call, failures>>

\* The request is answered with the cached manifest in the step in which it comes.
ServeManifest(c) ==
    /\ At(c, "idle")
    /\ Usable
    /\ UNCHANGED vars

\* The time and the revision are those of this moment.
StartManifest(c) ==
    /\ At(c, "idle")
    /\ ~Usable
    /\ call' = [call EXCEPT ![c].stage = "loading", ![c].revision = revision]
    /\ UNCHANGED <<tables, revision, answered, caches, section, closing, failures>>

\* The queries of both sections are sent at once; this is the one looked at.
LoadSection(c) ==
    /\ At(c, "loading")
    /\ call' = [call EXCEPT ![c].stage = "loaded", ![c].shown = Shown, ![c].asOf = Now]
    /\ UNCHANGED <<tables, revision, answered, caches, section, closing, failures>>

\* While the pool is being closed a statement may fail without an outage.
StatementFails ==
    \/ Fails
    \/ closing /\ UNCHANGED failures

\* Each query catches every error: its section of the manifest is empty.
LoadFails(c) ==
    /\ At(c, "loading")
    /\ call' = [call EXCEPT ![c].stage = "loaded"]
    /\ StatementFails
    /\ UNCHANGED <<tables, revision, answered, caches, section, closing>>

\* What is cached, with a revision and an age.
Entry(c, rev, age) ==
    [shown |-> call[c].shown, asOf |-> call[c].asOf, revision |-> rev, age |-> age]

\* Mutant: the revision is read when the manifest is cached.
EntryOfThen(c) == Entry(c, revision, call[c].age)

\* Mutant: the hour begins when the manifest is cached.
EntryFromThen(c) == Entry(c, call[c].revision, 0)

\* It counts from the moment the request looked at the cache.
NewEntry(c) == Entry(c, call[c].revision, call[c].age)

Expired(entry) == IF entry.age < ManifestTtl THEN entry ELSE NoManifest

\* Both queries have been answered.  The manifest is served to the request that
\* assembled it, however old it is by then.
FinishManifest(c) ==
    /\ At(c, "loaded")
    /\ manifest' = Expired(NewEntry(c))
    /\ Reply(c)
    /\ UNCHANGED <<tables, revision, answered, mappings, section, closing, failures>>

\* The signing key cannot be read or made.
SigningFails(c) ==
    /\ At(c, "loaded")
    /\ StatementFails
    /\ Reply(c)
    /\ UNCHANGED <<tables, revision, answered, caches, section, closing>>

-----------------------------------------------------------------------------
\* resolveSemanticField for one built-in field.

\* Mutant: whether a row is trusted, and still valid, is not looked at.
VerdictOfAny(rs) ==
    IF rs = {} THEN "default"
    ELSE IF \E r \in rs : rs = {r} THEN CHOOSE r \in rs : TRUE
    ELSE "semantic_alias_conflict"

\* defaultMappings, overridden by the rows for the field: two rows are of two
\* profiles (UNIQUE), which is a conflict in any order.
Verdict(rs) ==
    IF rs = {} THEN "default"
    ELSE IF \E r \in rs : rs = {r}
         THEN IF rs \subseteq TrustedRows \ lapsed THEN CHOOSE r \in rs : TRUE
              ELSE "mapping_profile_invalid"
    ELSE "semantic_alias_conflict"

UseMappings(c) ==
    /\ At(c, "idle")
    /\ mappings.age < MappingTtl
    /\ UNCHANGED vars

AskForMappings(c) ==
    /\ At(c, "idle")
    /\ mappings.age >= MappingTtl
    /\ call' = [call EXCEPT ![c].stage = "querying"]
    /\ UNCHANGED <<tables, revision, answered, caches, section, closing, failures>>

\* Mutant: the minute begins when the mappings are cached.
KeepFromThen(c) ==
    mappings' = [verdict |-> Verdict(call[c].shown), asOf |-> call[c].asOf, age |-> 0]

\* The time was taken before the query; what is cached may have run out.
Keep(c) ==
    mappings' = IF call[c].age < MappingTtl
                THEN [verdict |-> Verdict(call[c].shown), asOf |-> call[c].asOf,
                      age |-> call[c].age]
                ELSE NoMappings

LoadMappings(c) ==
    /\ At(c, "querying")
    /\ call' = [call EXCEPT ![c].stage = "queried", ![c].shown = rows, ![c].asOf = Now]
    /\ UNCHANGED <<tables, revision, answered, caches, section, closing, failures>>

MappingsArrive(c) ==
    /\ At(c, "queried")
    /\ Keep(c)
    /\ Reply(c)
    /\ UNCHANGED <<tables, revision, answered, manifest, section, closing, failures>>

\* The pool is closed, unless that is under way: then the request fails.
MappingsFail(c) ==
    /\ At(c, "querying")
    /\ StatementFails
    /\ IF closing THEN Reply(c) ELSE call' = [call EXCEPT ![c].stage = "closing"]
    /\ closing' = TRUE
    /\ UNCHANGED <<tables, revision, answered, caches, section>>

\* closePool ends: the next statement opens a new pool, and the built-in
\* mappings are kept as if they had been loaded.
PoolClosed(c) ==
    /\ At(c, "closing")
    /\ closing' = FALSE
    /\ Keep(c)
    /\ Reply(c)
    /\ UNCHANGED <<tables, revision, answered, manifest, section, failures>>

-----------------------------------------------------------------------------
\* The process exits and is started again.  An admin PUT or DELETE whose
\* statement fails does this: nothing catches its error.
Restart ==
    /\ StatementFails
    /\ revision' = 0 /\ answered' = 0
    /\ manifest' = NoManifest /\ mappings' = NoMappings
    /\ closing' = FALSE
    /\ call' = [c \in Call |-> Idle]
    /\ UNCHANGED <<tables, section>>

Tick ==
    /\ writes' = [v \in DOMAIN writes |-> Older(writes[v])]
    /\ manifest' = IF manifest.age + 1 < ManifestTtl
                   THEN [manifest EXCEPT !.age = @ + 1] ELSE NoManifest
    /\ mappings' = IF mappings.age + 1 < MappingTtl
                   THEN [mappings EXCEPT !.age = @ + 1] ELSE NoMappings
    /\ call' = [c \in Call |->
         IF call[c].stage \in {"loading", "loaded", "querying", "queried", "closing"}
         THEN [call[c] EXCEPT !.age = Older(@)] ELSE call[c]]
    /\ UNCHANGED <<issuers, rows, lapsed, revision, answered, section, closing, failures>>

Advance(c) ==
    \/ Bump(c)
    \/ LoadSection(c) \/ FinishManifest(c)
    \/ LoadMappings(c) \/ MappingsArrive(c) \/ PoolClosed(c)

Mishap(c) ==
    AnswerLost(c) \/ LoadFails(c) \/ SigningFails(c) \/ MappingsFail(c)

Begin(c) ==
    \/ ServeManifest(c) \/ StartManifest(c)
    \/ UseMappings(c) \/ AskForMappings(c)

Administer(c) ==
    \E i \in Issuer : PostIssuer(c, i) \/ PutIssuer(c, i) \/ DeleteIssuer(c, i)

Next ==
    \/ \E c \in Call : Begin(c) \/ Administer(c) \/ Advance(c) \/ Mishap(c)
    \/ ChangeElsewhere \/ EditProfiles \/ Lapse
    \/ Restart
    \/ Tick

Spec == Init /\ [][Next]_vars

\* A request that has begun runs on, and time passes.
FairSpec ==
    /\ Spec
    /\ \A c \in Call : WF_vars(Advance(c))
    /\ WF_vars(Tick)

-----------------------------------------------------------------------------
Verdicts ==
    {"default", "mapping_profile_invalid", "semantic_alias_conflict"} \cup TrustedRows
Versions == Nat \cup {Lost}

\* Type correctness; a verdict that is a row is a trusted one (wellknown.js,
\* governanceState.js, semanticResolver.js).
TypeOK ==
    /\ issuers \in [Issuer -> Status]
    /\ rows \in SUBSET Row
    /\ lapsed \in SUBSET Row
    /\ writes \in Seq(0 .. Oldest)
    /\ revision \in Nat
    /\ answered \in Nat
    /\ manifest \in
         [shown : (SUBSET Issuer) \cup (SUBSET Row), asOf : Versions, revision : Nat \cup {-1},
          age : 0 .. ManifestTtl]
    /\ mappings \in [verdict : Verdicts, asOf : Versions, age : 0 .. MappingTtl]
    /\ section \in Section
    /\ closing \in BOOLEAN
    /\ call \in [Call ->
         [stage : Stage, version : Nat, age : 0 .. Oldest, revision : Nat,
          shown : (SUBSET Issuer) \cup (SUBSET Row), asOf : Versions]]
    /\ failures \in 0 .. MaxFailures

\* A change of the registry that the process has answered is in every cached
\* manifest it serves from then on (unless the registry could not be read),
\* although a manifest is put together over several awaits and its requests
\* overlap with changes and with each other (cachedRevision,
\* bumpGovernanceRevision).
OwnChangesShow ==
    section = "issuers" /\ Usable /\ manifest.asOf # Lost => manifest.asOf >= answered

\* A manifest served from the cache misses no change of its issuers or mapping
\* profiles that is older than an hour, whoever made it and however long the
\* manifest took to put together.  One that a request has put together itself may
\* be older by then, and misses no change from before that request looked at the
\* cache.  A section whose query failed is left out: it is empty (cacheExpiresAt;
\* loadTrustedIssuerSummary, loadMappingProfileSummary).
ManifestLagBounded ==
    \A v \in DOMAIN writes :
        /\ Usable /\ manifest.asOf # Lost /\ writes[v] >= ManifestTtl => v <= manifest.asOf
        /\ \A c \in Call :
             At(c, "loaded") /\ call[c].asOf # Lost /\ writes[v] > call[c].age
               => v <= call[c].asOf

\* Cached mappings that could be read miss no change of a profile for more than
\* a minute, the end of its validity included, even when an older load replaces
\* what a newer one cached (loadMappings).  The built-in mappings that are kept
\* after a failed query are left out.
MappingsLagBounded ==
    \A v \in DOMAIN writes :
        /\ mappings.age < MappingTtl /\ mappings.asOf # Lost
        /\ writes[v] >= MappingTtl
        => v <= mappings.asOf

\* Once nothing changes or fails any more, what the process serves is the
\* manifest of the tables, and it resolves the field by its rows: no failed load,
\* lost bump, closed pool or steady traffic leaves it with something else.
CachesBecomeCurrent ==
    <>[](/\ Usable => manifest.shown = Shown
         /\ mappings.age < MappingTtl => mappings.verdict = Verdict(rows))
=============================================================================
