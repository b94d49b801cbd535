# PortAuth: specifications and proofs

This directory models the parts of PortAuth (portable authorization for AI
agents: an issuer of signed credentials, an engine that evaluates them, and an
A2A receiver that asks the engine) whose correctness depends on the order in
which concurrent steps, failures and retries happen. The code is JavaScript on
Node 20 with Express 4 and PostgreSQL; paths below are relative to the
repository.

## 1. The system

| Component | State it keeps | Operations | What is hard |
|---|---|---|---|
| Stateful reservations (`portauth-engine/src/services/statefulAuthorizer.js`) | rows of `portauth_authorization_counters` and `..._counter_events` | `evaluateStatefulConstraints`, `reserve` | one transaction over several rows, next to others; lock order; idempotency; lost COMMIT answers |
| Evaluation pipeline (`routes/evaluate.js`) | none of its own | `POST /evaluate`, `/evaluate/batch`, `/evaluate/workflow` | what was already done when a later step fails |
| Audit log (`auditLogger.js`) | rows of `portauth_audit_records` | `createAuditRecord`, `verifyAuditRecord`, start-up sweep | record and signature must agree; failure between decision and record |
| Engine signing keys (`engineKeyStore.js`) | `portauth_engine_signing_keys`, one cache per process | `getOrCreateEngineSigningKey`, look-up by kid | first requests race for the key |
| Workflow composition (`workflowEvaluator.js`) | `portauth_workflow_policies` | role coverage, combinators | which sub-decisions back a decision |
| A2A receiver (`extensions/a2a/receiver-middleware/src/index.js`) | one task record per idempotency key | `handleSendMessage`, `createPending`, `update` | duplicates and retries on several processes, crashes, an engine that is away |
| Delegation (`delegationVerifier.js`) and constraints (`constraintEvaluator.js`) | none | chain verification, attenuation, evaluation | a delegate must never allow more than its parent |
| Credential verification (`credentialVerifier.js`, `didResolver.js`, `x509Verifier.js`) | JWKS cache per process, `portauth_did_cache` | `verifyCredential`, three tiers | what is checked afresh and what comes from a cache, while keys, registry and revocations change |
| Revocation (`revocationClient.js`, `statusListChecker.js`) | `portauth_status_list_cache`, revoked certificates | introspection with retries, table look-up, bitstring check | how stale an answer may be; failing open or closed |
| State authority (`stateAuthorityClient.js`, `state-authority-ref/`) | the authority's counters | proof request, verification | several engines on one counter |
| Governance (`governanceState.js`, `routes/wellknown.js`, `routes/admin.js`) | revision number and cached manifest per process, the registry of issuers | admin writes, manifest | a cached manifest that misses a write, here or at another process |
| Semantic mapping (`semanticResolver.js`) | mapping cache per process, 60 s | `loadMappings`, `resolveSemanticField` | loads that overlap; a failing load closes the pool |
| Issuer (`portauth-issuer/src/services/`) | signing keys, credentials, status list indices | issue, revoke, rotate, publish | rotation in two steps, index allocation |
| SDKs, reference agents, conformance runner, OPA policy | none that matters | | pure functions, demonstrations |

How they interact: an A2A receiver stores a pending task record and posts to the
engine; the engine runs the pipeline, which reads policies, commits counter
reservations, signs and stores an audit record, and answers; the receiver stores
the final response and answers its caller. All shared state is in PostgreSQL;
everything in a process is interleaved at `await`.

What makes each part correct: limits hold under any interleaving and a
reservation is all or nothing (reservations); a decision told is a decision on
record, signed with a key that can be found (audit, keys); a denied request is
never charged (pipeline); an allowed workflow rests on recorded sub-decisions
(workflow); one evaluation per idempotency key, one answer for all duplicates,
no decision told before it is stored (receiver); a delegate never allows more
than its parent (delegation); nothing is verified that was not trusted (as its
tier reads the registry) and unexpired at some moment of that call, and a revoked
credential passes for a bounded time only (verification); a manifest from the
cache misses no change this process has answered, and none at all for more than
its hour, unless its load failed (governance); no
two credentials share a status index, a status list bars what is revoked and
nothing else, and what was handed out stays verifiable (issuer).

## 2. Modules

| Module | What it is |
|---|---|
| `StatefulReserve` | the reservation protocol, one action per SQL statement |
| `ReservationLedger` | what a reservation promises: one atomic step; `StatefulReserve` implements it |
| `MCStatefulReserve` | instances for TLC |
| `StatefulReserve_proofs` | theorems about `StatefulReserve` |
| `ReservationLedger_proofs` | sums of charges, and that `StatefulReserve` implements the ledger |
| `A2AReceiver` | `handleSendMessage` and the Postgres task store |
| `MCA2AReceiver` | instances for TLC |
| `A2AReceiver_proofs` | theorems about `A2AReceiver` |
| `EngineAudit` | the evaluate handlers, the audit record, the engine's signing key |
| `MCEngineAudit` | instances for TLC |
| `EngineAudit_proofs` | theorems about `EngineAudit` |
| `GlobPattern` | restricted globs: what one matches, and when one refines another |
| `Delegation` | a delegation chain, the attenuation of constraints and their evaluation |
| `MCDelegation` | instances for TLC |
| `Delegation_proofs` | theorems about `Delegation` |
| `CredentialVerifier` | `verifyCredential` and the revocation checks, with their caches |
| `MCCredentialVerifier` | instance for TLC |
| `CredentialVerifier_proofs` | theorems about `CredentialVerifier` |
| `Issuer` | the issuer: keys, the three ways to issue, revocation, the status list |
| `MCIssuer` | instance for TLC |
| `Issuer_proofs` | theorems about `Issuer` |
| `Governance` | one engine process: manifest, revision, mapping cache, connection pool |
| `MCGovernance` | instance for TLC |
| `Governance_proofs` | theorems about `Governance` |

The modules meet at inputs. `EngineAudit` takes as inputs what
`CredentialVerifier`, `Delegation` and `StatefulReserve` decide (the checks
`verify`, `constraints`, `reserve`), and `A2AReceiver` what `EngineAudit`
answers. They share no variables: each table belongs to one module, except the
registry of issuers, which `Governance` changes and `CredentialVerifier` sees
change at any moment (`EditRegistry`).

Each module ends with its properties. Definitions whose name extends that of the
definition that follows them (`LockRowUnlocked`, `RetryablePending`, `UseCachedKeysSliding`,
`InsertRecordOfAllows` ...) are deliberate faults: no action uses them, and each
stands for a plausible bug that one of the properties must catch when it takes
the place of the definition.

### 2.1 StatefulReserve

A *call* is one run of `evaluateStatefulConstraints`; its candidates are the
counters it wants to charge, in the order of the credential's constraints
(`Candidate`, `CounterOf`, `Window` are `buildCandidate`, `scopeMaterial` and
`windowForPeriod`). A call takes a connection of the pool (`Connect`), and per
candidate looks up the event of its idempotency key (`CheckEvent`), inserts the
counter row if there is none (`InsertRow`), locks and reads it (`LockRow`,
`SELECT ... FOR UPDATE`), compares with the limit, updates it (`UpdateRow`) and
records the event (`RecordEvent`); then it commits (`Commit`, `Return`) or rolls
back (`Rollback`, `Abort`).

The database is modelled as PostgreSQL at READ COMMITTED: a transaction sees
committed rows and its own; a row written or locked by another transaction makes
a statement wait; the database ends one transaction of a cycle of waits
(`DeadlockVictim`). `StatementFails` breaks any statement; `CommitAnswerLost` is
a COMMIT whose answer does not arrive, after which it may or may not have taken
effect. (A COMMIT that arrives after the connection was given up is covered by
the case that it took effect at once: nobody can see the difference while the
rows are locked.) `Tick` moves the clock over a period boundary, once per run.

Amounts are integers; rounding to the column's scale is not modelled (listed as a
hazard).

`ReservationLedger` is the abstract view: a call starts, is charged in full in
one step (`Reserve`) or not at all (`Refuse`, `GiveUp`), and is told so later
(`Confirm`). `ImplementsLedger` is this specification under a refinement mapping
that reads only committed rows.

### 2.2 A2AReceiver

A call is one inbound message; `pc` says at which await it is. `Select`,
`Insert`, `Reselect` are `createPending` (read, INSERT, and after the unique
violation 23505 the second read); `UseExisting` is what `handleSendMessage` makes
of a record it found: replay, answer 202, or go on to `Reopen` it. Then the
engine is asked (`EngineAnswers`; any answer is possible), the final response is
stored (`Persist`) and the caller is told (`Reply`). `EngineUnreachable` is a
`fetch` that rejects, `StoreFailsBefore` and `StoreFailsAfter` are failing
statements (with or without effect), `Crash` ends a process with its calls.

Records are keyed by idempotency key; their content is reduced to the lifecycle
state and the call that wrote it, which stands for the stored response. History
variables say which calls asked the engine, what was over when a call arrived,
what was ever stored, and why a record may be pending with nobody at work.

### 2.3 EngineAudit

A request is one POST to an evaluate route. The checks `verify`, `constraints`,
`policy`, `reserve` pass or deny as they please (their inputs are data); the
model is what follows: which check is next (`NextCheck`), what is recorded
(`Deny`, `Pass`, `NextEntry`), how the key is found or created (`UseCachedKey`,
`SelectKey`, `CreateKey`), the INSERT of the record and the answer. `Throw` is
the difference between the handlers: two of them catch and answer 500, the
workflow handler catches nothing after it has loaded its policy, and Express 4
leaves the rejected promise to Node, which exits.

`Content` is what the properties can tell apart in a record: the decision, whether
it names a workflow policy, the sub-records it refers to, and whether it lists a
constraint that has no field (a denial by local policy lists the constraint
results too). `Verifies` is `verifyAuditRecord`: the key is
known, the signed text parses, and the record rebuilt from the row is the one
that was signed.

### 2.4 Delegation and GlobPattern

One `POST /evaluate/batch`. `Receive` compares the number of credentials with
`max_depth`; then the credentials are met one by one, root first: `Refuse` is a
credential that does not verify, `VerifyRoot` and `VerifyDelegate` add one to the
chain or answer `delegation_chain_broken` or `delegation_widened`; `Evaluate`
asks the leaf for one request. `Credentials` is any set of credentials of the
right form, so that a chain is any sequence the checks let through.

The module holds both sides of the question. `Satisfies` is
`constraintEvaluator.js`: what a constraint allows. `VerifyAttenuation` is
`delegationVerifier.js`: when a delegate counts as narrower. `NeverWidened` says
that the second implies the first along the whole chain, and
`LimitsOnlyLowered` that the counters, which the leaf alone reserves, are those
of every credential above it.

A counter's limit may be written in any of three fields, and one of them may be
`Null`: the attenuation check takes the first that is there and reads null as 0
(`ComparedLimit`), the reservation passes over null (`EnforcedLimit`).
`scopeFields` divide a counter and are not compared.

Times of day are minutes, strings are sequences of characters, and a time zone is
a table from instants to minute and weekday (`LocalTime`). In `GlobPattern` a
pattern is the sequence of its segments; `**` takes any text without a line break
(it becomes `.*`), `*` any without a separator, line breaks included (`[^/]*`);
recursion is by recursive functions over two positions. Local policy and the reservation, which come after `allow` here
and can only deny, belong to `EngineAudit` and `StatefulReserve`.

### 2.5 CredentialVerifier

A call is one `verifyCredential`; its stage is the await it is at. `Begin` checks
the structure and chooses the tier. Tiers 1 and 3 then need the issuer's keys
(`fetchJWKS`, `resolveDID`): from the cache (`UseCachedKeys`), or asked for
(`AskForKeys`, when the issuer's server answers) and taken in when they arrive
(`KeysArrive`), any time later, whatever is cached by then. Which of the keys is
tried is `Selected`: the one the header names; without a name, the only key of a
JWKS; and the leading key of a DID document that lacks the one named. Tier 2
checks the signature with the certificate of the header, once that is bound to
the issuer. `CheckIssuer` reads the registry (`Trusted`; only tier 3 looks at
`governance_status`, which `ChangeStanding` changes); revocation is asked for by tier (`Introspect` with its retries and
failure mode, `CheckCertificate`, or a status list: `UseCachedList`,
`AskForList`, `ListArrives`), and `Bind` compares subject and proof. A request
may name the URL that is asked for introspection; whoever is there may answer
either way (`IntrospectElsewhere`). A link of a chain before the last is
presented by `Nobody`: neither its subject nor a proof is asked for. `RequireProof`
is the setting that asks for a proof in any case. A check is
a truth value with the error code of its failure, and `FirstError` keeps their
order.

JWKS are cached per process, DID documents and status lists in tables that all
share. Time is a number of ticks, kept as ages: `KeyTtl` and `StatusTtl` are the
two lifetimes, `FetchTimeout` the 5 s after which a list fetch is aborted (a
JWKS fetch has no such limit). Meanwhile keys are published and withdrawn,
credentials revoked or expired, the registry edited, a standing changed and
processes restarted. The
list a server sends is that of the moment it answers; `ListNow` is what the
issuer's list bars (in `Issuer`: `Bars`). `seen` remembers which facts held at
some moment of the call.

### 2.6 Issuer

Every statement is an effect on the tables and a step of its request, and
`StatementFails` may separate the two. `SelectKey` and `GenerateKey` are the loop
of `getActiveSigningKey`; `Prepare` is what is checked between the key and the
first write; a VC takes an index of the status list (`AllocateIndex`), then its
credential row and its status row are inserted. Rotation is `Deactivate` and
`Replace`, with a failure between them, and two rotations may overlap (`rotating`
counts those between their statements); `rotateKeys` is exported and no route
calls it, so that the module says what it does when it is used. `Bars` is how a
receiver reads a bit of the published list. A key's age is its number; two rows
inserted in one microsecond are ordered by it all the same.

### 2.7 Governance

One engine process. `Usable` is the test of the cached manifest; `StartManifest`
takes time and revision, `LoadSection` or `LoadFails` is its query, `FinishManifest`
serves what was read, however old it is by then, and caches it under that
revision. Two sections of the manifest are read from tables, the issuers and the
mapping profiles, each by a query of its own that fails on its own; nothing
relates the two, so that a behaviour looks at one of them (`section`, chosen in
`Init`). The rest of the manifest is constants. Admin requests change the registry
(`PostIssuer`, `PutIssuer`, `DeleteIssuer`) and bump the revision a step later;
`ChangeElsewhere` and `EditProfiles` are changes this process never hears of.
Mappings are loaded with the time of before the query (`AskForMappings`,
`LoadMappings`, `MappingsArrive`); a failing load closes the pool
(`MappingsFail`, `PoolClosed`), and statements of other requests may then fail
(`StatementFails`; that they may also succeed is an over-approximation).
`Lapse` is a row whose `valid_until` passes. `Verdict` is what the rows make of
one field. `asOf` is the number of changes a
load had seen, and `writes` their ages.

## 3. Runs

| Run | Instance | Result |
|---|---|---|
| `stateful_reserve` | three calls, two counters, opposite lock order, two attempts under one key, pool of two, one rollover, one fault | all properties hold (about 134 000 states) |
| `double_charge` | two overlapping attempts under one key | `NoDoubleCharge` violated |
| `a2a_receiver` | three messages under one key, two processes, one crash, one store fault, one outage | all hold (about 59 000 states) |
| `terminal_replay` | four messages, nothing fails but an engine answer | `FinalIsReplayed` violated |
| `engine_audit` | an evaluation on each of two processes and a workflow of two roles, five policies, one crash, one fault | all hold (about 469 000 states) |
| `threshold_by_roles` | a workflow with two credentials for one role, under a threshold of two roles, no fault | `ThresholdByRoles` violated |
| `signing_failure` | three requests, no fault | `SigningFailureReported` violated |
| `delegation` | chains of up to three credentials that give every part of their constraints, some thirty constraint lists, requests that vary one field at a time | all hold (about 16 000 states) |
| `widened_chain` | windows and lists that leave parts out, globs with `**` inside a segment | `NeverWidened` violated |
| `verification` | two calls of one process, credentials of all three tiers, one without a kid, a link nobody presents, an introspection elsewhere, one change of the world, one failure | all hold (about 959 000 states) |
| `issuer` | a request of any format and one for a VC, two rotations that may overlap, one failing statement | all hold (about 367 000 states) |
| `governance` | two requests at a time, either section, two changes of the tables, one failure | all hold (about 2 180 000 states) |

Properties of the passing runs:

* `WithinLimit`: no committed counter is past the limits of the calls that
  charged it. `NoLostUpdate`: a counter is the sum of what was charged.
  `AllOrNothing`: a call that did not pass charged nothing, a call that passed
  paid for every candidate. `SequentialRetryFree`: a retry that starts after the
  first attempt was answered is not charged again. `NeverStuck`: while a call is
  under way some call, or the database, can take a step: locks and connections
  are never all waited for. `EveryCallAnswered`, `ImplementsLedger`.
* `OneEvaluation`, `AnswersAgree`, `PersistedBeforeAnswer`, `ReplayedUnlessFailed`
  (a message that arrives after a decision was told under its key never asks the
  engine, unless a failure was stored under that key), `PendingExplained`, `EveryMessageAnswered`
  (receiver).
* `DecisionOnRecord`, `SignaturesResolvable`, `ChargedNotDenied`,
  `SigningFailureLeavesNoRow`, `WorkflowBacked` (an allowed workflow has recorded
  allows for as many distinct roles as its combinator asks for; under a threshold
  only if no role is presented twice, see `threshold_by_roles`),
  `RequestAnswered` (pipeline).
* `NeverWidened`, `LimitsOnlyLowered` (delegation). The passing instance gives
  every part of a window and of a list, and its globs, one with a `**` segment,
  are written plainly (`Plain` in `Delegation_proofs`); `widened_chain` shows what
  happens when parts are missing. `LimitsOnlyLowered` is about the limit that the
  reservation enforces, and asks that the counter is divided alike; the instance
  writes no null limit and no `scopeFields` (with `Carried <- MCCounters` it does,
  and TLC finds the property violated).
* `VerifiedOnFreshTrust`: whatever changes between the awaits of a call, at some
  moment of it the issuer was trusted for all the credential grants, as its tier
  reads the registry, the credential had not expired, and (introspection of the
  issuer itself, or table, in closed mode) it was not revoked.
  `RevocationLagBounded`: a revoked tier 3 credential passes the status check for
  less than the lifetime of a list plus one fetch, although a slow fetch may
  overwrite a newer list. `AnswersBecomeRight`: once nothing
  changes or fails any more, answers that do not depend on an introspection
  elsewhere become right and stay right (verification).
* `IndicesNotShared`, `HandedOutVerifiable`, `RetiredKeysSignNothing`,
  `ListIsExact`, `RequestsAnswered` (issuer).
* `OwnChangesShow`: a change of the registry that this process has answered is in
  what it serves from its cache. `ManifestLagBounded`: a cached manifest misses no
  change older than its hour; one that a request put together itself, none from before that request
  looked at the cache. `MappingsLagBounded`: the same of the cached mappings and
  their minute, the end of a row's validity included. All three except what was
  loaded by a query that failed, which is empty or built in whatever the tables
  say. `CachesBecomeCurrent` has no such exception (governance).

### Where code and documents disagree

1. Overlapping attempts with one idempotency key are both charged: the event is
   looked up before the counter row is locked (`double_charge`).
2. Two retries that both read a `failed` task record both reopen it; the second
   erases a completed response, and the decision is not replayed
   (`terminal_replay`).
3. A threshold workflow is allowed by as many sub-decisions as it asks for, two
   for one role included (`workflowEvaluator.js:34-44`), where
   `docs/evaluation.md:71` asks for that many of the required roles
   (`threshold_by_roles`).
4. A failure in the workflow handler ends the engine process instead of
   answering 500; losing the race for the first signing key is enough
   (`signing_failure`).
5. A delegate that leaves out its parent's allowed list, start, end or weekdays,
   or gives an empty list of weekdays, is accepted and allows more; and `**`
   inside a segment counts as `*` when globs are compared and as `**` when they
   are matched (`widened_chain`, whose trace shows one of these; `Carried <-
   MCPartial` leaves only the first, `Carried <- MCGlobs` only the second).

Noticed in the same code and not shown by a run:

* Audit: some records never verify. A constraint without a field (a usage limit)
  makes the signed text unparsable, and `verifyAuditRecord` forgets the workflow
  columns, although `auditLogger.js:61-62` says that every row written is
  verifiable; `OrdinaryRecordsVerify` proves that every other record does verify. And a
  workflow entry whose role does not match is not recorded, while
  `docs/paper-traceability.md:58` says that every decision is.
* Verification: `governance_status` is read in tier 3 only, while
  `docs/api-reference.md:57` gives it as a reason for `issuer_untrusted` in
  general; and the request body may name the introspection URL of tier 1
  (`credentialVerifier.js:400`, `evaluate.js:76-78`), so that who is asked about
  revocation is up to the caller. The properties are stated with both as they are.
* Engine: an engine that cannot be reached leaves a task record pending for good
  (`PendingExplained` names it); a key set is not fetched again when a credential
  names a key it lacks; an empty registry, signed, is served for an hour after a
  load that failed; built-in mappings stand in for a minute after a failed load;
  a change at one engine process moves the revision of that process only, so that
  another serves its cached manifest for up to the hour, while
  `docs/evaluation.md:86` says that the manifest is invalidated.
* Issuer: no row of `portauth_signing_keys` is ever made for the configured
  certificate, while the schema asks for one, so that tier 2 issuance fails
  (`ForeignKeyFails`).
* Delegation: a limit written null is compared as 0 and enforced as if it were not
  there, and `scopeFields`, which divide a counter, are not compared, so that a
  delegate may be held to more than its parent (`Carried <- MCCounters`); `**`
  does not match a line break and `*` does, so that the delegate `*` under the
  parent `**` allows a text of two lines that the parent refuses; time zones of two windows are not compared; two constraints that
  share an id but not a field are comparable; the check of a glob tries the letter
  `x` in place of each star, so the parent `x*` takes the delegate `*x`, which
  also matches `bx`; a `**` segment of the parent may stand for no segment at
  all, while its regular expression still needs the separators; and with two
  constraints on one field and no ids the first is compared with both, so that an
  identical delegate can be refused.

### Bounds

Three actors are the least with which two can race while a third meets the
result; the races of this code are between two statements of two actors, and
`WithinLimit` and `OneEvaluation` are proved for any number. Two counters are
needed for a lock cycle and for a partial charge; one fault and one crash per run
put the failure at every place in turn; a second fault only repeats a state from
which the code keeps no memory. Every bound is a constant named `Max...`. A
chain of three has a credential that is both delegate and parent, which is all
that a longer one repeats; `NeverWidens` and `LimitsLowered` hold for any length.

In `verification` one change and one failure at any moment of two overlapping
calls reach every order of a change, a fetch and a second fetch that overwrites
it; lifetimes of two ticks and one, and a fetch of up to one, make a list expire
while another is under way. Statements of the database take no time there: the
lifetime of a cached entry is compared and counted in one clock. In `issuer` a
byte of the status list has one bit, so that each index lies in a byte of its
own and the length of the list matters; rotations are bounded, and
`RequestsAnswered` rests on that: a rotation for every key a request generates
would keep it generating. In `governance` the two lifetimes are two ticks and
one; the bounds of the counters (revision, index, key numbers) are those of the
numbers of requests, and 32-bit casts of the index are far beyond them.

### Fairness

Every call, message or request takes its next step while its process lives (weak
fairness of the actions that handle it): awaited statements return or throw, and
the event loop runs what is ready. The database ends lock cycles and grants a
lock that is free. `CredentialVerifier` needs less: a status list that was asked
for arrives (its fetch has a time limit), and no call need go on otherwise,
because one that never ends gives no wrong answer. In `CredentialVerifier` and
`Governance` time passes, without which no lifetime ends. Nothing is assumed of faults, crashes, rotations, changes
and arrivals: the liveness properties hold although they may never happen, or
happen as often as the bounds let them.

## 4. Proofs

Theorems hold for all values of the constants that satisfy the named assumptions
(`...Type` in each module).

`StatefulReserve_proofs`: `TypeCorrect`, `LimitSafe` (`WithinLimit`),
`ConnectionsClean` (a connection in the pool holds no locks), `ReservationAtomic`
(`AllOrNothing`), `RetrySafe` (`SequentialRetryFree`), `DeadlockFree`
(`NeverStuck`), `CallsTerminate`. `WithinLimit` alone is not inductive: the
value a transaction compares with the limit is one it read earlier. The
invariant adds that whoever is past the read holds the lock of the row, that its
copy of the value is the committed one plus its own increments, that a waiting or
idle transaction has no uncommitted rows, and that the events of a committed
charge are committed with it. The step lemmas go by action (`LockStep`,
`LimitStep`, `EventStep`, `RetryStep`); `InvAlways` puts them together.

`DeadlockFree` needs no invariant of the locks but that a waiting transaction
waits for one that exists, and one of the pool: who waits for a connection waits
for a call that has one. If no call could step, all with a connection would wait
for locks; a least set of them that is closed under waiting is a cycle, and
`DeadlockVictim` could end it. `CallsTerminate` gives each call a measure
(candidates left, then the statement it is at) that every step lowers. With the
two, what `EveryCallAnswered` adds on the small instance is fairness alone.

`ReservationLedger_proofs`: `NothingLost` (`NoLostUpdate`) and `LedgerImplemented`
(`ImplementsLedger`, a refinement). The sums are folds over sets; with no
induction over data at hand, their laws (`TotalRemove`, `TotalAdd`, `TotalUnion`)
follow from a counterexample of least size, which `NatLessThanWellFounded` gives.
`SumInv` says that a row locked by a transaction holds the committed value plus
that transaction's charges, which all lie on rows it has locked; COMMIT then adds
exactly its charges to the effective ones, a rollback none. For the refinement
`FitInv` keeps, for each charge, that it fitted on top of the committed value and
the charges before it, and `CoverInv` that each candidate passed over has its
event on record or charged earlier in the same call; `CommitReserves` and
`RollbackRefuses` give the ledger its witnesses from these.

`A2AReceiver_proofs`: `TypeCorrect`, `EvaluatedOnce` (`OneEvaluation`),
`OneDecision` (`AnswersAgree`), `DecisionOnRecord` (`PersistedBeforeAnswer`),
`DecisionsReplayed` (`ReplayedUnlessFailed`), `OrphansExplained`
(`PendingExplained`), `TerminalIsTerminal` (a record is final for good unless a
failure was stored under its key, which is how the second answer of
`terminal_replay` comes about), `MessagesTerminate` (a message takes at most
eight steps). The invariant has two parts. `EvalInv`: who evaluates has a
record, and who is about to reopen one, or meets one that is failed, is on a key
under which a failure was stored. `StoreInv`: every stored response is the
verdict of a call that asked the engine and is past it, and every final record
and every reply that carries a verdict is a stored response. Two decisions told
under one key are then verdicts of the one call that asked.

`EngineAudit_proofs`: `TypeCorrect`, `DecisionTold` (`DecisionOnRecord`),
`KeysResolve` (`SignaturesResolvable`), `NoChargeOnDeny` (`ChargedNotDenied`),
`UnsignedUnrecorded` (`SigningFailureLeavesNoRow`), `WorkflowSound`
(`WorkflowBacked`). The invariant says of each request what its stage implies
(`Stage`): where it may stand among the checks and whether it holds a key
(`Placed`), what it is about to record or has recorded (`Recording`), when it can
have been charged (`Charging`), and for a workflow that the sub-decisions so far
are on record (`Backing`); and that every cached key is a stored one
(`KeysKnown`). A step changes the stage of one request and only adds rows, so
that the others follow from `StillStage`. For a workflow the sub-decisions that count
are told apart by role: if no role is presented twice, they are as many as their
roles (`BackingSuffices`). Three theorems need more. `OrdinaryRecordsVerify` says
which records verify: exactly those that name no workflow and have no hole, and
those that do not are of workflows or of credentials with a constraint that has
no field (`FormInv`). `UnsignedIsTold`, the positive counterpart of
`signing_failure`, says that outside workflows a failed signing is always
answered. `RequestsTerminate` bounds the
steps of a request by twelve, and twenty for each credential of a workflow.

`Delegation_proofs`: `TypeCorrect`; `NeverWidens`, that `NeverWidened` holds when
the credentials are `Careful` and no text of a request has a line break
(`OneLine`); `LimitsLowered`, that `LimitsOnlyLowered` holds when the credentials
are `CarefulLimits` (no null before another limit field, and constraints that are
compared divide their counters alike); `GlobSound`, about `GlobRefines`. `Careful`
names what the code takes
for granted, as conditions on how a constraint is written: windows and lists give
all their parts, and constraints that are compared are on one field, in one time
zone, and with `Plain` globs. Under it `ConstraintSound` proves each attenuation
rule against the meaning of the constraint (`NumericSound`, `TemporalSound`,
`EnumeratedSound`, `StringPatternSound`), and the invariant `Narrowing` says that
whatever the last credential allows all before it allow. `Lowering` is its
counterpart for counter limits; it needs that keeping a limit composes
(`KeptTransitive`).

`GlobSound` says that if `GlobRefines(parent, delegate)`, for a pair of patterns
as below, every string the delegate matches the parent matches, for strings and
patterns of any length, if the string has no line break or the parent no `**`
(`Unbroken`; an identical pair needs neither). Matching and refinement are recursive functions over two
positions; what would be an induction is an argument from the least
counterexample (`LeastNat`, from the library's `WFMin`), because the induction
theorems take an operator. The argument: the recursion of a match has one
solution, so that a match can be read as a division of the string (`Cuts`, one
cut for each token, `Span` between two of them); a division of the string into
pieces of tokens is one into segments, because a plain segment holds no
separator (`Laid`, `Written`); a refinement is an alignment of the parent's
segments with stretches of the delegate's (`Aligned`), where a segment of
letters and single stars takes the delegate's segment with an `x` for each star
only if it takes it with any text there; and the parent's division is composed
from the delegate's. The theorem is about an identical pattern or a `Plain`
pair: of two segments that are compared and differ, the delegate's holds no
`**`, and only one without a star may meet a parent's segment with the letter
`x`, which is what the check tries for a star; and the parent has at most one
`**` segment, and no more segments than the delegate if it has one, so that `**`
never stands for no segment at all. Each condition is needed: without it these
are accepted and widen, in order, `a**` under `a*` (matches `a/b`), `*x` under
`x*` (`bx`), `a/b/c` under `**/a/**`, and `a` under `**/a`.

`CredentialVerifier_proofs`: `TypeCorrect`, `AlwaysOnFreshTrust`
(`VerifiedOnFreshTrust`), `RevocationNeverLags` (`RevocationLagBounded`),
`AlwaysSignedByIssuer` (what reaches the last check was checked with a key of
its own issuer: every key set under way or cached is its issuer's, and a
certificate is bound to it, `OwnInv`),
`CallsTerminate` (a call never goes back, and repeats an introspection at most
`Retries` times). Both rest on `Way`, which names the steps from stage to stage
and what each of them looked at. The main invariant has three parts: `Fresh`,
what the stage of a call says of the facts seen since it began; `FetchLag`, that
a list under way misses no revocation older than the fetch; `CacheLag`, that a
cached list misses none older than its age and one fetch. The second is why the
third survives a fetch that arrives late.

`Issuer_proofs`: `TypeCorrect`, `NoSharedIndex` (`IndicesNotShared`),
`AlwaysVerifiable` (`HandedOutVerifiable`), `NoRetiredKeySigns`
(`RetiredKeysSignNothing`), `ListsAreExact` (`ListIsExact`, for any width of a
byte). The invariant ties each request's index to the counter, its kid to the
keys that exist and that were active when it came in, and a VC handed out to its
rows (`IndexInv`, `KeyInv`, `RetiredInv`, `EntryInv`). `BarredForGood`: what one
list bars of what was handed out every later list bars. `IssuanceTerminates`: the
loop of `getActiveSigningKey` goes round once more only after a rotation, so that
the rotations left, three steps each, and the stage bound what a request can
still take; it is the measure behind `RequestsAnswered`.

`Governance_proofs`: `TypeCorrect`, `OwnChangesAlwaysShow` (`OwnChangesShow`),
`ManifestNeverLags` (`ManifestLagBounded`), `MappingsNeverLag`
(`MappingsLagBounded`), each with the exception of loads that failed. The invariant says of a load under way, and of what is
cached, that a change older than its age is in it (`Fresh`), which bounds the
cached manifest and the one a request serves of its own, and that what was
loaded under the present revision has seen every answered change: an answer is
given after the revision moved, so that a load that began before it carries an
older revision. `PoolReopens`: while the pool is closed exactly one request
closes it, however many loads fail at once; `RequestsTerminate`: no request is
sent back to an earlier stage.

Only model-checked: liveness, which with ENABLED is out of the prover's reach.
The termination theorems prove the part of it that is about the code: a measure
that steps lower. What is left to TLC is that a step is always possible (proved
for the reservations by `DeadlockFree`), that fairness takes it, and what comes
true in the end (`AnswersBecomeRight`, `CachesBecomeCurrent`).

## 5. Not modelled, and why

* Cryptography, parsing, formats, and the fields of certificates: outcomes are
  inputs. HTTP and start-up wiring, metrics, logging, the SDKs and the
  demonstrations keep no shared state. `MemoryStatefulStore` and the in-memory
  task store are synchronous stand-ins.
* The state authority: the engine reads a signed value and decides before the
  reservation starts; nothing in the repository writes to the authority, so that
  there is no protocol between them to model.
* The start-up sweep over unsigned audit rows: this code writes none. Task store
  migrations: sequential, each in a transaction with its row in a ledger whose
  primary key refuses a second run.
* Admin routes for local policy, workflow policies and delegation settings:
  single rows that are read when they are needed and cached by nothing.
* Rounding of amounts to the column's scale, and 32-bit overflow of indices.
* Introspection by the issuer of its own credentials, and its public key route,
  read one row or one table.

`PROJECT.json` lists every component and every hazard with its state.

## 6. What could be added

A composition of `A2AReceiver`, `EngineAudit` and `StatefulReserve` that follows
one key end to end: the parts meet at inputs (section 2), so that it would need an
instance many times as large to say what follows from `OneEvaluation` and
`SequentialRetryFree`. Several engine processes in
`Governance`, whose only common state is the tables (`ChangeElsewhere` stands for
the others).
