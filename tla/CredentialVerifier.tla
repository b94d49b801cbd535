------------------------- MODULE CredentialVerifier -------------------------
(***************************************************************************)
(* verifyCredential of the engine, for its three trust tiers, on several   *)
(* processes, while the issuers publish and withdraw keys, revoke what     *)
(* they issued, and an administrator edits the registry of trusted         *)
(* issuers.  A verification is a sequence of checks with an await between  *)
(* most of them; two of the things it looks at come from caches with a     *)
(* time to live (an issuer's keys, an issuer's status list), the others    *)
(* are read each time.  Time is a number of ticks, kept as ages.           *)
(*                                                                         *)
(*   tier 1  keys -> issuer -> revocation (introspection) -> binding       *)
(*   tier 2  issuer and chain -> revocation (registry) -> binding          *)
(*   tier 3  keys (DID) -> issuer -> revocation (status list) -> binding   *)
(***************************************************************************)
EXTENDS Integers, Sequences

CONSTANTS
    Issuer,         \* issuers a credential may name
    Key,            \* signing keys (for tier 2: leaf certificates)
    Permission,     \* actions a credential may grant
    NoKid,          \* what a header names that names no key
    Agent,          \* who may hold or present a credential
    Nobody,         \* the presenter of a link before the last of a chain
    Receiver,       \* values an audience claim may list
    Credential,     \* credentials in circulation
    Process,        \* engine processes
    Call,           \* verifications under way at one time
    Database,       \* where the processes share what they cached
    TierOf,         \* [Issuer -> 1 .. 3]
    Holds,          \* [Issuer -> SUBSET Key]: keys that are the issuer's own
    FirstKeys,      \* [Issuer -> SUBSET Key]: those it publishes at first
    Leads,          \* [SUBSET Key -> Key]: the key that leads a document with these keys
    Revocable,      \* credentials and certificates that may be revoked
    Claims,         \* [Credential -> Claim]: what a credential says
    Presentation,   \* who presents which credential with which proof
    EvaluatorIds,   \* the audiences this engine answers to
    RequireProof,   \* whether a proof of possession is asked for in any case
    Mechanism,      \* [Issuer -> {"introspection", "none"}], tier 1
    FailureMode,    \* [Issuer -> {"open", "closed"}], tiers 1 and 2
    Retries,        \* introspections repeated after a failure
    KeyTtl,         \* ticks a fetched key set is used
    StatusTtl,      \* ticks a fetched status list is used
    FetchTimeout,   \* ticks after which a status list fetch is aborted
    MaxChanges,     \* bound: changes at the issuers and in the registry
    MaxFailures     \* bound: failing fetches, queries and processes

\* What a credential says, as far as it is looked at: its parts are "partial"
\* when one of the four is missing, "unsupported" when a VC names its issuer by
\* something else than did:web or did:key, "vcless" when a DID-signed token has
\* no VC in it.  A status entry of unknown type or without index is no entry.
\* It was signed with key; kid is what its header names (in tier 2 the leaf
\* certificate of its x5c).
Claim ==
    [issuer : Issuer, key : Key, kid : Key \cup {NoKid}, permissions : SUBSET Permission,
     audience : SUBSET Receiver, subject : Agent, confirmation : BOOLEAN,
     chain : BOOLEAN,
     structure : {"whole", "partial", "unsupported", "vcless"},
     status : {"none", "listed", "unindexed"}]

ASSUME ConstantsAssumption ==
    /\ TierOf \in [Issuer -> 1 .. 3]
    /\ Holds \in [Issuer -> SUBSET Key]
    /\ FirstKeys \in [Issuer -> SUBSET Key]
    /\ \A i \in Issuer : FirstKeys[i] \subseteq Holds[i]
    /\ Leads \in [SUBSET Key -> Key]
    /\ \A keys \in SUBSET Key \ {{}} : Leads[keys] \in keys
    /\ NoKid \notin Key /\ Nobody \notin Agent
    /\ Revocable \subseteq Credential \cup Key
    /\ Claims \in [Credential -> Claim]
    /\ \A cr \in Credential :
         /\ Claims[cr].permissions # {}
         /\ TierOf[Claims[cr].issuer] = 2 => Claims[cr].kid # NoKid
    /\ Presentation \subseteq
         [credential : Credential, presenter : Agent \cup {Nobody},
          proof : {"none", "bound", "unbound"}, asks : {"issuer", "other"}]
    /\ EvaluatorIds \subseteq Receiver /\ RequireProof \in BOOLEAN
    /\ Mechanism \in [Issuer -> {"introspection", "none"}]
    /\ FailureMode \in [Issuer -> {"open", "closed"}]
    /\ Database \notin Process

ASSUME BoundsAssumption ==
    /\ Retries \in Nat /\ MaxChanges \in Nat /\ MaxFailures \in Nat
    /\ KeyTtl \in Nat \ {0} /\ StatusTtl \in Nat \ {0}
    /\ FetchTimeout \in Nat

VARIABLES
    registry,       \* [Issuer -> Entry]: the entries of trusted issuers
    published,      \* [Issuer -> SUBSET Key]: its key set or DID document
    revokedFor,     \* [Credential \cup Key -> Int]: ticks since revocation, -1 if not revoked
    expired,        \* credentials past their exp
    keyCache,       \* [Process \cup {Database} -> [Issuer -> [keys, age]]]
    listCache,      \* [Issuer -> [barred, age]]
    call,           \* [Call -> record]: the verification in this slot
    seen,           \* [Call -> SUBSET Fact]: history, what held at some moment of the call
    changes,
    failures

vars == <<registry, published, revokedFor, expired, keyCache, listCache, call,
          seen, changes, failures>>
world == <<registry, published, revokedFor, expired, changes>>
caches == <<keyCache, listCache>>

Error ==
    {"credential_incomplete", "unsupported_did_method", "signature_invalid",
     "did_resolution_failed", "credential_expired", "issuer_untrusted",
     "x509_chain_invalid", "x509_subject_mismatch", "audience_mismatch", "credential_revoked",
     "tier1_revocation_unavailable", "x509_revocation_unavailable",
     "subject_binding_mismatch", "proof_of_possession_failed",
     "internal_error", "lost"}
Fact == {"trusted", "unexpired", "unrevoked"}
Stage == {"idle", "keys", "served", "issuer", "revocation", "list", "binding"}
Oldest == StatusTtl + FetchTimeout      \* revocations are not aged beyond

Lesser(a, b) == IF a < b THEN a ELSE b

-----------------------------------------------------------------------------
\* The checks, as pairs of a truth value and the error code of its failure.

FirstError(checks) ==
    LET failing == {i \in DOMAIN checks : ~checks[i][1]}
    IN  IF failing = {} THEN "none"
        ELSE checks[CHOOSE i \in failing : \A j \in failing : i <= j][2]

\* Steps 1 and 1b: the four components of an authorization are present; a VC
\* must name its issuer by a DID of a supported method.
StructureChecks(cr) ==
    << <<Claims[cr].structure # "partial", "credential_incomplete">>,
       <<Claims[cr].structure # "unsupported", "unsupported_did_method">> >>

Tier(cr) == TierOf[Claims[cr].issuer]

\* The keys that may be tried: the one the header names.  A header that names
\* none must be met by a key set with one key only (jose); a DID document that
\* does not have the key named, or is asked for none, gives its leading key.
Selected(cr, keys) ==
    IF Claims[cr].kid \in keys THEN {Claims[cr].kid}
    ELSE IF Tier(cr) = 3 /\ keys # {} THEN {Leads[keys]}
    ELSE IF Claims[cr].kid = NoKid /\ \E k \in keys : keys = {k} THEN keys
    ELSE {}

\* It is the one the credential was signed with.
KeyFound(cr, keys) == Selected(cr, keys) = {Claims[cr].key}

SignatureChecks(cr, keys) ==
    << <<KeyFound(cr, keys), "signature_invalid">>,
       <<cr \notin expired, "credential_expired">> >>

\* Entry of an issuer; one without permissions is missing or inactive.
Entry == [permissions : SUBSET Permission, standing : BOOLEAN]
Registered(i) == registry[i].permissions # {}

\* An active entry of the credential's tier that covers every permission the
\* credential grants.  Only tier 3 reads governance_status.
Trusted(cr) ==
    LET entry == registry[Claims[cr].issuer]
    IN  /\ Registered(Claims[cr].issuer)
        /\ Claims[cr].permissions \subseteq entry.permissions
        /\ Tier(cr) = 3 => entry.standing

\* validateAudience: a credential without audience is for everybody.
AudienceMatches(cr) ==
    \/ Claims[cr].audience = {}
    \/ Claims[cr].audience \cap EvaluatorIds # {}

\* After the signature tier 3 asks for a VC with its components in the payload.
TrustChecks(cr) ==
    << <<Claims[cr].structure # "vcless", "credential_incomplete">>,
       <<Trusted(cr), "issuer_untrusted">>,
       <<AudienceMatches(cr), "audience_mismatch">> >>

\* verifyX509ChainFromHeader: validity, usage, signatures up to an anchor.
ChainHolds(cr) == Claims[cr].chain

\* validateCertificateIdentity: the leaf is one of the issuer's own.
BoundToIssuer(cr) == Claims[cr].kid \in Holds[Claims[cr].issuer]

\* Tier 2 looks the issuer up first, because its trust anchors are there; the
\* leaf certificate must be bound to the issuer, and the signature is its own.
X509Checks(cr) ==
    << <<Registered(Claims[cr].issuer), "issuer_untrusted">>,
       <<ChainHolds(cr), "x509_chain_invalid">>,
       <<BoundToIssuer(cr), "x509_subject_mismatch">>,
       <<Claims[cr].key = Claims[cr].kid, "signature_invalid">>,
       <<cr \notin expired, "credential_expired">>,
       <<Trusted(cr), "issuer_untrusted">>,
       <<AudienceMatches(cr), "audience_mismatch">> >>

\* A proof over this credential, this presenter and this request is necessary if
\* the credential has a confirmation key, or always; without such a key there is
\* none.  A link that nobody presents needs none (delegationVerifier.js).
ProofHolds(s) ==
    \/ s.presenter = Nobody
    \/ ~RequireProof /\ ~Claims[s.credential].confirmation
    \/ Claims[s.credential].confirmation /\ s.proof = "bound"

\* The subject of such a link is not compared either.
BindingChecks(s) ==
    << <<s.presenter \in {Nobody, Claims[s.credential].subject}, "subject_binding_mismatch">>,
       <<ProofHolds(s), "proof_of_possession_failed">> >>

\* What is revoked: for tier 2 the signing certificate, else the credential.
Handle(cr) == IF Tier(cr) = 2 THEN Claims[cr].kid ELSE cr
Revoked(cr) == revokedFor[Handle(cr)] >= 0

-----------------------------------------------------------------------------
\* Bookkeeping of a verification.

Idle(answer) ==
    [stage |-> "idle", at |-> "none", shows |-> "none", got |-> {},
     tries |-> 0, waited |-> 0, answer |-> answer]

Shown(c) == call[c].shows.credential
IssuerOf(c) == Claims[Shown(c)].issuer
At(c, stages) == call[c].stage \in stages

Reply(c, answer) == call' = [call EXCEPT ![c] = Idle(answer)]
Proceed(c, stage) ==
    call' = [call EXCEPT ![c].stage = stage, ![c].got = {}, ![c].waited = 0]

\* Go on if every check passes, else answer with the first that fails.
Settle(c, checks, stage) ==
    IF FirstError(checks) = "none" THEN Proceed(c, stage)
    ELSE Reply(c, FirstError(checks))

Fails == failures < MaxFailures /\ failures' = failures + 1

\* The in-process map for JWKS, the shared table for DID documents.
Home(c) == IF Tier(Shown(c)) = 3 THEN Database ELSE call[c].at

\* No entry, or one that has expired: nothing reads what it held.
NoKeys == [keys |-> {}, age |-> KeyTtl]
NoList == [barred |-> {}, age |-> StatusTtl]
KeysUsable(slot) == slot.age < KeyTtl
ListUsable(slot) == slot.age < StatusTtl

Init ==
    /\ registry = [i \in Issuer |-> [permissions |-> Permission, standing |-> TRUE]]
    /\ published = FirstKeys
    /\ revokedFor = [h \in Credential \cup Key |-> -1]
    /\ expired = {}
    /\ keyCache = [m \in Process \cup {Database} |->
                     [i \in Issuer |-> NoKeys]]
    /\ listCache = [i \in Issuer |-> NoList]
    /\ call = [c \in Call |-> Idle("none")]
    /\ seen = [c \in Call |-> {}]
    /\ changes = 0
    /\ failures = 0

-----------------------------------------------------------------------------
\* verifyCredential is called: the structure is checked, the profile chosen.
Begin(c) ==
    /\ At(c, {"idle"})
    /\ \E p \in Process, s \in Presentation :
         IF FirstError(StructureChecks(s.credential)) # "none"
         THEN Reply(c, FirstError(StructureChecks(s.credential)))
         ELSE call' = [call EXCEPT ![c] =
                [Idle("none") EXCEPT
                   !.stage = IF Tier(s.credential) = 2 THEN "issuer" ELSE "keys",
                   !.at = p, !.shows = s]]
    /\ UNCHANGED <<world, caches, failures>>

\* Mutant: every use of an entry extends its life.
UseCachedKeysSliding(c) ==
    LET slot == keyCache[Home(c)][IssuerOf(c)]
    IN  /\ At(c, {"keys"})
        /\ KeysUsable(slot)
        /\ keyCache' = [keyCache EXCEPT ![Home(c)][IssuerOf(c)].age = 0]
        /\ Settle(c, SignatureChecks(Shown(c), slot.keys), "issuer")
        /\ UNCHANGED <<world, listCache, failures>>

\* fetchJWKS and resolveDID: an entry that has not expired is used as it is.
UseCachedKeys(c) ==
    LET slot == keyCache[Home(c)][IssuerOf(c)]
    IN  /\ At(c, {"keys"})
        /\ KeysUsable(slot)
        /\ Settle(c, SignatureChecks(Shown(c), slot.keys), "issuer")
        /\ UNCHANGED <<world, caches, failures>>

\* Otherwise the issuer is asked, and its server answers with what it
\* publishes then; nothing bounds how long the answer travels.
AskForKeys(c) ==
    /\ At(c, {"keys"})
    /\ ~KeysUsable(keyCache[Home(c)][IssuerOf(c)])
    /\ call' = [call EXCEPT ![c].stage = "served", ![c].got = published[IssuerOf(c)]]
    /\ UNCHANGED <<world, caches, failures>>

\* Whatever arrives replaces what is cached, and starts a new lifetime.
KeysArrive(c) ==
    /\ At(c, {"served"})
    /\ keyCache' = [keyCache EXCEPT ![Home(c)][IssuerOf(c)] =
                      [keys |-> call[c].got, age |-> 0]]
    /\ Settle(c, SignatureChecks(Shown(c), call[c].got), "issuer")
    /\ UNCHANGED <<world, listCache, failures>>

\* The issuer does not answer, or the table of DID documents fails: also when it
\* has an entry that could have been used.
KeysFail(c) ==
    LET usable == At(c, {"keys"}) /\ KeysUsable(keyCache[Home(c)][IssuerOf(c)])
    IN  /\ At(c, {"keys", "served"})
        /\ Tier(Shown(c)) = 3 \/ ~usable
        /\ \/ Reply(c, "signature_invalid")
           \/ Tier(Shown(c)) = 3 /\ ~usable /\ Reply(c, "did_resolution_failed")
        /\ Fails
        /\ UNCHANGED <<world, caches>>

\* The registry is read on every verification, never cached.
CheckIssuer(c) ==
    /\ At(c, {"issuer"})
    /\ Settle(c, IF Tier(Shown(c)) = 2 THEN X509Checks(Shown(c))
                 ELSE TrustChecks(Shown(c)), "revocation")
    /\ UNCHANGED <<world, caches, failures>>

\* The query is outside every try of the verifier; the handler answers 500.
IssuerQueryFails(c) ==
    /\ At(c, {"issuer"})
    /\ Reply(c, "internal_error")
    /\ Fails
    /\ UNCHANGED <<world, caches>>

-----------------------------------------------------------------------------
\* Revocation.

Introspects(c) ==
    Tier(Shown(c)) = 1 /\ Mechanism[IssuerOf(c)] = "introspection"
Listed(c) == Tier(Shown(c)) = 3 /\ Claims[Shown(c)].status # "none"

\* No mechanism for this credential: only its expiry limits it.
NoRevocation(c) ==
    /\ At(c, {"revocation"})
    /\ Tier(Shown(c)) # 2 /\ ~Introspects(c) /\ ~Listed(c)
    /\ Proceed(c, "binding")
    /\ UNCHANGED <<world, caches, failures>>

\* The issuer is asked, unless the request names someone else: the issuer calls a
\* credential inactive once revoked or past its validity.
Introspect(c) ==
    /\ At(c, {"revocation"})
    /\ Introspects(c)
    /\ call[c].shows.asks = "issuer"
    /\ IF Revoked(Shown(c)) \/ Shown(c) \in expired
       THEN Reply(c, "credential_revoked")
       ELSE Proceed(c, "binding")
    /\ UNCHANGED <<world, caches, failures>>

\* Whoever answers at a URL of the request may say either.
IntrospectElsewhere(c) ==
    /\ At(c, {"revocation"})
    /\ Introspects(c)
    /\ call[c].shows.asks = "other"
    /\ Reply(c, "credential_revoked") \/ Proceed(c, "binding")
    /\ UNCHANGED <<world, caches, failures>>

\* Mutant: one attempt too many.
IntrospectionFailsOnceMore(c) ==
    /\ At(c, {"revocation"})
    /\ Introspects(c)
    /\ IF call[c].tries <= Retries
       THEN call' = [call EXCEPT ![c].tries = @ + 1]
       ELSE IF FailureMode[IssuerOf(c)] = "closed"
            THEN Reply(c, "tier1_revocation_unavailable")
            ELSE Proceed(c, "binding")
    /\ Fails
    /\ UNCHANGED <<world, caches>>

\* Mutant: the failure mode of the issuer is not looked at.
IntrospectionFailsOpen(c) ==
    /\ At(c, {"revocation"})
    /\ Introspects(c)
    /\ IF call[c].tries < Retries
       THEN call' = [call EXCEPT ![c].tries = @ + 1]
       ELSE Proceed(c, "binding")
    /\ Fails
    /\ UNCHANGED <<world, caches>>

IntrospectionFails(c) ==
    /\ At(c, {"revocation"})
    /\ Introspects(c)
    /\ IF call[c].tries < Retries
       THEN call' = [call EXCEPT ![c].tries = @ + 1]
       ELSE IF FailureMode[IssuerOf(c)] = "closed"
            THEN Reply(c, "tier1_revocation_unavailable")
            ELSE Proceed(c, "binding")
    /\ Fails
    /\ UNCHANGED <<world, caches>>

\* checkX509Revocation looks the leaf certificate up in the receiver's table.
CheckCertificate(c) ==
    /\ At(c, {"revocation"})
    /\ Tier(Shown(c)) = 2
    /\ IF Revoked(Shown(c)) THEN Reply(c, "credential_revoked")
       ELSE Proceed(c, "binding")
    /\ UNCHANGED <<world, caches, failures>>

CertificateQueryFails(c) ==
    /\ At(c, {"revocation"})
    /\ Tier(Shown(c)) = 2
    /\ IF FailureMode[IssuerOf(c)] = "closed"
       THEN Reply(c, "x509_revocation_unavailable")
       ELSE Proceed(c, "binding")
    /\ Fails
    /\ UNCHANGED <<world, caches>>

\* A list bars what it marks and what lies beyond its end (fail closed).
ListNow ==
    {cr \in Credential :
       Claims[cr].status = "unindexed" \/ revokedFor[cr] >= 0}

\* decodeBitAtIndex: the bit is set, or there is none at this index.
Barred(cr, list) == cr \in list

ListVerdict(c, list) ==
    IF Barred(Shown(c), list) THEN Reply(c, "credential_revoked")
    ELSE Proceed(c, "binding")

UseCachedList(c) ==
    /\ At(c, {"revocation"})
    /\ Listed(c)
    /\ ListUsable(listCache[IssuerOf(c)])
    /\ ListVerdict(c, listCache[IssuerOf(c)].barred)
    /\ UNCHANGED <<world, caches, failures>>

AskForList(c) ==
    /\ At(c, {"revocation"})
    /\ Listed(c)
    /\ ~ListUsable(listCache[IssuerOf(c)])
    /\ call' = [call EXCEPT ![c].stage = "list", ![c].got = ListNow]
    /\ UNCHANGED <<world, caches, failures>>

ListArrives(c) ==
    /\ At(c, {"list"})
    /\ listCache' = [listCache EXCEPT ![IssuerOf(c)] =
                       [barred |-> call[c].got, age |-> 0]]
    /\ ListVerdict(c, call[c].got)
    /\ UNCHANGED <<world, keyCache, failures>>

\* Mutant: without a list the credential passes.
ListFailsOpen(c) ==
    /\ At(c, {"revocation", "list"}) /\ Listed(c)
    /\ Proceed(c, "binding")
    /\ Fails
    /\ UNCHANGED <<world, caches>>

\* A list that cannot be had (error, timeout, failing table) bars everything.
ListFails(c) ==
    /\ At(c, {"revocation", "list"}) /\ Listed(c)
    /\ Reply(c, "credential_revoked")
    /\ Fails
    /\ UNCHANGED <<world, caches>>

\* The presenter is the subject, and proves it where a proof is asked for.
Bind(c) ==
    /\ At(c, {"binding"})
    /\ IF FirstError(BindingChecks(call[c].shows)) = "none"
       THEN Reply(c, "verified")
       ELSE Reply(c, FirstError(BindingChecks(call[c].shows)))
    /\ UNCHANGED <<world, caches, failures>>

-----------------------------------------------------------------------------
\* What happens around the verifications.

Changes == changes < MaxChanges /\ changes' = changes + 1

\* POST, PUT and DELETE /admin/issuers.  None of them sets the standing; an entry
\* that is deleted takes it along.
EditRegistry(i) ==
    /\ \E permissions \in SUBSET Permission \ {registry[i].permissions} :
         \E standing \in {registry[i].standing} \cup (IF permissions = {} THEN {TRUE} ELSE {}) :
           registry' = [registry EXCEPT ![i] =
                          [permissions |-> permissions, standing |-> standing]]
    /\ Changes
    /\ UNCHANGED <<published, revokedFor, expired, caches, call, failures>>

\* An operator sets governance_status with SQL.
ChangeStanding(i) ==
    /\ Registered(i)
    /\ registry' = [registry EXCEPT ![i].standing = ~@]
    /\ Changes
    /\ UNCHANGED <<published, revokedFor, expired, caches, call, failures>>

\* An issuer adds a key of its own to what it publishes, or takes one back.
PublishKeys(i) ==
    /\ TierOf[i] # 2
    /\ \E k \in Holds[i] :
         published' = [published EXCEPT ![i] =
                         IF k \in @ THEN @ \ {k} ELSE @ \cup {k}]
    /\ Changes
    /\ UNCHANGED <<registry, revokedFor, expired, caches, call, failures>>

Revoke(h) ==
    /\ revokedFor[h] = -1
    /\ revokedFor' = [revokedFor EXCEPT ![h] = 0]
    /\ Changes
    /\ UNCHANGED <<registry, published, expired, caches, call, failures>>

Expire(cr) ==
    /\ cr \notin expired
    /\ expired' = expired \cup {cr}
    /\ Changes
    /\ UNCHANGED <<registry, published, revokedFor, caches, call, failures>>

\* A tick passes; a status list fetch is aborted before it outlives its limit.
Tick ==
    /\ \A c \in Call : At(c, {"list"}) => call[c].waited < FetchTimeout
    /\ keyCache' = [m \in Process \cup {Database} |-> [i \in Issuer |->
         IF keyCache[m][i].age + 1 < KeyTtl
         THEN [keyCache[m][i] EXCEPT !.age = @ + 1] ELSE NoKeys]]
    /\ listCache' = [i \in Issuer |->
         IF listCache[i].age + 1 < StatusTtl
         THEN [listCache[i] EXCEPT !.age = @ + 1] ELSE NoList]
    /\ revokedFor' = [h \in Credential \cup Key |->
         IF revokedFor[h] = -1 THEN -1 ELSE Lesser(revokedFor[h] + 1, Oldest)]
    /\ call' = [c \in Call |->
         IF At(c, {"list"}) THEN [call[c] EXCEPT !.waited = @ + 1] ELSE call[c]]
    /\ UNCHANGED <<registry, published, expired, changes, failures>>

\* A process exits and is started again: its calls and its JWKS map are gone.
Restart(p) ==
    /\ keyCache' = [keyCache EXCEPT ![p] =
                      [i \in Issuer |-> NoKeys]]
    /\ call' = [c \in Call |->
                  IF ~At(c, {"idle"}) /\ call[c].at = p THEN Idle("lost") ELSE call[c]]
    /\ Fails
    /\ UNCHANGED <<world, listCache>>

-----------------------------------------------------------------------------
Advance(c) ==
    \/ UseCachedKeys(c) \/ AskForKeys(c)
    \/ KeysArrive(c) \/ CheckIssuer(c)
    \/ NoRevocation(c) \/ Introspect(c) \/ IntrospectElsewhere(c) \/ CheckCertificate(c)
    \/ UseCachedList(c) \/ AskForList(c) \/ ListArrives(c)
    \/ Bind(c)

Mishap(c) ==
    \/ KeysFail(c) \/ IssuerQueryFails(c) \/ IntrospectionFails(c)
    \/ CertificateQueryFails(c) \/ ListFails(c)

Outside ==
    \/ \E i \in Issuer : EditRegistry(i) \/ ChangeStanding(i) \/ PublishKeys(i)
    \/ \E h \in Revocable : Revoke(h)
    \/ \E cr \in Credential : Expire(cr)
    \/ \E p \in Process : Restart(p)
    \/ Tick

\* What is true of a credential now.
Facts(cr) ==
    {f \in Fact : \/ f = "trusted" /\ Trusted(cr)
                  \/ f = "unexpired" /\ cr \notin expired
                  \/ f = "unrevoked" /\ ~Revoked(cr)}

\* History: the facts that held at some moment since the call began.
Watch ==
    seen' = [c \in Call |->
               IF call'[c].stage = "idle" THEN {}
               ELSE seen[c] \cup Facts(call[c].shows.credential)']

Next ==
    /\ \/ \E c \in Call : Begin(c) \/ Advance(c) \/ Mishap(c)
       \/ Outside
    /\ Watch

\* Time passes, and a status list that was asked for arrives (its fetch has a time
\* limit).  Nothing else has to go on: a verification that never ends gives no
\* wrong answer.
Fairness ==
    /\ \A c \in Call : WF_call(ListArrives(c))
    /\ WF_<<caches, revokedFor, call>>(Tick)

Spec == Init /\ [][Next]_vars
FairSpec == Spec /\ Fairness

-----------------------------------------------------------------------------
KeySlot == [keys : SUBSET Key, age : 0 .. KeyTtl]
ListSlot == [barred : SUBSET Credential, age : 0 .. StatusTtl]
Running ==
    [stage : Stage \ {"idle"}, at : Process, shows : Presentation,
     got : SUBSET (Key \cup Credential), tries : 0 .. Retries,
     waited : 0 .. FetchTimeout, answer : {"none"}]

\* Type correctness of the verifier's state: caches, calls and the outside
\* world (credentialVerifier.js, didResolver.js, statusListChecker.js).
TypeOK ==
    /\ registry \in [Issuer -> Entry]
    /\ published \in [Issuer -> SUBSET Key]
    /\ revokedFor \in [Credential \cup Key -> -1 .. Oldest]
    /\ expired \in SUBSET Credential
    /\ keyCache \in [Process \cup {Database} -> [Issuer -> KeySlot]]
    /\ listCache \in [Issuer -> ListSlot]
    /\ call \in [Call -> Running \cup {Idle(a) : a \in Error \cup {"none", "verified"}}]
    /\ seen \in [Call -> SUBSET Fact]
    /\ changes \in 0 .. MaxChanges
    /\ failures \in 0 .. MaxFailures

\* What must have been true during the call.  Revocation is looked up afresh
\* only by tiers 1 and 2, an unanswered look-up counts only if it denies, and
\* what somebody else says of a credential says nothing of it.
Required(s) ==
    LET issuer == Claims[s.credential].issuer
    IN  {"trusted", "unexpired"} \cup
        (IF /\ FailureMode[issuer] = "closed"
            /\ \/ TierOf[issuer] = 1 /\ Mechanism[issuer] = "introspection" /\ s.asks = "issuer"
               \/ TierOf[issuer] = 2
         THEN {"unrevoked"} ELSE {})

\* A credential is verified only if, at some moment of that very call, its
\* issuer was trusted for everything it grants, it had not expired and (where
\* the mode is closed and the issuer itself is asked) it was not revoked: no
\* cache or earlier call stands in for these checks, whatever changes between
\* the awaits of verifyCredential.
VerifiedOnFreshTrust ==
    [][\A c \in Call :
         (At(c, {"binding"}) /\ call'[c].answer = "verified")
           => Required(call[c].shows) \subseteq seen[c]]_vars

\* A revoked tier 3 credential passes the status check only for the lifetime
\* of a cached list plus the time a fetch may take: a slow fetch, or one that
\* overwrites a newer list, never prolongs that (statusListChecker.js).
RevocationLagBounded ==
    [][\A c \in Call :
         /\ ~At(c, {"idle"}) /\ Listed(c) /\ ~At(c, {"binding"})
         /\ call'[c].stage = "binding"
         => revokedFor[Shown(c)] < StatusTtl + FetchTimeout]_vars

\* What the answer to a presentation should be as things stand.
Right(s) ==
    /\ Claims[s.credential].structure = "whole"
    /\ s.credential \notin expired
    /\ IF Tier(s.credential) = 2
       THEN /\ BoundToIssuer(s.credential) /\ ChainHolds(s.credential)
            /\ Claims[s.credential].key = Claims[s.credential].kid
       ELSE KeyFound(s.credential, published[Claims[s.credential].issuer])
    /\ Trusted(s.credential) /\ AudienceMatches(s.credential)
    /\ \/ Tier(s.credential) = 1
          /\ Mechanism[Claims[s.credential].issuer] = "introspection"
       \/ Tier(s.credential) = 2
       => ~Revoked(s.credential)
    /\ (Tier(s.credential) = 3 /\ Claims[s.credential].status # "none")
         => s.credential \notin ListNow
    /\ FirstError(BindingChecks(s)) = "none"

\* Once keys, registry and revocations stop changing and nothing fails any
\* more, from some moment on every answer that does not depend on somebody else
\* is the right one: a rotated key is accepted, a withdrawn key and a revoked
\* credential are refused, and no traffic keeps an old cache entry alive
\* (fetchJWKS, resolveDID, fetchStatusList).
AnswersBecomeRight ==
    <>[][\A c \in Call :
           (~At(c, {"idle"}) /\ call[c].shows.asks = "issuer" /\ call'[c].stage = "idle")
             => ((call'[c].answer = "verified") <=> Right(call[c].shows))]_vars

=============================================================================
