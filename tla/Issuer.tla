------------------------------- MODULE Issuer -------------------------------
(***************************************************************************)
(* The issuer: its signing keys, the three ways to issue a credential,     *)
(* revocation, and what it publishes (key set and status list).  Every     *)
(* request is a sequence of single statements on a database that all       *)
(* issuer processes share; none of them runs in a transaction with another.*)
(* A request issues one credential, and stands for it.                     *)
(*                                                                         *)
(*   jwt    key -> credential row                                          *)
(*   vc     key -> status list index -> credential row -> status row       *)
(*   x509   credential row (the key is configured, not from the database)  *)
(***************************************************************************)
EXTENDS Integers, Sequences

CONSTANTS
    Request,        \* requests to issue, and the credentials they issue
    Format,         \* [Request -> SUBSET {"jwt", "vc", "x509"}]: what it may ask for
    Configured,     \* of "did", "list" and "x509": what the environment sets
    X509Kid,        \* X509_KEY_ID, or 0 for the thumbprint of the certificate
    Bits,           \* bits in a byte of the status list
    MaxRotations,   \* bound: key rotations
    MaxFailures     \* bound: statements that fail and processes that exit

ASSUME ConstantsAssumption ==
    /\ Format \in [Request -> SUBSET {"jwt", "vc", "x509"}]
    /\ Configured \subseteq {"did", "list", "x509"}
    /\ X509Kid \in Nat /\ Bits \in Nat \ {0}
    /\ MaxRotations \in Nat /\ MaxFailures \in Nat

VARIABLES
    keys,           \* portauth_signing_keys by age: is the k-th key active?
    nextIndex,      \* status_list_next_index
    stored,         \* portauth_issued_credentials: the requests that have a row
    revoked,        \* those whose row says so
    entries,        \* portauth_credential_status: the index of a request, or None
    request,        \* [Request -> record]: where a request is
    rotating,       \* rotations that have deactivated the old keys, and have no new one yet
    rotations,
    failures

database == <<keys, nextIndex, stored, revoked, entries>>
vars == <<database, request, rotating, rotations, failures>>

None == -1
Stage == {"new", "select", "generate", "index", "credential", "status", "answered"}
Answer == {"none", "issued", "ttl_exceeded", "configuration_error", "failed"}

At(r, stage) == request[r].stage = stage
HandedOut(r) == request[r].answer = "issued"

Init ==
    /\ keys = <<>>
    /\ nextIndex = 0
    /\ stored = {} /\ revoked = {}
    /\ entries = [r \in Request |-> None]
    /\ request = [r \in Request |->
         [stage |-> "new", format |-> "jwt", kid |-> 0,
          index |-> None, answer |-> "none", retired |-> {}]]
    /\ rotating = 0
    /\ rotations = 0
    /\ failures = 0

-----------------------------------------------------------------------------
\* Signing keys.

Active == {k \in DOMAIN keys : keys[k]}

\* Mutant: only the keys in use are published.
PublicKeysActive == Active

\* getPublicKeys: all of them, so that what they signed stays verifiable.
PublicKeys == DOMAIN keys

\* Mutant: the newest key, active or not.
CandidatesOfAnyAge == DOMAIN keys

\* The query of getActiveSigningKey, ordered by age.
Candidates == Active
Newest == CHOOSE k \in Candidates : \A j \in Candidates : j <= k

\* generateKeyPair: a new key is active; nothing keeps a second one away.
AddKey ==
    /\ keys' = Append(keys, TRUE)
    /\ UNCHANGED <<nextIndex, stored, revoked, entries>>

\* rotateKeys: two statements; nothing keeps two rotations apart.
Deactivate ==
    /\ rotations < MaxRotations
    /\ rotations' = rotations + 1
    /\ keys' = [k \in DOMAIN keys |-> FALSE]
    /\ rotating' = rotating + 1
    /\ UNCHANGED <<nextIndex, stored, revoked, entries, request, failures>>

Replace ==
    /\ rotating > 0
    /\ AddKey
    /\ rotating' = rotating - 1
    /\ UNCHANGED <<request, rotations, failures>>

RotationFails ==
    /\ rotating > 0
    /\ failures < MaxFailures /\ failures' = failures + 1
    /\ rotating' = rotating - 1
    /\ UNCHANGED <<database, request, rotations>>

-----------------------------------------------------------------------------
\* Issuing.  Every statement is an effect on the database and a step of its
\* request; a failure can separate the two.

Reply(r, answer) ==
    request' = [request EXCEPT ![r].stage = "answered", ![r].answer = answer,
                               ![r].retired = {}]
Continue(r, stage) == request' = [request EXCEPT ![r].stage = stage]

\* What the environment must set for this format; checked, with the asked
\* lifetime, between the key and the first statement that writes.
IsConfigured(r) ==
    /\ request[r].format = "vc" => "did" \in Configured
    /\ request[r].format = "x509" => "x509" \in Configured

NeedsIndex(r) == request[r].format = "vc" /\ "list" \in Configured

\* With its key known, a request is refused or goes on to write.
Prepare(r, kid) ==
    IF ~IsConfigured(r) THEN Reply(r, "configuration_error")
    ELSE \/ Reply(r, "ttl_exceeded")
         \/ request' = [request EXCEPT
               ![r].kid = kid,
               ![r].stage = IF NeedsIndex(r) THEN "index" ELSE "credential"]

\* POST /credentials/issue, /issue-vc, /issue-x509 with a valid body.
Begin(r) ==
    /\ At(r, "new")
    /\ \E format \in Format[r] :
         request' = [request EXCEPT
           ![r].format = format, ![r].stage = "select",
           ![r].retired = DOMAIN keys \ Active]
    /\ UNCHANGED <<database, rotating, rotations, failures>>

\* getX509SigningMaterial reads the environment, no table.
UseCertificate(r) ==
    /\ At(r, "select")
    /\ request[r].format = "x509"
    /\ Prepare(r, X509Kid)
    /\ UNCHANGED <<database, rotating, rotations, failures>>

\* Mutant: without a key the request waits for one.
SelectKeyWaiting(r) ==
    /\ At(r, "select")
    /\ request[r].format # "x509"
    /\ Candidates # {}
    /\ Prepare(r, Newest)
    /\ UNCHANGED <<database, rotating, rotations, failures>>

SelectKey(r) ==
    /\ At(r, "select")
    /\ request[r].format # "x509"
    /\ IF Candidates = {} THEN Continue(r, "generate")
       ELSE Prepare(r, Newest)
    /\ UNCHANGED <<database, rotating, rotations, failures>>

\* The first use generates a key, then selects again.
GenerateKey(r) ==
    /\ At(r, "generate")
    /\ AddKey
    /\ Continue(r, "select")
    /\ UNCHANGED <<rotating, rotations, failures>>

\* Mutant: the next index is the number of status rows.
IndexFromRows ==
    LET used == {entries[r] : r \in {q \in Request : entries[q] # None}}
    IN  CHOOSE i \in 0 .. nextIndex : i \notin used /\ \A j \in 0 .. i - 1 : j \in used

\* allocateStatusListIndex: one upsert increments the counter and returns it.
NewIndex == nextIndex
TakeIndex ==
    /\ nextIndex' = nextIndex + 1
    /\ UNCHANGED <<keys, stored, revoked, entries>>

AllocateIndex(r) ==
    /\ At(r, "index")
    /\ TakeIndex
    /\ request' = [request EXCEPT ![r].index = NewIndex, ![r].stage = "credential"]
    /\ UNCHANGED <<rotating, rotations, failures>>

\* The row names the signing key, which the schema requires to exist.
AddCredential(r) ==
    /\ request[r].kid \in DOMAIN keys
    /\ stored' = stored \cup {r}
    /\ UNCHANGED <<keys, nextIndex, revoked, entries>>

InsertCredential(r) ==
    /\ At(r, "credential")
    /\ AddCredential(r)
    /\ IF NeedsIndex(r) THEN Continue(r, "status") ELSE Reply(r, "issued")
    /\ UNCHANGED <<rotating, rotations, failures>>

ForeignKeyFails(r) ==
    /\ At(r, "credential")
    /\ request[r].kid \notin DOMAIN keys
    /\ Reply(r, "failed")
    /\ UNCHANGED <<database, rotating, rotations, failures>>

AddEntry(r) ==
    /\ entries' = [entries EXCEPT ![r] = request[r].index]
    /\ UNCHANGED <<keys, nextIndex, stored, revoked>>

InsertEntry(r) ==
    /\ At(r, "status")
    /\ AddEntry(r)
    /\ Reply(r, "issued")
    /\ UNCHANGED <<rotating, rotations, failures>>

\* A statement fails, or takes effect and its answer is lost with the
\* connection or the process: the request ends, nothing is taken back.
StatementFails(r) ==
    /\ request[r].stage \notin {"new", "answered"}
    /\ failures < MaxFailures /\ failures' = failures + 1
    /\ Reply(r, "failed")
    /\ \/ UNCHANGED database
       \/ At(r, "generate") /\ AddKey
       \/ At(r, "index") /\ TakeIndex
       \/ At(r, "credential") /\ AddCredential(r)
       \/ At(r, "status") /\ AddEntry(r)
    /\ UNCHANGED <<rotating, rotations>>

\* Mutant: whether the update found a row is not looked at.
RevokeUnknown(r) ==
    /\ r \notin revoked
    /\ revoked' = revoked \cup {r}
    /\ UNCHANGED <<keys, nextIndex, stored, entries, request, rotating, rotations,
                   failures>>

\* revokeCredential: one conditional update; an administrator may revoke what
\* was stored, handed out or not.
Revoke(r) ==
    /\ r \in stored \ revoked
    /\ revoked' = revoked \cup {r}
    /\ UNCHANGED <<keys, nextIndex, stored, entries, request, rotating, rotations,
                   failures>>

-----------------------------------------------------------------------------
\* The status list, built from one query over the status rows, and how a
\* receiver reads a bit of it (setBit and decodeBitAtIndex).

\* Mutant: the length is rounded up from the last index, not from one more.
InRangeShort(i) ==
    \/ i \div Bits = 0
    \/ \E r \in Request : entries[r] # None /\ (i \div Bits) * Bits < entries[r]

\* It is as long as the byte of its last entry, and one byte at least.
InRange(i) ==
    \/ i \div Bits = 0
    \/ \E r \in Request : entries[r] # None /\ i \div Bits <= entries[r] \div Bits

IsSet(i) == \E r \in revoked : entries[r] = i
Bars(i) == ~InRange(i) \/ IsSet(i)

-----------------------------------------------------------------------------
Advance(r) ==
    \/ UseCertificate(r) \/ SelectKey(r) \/ GenerateKey(r) \/ AllocateIndex(r)
    \/ InsertCredential(r) \/ ForeignKeyFails(r) \/ InsertEntry(r)

Next ==
    \/ \E r \in Request : Begin(r) \/ Advance(r) \/ StatementFails(r) \/ Revoke(r)
    \/ Deactivate \/ Replace \/ RotationFails

Spec == Init /\ [][Next]_vars

\* A request that has begun runs on.
FairSpec == Spec /\ \A r \in Request : WF_vars(Advance(r))

-----------------------------------------------------------------------------
\* Type correctness of the issuer's tables and requests (migrations 001 and
\* 004, keyManager.js, the three issuing services).
TypeOK ==
    /\ keys \in Seq(BOOLEAN)
    /\ nextIndex \in Nat
    /\ stored \in SUBSET Request /\ revoked \in SUBSET stored
    /\ entries \in [Request -> Nat \cup {None}]
    /\ request \in [Request ->
         [stage : Stage, format : {"jwt", "vc", "x509"}, kid : Nat,
          index : Nat \cup {None}, answer : Answer, retired : SUBSET Nat]]
    /\ rotations \in 0 .. MaxRotations
    /\ rotating \in 0 .. rotations
    /\ failures \in 0 .. MaxFailures

\* No two credentials are signed with one index into the status list, whatever
\* requests fail or run at once: revoking one never revokes another
\* (allocateStatusListIndex).
IndicesNotShared ==
    \A r, q \in Request :
        request[r].index # None /\ request[r].index = request[q].index => r = q

\* The key of every credential handed out is in the key set the issuer
\* publishes, through any number of rotations (getPublicKeys, rotateKeys).
HandedOutVerifiable ==
    \A r \in Request : HandedOut(r) => request[r].kid \in PublicKeys

\* A key that a rotation had retired when a request came in signs nothing for
\* it, even while the rotation has put no new key in its place (getActiveSigningKey).
RetiredKeysSignNothing ==
    \A r \in Request :
        request[r].format # "x509" => request[r].kid \notin request[r].retired

\* Any status list built once a VC is handed out bars that VC exactly if it is
\* revoked: its entry is there, in range and its own (issueVcCredential,
\* buildStatusListCredential).
ListIsExact ==
    \A r \in Request :
        HandedOut(r) /\ NeedsIndex(r) => (Bars(request[r].index) <=> r \in revoked)

\* Every request is answered in the end: the loop that generates a key and
\* selects again ends although rotations may retire the key it has just made.
RequestsAnswered ==
    \A r \in Request : At(r, "select") ~> At(r, "answered")
=============================================================================
