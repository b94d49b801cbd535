---------------------------- MODULE Issuer_proofs ----------------------------
(***************************************************************************)
(* Proofs about Issuer, for any requests, formats, configuration and       *)
(* bounds.                                                                 *)
(***************************************************************************)
EXTENDS Issuer, SequenceTheorems, WellFoundedInduction, TLAPS

USE DEF database, At, HandedOut

-----------------------------------------------------------------------------
(* Numbers.                                                                *)

(* A set of naturals that is not empty has a least member. *)
LEMMA LeastNat ==
  ASSUME NEW T \in SUBSET Nat, T # {}
  PROVE  \E x \in T : \A y \in T : x <= y
<1> DEFINE R == OpToRel(<, Nat)
<1>1. \E x \in T : \A y \in T : ~ (<<y, x>> \in R)
  <2> HIDE DEF R
  <2>1. IsWellFoundedOn(R, Nat)
    BY NatLessThanWellFounded, Zenon DEF R
  <2> QED
    BY <2>1, WFMin, Zenon
<1>2. PICK x \in T : \A y \in T : ~ (<<y, x>> \in R)
  BY <1>1
<1>3. ASSUME NEW y \in T, y < x
      PROVE  <<y, x>> \in R
  BY <1>3, Zenon DEF OpToRel
<1> HIDE DEF R
<1>4. ASSUME NEW y \in T
      PROVE  x <= y
  <2>1. ~(y < x)
    BY <1>2, <1>3
  <2> QED
    BY <2>1
<1> QED
  BY <1>4

(* And one that has a bound has a greatest. *)
LEMMA GreatestBelow ==
  ASSUME NEW n \in Nat, NEW T \in SUBSET (0 .. n), T # {}
  PROVE  \E x \in T : \A y \in T : y <= x
<1> DEFINE U == {n - t : t \in T}
<1>1. U \in SUBSET Nat /\ U # {}
  <2>1. \A t \in T : n - t \in Nat
    OBVIOUS
  <2> QED
    BY <2>1
<1>2. PICK u \in U : \A v \in U : u <= v
  <2> HIDE DEF U
  <2> QED
    BY <1>1, LeastNat
<1>3. PICK x \in T : u = n - x
  BY <1>2
<1>4. ASSUME NEW y \in T
      PROVE  y <= x
  <2>1. n - x <= n - y
    BY <1>2, <1>3
  <2> QED
    BY <2>1
<1> QED
  BY <1>4

-----------------------------------------------------------------------------
(* Type correctness.                                                       *)

RequestType ==
    [stage : Stage, format : {"jwt", "vc", "x509"}, kid : Nat,
     index : Nat \cup {None}, answer : Answer, retired : SUBSET Nat]

LEMMA TypeInit == Init => TypeOK
<1> SUFFICES ASSUME Init
             PROVE  TypeOK
  OBVIOUS
<1>1. request \in [Request -> RequestType]
  BY DEF Init, RequestType, Stage, Answer
<1>2. keys \in Seq(BOOLEAN)
  BY DEF Init
<1>3. rotations \in 0 .. MaxRotations /\ failures \in 0 .. MaxFailures
  BY ConstantsAssumption DEF Init
<1> QED
  BY <1>1, <1>2, <1>3 DEF Init, TypeOK, RequestType

(* The key a request is given is an active one. *)
LEMMA NewestIsActive ==
  ASSUME TypeOK, Candidates # {}
  PROVE  Newest \in Active /\ Newest \in Nat
<1>1. Len(keys) \in Nat /\ Candidates \in SUBSET (0 .. Len(keys))
  BY DEF Candidates, Active, TypeOK
<1>2. \E k \in Candidates : \A j \in Candidates : j <= k
  BY <1>1, GreatestBelow
<1>3. Newest \in Candidates
  BY <1>2 DEF Newest
<1> QED
  BY <1>1, <1>3 DEF Candidates

(* Whatever becomes of a request, it keeps its type. *)
LEMMA ReplyType ==
  ASSUME TypeOK, NEW r \in Request, NEW answer \in Answer, Reply(r, answer)
  PROVE  request' \in [Request -> RequestType]
<1> DEFINE new == [[[request[r] EXCEPT !.stage = "answered"] EXCEPT !.answer = answer]
                                EXCEPT !.retired = {}]
<1>1. request \in [Request -> RequestType] /\ request[r] \in RequestType
  BY DEF TypeOK, RequestType
<1>2. new \in RequestType
  BY <1>1 DEF RequestType, Stage
<1>3. request' = [request EXCEPT ![r] = new]
  BY DEF Reply
<1> QED
  BY <1>1, <1>2, <1>3

LEMMA ContinueType ==
  ASSUME TypeOK, NEW r \in Request, NEW stage \in Stage, Continue(r, stage)
  PROVE  request' \in [Request -> RequestType]
  BY DEF Continue, TypeOK, RequestType

LEMMA BeginType ==
  ASSUME TypeOK, NEW r \in Request, Begin(r)
  PROVE  request' \in [Request -> RequestType]
<1>1. PICK f \in Format[r] :
        request' = [request EXCEPT ![r].format = f, ![r].stage = "select",
                                   ![r].retired = DOMAIN keys \ Active]
  BY DEF Begin
<1> DEFINE new == [[[request[r] EXCEPT !.format = f] EXCEPT !.stage = "select"]
                                EXCEPT !.retired = DOMAIN keys \ Active]
<1>2. request \in [Request -> RequestType] /\ request[r] \in RequestType
  BY DEF TypeOK, RequestType
<1>3. f \in {"jwt", "vc", "x509"} /\ DOMAIN keys \in SUBSET Nat
  BY ConstantsAssumption DEF TypeOK
<1>4. new \in RequestType
  BY <1>2, <1>3 DEF RequestType, Stage
<1>5. request' = [request EXCEPT ![r] = new]
  BY <1>1
<1> QED
  BY <1>2, <1>4, <1>5

LEMMA PrepareType ==
  ASSUME TypeOK, NEW r \in Request, NEW kid \in Nat, Prepare(r, kid)
  PROVE  request' \in [Request -> RequestType]
<1> DEFINE stage == IF NeedsIndex(r) THEN "index" ELSE "credential"
           new == [[request[r] EXCEPT !.kid = kid] EXCEPT !.stage = stage]
<1>1. request \in [Request -> RequestType] /\ request[r] \in RequestType
  BY DEF TypeOK, RequestType
<1>2. CASE request' = [request EXCEPT ![r].kid = kid, ![r].stage = stage]
  <2>1. new \in RequestType
    BY <1>1 DEF RequestType, Stage
  <2>2. request' = [request EXCEPT ![r] = new]
    BY <1>2
  <2> QED
    BY <1>1, <2>1, <2>2
<1>3. CASE Reply(r, "configuration_error") \/ Reply(r, "ttl_exceeded")
  BY <1>3, ReplyType DEF Answer
<1> QED
  BY <1>2, <1>3 DEF Prepare

LEMMA TypeStep == TypeOK /\ [Next]_vars => TypeOK'
<1> SUFFICES ASSUME TypeOK, [Next]_vars
             PROVE  TypeOK'
  OBVIOUS
<1> USE ConstantsAssumption
<1> USE DEF RequestType
<1>1. ASSUME NEW r \in Request, Begin(r)
      PROVE  TypeOK'
  BY <1>1, BeginType DEF Begin, TypeOK
<1>2. ASSUME NEW r \in Request, UseCertificate(r)
      PROVE  TypeOK'
  BY <1>2, PrepareType DEF UseCertificate, TypeOK
<1>3. ASSUME NEW r \in Request, SelectKey(r)
      PROVE  TypeOK'
  <2>1. request' \in [Request -> RequestType]
    <3>1. CASE Candidates = {}
      BY <1>3, <3>1, ContinueType DEF SelectKey, Stage
    <3>2. CASE Candidates # {}
      BY <1>3, <3>2, NewestIsActive, PrepareType DEF SelectKey
    <3> QED
      BY <3>1, <3>2
  <2> QED
    BY <1>3, <2>1 DEF SelectKey, TypeOK
<1>4. ASSUME AddKey
      PROVE  keys' \in Seq(BOOLEAN)
  BY <1>4 DEF AddKey, TypeOK
<1>5. ASSUME NEW r \in Request, GenerateKey(r)
      PROVE  TypeOK'
  <2>1. request' \in [Request -> RequestType]
    BY <1>5, ContinueType DEF GenerateKey, Stage
  <2> QED
    BY <1>4, <1>5, <2>1 DEF GenerateKey, AddKey, TypeOK
<1>6. ASSUME NEW r \in Request, AllocateIndex(r)
      PROVE  TypeOK'
  BY <1>6 DEF AllocateIndex, TakeIndex, NewIndex, TypeOK, Stage
<1>7. ASSUME NEW r \in Request, InsertCredential(r) \/ ForeignKeyFails(r)
      PROVE  TypeOK'
  <2>1. request' \in [Request -> RequestType]
    BY <1>7, ContinueType, ReplyType DEF InsertCredential, ForeignKeyFails, Stage, Answer
  <2> QED
    BY <1>7, <2>1 DEF InsertCredential, AddCredential, ForeignKeyFails, TypeOK
<1>8. ASSUME NEW r \in Request, InsertEntry(r)
      PROVE  TypeOK'
  <2>1. request' \in [Request -> RequestType]
    BY <1>8, ReplyType DEF InsertEntry, Answer
  <2> QED
    BY <1>8, <2>1 DEF InsertEntry, AddEntry, TypeOK
<1>9. ASSUME NEW r \in Request, StatementFails(r)
      PROVE  TypeOK'
  <2>1. request' \in [Request -> RequestType]
    BY <1>9, ReplyType DEF StatementFails, Answer
  <2>2. /\ keys' \in Seq(BOOLEAN) /\ nextIndex' \in Nat
        /\ stored' \in SUBSET Request /\ revoked' \in SUBSET stored'
        /\ entries' \in [Request -> Nat \cup {None}]
    <3>1. CASE UNCHANGED database
      BY <3>1 DEF TypeOK
    <3>2. CASE AddKey
      BY <1>4, <3>2 DEF AddKey, TypeOK
    <3>3. CASE TakeIndex \/ AddCredential(r) \/ AddEntry(r)
      BY <3>3 DEF TakeIndex, AddCredential, AddEntry, TypeOK
    <3> QED
      BY <1>9, <3>1, <3>2, <3>3 DEF StatementFails
  <2> QED
    BY <1>9, <2>1, <2>2 DEF StatementFails, TypeOK
<1>10. ASSUME NEW r \in Request, Revoke(r)
       PROVE  TypeOK'
  BY <1>10 DEF Revoke, TypeOK
<1>11. ASSUME Deactivate
       PROVE  TypeOK'
  <2>1. keys' \in [1 .. Len(keys) -> BOOLEAN] /\ Len(keys) \in Nat
    BY <1>11, LenProperties DEF Deactivate, TypeOK
  <2>2. keys' \in Seq(BOOLEAN)
    BY <2>1, SeqDef
  <2> QED
    BY <1>11, <2>2 DEF Deactivate, TypeOK
<1>12. ASSUME Replace \/ RotationFails
       PROVE  TypeOK'
  <2>1. CASE Replace
    BY <1>4, <2>1 DEF Replace, AddKey, TypeOK
  <2>2. CASE RotationFails
    <3>1. failures' \in 0 .. MaxFailures
      BY <2>2 DEF RotationFails, TypeOK
    <3> QED
      BY <2>2, <3>1 DEF RotationFails, TypeOK
  <2> QED
    BY <1>12, <2>1, <2>2
<1>13. CASE UNCHANGED vars
  BY <1>13 DEF vars, TypeOK
<1> QED
  BY <1>1, <1>2, <1>3, <1>5, <1>6, <1>7, <1>8, <1>9, <1>10, <1>11, <1>12, <1>13
  DEF Next, Advance

(* Every state of the issuer has its type (migrations 001 and 004,          *)
(* keyManager.js, the three issuing services).                              *)
THEOREM TypeCorrect == Spec => []TypeOK
  BY TypeInit, TypeStep, PTL DEF Spec
-----------------------------------------------------------------------------
(* What keys and requests keep.  Every key and every index is taken once;   *)
(* a request's own row in the status table is its index or none.            *)

IndexInv(r) == request[r].index < nextIndex

KeyInv(r) == At(r, "status") \/ HandedOut(r) => request[r].kid \in DOMAIN keys

RetiredInv(r) ==
    /\ request[r].retired \subseteq DOMAIN keys \ Active
    /\ At(r, "new") => request[r].kid = 0
    /\ request[r].format # "x509" => request[r].kid \notin request[r].retired

EntryInv(r) ==
    /\ entries[r] \in {None, request[r].index}
    /\ ~At(r, "answered") => entries[r] = None /\ ~HandedOut(r)
    /\ At(r, "status") => NeedsIndex(r)
    /\ (At(r, "credential") \/ At(r, "status")) /\ NeedsIndex(r) => request[r].index # None
    /\ HandedOut(r) /\ NeedsIndex(r) =>
         request[r].index # None /\ entries[r] = request[r].index

RequestInv(r) == IndexInv(r) /\ KeyInv(r) /\ RetiredInv(r) /\ EntryInv(r)

IInv == (\A r \in Request : RequestInv(r)) /\ IndicesNotShared

USE DEF RequestInv, IndexInv, KeyInv, RetiredInv, EntryInv

LEMMA InvInit == Init => IInv
  BY DEF Init, IInv, None, IndicesNotShared

(* Keys are never removed, and never become active again. *)
KeysKept ==
    /\ DOMAIN keys \subseteq DOMAIN keys'
    /\ \A k \in DOMAIN keys : ~keys[k] => ~keys'[k]

LEMMA AddKeyKeeps == ASSUME TypeOK, AddKey PROVE KeysKept
  BY DEF AddKey, TypeOK, KeysKept

LEMMA SameKeysKept == ASSUME keys' = keys PROVE KeysKept
  BY DEF KeysKept

(* A request that a step does not touch keeps its part of the invariant. *)
LEMMA Untouched ==
  ASSUME KeysKept, NEW r \in Request, RequestInv(r), request'[r] = request[r],
         entries'[r] = entries[r], nextIndex \in Nat, nextIndex' \in Nat,
         nextIndex <= nextIndex', request[r].index \in Int
  PROVE  RequestInv(r)'
<1>1. IndexInv(r)'
  OBVIOUS
<1>2. KeyInv(r)'
  BY DEF KeysKept
<1>3. RetiredInv(r)'
  BY DEF KeysKept, Active
<1>4. EntryInv(r)'
  BY DEF NeedsIndex
<1> QED
  BY <1>1, <1>2, <1>3, <1>4

(* So a step of one request keeps the invariant if the request keeps its own *)
(* part, and its index is the old one or new to all.                         *)
LEMMA OneRequest ==
  ASSUME TypeOK, TypeOK', IInv, KeysKept, NEW r \in Request,
         \A q \in Request : q # r => request'[q] = request[q] /\ entries'[q] = entries[q],
         nextIndex <= nextIndex',
         RequestInv(r)',
         request'[r].index = request[r].index \/ request'[r].index = nextIndex
  PROVE  IInv'
<1>1. ASSUME NEW q \in Request
      PROVE  request[q].index \in Int /\ request'[q].index \in Int
  BY DEF TypeOK, None
<1>2. nextIndex \in Nat /\ nextIndex' \in Nat
  BY DEF TypeOK
<1>3. ASSUME NEW q \in Request
      PROVE  RequestInv(q)'
  <2>1. CASE q = r
    BY <2>1
  <2>2. CASE q # r
    <3>1. RequestInv(q)
      BY DEF IInv
    <3> HIDE DEF RequestInv
    <3> QED
      BY <1>1, <1>2, <2>2, <3>1, Untouched
  <2> QED
    BY <2>1, <2>2
<1>4. \A q \in Request : request[q].index < nextIndex
  BY DEF IInv
<1>5. ASSUME NEW p \in Request, NEW q \in Request,
             request'[p].index # None, request'[p].index = request'[q].index
      PROVE  p = q
  BY <1>1, <1>2, <1>4, <1>5 DEF IInv, IndicesNotShared
<1> HIDE DEF RequestInv
<1> QED
  BY <1>3, <1>5 DEF IInv, IndicesNotShared

(* An answer other than "issued". *)
LEMMA ReplyKeeps ==
  ASSUME TypeOK, TypeOK', IInv, KeysKept, NEW r \in Request, NEW answer,
         Reply(r, answer), answer # "issued",
         \A q \in Request : q # r => entries'[q] = entries[q],
         entries'[r] \in {entries[r], request[r].index}, nextIndex <= nextIndex'
  PROVE  IInv'
<1>1. \A q \in Request : q # r => request'[q] = request[q]
  BY DEF Reply, TypeOK
<1>2. /\ request'[r].stage = "answered" /\ request'[r].answer = answer
      /\ request'[r].retired = {} /\ request'[r].index = request[r].index
  BY DEF Reply, TypeOK
<1>3. request[r].index < nextIndex /\ request[r].index \in Int
  BY DEF IInv, TypeOK, None
<1>4. entries[r] \in {None, request[r].index}
  BY DEF IInv
<1>5. RequestInv(r)'
  <2>1. IndexInv(r)'
    BY <1>2, <1>3 DEF TypeOK
  <2>2. KeyInv(r)' /\ RetiredInv(r)' /\ EntryInv(r)'
    BY <1>2, <1>4
  <2> QED
    BY <2>1, <2>2
<1> HIDE DEF RequestInv
<1> QED
  BY <1>1, <1>2, <1>5, OneRequest

(* With an active key, or one that is configured, a request goes on to write. *)
LEMMA PrepareKeeps ==
  ASSUME TypeOK, TypeOK', IInv, NEW r \in Request, NEW kid, At(r, "select"), Prepare(r, kid),
         request[r].format = "x509" \/ kid \in Active, UNCHANGED database
  PROVE  IInv'
<1>1. KeysKept
  BY SameKeysKept
<1>2. nextIndex <= nextIndex'
  BY DEF TypeOK
<1>3. CASE Reply(r, "configuration_error") \/ Reply(r, "ttl_exceeded")
  BY <1>1, <1>2, <1>3, ReplyKeeps
<1>4. CASE request' = [request EXCEPT ![r].kid = kid,
                          ![r].stage = IF NeedsIndex(r) THEN "index" ELSE "credential"]
  <2>1. \A q \in Request : q # r => request'[q] = request[q]
    BY <1>4 DEF TypeOK
  <2>2. /\ request'[r].stage = IF NeedsIndex(r) THEN "index" ELSE "credential"
        /\ request'[r].kid = kid /\ request'[r].retired = request[r].retired
        /\ request'[r].index = request[r].index /\ request'[r].answer = request[r].answer
        /\ request'[r].format = request[r].format
    BY <1>4 DEF TypeOK
  <2>3. RequestInv(r)
    BY DEF IInv
  <2>4. NeedsIndex(r)' = NeedsIndex(r)
    BY <2>2 DEF NeedsIndex
  <2>5. IndexInv(r)' /\ KeyInv(r)'
    BY <2>2, <2>3
  <2>6. RetiredInv(r)'
    BY <2>2, <2>3 DEF Active
  <2>7. EntryInv(r)'
    BY <2>2, <2>3, <2>4
  <2>8. RequestInv(r)'
    BY <2>5, <2>6, <2>7
  <2> HIDE DEF RequestInv
  <2> QED
    BY <1>1, <1>2, <2>1, <2>2, <2>8, OneRequest
<1> QED
  BY <1>3, <1>4 DEF Prepare

(* A request that only moves to a stage before its first row. *)
LEMMA ContinueKeeps ==
  ASSUME TypeOK, TypeOK', IInv, KeysKept, NEW r \in Request,
         NEW stage \in {"select", "generate"}, ~At(r, "answered"),
         Continue(r, stage), UNCHANGED <<entries, nextIndex>>
  PROVE  IInv'
<1>1. \A q \in Request : q # r => request'[q] = request[q]
  BY DEF Continue, TypeOK
<1>2. /\ request'[r].stage = stage /\ request'[r].kid = request[r].kid
      /\ request'[r].retired = request[r].retired /\ request'[r].index = request[r].index
      /\ request'[r].answer = request[r].answer /\ request'[r].format = request[r].format
  BY DEF Continue, TypeOK
<1>3. RequestInv(r)
  BY DEF IInv
<1>4. IndexInv(r)' /\ KeyInv(r)'
  BY <1>2, <1>3 DEF KeysKept
<1>5. RetiredInv(r)'
  BY <1>2, <1>3 DEF Active, KeysKept
<1>6. EntryInv(r)'
  BY <1>2, <1>3 DEF NeedsIndex
<1>7. RequestInv(r)'
  BY <1>4, <1>5, <1>6
<1>8. nextIndex <= nextIndex'
  BY DEF TypeOK
<1> HIDE DEF RequestInv
<1> QED
  BY <1>1, <1>2, <1>7, <1>8, OneRequest

LEMMA InvStep == TypeOK /\ IInv /\ [Next]_vars => IInv'
<1> SUFFICES ASSUME TypeOK, IInv, [Next]_vars
             PROVE  IInv'
  OBVIOUS
<1>0. TypeOK'
  BY TypeStep
<1>n. nextIndex \in Nat
  BY DEF TypeOK
<1>1. ASSUME NEW r \in Request, Begin(r)
      PROVE  IInv'
  <2>1. PICK f \in Format[r] :
          request' = [request EXCEPT ![r].format = f, ![r].stage = "select",
                                     ![r].retired = DOMAIN keys \ Active]
    BY <1>1 DEF Begin
  <2>2. \A q \in Request : q # r => request'[q] = request[q]
    BY <2>1 DEF TypeOK
  <2>3. /\ request'[r].stage = "select" /\ request'[r].kid = request[r].kid
        /\ request'[r].retired = DOMAIN keys \ Active
        /\ request'[r].index = request[r].index /\ request'[r].answer = request[r].answer
    BY <2>1 DEF TypeOK
  <2>4. RequestInv(r) /\ At(r, "new")
    BY <1>1 DEF IInv, Begin
  <2>5. 0 \notin DOMAIN keys
    BY DEF TypeOK
  <2>6. UNCHANGED database
    BY <1>1 DEF Begin
  <2>7. RequestInv(r)'
    <3>1. IndexInv(r)' /\ KeyInv(r)' /\ EntryInv(r)'
      BY <2>3, <2>4, <2>6
    <3>2. RetiredInv(r)'
      BY <2>3, <2>4, <2>5, <2>6 DEF Active
    <3> QED
      BY <3>1, <3>2
  <2>8. KeysKept
    BY <2>6, SameKeysKept
  <2> HIDE DEF RequestInv
  <2> QED
    BY <1>0, <1>n, <2>2, <2>3, <2>6, <2>7, <2>8, OneRequest
<1>2. ASSUME NEW r \in Request, UseCertificate(r)
      PROVE  IInv'
  BY <1>0, <1>2, PrepareKeeps DEF UseCertificate
<1>3. ASSUME NEW r \in Request, SelectKey(r)
      PROVE  IInv'
  <2>1. CASE Candidates = {}
    BY <1>0, <1>3, <2>1, ContinueKeeps, SameKeysKept DEF SelectKey
  <2>2. CASE Candidates # {}
    BY <1>0, <1>3, <2>2, NewestIsActive, PrepareKeeps DEF SelectKey
  <2> QED
    BY <2>1, <2>2
<1>4. ASSUME NEW r \in Request, GenerateKey(r)
      PROVE  IInv'
  <2>1. KeysKept /\ UNCHANGED <<entries, nextIndex>>
    BY <1>4, AddKeyKeeps DEF GenerateKey, AddKey
  <2> QED
    BY <1>0, <1>4, <2>1, ContinueKeeps DEF GenerateKey
<1>5. ASSUME NEW r \in Request, AllocateIndex(r)
      PROVE  IInv'
  <2>1. \A q \in Request : q # r => request'[q] = request[q]
    BY <1>5 DEF AllocateIndex, TypeOK
  <2>2. /\ request'[r].stage = "credential" /\ request'[r].kid = request[r].kid
        /\ request'[r].retired = request[r].retired /\ request'[r].index = nextIndex
        /\ request'[r].answer = request[r].answer /\ request'[r].format = request[r].format
    BY <1>5 DEF AllocateIndex, NewIndex, TypeOK
  <2>3. nextIndex' = nextIndex + 1 /\ keys' = keys /\ entries' = entries
    BY <1>5 DEF AllocateIndex, TakeIndex
  <2>4. RequestInv(r) /\ At(r, "index")
    BY <1>5 DEF IInv, AllocateIndex
  <2>5. RequestInv(r)'
    <3>1. IndexInv(r)' /\ KeyInv(r)'
      BY <1>n, <2>2, <2>3, <2>4
    <3>2. RetiredInv(r)'
      BY <2>2, <2>3, <2>4 DEF Active
    <3>3. EntryInv(r)'
      BY <1>n, <2>2, <2>3, <2>4 DEF None
    <3> QED
      BY <3>1, <3>2, <3>3
  <2>6. KeysKept
    BY <2>3, SameKeysKept
  <2>7. nextIndex <= nextIndex'
    BY <1>n, <2>3
  <2> HIDE DEF RequestInv
  <2> QED
    BY <1>0, <2>1, <2>2, <2>3, <2>5, <2>6, <2>7, OneRequest
<1>6. ASSUME NEW r \in Request, InsertCredential(r)
      PROVE  IInv'
  <2>1. \A q \in Request : q # r => request'[q] = request[q]
    BY <1>6 DEF InsertCredential, Continue, Reply, TypeOK
  <2>2. /\ request'[r].kid = request[r].kid /\ request'[r].index = request[r].index
        /\ request'[r].format = request[r].format
    BY <1>6 DEF InsertCredential, Continue, Reply, TypeOK
  <2>3. IF NeedsIndex(r)
        THEN /\ request'[r].stage = "status" /\ request'[r].answer = request[r].answer
             /\ request'[r].retired = request[r].retired
        ELSE request'[r].stage = "answered" /\ request'[r].retired = {}
    BY <1>6 DEF InsertCredential, Continue, Reply, TypeOK
  <2>4. UNCHANGED <<keys, nextIndex, entries>> /\ request[r].kid \in DOMAIN keys
    BY <1>6 DEF InsertCredential, AddCredential
  <2>5. RequestInv(r) /\ At(r, "credential")
    BY <1>6 DEF IInv, InsertCredential
  <2>6. NeedsIndex(r)' = NeedsIndex(r)
    BY <2>2 DEF NeedsIndex
  <2>7. RequestInv(r)'
    <3>1. IndexInv(r)' /\ KeyInv(r)'
      BY <2>2, <2>4, <2>5
    <3>2. RetiredInv(r)'
      BY <2>2, <2>3, <2>4, <2>5 DEF Active
    <3>3. EntryInv(r)'
      BY <2>2, <2>3, <2>4, <2>5, <2>6
    <3> QED
      BY <3>1, <3>2, <3>3
  <2>8. KeysKept
    BY <2>4, SameKeysKept
  <2> HIDE DEF RequestInv
  <2> QED
    BY <1>0, <1>n, <2>1, <2>2, <2>4, <2>7, <2>8, OneRequest
<1>7. ASSUME NEW r \in Request, ForeignKeyFails(r)
      PROVE  IInv'
  BY <1>0, <1>n, <1>7, ReplyKeeps, SameKeysKept DEF ForeignKeyFails
<1>8. ASSUME NEW r \in Request, InsertEntry(r)
      PROVE  IInv'
  <2>1. \A q \in Request : q # r => request'[q] = request[q] /\ entries'[q] = entries[q]
    BY <1>8 DEF InsertEntry, AddEntry, Reply, TypeOK
  <2>2. /\ request'[r].stage = "answered" /\ request'[r].retired = {}
        /\ request'[r].kid = request[r].kid /\ request'[r].index = request[r].index
        /\ request'[r].format = request[r].format
    BY <1>8 DEF InsertEntry, Reply, TypeOK
  <2>3. entries'[r] = request[r].index /\ UNCHANGED <<keys, nextIndex>>
    BY <1>8 DEF InsertEntry, AddEntry, TypeOK
  <2>4. RequestInv(r) /\ At(r, "status")
    BY <1>8 DEF IInv, InsertEntry
  <2>5. RequestInv(r)'
    <3>1. IndexInv(r)' /\ KeyInv(r)'
      BY <2>2, <2>3, <2>4
    <3>2. RetiredInv(r)'
      BY <2>2
    <3>3. EntryInv(r)'
      BY <2>2, <2>3, <2>4
    <3> QED
      BY <3>1, <3>2, <3>3
  <2>6. KeysKept
    BY <2>3, SameKeysKept
  <2> HIDE DEF RequestInv
  <2> QED
    BY <1>0, <1>n, <2>1, <2>2, <2>3, <2>5, <2>6, OneRequest
<1>9. ASSUME NEW r \in Request, StatementFails(r)
      PROVE  IInv'
  <2>1. KeysKept
    BY <1>9, AddKeyKeeps, SameKeysKept
    DEF StatementFails, TakeIndex, AddCredential, AddEntry
  <2>2. /\ entries' = entries \/ entries' = [entries EXCEPT ![r] = request[r].index]
        /\ nextIndex' = nextIndex \/ nextIndex' = nextIndex + 1
    BY <1>9 DEF StatementFails, AddKey, TakeIndex, AddCredential, AddEntry
  <2>3. /\ \A q \in Request : q # r => entries'[q] = entries[q]
        /\ entries'[r] \in {entries[r], request[r].index}
    BY <2>2 DEF TypeOK
  <2>4. nextIndex <= nextIndex'
    BY <1>n, <2>2
  <2> QED
    BY <1>0, <1>9, <2>1, <2>3, <2>4, ReplyKeeps DEF StatementFails
<1>10. ASSUME KeysKept, UNCHANGED <<nextIndex, entries, request>>
       PROVE  IInv'
  <2>1. ASSUME NEW q \in Request
        PROVE  RequestInv(q)'
    <3>1. RequestInv(q) /\ request[q].index \in Int
      BY DEF IInv, TypeOK, None
    <3> HIDE DEF RequestInv
    <3> QED
      BY <1>n, <1>10, <3>1, Untouched
  <2> HIDE DEF RequestInv
  <2> QED
    BY <1>10, <2>1 DEF IInv, IndicesNotShared
<1>11. ASSUME NEW r \in Request, Revoke(r)
       PROVE  IInv'
  BY <1>10, <1>11, SameKeysKept DEF Revoke
<1>12. ASSUME Deactivate
       PROVE  IInv'
  <2>1. KeysKept
    BY <1>12 DEF Deactivate, KeysKept
  <2> QED
    BY <1>10, <1>12, <2>1 DEF Deactivate
<1>13. ASSUME Replace \/ RotationFails
       PROVE  IInv'
  BY <1>10, <1>13, AddKeyKeeps, SameKeysKept DEF Replace, RotationFails, AddKey
<1>14. CASE UNCHANGED vars
  BY <1>10, <1>14, SameKeysKept DEF vars
<1> QED
  BY <1>1, <1>2, <1>3, <1>4, <1>5, <1>6, <1>7, <1>8, <1>9, <1>11, <1>12, <1>13, <1>14
  DEF Next, Advance

(* The inductive invariant: what the tables and each request keep.          *)
THEOREM Invariant == Spec => [](TypeOK /\ IInv)
<1>1. Init => TypeOK /\ IInv
  BY TypeInit, InvInit
<1>2. TypeOK /\ IInv /\ [Next]_vars => (TypeOK /\ IInv)'
  BY TypeStep, InvStep
<1> QED
  BY <1>1, <1>2, PTL DEF Spec

-----------------------------------------------------------------------------
(* What follows from it.                                                   *)

(* No index of the status list is signed into two credentials, whatever     *)
(* requests fail or overlap (allocateStatusListIndex).                      *)
THEOREM NoSharedIndex == Spec => []IndicesNotShared
<1>1. TypeOK /\ IInv => IndicesNotShared
  BY DEF IInv
<1> QED
  BY <1>1, Invariant, PTL

(* What is handed out can be verified with the published keys, through any  *)
(* number of rotations (getPublicKeys, rotateKeys).                         *)
THEOREM AlwaysVerifiable == Spec => []HandedOutVerifiable
<1>1. TypeOK /\ IInv => HandedOutVerifiable
  BY DEF IInv, HandedOutVerifiable, PublicKeys
<1> QED
  BY <1>1, Invariant, PTL

(* A key that was retired when a request came in does not sign for it       *)
(* (getActiveSigningKey).                                                   *)
THEOREM NoRetiredKeySigns == Spec => []RetiredKeysSignNothing
<1>1. TypeOK /\ IInv => RetiredKeysSignNothing
  BY DEF IInv, RetiredKeysSignNothing
<1> QED
  BY <1>1, Invariant, PTL

(* A list built when a VC is out bars it exactly if it is revoked           *)
(* (issueVcCredential, buildStatusListCredential).                          *)
THEOREM ListsAreExact == Spec => []ListIsExact
<1>1. ASSUME TypeOK, IInv
      PROVE  ListIsExact
  <2> SUFFICES ASSUME NEW r \in Request, HandedOut(r), NeedsIndex(r)
               PROVE  Bars(request[r].index) <=> r \in revoked
    BY DEF ListIsExact
  <2> DEFINE i == request[r].index
  <2>0. ASSUME NEW q \in Request
        PROVE  EntryInv(q) /\ request[q].index \in Nat \cup {None}
    BY <1>1 DEF IInv, TypeOK
  <2>1. entries[r] = i /\ i # None /\ i \in Nat
    BY <2>0
  <2>2. InRange(i)
    <3>1. i \div Bits \in Int
      BY <2>1, ConstantsAssumption
    <3> QED
      BY <2>1, <3>1 DEF InRange
  <2>3. ASSUME NEW q \in Request, entries[q] = i
        PROVE  q = r
    <3>1. request[q].index = i
      BY <2>0, <2>1, <2>3
    <3> QED
      BY <1>1, <2>1, <2>3, <3>1 DEF IInv, IndicesNotShared
  <2>4. IsSet(i) <=> r \in revoked
    <3>1. revoked \subseteq Request
      BY <1>1 DEF TypeOK
    <3> HIDE DEF i
    <3> QED
      BY <2>1, <2>3, <3>1 DEF IsSet
  <2> QED
    BY <2>2, <2>4 DEF Bars
<1> QED
  BY <1>1, Invariant, PTL

-----------------------------------------------------------------------------
(* A VC that is barred once stays barred.                                  *)

(* No later list lets a revoked VC through again. *)
BarredStaysBarred ==
    \A r \in Request :
        HandedOut(r) /\ NeedsIndex(r) /\ Bars(request[r].index)
          => Bars(request[r].index)' /\ HandedOut(r)'

(* Nothing takes back an answer, a revocation, or what was asked for. *)
LEMMA AnswerStays ==
  ASSUME TypeOK, IInv, [Next]_vars, NEW r \in Request, HandedOut(r)
  PROVE  HandedOut(r)' /\ NeedsIndex(r)' = NeedsIndex(r) /\ revoked \subseteq revoked'
<1>1. At(r, "answered")
  BY DEF IInv
<1>2. request'[r] = request[r]
  BY <1>1 DEF Next, vars, Begin, Advance, UseCertificate, SelectKey, GenerateKey, AllocateIndex,
     InsertCredential, ForeignKeyFails, InsertEntry, StatementFails, Revoke, Deactivate, Replace,
     RotationFails, Prepare, Reply, Continue, TypeOK
<1>3. revoked \subseteq revoked'
  BY DEF Next, vars, Begin, Advance, UseCertificate, SelectKey, GenerateKey, AllocateIndex,
     InsertCredential, ForeignKeyFails, InsertEntry, StatementFails, Revoke, Deactivate, Replace,
     RotationFails, AddKey, TakeIndex, AddCredential, AddEntry
<1> QED
  BY <1>2, <1>3 DEF NeedsIndex

(* Whatever buildStatusListCredential bars of what was handed out, every    *)
(* list built later bars too: entries stay, and no list gets shorter than   *)
(* the byte of an entry.                                                    *)
THEOREM BarredForGood == Spec => [][BarredStaysBarred]_vars
<1>1. ASSUME TypeOK, IInv, ListIsExact, ListIsExact', [Next]_vars
      PROVE  [BarredStaysBarred]_vars
  <2> SUFFICES ASSUME NEW r \in Request,
                      HandedOut(r), NeedsIndex(r), Bars(request[r].index)
               PROVE  Bars(request[r].index)' /\ HandedOut(r)'
    BY DEF BarredStaysBarred
  <2>1. HandedOut(r)' /\ NeedsIndex(r)' /\ revoked \subseteq revoked'
    BY <1>1, AnswerStays
  <2>2. r \in revoked
    BY <1>1 DEF ListIsExact
  <2> QED
    BY <1>1, <2>1, <2>2 DEF ListIsExact
<1> QED
  BY <1>1, Invariant, ListsAreExact, PTL DEF Spec

-----------------------------------------------------------------------------
(* How much a request has before it.                                       *)

Rank == [new |-> 9, select |-> 6, generate |-> 7, index |-> 5, credential |-> 4,
         status |-> 3, answered |-> 0]

(* A request that finds no active key goes round once more. *)
StageRank(r) ==
    Rank[request[r].stage] + IF At(r, "select") /\ Active = {} THEN 2 ELSE 0

(* Only a rotation can send it round: it may cost three steps. *)
Left(r) == 3 * (MaxRotations - rotations) + StageRank(r)

FewerLeft ==
    \A r \in Request :
        /\ Left(r) \in Nat /\ Left(r)' <= Left(r)
        /\ request'[r] # request[r] => Left(r)' < Left(r)

LEMMA RankValues ==
    /\ Rank["new"] = 9 /\ Rank["select"] = 6 /\ Rank["generate"] = 7 /\ Rank["index"] = 5
    /\ Rank["credential"] = 4 /\ Rank["status"] = 3 /\ Rank["answered"] = 0
  BY DEF Rank

LEMMA RankType ==
  ASSUME TypeOK, TypeOK', NEW r \in Request
  PROVE  /\ StageRank(r) \in 0 .. 9 /\ StageRank(r)' \in 0 .. 9
         /\ MaxRotations - rotations \in Nat /\ Left(r) \in Nat
<1>1. request[r].stage \in Stage /\ request'[r].stage \in Stage
  BY DEF TypeOK
<1>2. StageRank(r) \in 0 .. 9 /\ StageRank(r)' \in 0 .. 9
  BY <1>1, RankValues DEF StageRank, Stage
<1>3. MaxRotations - rotations \in Nat
  BY ConstantsAssumption DEF TypeOK
<1> QED
  BY <1>2, <1>3 DEF Left

(* A step that is no rotation leaves a request alone or moves it on. *)
LEMMA RankFalls ==
  ASSUME TypeOK, TypeOK', rotations' = rotations,
         \A q \in Request : /\ StageRank(q)' <= StageRank(q)
                            /\ request'[q] # request[q] => StageRank(q)' < StageRank(q)
  PROVE  FewerLeft
<1> SUFFICES ASSUME NEW q \in Request
             PROVE  /\ Left(q) \in Nat /\ Left(q)' <= Left(q)
                    /\ request'[q] # request[q] => Left(q)' < Left(q)
  BY DEF FewerLeft
<1>1. /\ StageRank(q) \in 0 .. 9 /\ StageRank(q)' \in 0 .. 9
      /\ MaxRotations - rotations \in Nat /\ Left(q) \in Nat
  BY RankType
<1> QED
  BY <1>1 DEF Left

LEMMA AddKeyActive ==
  ASSUME TypeOK, AddKey
  PROVE  Active' # {}
<1>1. Len(keys) + 1 \in DOMAIN keys' /\ keys'[Len(keys) + 1]
  BY DEF AddKey, TypeOK
<1> QED
  BY <1>1 DEF Active

(* No key that is active becomes inactive but by a rotation. *)
LEMMA ActiveStays ==
  ASSUME TypeOK, keys' = keys \/ AddKey
  PROVE  Active # {} => Active' # {}
<1>1. CASE keys' = keys
  BY <1>1 DEF Active
<1>2. CASE AddKey
  BY <1>2, AddKeyActive
<1> QED
  BY <1>1, <1>2

LEMMA OthersStay ==
  ASSUME TypeOK, NEW q \in Request, request'[q] = request[q], Active # {} => Active' # {}
  PROVE  StageRank(q)' <= StageRank(q)
<1>1. request[q].stage \in Stage
  BY DEF TypeOK
<1> QED
  BY <1>1, RankValues DEF StageRank, Stage

(* The stages one request goes through. *)
LEMMA StepFalls ==
  ASSUME TypeOK, NEW r \in Request, Begin(r) \/ Advance(r) \/ StatementFails(r)
  PROVE  /\ StageRank(r)' < StageRank(r) /\ (keys' = keys \/ AddKey)
         /\ \A q \in Request : q # r => request'[q] = request[q]
         /\ rotations' = rotations
<1>1. request[r].stage \in Stage
  BY DEF TypeOK
<1>2. /\ keys' = keys \/ AddKey
      /\ \A q \in Request : q # r => request'[q] = request[q]
      /\ rotations' = rotations
  BY DEF Begin, Advance, UseCertificate, SelectKey, GenerateKey, AllocateIndex,
     InsertCredential, ForeignKeyFails, InsertEntry, StatementFails, Prepare, Reply, Continue,
     TakeIndex, AddCredential, AddEntry, TypeOK
<1>3. ASSUME request'[r].stage = "answered" /\ request[r].stage # "answered"
      PROVE  StageRank(r)' < StageRank(r)
  BY <1>1, <1>3, RankValues DEF StageRank, Stage
<1>4. ASSUME At(r, "new") /\ request'[r].stage = "select"
      PROVE  StageRank(r)' < StageRank(r)
  BY <1>4, RankValues DEF StageRank
<1>5. ASSUME At(r, "select") /\ request'[r].stage \in {"index", "credential"}
      PROVE  StageRank(r)' < StageRank(r)
  BY <1>5, RankValues DEF StageRank
<1>6. ASSUME At(r, "select") /\ request'[r].stage = "generate" /\ Active = {}
      PROVE  StageRank(r)' < StageRank(r)
  BY <1>6, RankValues DEF StageRank
<1>7. ASSUME At(r, "generate") /\ request'[r].stage = "select" /\ AddKey
      PROVE  StageRank(r)' < StageRank(r)
  <2>1. Active' # {}
    BY <1>7, AddKeyActive
  <2> QED
    BY <1>7, <2>1, RankValues DEF StageRank
<1>8. ASSUME At(r, "index") /\ request'[r].stage = "credential"
      PROVE  StageRank(r)' < StageRank(r)
  BY <1>8, RankValues DEF StageRank
<1>9. ASSUME At(r, "credential") /\ request'[r].stage = "status"
      PROVE  StageRank(r)' < StageRank(r)
  BY <1>9, RankValues DEF StageRank
<1>10. ASSUME Begin(r)
       PROVE  StageRank(r)' < StageRank(r)
  BY <1>4, <1>2, <1>10 DEF Begin, TypeOK
<1>11. ASSUME NEW kid, At(r, "select"), Prepare(r, kid)
       PROVE  StageRank(r)' < StageRank(r)
  BY <1>3, <1>5, <1>11 DEF Prepare, Reply, TypeOK
<1>12. ASSUME UseCertificate(r) \/ SelectKey(r)
       PROVE  StageRank(r)' < StageRank(r)
  BY <1>2, <1>6, <1>11, <1>12 DEF UseCertificate, SelectKey, Candidates, Continue, TypeOK
<1>13. ASSUME GenerateKey(r)
       PROVE  StageRank(r)' < StageRank(r)
  BY <1>2, <1>7, <1>13 DEF GenerateKey, Continue, TypeOK
<1>14. ASSUME AllocateIndex(r)
       PROVE  StageRank(r)' < StageRank(r)
  BY <1>2, <1>8, <1>14 DEF AllocateIndex, TypeOK
<1>15. ASSUME InsertCredential(r) \/ ForeignKeyFails(r) \/ InsertEntry(r) \/ StatementFails(r)
       PROVE  StageRank(r)' < StageRank(r)
  BY <1>2, <1>3, <1>9, <1>15 DEF InsertCredential, ForeignKeyFails, InsertEntry, StatementFails,
     Continue, Reply, TypeOK
<1> QED
  BY <1>10, <1>12, <1>13, <1>14, <1>15, <1>2 DEF Advance

(* getActiveSigningKey generates and selects again, and a rotation may      *)
(* retire what was generated.  Yet every step of a request brings it nearer *)
(* to its answer, and no step of another, nor a rotation, takes it further  *)
(* away than the rotations that are left allow.                             *)
THEOREM IssuanceTerminates == Spec => [][FewerLeft]_vars
<1>1. ASSUME TypeOK, TypeOK', [Next]_vars
      PROVE  [FewerLeft]_vars
  <2>1. ASSUME NEW r \in Request, Begin(r) \/ Advance(r) \/ StatementFails(r)
        PROVE  FewerLeft
    <3>1. \A q \in Request : /\ StageRank(q)' <= StageRank(q)
                             /\ request'[q] # request[q] => StageRank(q)' < StageRank(q)
      <4> TAKE q \in Request
      <4>1. CASE q = r
        <5>1. StageRank(r)' \in 0 .. 9 /\ StageRank(r) \in 0 .. 9
          BY <1>1, RankType
        <5> QED
          BY <1>1, <2>1, <4>1, <5>1, StepFalls
      <4>2. CASE q # r
        BY <1>1, <2>1, <4>2, StepFalls, ActiveStays, OthersStay
      <4> QED
        BY <4>1, <4>2
    <3> QED
      BY <1>1, <2>1, <3>1, StepFalls, RankFalls
  <2>2. ASSUME NEW r \in Request, Revoke(r)
        PROVE  FewerLeft
    BY <1>1, <2>2, ActiveStays, OthersStay, RankFalls DEF Revoke
  <2>3. CASE Replace \/ RotationFails
    BY <1>1, <2>3, ActiveStays, OthersStay, RankFalls DEF Replace, RotationFails
  <2>4. CASE Deactivate
    <3> SUFFICES ASSUME NEW q \in Request
                 PROVE  Left(q) \in Nat /\ Left(q)' <= Left(q) /\ request' = request
      BY DEF FewerLeft
    <3>1. request' = request /\ rotations' = rotations + 1
      BY <2>4 DEF Deactivate
    <3>2. StageRank(q)' <= StageRank(q) + 2
      <4>1. request[q].stage \in Stage
        BY <1>1 DEF TypeOK
      <4> QED
        BY <3>1, <4>1, RankValues DEF StageRank, Stage
    <3>3. StageRank(q) \in 0 .. 9 /\ StageRank(q)' \in 0 .. 9 /\ Left(q) \in Nat
      BY <1>1, RankType
    <3>4. rotations \in Int /\ MaxRotations \in Int
      BY <1>1, ConstantsAssumption DEF TypeOK
    <3> QED
      BY <3>1, <3>2, <3>3, <3>4 DEF Left
  <2> QED
    BY <1>1, <2>1, <2>2, <2>3, <2>4 DEF Next
<1> QED
  BY <1>1, TypeCorrect, PTL DEF Spec
=============================================================================
