--------------------- MODULE CredentialVerifier_proofs ---------------------
(***************************************************************************)
(* Proofs about CredentialVerifier, for any issuers, credentials, claims,  *)
(* lifetimes and bounds, and any number of calls and processes.            *)
(***************************************************************************)
EXTENDS CredentialVerifier, SequenceTheorems, WellFoundedInduction, TLAPS

USE DEF world, caches, At

Answers == Error \cup {"none", "verified"}
Calls == Running \cup {Idle(a) : a \in Answers}

-----------------------------------------------------------------------------
(* The first failing check.                                                *)

(* A set of naturals that is not empty has a least member. *)
LEMMA LeastNat ==
  ASSUME NEW T \in SUBSET Nat, T # {}
  PROVE  \E x \in T : \A y \in T : x <= y
<1> DEFINE R == OpToRel(<, Nat)
<1>1. \E x \in T : \A y \in T : ~ (<<y, x>> \in R)
  <2> HIDE DEF R
  <2>1. IsWellFoundedOn(R, Nat)
    BY NatLessThanWellFounded, Zenon DEF R
  <2> QED
    BY <2>1, WFMin, Zenon
<1>2. PICK x \in T : \A y \in T : ~ (<<y, x>> \in R)
  BY <1>1
<1>3. ASSUME NEW y \in T, y < x
      PROVE  <<y, x>> \in R
  BY <1>3, Zenon DEF OpToRel
<1> HIDE DEF R
<1>4. ASSUME NEW y \in T
      PROVE  x <= y
  <2>1. ~(y < x)
    BY <1>2, <1>3
  <2> QED
    BY <2>1
<1> QED
  BY <1>4

(* FirstError answers with a code of one of the checks, or with "none" when *)
(* all of them pass.                                                       *)
LEMMA FirstErrorIs ==
  ASSUME NEW checks, NEW n \in Nat, DOMAIN checks = 1 .. n,
         \A i \in 1 .. n : checks[i][2] \in Error
  PROVE  /\ FirstError(checks) \in Error \cup {"none"}
         /\ FirstError(checks) = "none" => \A i \in 1 .. n : checks[i][1]
<1> DEFINE failing == {i \in DOMAIN checks : ~checks[i][1]}
<1>1. CASE failing = {}
  <2>1. FirstError(checks) = "none"
    BY <1>1, Zenon DEF FirstError
  <2>2. \A i \in 1 .. n : checks[i][1]
    BY <1>1, Zenon
  <2> QED
    BY <2>1, <2>2, Zenon
<1>2. CASE failing # {}
  <2> DEFINE least == CHOOSE i \in failing : \A j \in failing : i <= j
  <2>1. failing \in SUBSET Nat
    <3>1. failing \subseteq 1 .. n
      BY Zenon DEF failing
    <3>2. 1 .. n \subseteq Nat
      OBVIOUS
    <3> QED
      BY <3>1, <3>2, Zenon
  <2>2. least \in failing
    <3> HIDE DEF failing
    <3>1. \E i \in failing : \A j \in failing : i <= j
      BY <2>1, <1>2, LeastNat, Zenon
    <3> QED
      BY <3>1, Zenon
  <2>3. FirstError(checks) = checks[least][2]
    BY <1>2, Zenon DEF FirstError
  <2>4. FirstError(checks) \in Error
    BY <2>2, <2>3, Zenon
  <2>5. "none" \notin Error
    BY DEF Error
  <2> QED
    BY <2>4, <2>5, Zenon
<1> QED
  BY <1>1, <1>2, Zenon

LEMMA StructureErrors ==
  ASSUME NEW cr \in Credential
  PROVE  FirstError(StructureChecks(cr)) \in Error \cup {"none"}
<1> DEFINE checks == StructureChecks(cr)
<1>1. DOMAIN checks = 1 .. 2
  BY DEF StructureChecks
<1>2. \A i \in 1 .. 2 : checks[i][2] \in Error
  BY DEF StructureChecks, Error
<1> HIDE DEF checks
<1>3. FirstError(checks) \in Error \cup {"none"}
  BY <1>1, <1>2, FirstErrorIs
<1> QED
  BY <1>3 DEF checks

LEMMA SignatureErrors ==
  ASSUME NEW cr \in Credential, NEW keys
  PROVE  /\ FirstError(SignatureChecks(cr, keys)) \in Error \cup {"none"}
         /\ FirstError(SignatureChecks(cr, keys)) = "none" => cr \notin expired
<1> DEFINE checks == SignatureChecks(cr, keys)
<1>1. DOMAIN checks = 1 .. 2
  BY DEF SignatureChecks
<1>2. \A i \in 1 .. 2 : checks[i][2] \in Error
  BY DEF SignatureChecks, Error
<1>3. checks[2][1] = (cr \notin expired)
  BY DEF SignatureChecks
<1> HIDE DEF checks
<1>4. /\ FirstError(checks) \in Error \cup {"none"}
      /\ FirstError(checks) = "none" => \A i \in 1 .. 2 : checks[i][1]
  <2>1. 2 \in Nat
    OBVIOUS
  <2> QED
    BY <1>1, <1>2, <2>1, FirstErrorIs, Zenon
<1>5. FirstError(checks) = "none" => checks[2][1]
  <2>1. 2 \in 1 .. 2
    OBVIOUS
  <2> QED
    BY <1>4, <2>1, Zenon
<1> QED
  BY <1>3, <1>4, <1>5, Zenon DEF checks

LEMMA TrustErrors ==
  ASSUME NEW cr \in Credential
  PROVE  /\ FirstError(TrustChecks(cr)) \in Error \cup {"none"}
         /\ FirstError(TrustChecks(cr)) = "none" => Trusted(cr)
<1> DEFINE checks == TrustChecks(cr)
<1>1. DOMAIN checks = 1 .. 3
  BY DEF TrustChecks
<1>2. \A i \in 1 .. 3 : checks[i][2] \in Error
  BY DEF TrustChecks, Error
<1>3. checks[2][1] = Trusted(cr)
  BY DEF TrustChecks
<1> HIDE DEF checks
<1>4. /\ FirstError(checks) \in Error \cup {"none"}
      /\ FirstError(checks) = "none" => \A i \in 1 .. 3 : checks[i][1]
  <2>1. 3 \in Nat
    OBVIOUS
  <2> QED
    BY <1>1, <1>2, <2>1, FirstErrorIs, Zenon
<1>5. FirstError(checks) = "none" => checks[2][1]
  <2>1. 2 \in 1 .. 3
    OBVIOUS
  <2> QED
    BY <1>4, <2>1, Zenon
<1> QED
  BY <1>3, <1>4, <1>5, Zenon DEF checks

LEMMA X509Errors ==
  ASSUME NEW cr \in Credential
  PROVE  /\ FirstError(X509Checks(cr)) \in Error \cup {"none"}
         /\ FirstError(X509Checks(cr)) = "none"
              => cr \notin expired /\ Trusted(cr)
<1> DEFINE checks == X509Checks(cr)
<1>1. DOMAIN checks = 1 .. 7
  BY DEF X509Checks
<1>2. \A i \in 1 .. 7 : checks[i][2] \in Error
  BY DEF X509Checks, Error
<1>3. /\ checks[5][1] = (cr \notin expired)
      /\ checks[6][1] = Trusted(cr)
  BY DEF X509Checks
<1> HIDE DEF checks
<1>4. /\ FirstError(checks) \in Error \cup {"none"}
      /\ FirstError(checks) = "none" => \A i \in 1 .. 7 : checks[i][1]
  <2>1. 7 \in Nat
    OBVIOUS
  <2> QED
    BY <1>1, <1>2, <2>1, FirstErrorIs, Zenon
<1>5. FirstError(checks) = "none" => checks[5][1] /\ checks[6][1]
  <2>1. 5 \in 1 .. 7 /\ 6 \in 1 .. 7
    OBVIOUS
  <2> QED
    BY <1>4, <2>1, Zenon
<1> QED
  BY <1>3, <1>4, <1>5, Zenon DEF checks

LEMMA BindingErrors ==
  ASSUME NEW s
  PROVE  FirstError(BindingChecks(s)) \in Error \cup {"none"}
<1> DEFINE checks == BindingChecks(s)
<1>1. DOMAIN checks = 1 .. 2
  BY DEF BindingChecks
<1>2. \A i \in 1 .. 2 : checks[i][2] \in Error
  BY DEF BindingChecks, Error
<1> HIDE DEF checks
<1>3. FirstError(checks) \in Error \cup {"none"}
  BY <1>1, <1>2, FirstErrorIs
<1> QED
  BY <1>3 DEF checks

-----------------------------------------------------------------------------
(* The invariant.                                                          *)

(* What the stage a call has reached says of its credential, and of what   *)
(* held at some moment since the call began.                               *)
FreshOf(c) ==
    /\ At(c, {"keys", "served"}) => Tier(Shown(c)) # 2
    /\ At(c, {"issuer"}) => Tier(Shown(c)) = 2 \/ "unexpired" \in seen[c]
    /\ At(c, {"revocation", "list", "binding"})
         => {"trusted", "unexpired"} \subseteq seen[c]
    /\ At(c, {"list"}) => Listed(c) /\ call[c].got \subseteq Credential
    /\ At(c, {"served"}) => call[c].got \subseteq Key
    /\ At(c, {"binding"}) => Required(call[c].shows) \subseteq seen[c]
Fresh == \A c \in Call : FreshOf(c)

(* A cached list misses no revocation older than its age and one fetch; a  *)
(* list under way misses none older than the fetch.                        *)
CacheLag ==
    \A i \in Issuer : ListUsable(listCache[i]) =>
      \A cr \in Credential \ listCache[i].barred :
        revokedFor[cr] <= listCache[i].age + FetchTimeout
FetchLagOf(c) ==
    At(c, {"list"}) =>
      \A cr \in Credential \ call[c].got : revokedFor[cr] <= call[c].waited
FetchLag == \A c \in Call : FetchLagOf(c)

IInv == TypeOK /\ Fresh /\ CacheLag /\ FetchLag

-----------------------------------------------------------------------------
(* Calls.                                                                  *)

LEMMA IdleIs ==
  ASSUME NEW a
  PROVE  Idle(a).stage = "idle" /\ Idle(a).answer = a
  BY DEF Idle

(* A call that is not idle is a verification under way. *)
LEMMA RunningIs ==
  ASSUME TypeOK, NEW c \in Call, call[c].stage # "idle"
  PROVE  call[c] \in Running
<1>1. call[c] \in Running \cup {Idle(a) : a \in Error \cup {"none", "verified"}}
  BY DEF TypeOK
<1>2. \A a : Idle(a).stage = "idle"
  BY IdleIs, Zenon
<1> QED
  BY <1>1, <1>2, Zenon

(* And shows a credential in circulation. *)
LEMMA ShownIs ==
  ASSUME TypeOK, NEW c \in Call, call[c].stage # "idle"
  PROVE  /\ call[c].shows \in Presentation
         /\ Shown(c) \in Credential
         /\ IssuerOf(c) \in Issuer
         /\ Tier(Shown(c)) \in 1 .. 3
<1>1. call[c].shows \in Presentation
  BY RunningIs DEF Running
<1>2. Shown(c) \in Credential
  BY <1>1, ConstantsAssumption DEF Shown
<1>3. Claims[Shown(c)] \in Claim
  BY <1>2, ConstantsAssumption
<1>4. IssuerOf(c) \in Issuer
  BY <1>3 DEF IssuerOf, Claim
<1>5. Tier(Shown(c)) = TierOf[IssuerOf(c)]
  BY DEF Tier, IssuerOf
<1> QED
  BY <1>1, <1>2, <1>4, <1>5, ConstantsAssumption

(* Replacing one call by one of the same type leaves the others alone. *)
LEMMA CallReplaced ==
  ASSUME NEW C, NEW T, NEW f \in [C -> T], NEW c \in C, NEW new \in T, NEW g,
         g = [f EXCEPT ![c] = new]
  PROVE  /\ g \in [C -> T]
         /\ g[c] = new
         /\ \A d \in C \ {c} : g[d] = f[d]
  OBVIOUS

(* An answer ends the call. *)
LEMMA Replied ==
  ASSUME TypeOK, NEW c \in Call, NEW a \in Answers, Reply(c, a)
  PROVE  /\ call' \in [Call -> Calls]
         /\ call'[c].stage = "idle"
         /\ \A d \in Call \ {c} : call'[d] = call[d]
<1>1. call \in [Call -> Calls]
  BY Zenon DEF TypeOK, Calls, Answers
<1>2. Idle(a) \in Calls
  BY Zenon DEF Calls
<1>3. call' = [call EXCEPT ![c] = Idle(a)]
  BY DEF Reply
<1> HIDE DEF Calls
<1>4. /\ call' \in [Call -> Calls]
      /\ call'[c] = Idle(a)
      /\ \A d \in Call \ {c} : call'[d] = call[d]
  BY <1>1, <1>2, <1>3
<1> QED
  BY <1>4, IdleIs, Zenon

(* Another record of a running call: what is shown stays. *)
LEMMA Moved ==
  ASSUME TypeOK, NEW c \in Call, NEW new \in Running,
         call' = [call EXCEPT ![c] = new]
  PROVE  /\ call' \in [Call -> Calls]
         /\ call'[c] = new
         /\ \A d \in Call \ {c} : call'[d] = call[d]
<1>1. call \in [Call -> Calls]
  BY Zenon DEF TypeOK, Calls, Answers
<1>2. new \in Calls
  BY Zenon DEF Calls
<1> HIDE DEF Calls
<1> QED
  BY <1>1, <1>2

(* Going on to a later stage. *)
LEMMA Proceeded ==
  ASSUME TypeOK, NEW c \in Call, call[c].stage # "idle",
         NEW stage \in Stage \ {"idle"}, Proceed(c, stage)
  PROVE  /\ call' \in [Call -> Calls]
         /\ call'[c].stage = stage
         /\ call'[c].shows = call[c].shows
         /\ \A d \in Call \ {c} : call'[d] = call[d]
<1>1. call[c] \in Running
  BY RunningIs
<1> DEFINE staged == [call[c] EXCEPT !.stage = stage]
           emptied == [staged EXCEPT !.got = {}]
           new == [emptied EXCEPT !.waited = 0]
<1>2. new \in Running /\ new.stage = stage /\ new.shows = call[c].shows
  <2>1. staged \in Running /\ staged.stage = stage /\ staged.shows = call[c].shows
    BY <1>1 DEF Running
  <2> HIDE DEF staged
  <2>2. emptied \in Running /\ emptied.stage = stage /\ emptied.shows = call[c].shows
    BY <2>1 DEF Running
  <2> HIDE DEF emptied
  <2>3. 0 \in 0 .. FetchTimeout
    BY BoundsAssumption
  <2> QED
    BY <2>2, <2>3 DEF Running
<1>3. call \in [Call -> Calls]
  BY Zenon DEF TypeOK, Calls, Answers
<1>4. call' = [call EXCEPT ![c] = new]
  BY <1>3 DEF Proceed
<1> HIDE DEF new
<1>5. /\ call' \in [Call -> Calls]
      /\ call'[c] = new
      /\ \A d \in Call \ {c} : call'[d] = call[d]
  BY <1>2, <1>4, Moved
<1> QED
  BY <1>2, <1>5

(* Settling: the call answers with an error, or goes on, all checks passed. *)
LEMMA Settled ==
  ASSUME TypeOK, NEW c \in Call, call[c].stage # "idle", NEW checks,
         FirstError(checks) \in Error \cup {"none"},
         NEW stage \in Stage \ {"idle"}, Settle(c, checks, stage)
  PROVE  /\ call' \in [Call -> Calls]
         /\ \A d \in Call \ {c} : call'[d] = call[d]
         /\ \/ call'[c].stage = "idle"
            \/ /\ FirstError(checks) = "none"
               /\ call'[c].stage = stage
               /\ call'[c].shows = call[c].shows
<1>1. CASE FirstError(checks) = "none"
  <2>1. Proceed(c, stage)
    BY <1>1 DEF Settle
  <2> QED
    BY <1>1, <2>1, Proceeded
<1>2. CASE FirstError(checks) # "none"
  <2>1. Reply(c, FirstError(checks))
    BY <1>2 DEF Settle
  <2>2. FirstError(checks) \in Answers
    BY DEF Answers
  <2> QED
    BY <2>1, <2>2, Replied
<1> QED
  BY <1>1, <1>2

-----------------------------------------------------------------------------
(* History and the facts of a step.                                        *)

LEMMA SeenType ==
  ASSUME TypeOK, Watch
  PROVE  seen' \in [Call -> SUBSET Fact]
<1>1. \A c \in Call : seen[c] \subseteq Fact
  BY DEF TypeOK
<1>2. \A c \in Call : Facts(call[c].shows.credential)' \subseteq Fact
  BY Zenon DEF Facts
<1>3. \A c \in Call :
        (IF call'[c].stage = "idle" THEN {}
         ELSE seen[c] \cup Facts(call[c].shows.credential)') \in SUBSET Fact
  BY <1>1, <1>2, Zenon
<1> QED
  BY <1>3, Zenon DEF Watch

LEMMA SeenGrows ==
  ASSUME Watch, NEW c \in Call, call'[c].stage # "idle",
         call'[c].shows = call[c].shows
  PROVE  seen'[c] = seen[c] \cup Facts(Shown(c))'
<1>1. seen'[c] = seen[c] \cup Facts(call[c].shows.credential)'
  BY Zenon DEF Watch
<1> QED
  BY <1>1, Zenon DEF Shown

(* What depends on the credential shown alone stays with it. *)
LEMMA ShowsSame ==
  ASSUME NEW c \in Call, call'[c].shows = call[c].shows
  PROVE  /\ Shown(c)' = Shown(c)
         /\ Tier(Shown(c))' = Tier(Shown(c))
         /\ Listed(c)' = Listed(c)
         /\ Required(call[c].shows)' = Required(call[c].shows)
<1>1. Shown(c)' = Shown(c)
  BY Zenon DEF Shown
<1> QED
  BY <1>1, Zenon DEF Tier, Listed

LEMMA FreshIdle ==
  ASSUME NEW c \in Call, call'[c].stage = "idle"
  PROVE  FreshOf(c)'
  BY DEF FreshOf

(* A call that stays at its stage keeps what is known of it. *)
LEMMA FreshKept ==
  ASSUME Watch, NEW c \in Call, FreshOf(c),
         call'[c].stage = call[c].stage,
         call[c].stage # "idle"
           => call'[c].shows = call[c].shows /\ call'[c].got = call[c].got
  PROVE  FreshOf(c)'
<1>1. CASE call[c].stage = "idle"
  BY <1>1, FreshIdle
<1>2. CASE call[c].stage # "idle"
  <2>1. call'[c].shows = call[c].shows /\ call'[c].got = call[c].got
    BY <1>2
  <2>2. seen[c] \subseteq seen'[c]
    BY <1>2, <2>1, SeenGrows
  <2>3. /\ Tier(Shown(c))' = Tier(Shown(c))
        /\ Listed(c)' = Listed(c)
        /\ Required(call[c].shows)' = Required(call[c].shows)
    BY <2>1, ShowsSame
  <2> QED
    BY <2>1, <2>2, <2>3 DEF FreshOf
<1> QED
  BY <1>1, <1>2

(* Type correctness of a step that leaves the outside world alone. *)
LEMMA TypeStep ==
  ASSUME TypeOK, Watch, UNCHANGED world, call' \in [Call -> Calls],
         keyCache' \in [Process \cup {Database} -> [Issuer -> KeySlot]],
         listCache' \in [Issuer -> ListSlot], failures' \in 0 .. MaxFailures
  PROVE  TypeOK'
<1>1. seen' \in [Call -> SUBSET Fact]
  BY SeenType
<1>2. /\ registry' = registry /\ published' = published
      /\ revokedFor' = revokedFor /\ expired' = expired
      /\ changes' = changes
  BY DEF world
<1>3. call' \in [Call -> Running \cup {Idle(a) : a \in Error \cup {"none", "verified"}}]
  BY Zenon DEF Calls, Answers
<1> QED
  BY <1>1, <1>2, <1>3, Zenon DEF TypeOK

LEMMA CachesType ==
  ASSUME TypeOK
  PROVE  /\ keyCache \in [Process \cup {Database} -> [Issuer -> KeySlot]]
         /\ listCache \in [Issuer -> ListSlot]
         /\ failures \in 0 .. MaxFailures
  BY Zenon DEF TypeOK

LEMMA FailsType ==
  ASSUME TypeOK, Fails
  PROVE  failures' \in 0 .. MaxFailures
  BY BoundsAssumption DEF TypeOK, Fails

(* A step of one call that leaves no list on its way behind. *)
LEMMA Stepped ==
  ASSUME IInv, Watch, UNCHANGED world, NEW c \in Call,
         listCache' \in [Issuer -> ListSlot], CacheLag',
         call' \in [Call -> Calls], \A d \in Call \ {c} : call'[d] = call[d],
         keyCache' \in [Process \cup {Database} -> [Issuer -> KeySlot]],
         failures' \in 0 .. MaxFailures,
         FreshOf(c)', call'[c].stage # "list"
  PROVE  IInv'
<1>1. TypeOK'
  BY TypeStep DEF IInv
<1>2. Fresh'
  <2>1. ASSUME NEW d \in Call \ {c}
        PROVE  FreshOf(d)'
    BY <2>1, FreshKept DEF IInv, Fresh
  <2> QED
    BY <2>1, Zenon DEF Fresh
<1>3. FetchLag'
  <2>1. ASSUME NEW d \in Call \ {c}
        PROVE  FetchLagOf(d)'
    <3>1. FetchLagOf(d)
      BY DEF IInv, FetchLag
    <3>2. call'[d] = call[d] /\ revokedFor' = revokedFor
      BY DEF world
    <3> QED
      BY <3>1, <3>2 DEF FetchLagOf
  <2>2. FetchLagOf(c)'
    BY DEF FetchLagOf
  <2> QED
    BY <2>1, <2>2, Zenon DEF FetchLag
<1> QED
  BY <1>1, <1>2, <1>3 DEF IInv

(* The caches of the lists stay as they are. *)
LEMMA ListsKept ==
  ASSUME IInv, UNCHANGED <<world, listCache>>
  PROVE  listCache' \in [Issuer -> ListSlot] /\ CacheLag'
<1>1. listCache' \in [Issuer -> ListSlot]
  BY CachesType DEF IInv
<1>2. CacheLag'
  BY DEF IInv, CacheLag, ListUsable, world
<1> QED
  BY <1>1, <1>2

LEMMA KeysKept ==
  ASSUME IInv, UNCHANGED keyCache
  PROVE  keyCache' \in [Process \cup {Database} -> [Issuer -> KeySlot]]
  BY CachesType DEF IInv

(* An answer, with or without a failure. *)
LEMMA AnswerStep ==
  ASSUME IInv, Watch, UNCHANGED <<world, caches>>, NEW c \in Call,
         NEW a \in Answers, Reply(c, a), failures' \in 0 .. MaxFailures
  PROVE  IInv'
<1>1. TypeOK
  BY DEF IInv
<1>2. /\ call' \in [Call -> Calls]
      /\ call'[c].stage = "idle"
      /\ \A d \in Call \ {c} : call'[d] = call[d]
  BY <1>1, Replied
<1>3. FreshOf(c)' /\ call'[c].stage # "list"
  BY <1>2, FreshIdle
<1>4. keyCache' \in [Process \cup {Database} -> [Issuer -> KeySlot]]
  BY KeysKept DEF caches
<1>5. listCache' \in [Issuer -> ListSlot] /\ CacheLag'
  BY ListsKept DEF caches
<1> QED
  BY <1>2, <1>3, <1>4, <1>5, Stepped

(* What holds now is remembered by a call that goes on. *)
LEMMA FactsRemembered ==
  ASSUME Watch, UNCHANGED world, NEW c \in Call, call'[c].stage # "idle",
         call'[c].shows = call[c].shows
  PROVE  /\ seen[c] \subseteq seen'[c]
         /\ Trusted(Shown(c)) => "trusted" \in seen'[c]
         /\ Shown(c) \notin expired => "unexpired" \in seen'[c]
         /\ ~Revoked(Shown(c)) => "unrevoked" \in seen'[c]
<1>1. seen'[c] = seen[c] \cup Facts(Shown(c))'
  BY SeenGrows
<1>2. Shown(c)' = Shown(c)
  BY ShowsSame
<1>3. /\ Trusted(Shown(c))' = Trusted(Shown(c))
      /\ Revoked(Shown(c))' = Revoked(Shown(c))
      /\ (Shown(c) \notin expired)' = (Shown(c) \notin expired)
  BY <1>2, Zenon DEF world, Trusted, Registered, Revoked, Handle, Tier
<1>4. /\ Trusted(Shown(c))' => "trusted" \in Facts(Shown(c))'
      /\ Revoked(Shown(c))' \/ "unrevoked" \in Facts(Shown(c))'
      /\ (Shown(c) \notin expired)' => "unexpired" \in Facts(Shown(c))'
  BY Zenon DEF Facts, Fact
<1> QED
  BY <1>1, <1>3, <1>4, Zenon

(* A call reaches a stage knowing what FreshOf asks for there. *)
LEMMA FreshReached ==
  ASSUME NEW c \in Call, call'[c].shows = call[c].shows,
         call'[c].stage \in {"keys", "served"} => Tier(Shown(c)) # 2,
         call'[c].stage = "issuer"
           => Tier(Shown(c)) = 2 \/ "unexpired" \in seen'[c],
         call'[c].stage \in {"revocation", "list", "binding"}
           => {"trusted", "unexpired"} \subseteq seen'[c],
         call'[c].stage = "list" => Listed(c) /\ call'[c].got \subseteq Credential,
         call'[c].stage = "served" => call'[c].got \subseteq Key,
         call'[c].stage = "binding" => Required(call[c].shows) \subseteq seen'[c]
  PROVE  FreshOf(c)'
<1>1. /\ Tier(Shown(c))' = Tier(Shown(c))
      /\ Listed(c)' = Listed(c)
      /\ Required(call[c].shows)' = Required(call[c].shows)
  BY ShowsSame
<1> QED
  BY <1>1 DEF FreshOf

(* The revocation check is passed: it was not needed, or found nothing. *)
LEMMA PassedStep ==
  ASSUME IInv, Watch, UNCHANGED <<world, keyCache>>, NEW c \in Call,
         call[c].stage \in {"revocation", "list"}, Proceed(c, "binding"),
         listCache' \in [Issuer -> ListSlot], CacheLag',
         failures' \in 0 .. MaxFailures,
         "unrevoked" \in Required(call[c].shows) => ~Revoked(Shown(c))
  PROVE  IInv'
<1>1. TypeOK /\ FreshOf(c)
  BY DEF IInv, Fresh
<1>2. call[c].stage # "idle" /\ "binding" \in Stage \ {"idle"}
  BY DEF Stage
<1>3. /\ call' \in [Call -> Calls]
      /\ call'[c].stage = "binding"
      /\ call'[c].shows = call[c].shows
      /\ \A d \in Call \ {c} : call'[d] = call[d]
  BY <1>1, <1>2, Proceeded
<1>4. /\ seen[c] \subseteq seen'[c]
      /\ ~Revoked(Shown(c)) => "unrevoked" \in seen'[c]
  BY <1>3, FactsRemembered
<1>5. {"trusted", "unexpired"} \subseteq seen'[c]
  BY <1>1, <1>4 DEF FreshOf
<1>6. Required(call[c].shows) \subseteq seen'[c]
  BY <1>4, <1>5 DEF Required
<1>7. FreshOf(c)'
  BY <1>3, <1>5, <1>6, FreshReached
<1>8. keyCache' \in [Process \cup {Database} -> [Issuer -> KeySlot]]
  BY KeysKept
<1> QED
  BY <1>3, <1>7, <1>8, Stepped

(* The same without any change to the caches. *)
LEMMA PassedPlainly ==
  ASSUME IInv, Watch, UNCHANGED <<world, caches>>, NEW c \in Call,
         call[c].stage \in {"revocation", "list"}, Proceed(c, "binding"),
         failures' \in 0 .. MaxFailures,
         "unrevoked" \in Required(call[c].shows) => ~Revoked(Shown(c))
  PROVE  IInv'
<1>1. listCache' \in [Issuer -> ListSlot] /\ CacheLag'
  BY ListsKept DEF caches
<1> QED
  BY <1>1, PassedStep DEF caches

(* The signature is checked with keys found in the cache or fetched. *)
LEMMA SignatureStep ==
  ASSUME IInv, Watch, UNCHANGED <<world, listCache, failures>>, NEW c \in Call,
         call[c].stage \in {"keys", "served"}, NEW keys,
         keyCache' \in [Process \cup {Database} -> [Issuer -> KeySlot]],
         Settle(c, SignatureChecks(Shown(c), keys), "issuer")
  PROVE  IInv'
<1> DEFINE checks == SignatureChecks(Shown(c), keys)
<1>1. TypeOK
  BY DEF IInv
<1>2. call[c].stage # "idle" /\ "issuer" \in Stage \ {"idle"}
  BY DEF Stage
<1>3. Shown(c) \in Credential
  BY <1>1, <1>2, ShownIs
<1>4. /\ FirstError(checks) \in Error \cup {"none"}
      /\ FirstError(checks) = "none" => Shown(c) \notin expired
  BY <1>3, SignatureErrors
<1> HIDE DEF checks
<1>5. Settle(c, checks, "issuer")
  BY DEF checks
<1>6. /\ call' \in [Call -> Calls]
      /\ \A d \in Call \ {c} : call'[d] = call[d]
      /\ \/ call'[c].stage = "idle"
         \/ /\ FirstError(checks) = "none"
            /\ call'[c].stage = "issuer"
            /\ call'[c].shows = call[c].shows
  BY <1>1, <1>2, <1>4, <1>5, Settled
<1>7. FreshOf(c)' /\ call'[c].stage # "list"
  <2>1. CASE call'[c].stage = "idle"
    BY <2>1, FreshIdle
  <2>2. CASE call'[c].stage = "issuer" /\ call'[c].shows = call[c].shows
             /\ FirstError(checks) = "none"
    <3>1. "unexpired" \in seen'[c]
      BY <2>2, <1>4, FactsRemembered
    <3> QED
      BY <2>2, <3>1, FreshReached
  <2> QED
    BY <2>1, <2>2, <1>6
<1>8. listCache' \in [Issuer -> ListSlot] /\ CacheLag'
  BY ListsKept
<1>9. failures' \in 0 .. MaxFailures
  BY <1>1, CachesType
<1> QED
  BY <1>6, <1>7, <1>8, <1>9, Stepped

-----------------------------------------------------------------------------
(* Actions of a call.                                                      *)

LEMMA BeginStep ==
  ASSUME IInv, Watch, NEW c \in Call, Begin(c)
  PROVE  IInv'
<1>1. TypeOK /\ UNCHANGED <<world, caches>> /\ failures' = failures
  BY DEF IInv, Begin
<1>2. PICK p \in Process, s \in Presentation :
        IF FirstError(StructureChecks(s.credential)) # "none"
        THEN Reply(c, FirstError(StructureChecks(s.credential)))
        ELSE call' = [call EXCEPT ![c] =
                [Idle("none") EXCEPT
                   !.stage = IF Tier(s.credential) = 2 THEN "issuer" ELSE "keys",
                   !.at = p, !.shows = s]]
  BY Zenon DEF Begin
<1>3. s.credential \in Credential
  BY ConstantsAssumption
<1>4. failures' \in 0 .. MaxFailures
  BY <1>1, CachesType
<1>5. CASE FirstError(StructureChecks(s.credential)) # "none"
  <2>1. FirstError(StructureChecks(s.credential)) \in Answers
    BY <1>3, <1>5, StructureErrors, Zenon DEF Answers
  <2>2. Reply(c, FirstError(StructureChecks(s.credential)))
    BY <1>2, <1>5, Zenon
  <2> QED
    BY <1>1, <1>4, <2>1, <2>2, AnswerStep
<1>6. CASE FirstError(StructureChecks(s.credential)) = "none"
  <2> DEFINE stage == IF Tier(s.credential) = 2 THEN "issuer" ELSE "keys"
             new == [stage |-> stage, at |-> p, shows |-> s, got |-> {},
                     tries |-> 0, waited |-> 0, answer |-> "none"]
  <2>1. call' = [call EXCEPT ![c] = new]
    BY <1>2, <1>6 DEF Idle
  <2>2. stage \in Stage \ {"idle"}
    BY DEF Stage
  <2>3. 0 \in 0 .. Retries /\ 0 \in 0 .. FetchTimeout
    BY BoundsAssumption
  <2>4. new \in Running
    <3> HIDE DEF stage
    <3> QED
      BY <2>2, <2>3 DEF Running
  <2>5. /\ new.stage = IF Tier(s.credential) = 2 THEN "issuer" ELSE "keys"
        /\ new.shows = s
    OBVIOUS
  <2> HIDE DEF new
  <2>6. /\ call' \in [Call -> Calls]
        /\ call'[c] = new
        /\ \A d \in Call \ {c} : call'[d] = call[d]
    BY <1>1, <2>1, <2>4, Moved
  <2>7. FreshOf(c)'
    <3>1. /\ call'[c].stage = IF Tier(s.credential) = 2 THEN "issuer" ELSE "keys"
          /\ Shown(c)' = s.credential
      BY <2>5, <2>6 DEF Shown
    <3>2. Tier(Shown(c))' = Tier(s.credential)
      BY <3>1, Zenon DEF Tier
    <3> QED
      BY <3>1, <3>2 DEF FreshOf
  <2>8. call'[c].stage # "list"
    BY <2>5, <2>6
  <2>9. listCache' \in [Issuer -> ListSlot] /\ CacheLag'
    BY <1>1, ListsKept DEF caches
  <2>10. keyCache' \in [Process \cup {Database} -> [Issuer -> KeySlot]]
    BY <1>1, KeysKept DEF caches
  <2> QED
    BY <1>1, <1>4, <2>6, <2>7, <2>8, <2>9, <2>10, Stepped
<1> QED
  BY <1>5, <1>6

LEMMA UseCachedKeysStep ==
  ASSUME IInv, Watch, NEW c \in Call, UseCachedKeys(c)
  PROVE  IInv'
<1>1. /\ UNCHANGED <<world, listCache, failures>>
      /\ call[c].stage \in {"keys", "served"}
      /\ Settle(c, SignatureChecks(Shown(c), keyCache[Home(c)][IssuerOf(c)].keys),
                "issuer")
  BY DEF UseCachedKeys
<1>2. keyCache' \in [Process \cup {Database} -> [Issuer -> KeySlot]]
  BY KeysKept DEF UseCachedKeys
<1> QED
  BY <1>1, <1>2, SignatureStep

LEMMA AskForKeysStep ==
  ASSUME IInv, Watch, NEW c \in Call, AskForKeys(c)
  PROVE  IInv'
<1>1. /\ TypeOK /\ UNCHANGED <<world, caches>> /\ failures' = failures
      /\ call[c].stage = "keys" /\ FreshOf(c)
  BY DEF IInv, Fresh, AskForKeys
<1> DEFINE staged == [call[c] EXCEPT !.stage = "served"]
           new == [staged EXCEPT !.got = published[IssuerOf(c)]]
<1>2. call[c] \in Running /\ IssuerOf(c) \in Issuer
  BY <1>1, RunningIs, ShownIs
<1>3. published[IssuerOf(c)] \in SUBSET Key
  BY <1>1, <1>2 DEF TypeOK
<1>4. /\ new \in Running /\ new.stage = "served" /\ new.shows = call[c].shows
      /\ new.got = published[IssuerOf(c)]
  <2>1. "served" \in Stage \ {"idle"}
    BY DEF Stage
  <2>2. staged \in Running /\ staged.stage = "served" /\ staged.shows = call[c].shows
    BY <1>2, <2>1 DEF Running
  <2> HIDE DEF staged
  <2> QED
    BY <1>3, <2>2 DEF Running
<1>5. call' = [call EXCEPT ![c] = new]
  <2>1. call \in [Call -> Calls]
    BY <1>1, Zenon DEF TypeOK, Calls, Answers
  <2> QED
    BY <2>1 DEF AskForKeys
<1> HIDE DEF new
<1>6. /\ call' \in [Call -> Calls]
      /\ call'[c] = new
      /\ \A d \in Call \ {c} : call'[d] = call[d]
  BY <1>1, <1>4, <1>5, Moved
<1>7. FreshOf(c)'
  <2>1. Tier(Shown(c)) # 2
    BY <1>1 DEF FreshOf
  <2> QED
    BY <1>3, <1>4, <1>6, <2>1, FreshReached
<1>8. listCache' \in [Issuer -> ListSlot] /\ CacheLag'
  BY <1>1, ListsKept DEF caches
<1>9. /\ keyCache' \in [Process \cup {Database} -> [Issuer -> KeySlot]]
      /\ failures' \in 0 .. MaxFailures
  BY <1>1, KeysKept, CachesType DEF caches
<1> QED
  BY <1>1, <1>4, <1>6, <1>7, <1>8, <1>9, Stepped

LEMMA KeysArriveStep ==
  ASSUME IInv, Watch, NEW c \in Call, KeysArrive(c)
  PROVE  IInv'
<1>1. /\ TypeOK /\ UNCHANGED <<world, listCache, failures>>
      /\ call[c].stage = "served"
      /\ Settle(c, SignatureChecks(Shown(c), call[c].got), "issuer")
  BY DEF IInv, KeysArrive
<1>2. /\ call[c] \in Running /\ Home(c) \in Process \cup {Database}
      /\ IssuerOf(c) \in Issuer
  BY <1>1, RunningIs, ShownIs DEF Running, Home
<1>3. call[c].got \in SUBSET Key
  BY <1>1 DEF IInv, Fresh, FreshOf
<1>4. keyCache' \in [Process \cup {Database} -> [Issuer -> KeySlot]]
  <2> DEFINE slot == [keys |-> call[c].got, age |-> 0]
             row == [keyCache[Home(c)] EXCEPT ![IssuerOf(c)] = slot]
  <2>1. keyCache \in [Process \cup {Database} -> [Issuer -> KeySlot]]
    BY <1>1, CachesType
  <2>2. slot \in KeySlot
    BY <1>3, BoundsAssumption DEF KeySlot
  <2> HIDE DEF slot
  <2>3. row \in [Issuer -> KeySlot]
    BY <1>2, <2>1, <2>2
  <2>4. keyCache' = [keyCache EXCEPT ![Home(c)] = row]
    BY <2>1 DEF KeysArrive, slot
  <2> HIDE DEF row
  <2> QED
    BY <1>2, <2>1, <2>3, <2>4
<1> QED
  BY <1>1, <1>4, SignatureStep

LEMMA KeysFailStep ==
  ASSUME IInv, Watch, NEW c \in Call, KeysFail(c)
  PROVE  IInv'
<1>1. UNCHANGED <<world, caches>> /\ failures' \in 0 .. MaxFailures
  BY FailsType DEF IInv, KeysFail
<1>2. /\ "signature_invalid" \in Answers
      /\ "did_resolution_failed" \in Answers
  BY DEF Answers, Error
<1>3. Reply(c, "signature_invalid") \/ Reply(c, "did_resolution_failed")
  BY DEF KeysFail
<1> QED
  BY <1>1, <1>2, <1>3, AnswerStep

LEMMA CheckIssuerStep ==
  ASSUME IInv, Watch, NEW c \in Call, CheckIssuer(c)
  PROVE  IInv'
<1> DEFINE checks == IF Tier(Shown(c)) = 2 THEN X509Checks(Shown(c))
                     ELSE TrustChecks(Shown(c))
<1>1. /\ TypeOK /\ FreshOf(c) /\ UNCHANGED <<world, caches>>
      /\ failures' = failures /\ call[c].stage = "issuer"
  BY DEF IInv, Fresh, CheckIssuer
<1>2. call[c].stage # "idle" /\ "revocation" \in Stage \ {"idle"}
  BY <1>1 DEF Stage
<1>3. Shown(c) \in Credential
  BY <1>1, <1>2, ShownIs
<1>4. /\ FirstError(checks) \in Error \cup {"none"}
      /\ FirstError(checks) = "none"
           => /\ Trusted(Shown(c))
              /\ Tier(Shown(c)) = 2 => Shown(c) \notin expired
  BY <1>3, TrustErrors, X509Errors, Zenon
<1>5. Settle(c, checks, "revocation")
  BY DEF CheckIssuer
<1> HIDE DEF checks
<1>6. /\ call' \in [Call -> Calls]
      /\ \A d \in Call \ {c} : call'[d] = call[d]
      /\ \/ call'[c].stage = "idle"
         \/ /\ FirstError(checks) = "none"
            /\ call'[c].stage = "revocation"
            /\ call'[c].shows = call[c].shows
  BY <1>1, <1>2, <1>4, <1>5, Settled
<1>7. FreshOf(c)' /\ call'[c].stage # "list"
  <2>1. CASE call'[c].stage = "idle"
    BY <2>1, FreshIdle
  <2>2. CASE call'[c].stage = "revocation" /\ call'[c].shows = call[c].shows
             /\ FirstError(checks) = "none"
    <3>1. /\ seen[c] \subseteq seen'[c]
          /\ "trusted" \in seen'[c]
          /\ Tier(Shown(c)) = 2 => "unexpired" \in seen'[c]
      BY <1>1, <1>4, <2>2, FactsRemembered
    <3>2. "unexpired" \in seen'[c]
      BY <1>1, <3>1 DEF FreshOf
    <3> QED
      BY <2>2, <3>1, <3>2, FreshReached
  <2> QED
    BY <2>1, <2>2, <1>6
<1>8. listCache' \in [Issuer -> ListSlot] /\ CacheLag'
  BY <1>1, ListsKept DEF caches
<1>9. /\ keyCache' \in [Process \cup {Database} -> [Issuer -> KeySlot]]
      /\ failures' \in 0 .. MaxFailures
  BY <1>1, KeysKept, CachesType DEF caches
<1> QED
  BY <1>1, <1>6, <1>7, <1>8, <1>9, Stepped

LEMMA IssuerQueryFailsStep ==
  ASSUME IInv, Watch, NEW c \in Call, IssuerQueryFails(c)
  PROVE  IInv'
<1>1. UNCHANGED <<world, caches>> /\ failures' \in 0 .. MaxFailures
  BY FailsType DEF IInv, IssuerQueryFails
<1>2. "internal_error" \in Answers /\ Reply(c, "internal_error")
  BY DEF Answers, Error, IssuerQueryFails
<1> QED
  BY <1>1, <1>2, AnswerStep

-----------------------------------------------------------------------------
(* Revocation.                                                             *)

LEMMA NoRevocationStep ==
  ASSUME IInv, Watch, NEW c \in Call, NoRevocation(c)
  PROVE  IInv'
<1>1. /\ UNCHANGED <<world, caches>> /\ failures' = failures
      /\ call[c].stage = "revocation" /\ Proceed(c, "binding")
  BY DEF NoRevocation
<1>2. "unrevoked" \notin Required(call[c].shows)
  BY DEF NoRevocation, Introspects, IssuerOf, Shown, Tier, Required
<1>3. failures' \in 0 .. MaxFailures
  BY <1>1, CachesType DEF IInv
<1> QED
  BY <1>1, <1>2, <1>3, PassedPlainly

LEMMA IntrospectStep ==
  ASSUME IInv, Watch, NEW c \in Call, Introspect(c)
  PROVE  IInv'
<1>1. /\ UNCHANGED <<world, caches>> /\ failures' \in 0 .. MaxFailures
      /\ call[c].stage = "revocation"
  BY CachesType DEF IInv, Introspect
<1>2. CASE Reply(c, "credential_revoked")
  <2>1. "credential_revoked" \in Answers
    BY DEF Answers, Error
  <2> QED
    BY <1>1, <1>2, <2>1, AnswerStep
<1>3. CASE ~Revoked(Shown(c)) /\ Proceed(c, "binding")
  BY <1>1, <1>3, PassedPlainly
<1> QED
  BY <1>2, <1>3 DEF Introspect

(* Of somebody else's answer nothing is required. *)
LEMMA IntrospectElsewhereStep ==
  ASSUME IInv, Watch, NEW c \in Call, IntrospectElsewhere(c)
  PROVE  IInv'
<1>1. /\ UNCHANGED <<world, caches>> /\ failures' \in 0 .. MaxFailures
      /\ call[c].stage = "revocation"
  BY CachesType DEF IInv, IntrospectElsewhere
<1>2. CASE Reply(c, "credential_revoked")
  <2>1. "credential_revoked" \in Answers
    BY DEF Answers, Error
  <2> QED
    BY <1>1, <1>2, <2>1, AnswerStep
<1>3. CASE Proceed(c, "binding")
  <2>1. "unrevoked" \notin Required(call[c].shows)
    BY DEF IntrospectElsewhere, Introspects, IssuerOf, Shown, Tier, Required
  <2> QED
    BY <1>1, <1>3, <2>1, PassedPlainly
<1> QED
  BY <1>2, <1>3 DEF IntrospectElsewhere

LEMMA IntrospectionFailsStep ==
  ASSUME IInv, Watch, NEW c \in Call, IntrospectionFails(c)
  PROVE  IInv'
<1>1. /\ TypeOK /\ FreshOf(c) /\ UNCHANGED <<world, caches>>
      /\ failures' \in 0 .. MaxFailures /\ call[c].stage = "revocation"
  BY FailsType DEF IInv, Fresh, IntrospectionFails
<1>2. CASE call[c].tries < Retries
  <2> DEFINE new == [call[c] EXCEPT !.tries = @ + 1]
  <2>1. call[c] \in Running
    BY <1>1, RunningIs
  <2>2. call[c].tries + 1 \in 0 .. Retries
    BY <1>2, <2>1, BoundsAssumption DEF Running
  <2>3. /\ new \in Running /\ new.stage = call[c].stage
        /\ new.shows = call[c].shows /\ new.got = call[c].got
    BY <2>1, <2>2 DEF Running
  <2>4. call' = [call EXCEPT ![c] = new]
    <3>1. call \in [Call -> Calls]
      BY <1>1, Zenon DEF TypeOK, Calls, Answers
    <3> QED
      BY <1>2, <3>1 DEF IntrospectionFails
  <2> HIDE DEF new
  <2>5. /\ call' \in [Call -> Calls]
        /\ call'[c] = new
        /\ \A d \in Call \ {c} : call'[d] = call[d]
    BY <1>1, <2>3, <2>4, Moved
  <2>6. FreshOf(c)'
    BY <1>1, <2>3, <2>5, FreshKept
  <2>7. listCache' \in [Issuer -> ListSlot] /\ CacheLag'
    BY <1>1, ListsKept DEF caches
  <2>8. keyCache' \in [Process \cup {Database} -> [Issuer -> KeySlot]]
    BY <1>1, KeysKept DEF caches
  <2> QED
    BY <1>1, <2>3, <2>5, <2>6, <2>7, <2>8, Stepped
<1>3. CASE ~(call[c].tries < Retries) /\ FailureMode[IssuerOf(c)] = "closed"
  <2>1. /\ "tier1_revocation_unavailable" \in Answers
        /\ Reply(c, "tier1_revocation_unavailable")
    BY <1>3 DEF Answers, Error, IntrospectionFails
  <2> QED
    BY <1>1, <2>1, AnswerStep
<1>4. CASE ~(call[c].tries < Retries) /\ FailureMode[IssuerOf(c)] # "closed"
  <2>1. Proceed(c, "binding")
    BY <1>4 DEF IntrospectionFails
  <2>2. "unrevoked" \notin Required(call[c].shows)
    BY <1>4 DEF IntrospectionFails, Introspects, IssuerOf, Shown, Tier, Required
  <2> QED
    BY <1>1, <2>1, <2>2, PassedPlainly
<1> QED
  BY <1>2, <1>3, <1>4

LEMMA CheckCertificateStep ==
  ASSUME IInv, Watch, NEW c \in Call, CheckCertificate(c)
  PROVE  IInv'
<1>1. /\ UNCHANGED <<world, caches>> /\ failures' \in 0 .. MaxFailures
      /\ call[c].stage = "revocation"
  BY CachesType DEF IInv, CheckCertificate
<1>2. CASE Reply(c, "credential_revoked")
  <2>1. "credential_revoked" \in Answers
    BY DEF Answers, Error
  <2> QED
    BY <1>1, <1>2, <2>1, AnswerStep
<1>3. CASE ~Revoked(Shown(c)) /\ Proceed(c, "binding")
  BY <1>1, <1>3, PassedPlainly
<1> QED
  BY <1>2, <1>3 DEF CheckCertificate

LEMMA CertificateQueryFailsStep ==
  ASSUME IInv, Watch, NEW c \in Call, CertificateQueryFails(c)
  PROVE  IInv'
<1>1. /\ UNCHANGED <<world, caches>> /\ failures' \in 0 .. MaxFailures
      /\ call[c].stage = "revocation"
  BY FailsType DEF IInv, CertificateQueryFails
<1>2. CASE FailureMode[IssuerOf(c)] = "closed"
  <2>1. /\ "x509_revocation_unavailable" \in Answers
        /\ Reply(c, "x509_revocation_unavailable")
    BY <1>2 DEF Answers, Error, CertificateQueryFails
  <2> QED
    BY <1>1, <2>1, AnswerStep
<1>3. CASE FailureMode[IssuerOf(c)] # "closed"
  <2>1. Proceed(c, "binding")
    BY <1>3 DEF CertificateQueryFails
  <2>2. "unrevoked" \notin Required(call[c].shows)
    BY <1>3 DEF CertificateQueryFails, IssuerOf, Shown, Tier, Required
  <2> QED
    BY <1>1, <2>1, <2>2, PassedPlainly
<1> QED
  BY <1>2, <1>3

(* Only tier 3 has lists, and no look-up is required of it. *)
LEMMA ListedNotRequired ==
  ASSUME NEW c \in Call, Listed(c)
  PROVE  "unrevoked" \notin Required(call[c].shows)
  BY DEF Listed, Shown, Tier, Required

LEMMA UseCachedListStep ==
  ASSUME IInv, Watch, NEW c \in Call, UseCachedList(c)
  PROVE  IInv'
<1>1. /\ UNCHANGED <<world, caches>> /\ failures' \in 0 .. MaxFailures
      /\ call[c].stage = "revocation" /\ Listed(c)
  BY CachesType DEF IInv, UseCachedList
<1>2. CASE Reply(c, "credential_revoked")
  <2>1. "credential_revoked" \in Answers
    BY DEF Answers, Error
  <2> QED
    BY <1>1, <1>2, <2>1, AnswerStep
<1>3. CASE Proceed(c, "binding")
  BY <1>1, <1>3, ListedNotRequired, PassedPlainly
<1> QED
  BY <1>2, <1>3 DEF UseCachedList, ListVerdict

(* A list is asked for: what it will bring bars what is revoked now. *)
LEMMA AskForListStep ==
  ASSUME IInv, Watch, NEW c \in Call, AskForList(c)
  PROVE  IInv'
<1>1. /\ TypeOK /\ FreshOf(c) /\ UNCHANGED <<world, caches>>
      /\ failures' = failures /\ call[c].stage = "revocation" /\ Listed(c)
  BY DEF IInv, Fresh, AskForList
<1> DEFINE staged == [call[c] EXCEPT !.stage = "list"]
           new == [staged EXCEPT !.got = ListNow]
<1>2. call[c] \in Running
  BY <1>1, RunningIs
<1>3. ListNow \in SUBSET Credential
  BY DEF ListNow
<1>4. /\ new \in Running /\ new.stage = "list" /\ new.shows = call[c].shows
      /\ new.got = ListNow /\ new.waited \in 0 .. FetchTimeout
  <2>1. "list" \in Stage \ {"idle"}
    BY DEF Stage
  <2>2. staged \in Running /\ staged.stage = "list" /\ staged.shows = call[c].shows
    BY <1>2, <2>1 DEF Running
  <2> HIDE DEF staged
  <2> QED
    BY <1>3, <2>2 DEF Running
<1>5. call' = [call EXCEPT ![c] = new]
  <2>1. call \in [Call -> Calls]
    BY <1>1, Zenon DEF TypeOK, Calls, Answers
  <2> QED
    BY <2>1 DEF AskForList
<1> HIDE DEF new
<1>6. /\ call' \in [Call -> Calls]
      /\ call'[c] = new
      /\ \A d \in Call \ {c} : call'[d] = call[d]
  BY <1>1, <1>4, <1>5, Moved
<1>7. FreshOf(c)'
  <2>1. seen[c] \subseteq seen'[c]
    BY <1>1, <1>4, <1>6, FactsRemembered
  <2>2. {"trusted", "unexpired"} \subseteq seen'[c]
    BY <1>1, <2>1 DEF FreshOf
  <2> QED
    BY <1>1, <1>3, <1>4, <1>6, <2>2, FreshReached
<1>8. TypeOK'
  <2>1. /\ keyCache' \in [Process \cup {Database} -> [Issuer -> KeySlot]]
        /\ listCache' \in [Issuer -> ListSlot]
        /\ failures' \in 0 .. MaxFailures
    BY <1>1, CachesType DEF caches
  <2> QED
    BY <1>1, <1>6, <2>1, TypeStep
<1>9. Fresh'
  <2>1. ASSUME NEW d \in Call \ {c}
        PROVE  FreshOf(d)'
    BY <1>6, <2>1, FreshKept DEF IInv, Fresh
  <2> QED
    BY <1>7, <2>1, Zenon DEF Fresh
<1>10. CacheLag'
  BY <1>1, ListsKept DEF caches
<1>11. FetchLag'
  <2>1. ASSUME NEW d \in Call \ {c}
        PROVE  FetchLagOf(d)'
    <3>1. FetchLagOf(d)
      BY DEF IInv, FetchLag
    <3>2. call'[d] = call[d] /\ revokedFor' = revokedFor
      BY <1>1, <1>6 DEF world
    <3> QED
      BY <3>1, <3>2 DEF FetchLagOf
  <2>2. FetchLagOf(c)'
    <3>1. ASSUME NEW cr \in Credential \ ListNow
          PROVE  revokedFor[cr] = -1
      <4>1. revokedFor[cr] \in -1 .. Oldest /\ ~(revokedFor[cr] >= 0)
        BY <1>1 DEF TypeOK, ListNow
      <4>2. Oldest \in Int
        BY BoundsAssumption DEF Oldest
      <4> QED
        BY <4>1, <4>2
    <3>2. /\ call'[c].got = ListNow /\ call'[c].waited \in 0 .. FetchTimeout
          /\ revokedFor' = revokedFor
      BY <1>1, <1>4, <1>6 DEF world
    <3>3. -1 <= call'[c].waited
      BY <3>2, BoundsAssumption
    <3> QED
      BY <3>1, <3>2, <3>3 DEF FetchLagOf
  <2> QED
    BY <2>1, <2>2, Zenon DEF FetchLag
<1> QED
  BY <1>8, <1>9, <1>10, <1>11 DEF IInv

(* It arrives, no later than the time a fetch may take. *)
LEMMA ListArrivesStep ==
  ASSUME IInv, Watch, NEW c \in Call, ListArrives(c)
  PROVE  IInv'
<1>1. /\ TypeOK /\ FreshOf(c) /\ FetchLagOf(c) /\ CacheLag
      /\ UNCHANGED <<world, keyCache>>
      /\ failures' \in 0 .. MaxFailures /\ call[c].stage = "list"
  BY CachesType DEF IInv, Fresh, FetchLag, ListArrives
<1>2. Listed(c) /\ call[c].got \in SUBSET Credential
  BY <1>1 DEF FreshOf
<1>3. call[c] \in Running /\ IssuerOf(c) \in Issuer
  BY <1>1, RunningIs, ShownIs
<1> DEFINE slot == [barred |-> call[c].got, age |-> 0]
<1>4. /\ listCache' = [listCache EXCEPT ![IssuerOf(c)] = slot]
      /\ listCache \in [Issuer -> ListSlot]
  BY <1>1, CachesType DEF ListArrives
<1>5. slot \in ListSlot /\ slot.barred = call[c].got /\ slot.age = 0
  BY <1>2, BoundsAssumption DEF ListSlot
<1> HIDE DEF slot
<1>6. /\ listCache' \in [Issuer -> ListSlot]
      /\ listCache'[IssuerOf(c)] = slot
      /\ \A i \in Issuer \ {IssuerOf(c)} : listCache'[i] = listCache[i]
  BY <1>3, <1>4, <1>5
<1>7. CacheLag'
  <2> SUFFICES ASSUME NEW i \in Issuer, ListUsable(listCache'[i]),
                      NEW cr \in Credential \ listCache'[i].barred
               PROVE  revokedFor'[cr] <= listCache'[i].age + FetchTimeout
    BY Zenon DEF CacheLag, ListUsable
  <2>1. revokedFor' = revokedFor
    BY <1>1 DEF world
  <2>2. CASE i = IssuerOf(c)
    <3>1. revokedFor[cr] <= call[c].waited
      BY <1>1, <1>5, <1>6, <2>2 DEF FetchLagOf
    <3>2. call[c].waited \in 0 .. FetchTimeout
      BY <1>3 DEF Running
    <3>3. revokedFor[cr] \in Int
      BY <1>1, BoundsAssumption DEF TypeOK, Oldest
    <3>4. listCache'[i].age = 0
      BY <1>5, <1>6, <2>2
    <3> QED
      BY <2>1, <3>1, <3>2, <3>3, <3>4, BoundsAssumption
  <2>3. CASE i # IssuerOf(c)
    BY <1>1, <1>6, <2>1, <2>3 DEF CacheLag
  <2> QED
    BY <2>2, <2>3
<1>8. CASE Reply(c, "credential_revoked")
  <2>1. "credential_revoked" \in Answers
    BY DEF Answers, Error
  <2>2. /\ call' \in [Call -> Calls]
        /\ call'[c].stage = "idle"
        /\ \A d \in Call \ {c} : call'[d] = call[d]
    BY <1>1, <1>8, <2>1, Replied
  <2>3. FreshOf(c)' /\ call'[c].stage # "list"
    BY <2>2, FreshIdle
  <2>4. keyCache' \in [Process \cup {Database} -> [Issuer -> KeySlot]]
    BY <1>1, KeysKept
  <2> QED
    BY <1>1, <1>6, <1>7, <2>2, <2>3, <2>4, Stepped
<1>9. CASE Proceed(c, "binding")
  BY <1>1, <1>2, <1>6, <1>7, <1>9, ListedNotRequired, PassedStep
<1> QED
  BY <1>8, <1>9 DEF ListArrives, ListVerdict

LEMMA ListFailsStep ==
  ASSUME IInv, Watch, NEW c \in Call, ListFails(c)
  PROVE  IInv'
<1>1. UNCHANGED <<world, caches>> /\ failures' \in 0 .. MaxFailures
  BY FailsType DEF IInv, ListFails
<1>2. "credential_revoked" \in Answers /\ Reply(c, "credential_revoked")
  BY DEF Answers, Error, ListFails
<1> QED
  BY <1>1, <1>2, AnswerStep

LEMMA BindStep ==
  ASSUME IInv, Watch, NEW c \in Call, Bind(c)
  PROVE  IInv'
<1> DEFINE code == FirstError(BindingChecks(call[c].shows))
<1>1. UNCHANGED <<world, caches>> /\ failures' \in 0 .. MaxFailures
  BY CachesType DEF IInv, Bind
<1>2. code \in Answers /\ "verified" \in Answers
  BY BindingErrors DEF Answers
<1>3. Reply(c, "verified") \/ Reply(c, code)
  BY DEF Bind
<1> HIDE DEF code
<1> QED
  BY <1>1, <1>2, <1>3, AnswerStep

-----------------------------------------------------------------------------
(* What happens around the calls.                                          *)

(* A step that leaves caches, calls and revocations alone. *)
LEMMA OutsideStep ==
  ASSUME IInv, Watch, UNCHANGED <<caches, call, revokedFor, failures>>,
         registry' \in [Issuer -> Entry],
         published' \in [Issuer -> SUBSET Key],
         expired' \in SUBSET Credential, changes' \in 0 .. MaxChanges
  PROVE  IInv'
<1>1. TypeOK'
  <2>1. seen' \in [Call -> SUBSET Fact]
    BY SeenType DEF IInv
  <2>2. /\ keyCache' = keyCache /\ listCache' = listCache /\ call' = call
        /\ revokedFor' = revokedFor /\ failures' = failures
    BY DEF caches
  <2> QED
    BY <2>1, <2>2, Zenon DEF IInv, TypeOK
<1>2. Fresh'
  <2>1. ASSUME NEW c \in Call
        PROVE  FreshOf(c)'
    BY <2>1, FreshKept DEF IInv, Fresh
  <2> QED
    BY <2>1, Zenon DEF Fresh
<1>3. CacheLag' /\ FetchLag'
  BY DEF IInv, CacheLag, ListUsable, FetchLag, FetchLagOf, caches
<1> QED
  BY <1>1, <1>2, <1>3 DEF IInv

LEMMA ChangesType ==
  ASSUME TypeOK, Changes
  PROVE  changes' \in 0 .. MaxChanges
  BY BoundsAssumption DEF TypeOK, Changes

LEMMA EditRegistryStep ==
  ASSUME IInv, Watch, NEW i \in Issuer, EditRegistry(i)
  PROVE  IInv'
<1>1. TypeOK /\ UNCHANGED <<published, revokedFor, expired, caches, call, failures>>
      /\ Changes
  BY DEF IInv, EditRegistry
<1>2. registry' \in [Issuer -> Entry]
  <2>1. PICK permissions \in SUBSET Permission, standing \in {registry[i].standing, TRUE} :
          registry' = [registry EXCEPT ![i] = [permissions |-> permissions, standing |-> standing]]
    BY DEF EditRegistry
  <2>2. registry \in [Issuer -> Entry]
    BY <1>1 DEF TypeOK
  <2>3. [permissions |-> permissions, standing |-> standing] \in Entry
    BY <2>2 DEF Entry
  <2> QED
    BY <2>1, <2>2, <2>3
<1>3. /\ published' \in [Issuer -> SUBSET Key] /\ expired' \in SUBSET Credential
      /\ changes' \in 0 .. MaxChanges
  BY <1>1, ChangesType DEF TypeOK
<1> QED
  BY <1>1, <1>2, <1>3, OutsideStep

LEMMA ChangeStandingStep ==
  ASSUME IInv, Watch, NEW i \in Issuer, ChangeStanding(i)
  PROVE  IInv'
<1>1. TypeOK /\ UNCHANGED <<published, revokedFor, expired, caches, call, failures>>
      /\ Changes
  BY DEF IInv, ChangeStanding
<1>2. registry' \in [Issuer -> Entry]
  <2> DEFINE new == [registry[i] EXCEPT !.standing = ~@]
  <2>1. registry \in [Issuer -> Entry]
    BY <1>1 DEF TypeOK
  <2>2. new \in Entry
    BY <2>1 DEF Entry
  <2>3. registry' = [registry EXCEPT ![i] = new]
    BY <2>1 DEF ChangeStanding
  <2> HIDE DEF new
  <2> QED
    BY <2>1, <2>2, <2>3
<1>3. /\ published' \in [Issuer -> SUBSET Key] /\ expired' \in SUBSET Credential
      /\ changes' \in 0 .. MaxChanges
  BY <1>1, ChangesType DEF TypeOK
<1> QED
  BY <1>1, <1>2, <1>3, OutsideStep

LEMMA PublishKeysStep ==
  ASSUME IInv, Watch, NEW i \in Issuer, PublishKeys(i)
  PROVE  IInv'
<1>1. TypeOK /\ UNCHANGED <<registry, revokedFor, expired, caches, call, failures>>
      /\ Changes
  BY DEF IInv, PublishKeys
<1>2. PICK k \in Holds[i] :
        published' = [published EXCEPT ![i] =
                        IF k \in @ THEN @ \ {k} ELSE @ \cup {k}]
  BY DEF PublishKeys
<1>3. k \in Key
  BY ConstantsAssumption
<1>4. published' \in [Issuer -> SUBSET Key]
  <2>1. published \in [Issuer -> SUBSET Key]
    BY <1>1 DEF TypeOK
  <2> QED
    BY <1>2, <1>3, <2>1
<1>5. /\ registry' \in [Issuer -> Entry] /\ expired' \in SUBSET Credential
      /\ changes' \in 0 .. MaxChanges
  BY <1>1, ChangesType DEF TypeOK
<1> QED
  BY <1>1, <1>4, <1>5, OutsideStep

LEMMA ExpireStep ==
  ASSUME IInv, Watch, NEW cr \in Credential, Expire(cr)
  PROVE  IInv'
<1>1. TypeOK /\ UNCHANGED <<registry, published, revokedFor, caches, call, failures>>
      /\ Changes
  BY DEF IInv, Expire
<1>2. expired' \in SUBSET Credential
  BY <1>1 DEF Expire, TypeOK
<1>3. /\ registry' \in [Issuer -> Entry]
      /\ published' \in [Issuer -> SUBSET Key]
      /\ changes' \in 0 .. MaxChanges
  BY <1>1, ChangesType DEF TypeOK
<1> QED
  BY <1>1, <1>2, <1>3, OutsideStep

LEMMA RevokeStep ==
  ASSUME IInv, Watch, NEW h \in Revocable, Revoke(h)
  PROVE  IInv'
<1>1. /\ TypeOK /\ Changes
      /\ UNCHANGED <<registry, published, expired, caches, call, failures>>
      /\ revokedFor' = [revokedFor EXCEPT ![h] = 0]
  BY DEF IInv, Revoke
<1>2. h \in Credential \cup Key
  BY ConstantsAssumption
<1>3. Oldest \in Nat
  BY BoundsAssumption DEF Oldest
<1>4. /\ revokedFor' \in [Credential \cup Key -> -1 .. Oldest]
      /\ \A g \in Credential \cup Key :
           revokedFor'[g] = revokedFor[g] \/ revokedFor'[g] = 0
  <2>1. revokedFor \in [Credential \cup Key -> -1 .. Oldest]
    BY <1>1 DEF TypeOK
  <2>2. 0 \in -1 .. Oldest
    BY <1>3
  <2> QED
    BY <1>1, <1>2, <2>1, <2>2
<1>5. TypeOK'
  <2>1. seen' \in [Call -> SUBSET Fact] /\ changes' \in 0 .. MaxChanges
    BY <1>1, SeenType, ChangesType
  <2>2. /\ keyCache' = keyCache /\ listCache' = listCache /\ call' = call
        /\ registry' = registry /\ published' = published
        /\ expired' = expired /\ failures' = failures
    BY <1>1 DEF caches
  <2> QED
    BY <1>1, <1>4, <2>1, <2>2, Zenon DEF TypeOK
<1>6. Fresh'
  <2>1. ASSUME NEW c \in Call
        PROVE  FreshOf(c)'
    BY <1>1, <2>1, FreshKept DEF IInv, Fresh
  <2> QED
    BY <2>1, Zenon DEF Fresh
<1>7. CacheLag'
  <2> SUFFICES ASSUME NEW i \in Issuer, ListUsable(listCache[i]),
                      NEW cr \in Credential \ listCache[i].barred
               PROVE  revokedFor'[cr] <= listCache[i].age + FetchTimeout
    <3>1. listCache' = listCache
      BY <1>1 DEF caches
    <3> QED
      BY <3>1, Zenon DEF CacheLag, ListUsable
  <2>1. revokedFor[cr] <= listCache[i].age + FetchTimeout
    BY DEF IInv, CacheLag
  <2>2. listCache[i].age \in Nat
    BY <1>1, BoundsAssumption DEF TypeOK, ListSlot
  <2> QED
    BY <1>4, <2>1, <2>2, BoundsAssumption
<1>8. FetchLag'
  <2> SUFFICES ASSUME NEW c \in Call, call[c].stage = "list",
                      NEW cr \in Credential \ call[c].got
               PROVE  revokedFor'[cr] <= call[c].waited
    BY <1>1, Zenon DEF FetchLag, FetchLagOf
  <2>1. revokedFor[cr] <= call[c].waited
    BY DEF IInv, FetchLag, FetchLagOf
  <2>2. call[c].waited \in Nat
    BY <1>1, RunningIs, BoundsAssumption DEF Running
  <2> QED
    BY <1>4, <2>1, <2>2
<1> QED
  BY <1>5, <1>6, <1>7, <1>8 DEF IInv

(* A tick makes revocations, cached lists and fetches older alike. *)
LEMMA TickStep ==
  ASSUME IInv, Watch, Tick
  PROVE  IInv'
<1>1. /\ TypeOK
      /\ UNCHANGED <<registry, published, expired, changes, failures>>
      /\ \A c \in Call : At(c, {"list"}) => call[c].waited < FetchTimeout
      /\ call' = [c \in Call |->
           IF At(c, {"list"}) THEN [call[c] EXCEPT !.waited = @ + 1] ELSE call[c]]
      /\ revokedFor' = [h \in Credential \cup Key |->
           IF revokedFor[h] = -1 THEN -1 ELSE Lesser(revokedFor[h] + 1, Oldest)]
      /\ listCache' = [i \in Issuer |->
           IF listCache[i].age + 1 < StatusTtl
           THEN [listCache[i] EXCEPT !.age = @ + 1] ELSE NoList]
  BY DEF IInv, Tick
<1>2. Oldest \in Nat /\ FetchTimeout \in Nat /\ StatusTtl \in Nat \ {0}
      /\ KeyTtl \in Nat \ {0}
  BY BoundsAssumption DEF Oldest
<1>3. \A h \in Credential \cup Key :
        /\ revokedFor[h] \in -1 .. Oldest
        /\ revokedFor'[h] \in -1 .. Oldest
        /\ revokedFor'[h] <= revokedFor[h] + 1
  <2> TAKE h \in Credential \cup Key
  <2>1. revokedFor[h] \in -1 .. Oldest
    BY <1>1 DEF TypeOK
  <2>2. revokedFor'[h] =
          IF revokedFor[h] = -1 THEN -1 ELSE Lesser(revokedFor[h] + 1, Oldest)
    BY <1>1
  <2> QED
    BY <1>2, <2>1, <2>2 DEF Lesser
<1>4. revokedFor' \in [Credential \cup Key -> -1 .. Oldest]
  <2> DEFINE value(h) ==
        IF revokedFor[h] = -1 THEN -1 ELSE Lesser(revokedFor[h] + 1, Oldest)
  <2>1. revokedFor' = [h \in Credential \cup Key |-> value(h)]
    BY <1>1
  <2>2. \A h \in Credential \cup Key : value(h) \in -1 .. Oldest
    BY <1>1, <1>3
  <2> HIDE DEF value
  <2> QED
    BY <2>1, <2>2
<1>5. \A i \in Issuer :
        /\ listCache[i] \in ListSlot
        /\ listCache'[i] \in ListSlot
        /\ ListUsable(listCache'[i])
             => /\ ListUsable(listCache[i])
                /\ listCache'[i].barred = listCache[i].barred
                /\ listCache'[i].age = listCache[i].age + 1
  <2> TAKE i \in Issuer
  <2>1. listCache[i] \in ListSlot
    BY <1>1, CachesType
  <2>2. CASE listCache[i].age + 1 < StatusTtl
    <3>1. listCache'[i] = [listCache[i] EXCEPT !.age = @ + 1]
      BY <1>1, <2>2
    <3> QED
      BY <1>2, <2>1, <2>2, <3>1 DEF ListSlot, ListUsable
  <2>3. CASE ~(listCache[i].age + 1 < StatusTtl)
    <3>1. listCache'[i] = [barred |-> {}, age |-> StatusTtl]
      BY <1>1, <2>3 DEF NoList
    <3> QED
      BY <1>2, <2>1, <3>1 DEF ListSlot, ListUsable
  <2> QED
    BY <2>2, <2>3
<1>6. listCache' \in [Issuer -> ListSlot]
  <2> DEFINE value(i) == IF listCache[i].age + 1 < StatusTtl
                         THEN [listCache[i] EXCEPT !.age = @ + 1] ELSE NoList
  <2>1. listCache' = [i \in Issuer |-> value(i)]
    BY <1>1
  <2>2. \A i \in Issuer : value(i) \in ListSlot
    BY <1>1, <1>5
  <2> HIDE DEF value
  <2> QED
    BY <2>1, <2>2
<1>7. keyCache' \in [Process \cup {Database} -> [Issuer -> KeySlot]]
  <2> DEFINE value(m, i) == IF keyCache[m][i].age + 1 < KeyTtl
                            THEN [keyCache[m][i] EXCEPT !.age = @ + 1] ELSE NoKeys
  <2>1. keyCache' = [m \in Process \cup {Database} |-> [i \in Issuer |-> value(m, i)]]
    BY DEF Tick
  <2>2. ASSUME NEW m \in Process \cup {Database}, NEW i \in Issuer
        PROVE  value(m, i) \in KeySlot
    <3>1. keyCache[m][i] \in KeySlot
      BY <1>1, CachesType
    <3> QED
      BY <1>2, <3>1 DEF KeySlot, NoKeys
  <2> HIDE DEF value
  <2> QED
    BY <2>1, <2>2
<1>8. \A c \in Call :
        /\ call'[c].stage = call[c].stage
        /\ call[c].stage # "idle"
             => call'[c].shows = call[c].shows /\ call'[c].got = call[c].got
        /\ call[c].stage = "list" => call'[c].waited = call[c].waited + 1
        /\ call'[c] \in Calls
  <2> TAKE c \in Call
  <2>1. CASE call[c].stage = "list"
    <3>1. call[c] \in Running
      BY <1>1, <2>1, RunningIs
    <3>2. call'[c] = [call[c] EXCEPT !.waited = @ + 1]
      BY <1>1, <2>1
    <3>3. call'[c] \in Running
      <4>1. call[c].waited + 1 \in 0 .. FetchTimeout
        BY <1>1, <1>2, <2>1, <3>1 DEF Running
      <4> QED
        BY <3>1, <3>2, <4>1 DEF Running
    <3>4. call'[c] \in Calls
      BY <3>3, Zenon DEF Calls
    <3> QED
      BY <3>1, <3>2, <3>4 DEF Running
  <2>2. CASE call[c].stage # "list"
    <3>1. call'[c] = call[c]
      BY <1>1, <2>2
    <3>2. call[c] \in Calls
      BY <1>1, Zenon DEF TypeOK, Calls, Answers
    <3> QED
      BY <2>2, <3>1, <3>2
  <2> QED
    BY <2>1, <2>2
<1>9. TypeOK'
  <2>1. seen' \in [Call -> SUBSET Fact]
    BY <1>1, SeenType
  <2>2. call' \in [Call -> Calls]
    <3> DEFINE value(c) == IF At(c, {"list"}) THEN [call[c] EXCEPT !.waited = @ + 1]
                           ELSE call[c]
    <3>1. call' = [c \in Call |-> value(c)]
      BY <1>1
    <3>2. \A c \in Call : value(c) \in Calls
      BY <1>8, <3>1
    <3> HIDE DEF value
    <3> QED
      BY <3>1, <3>2
  <2>3. call' \in [Call -> Running \cup {Idle(a) : a \in Error \cup {"none", "verified"}}]
    BY <2>2, Zenon DEF Calls, Answers
  <2> QED
    BY <1>1, <1>4, <1>6, <1>7, <2>1, <2>3, Zenon DEF TypeOK
<1>10. Fresh'
  <2>1. ASSUME NEW c \in Call
        PROVE  FreshOf(c)'
    BY <1>8, <2>1, FreshKept DEF IInv, Fresh
  <2> QED
    BY <2>1, Zenon DEF Fresh
<1>11. CacheLag'
  <2> SUFFICES ASSUME NEW i \in Issuer, ListUsable(listCache'[i]),
                      NEW cr \in Credential \ listCache'[i].barred
               PROVE  revokedFor'[cr] <= listCache'[i].age + FetchTimeout
    BY Zenon DEF CacheLag, ListUsable
  <2>1. revokedFor[cr] <= listCache[i].age + FetchTimeout
    BY <1>5 DEF IInv, CacheLag
  <2>2. /\ revokedFor[cr] \in Int /\ revokedFor'[cr] \in Int
        /\ revokedFor'[cr] <= revokedFor[cr] + 1
    BY <1>2, <1>3
  <2>3. listCache[i].age \in Nat /\ listCache'[i].age = listCache[i].age + 1
    BY <1>2, <1>5 DEF ListSlot
  <2> QED
    BY <1>2, <2>1, <2>2, <2>3
<1>12. FetchLag'
  <2> SUFFICES ASSUME NEW c \in Call, call'[c].stage = "list",
                      NEW cr \in Credential \ call'[c].got
               PROVE  revokedFor'[cr] <= call'[c].waited
    BY Zenon DEF FetchLag, FetchLagOf
  <2>1. call[c].stage = "list" /\ call'[c].got = call[c].got
        /\ call'[c].waited = call[c].waited + 1
    BY <1>8
  <2>2. revokedFor[cr] <= call[c].waited
    BY <2>1 DEF IInv, FetchLag, FetchLagOf
  <2>3. call[c].waited \in Nat
    BY <1>1, <1>2, <2>1, RunningIs DEF Running
  <2>4. /\ revokedFor[cr] \in Int /\ revokedFor'[cr] \in Int
        /\ revokedFor'[cr] <= revokedFor[cr] + 1
    BY <1>2, <1>3
  <2> QED
    BY <2>1, <2>2, <2>3, <2>4
<1> QED
  BY <1>9, <1>10, <1>11, <1>12 DEF IInv

(* A restart ends the calls of the process and empties its own cache. *)
LEMMA RestartStep ==
  ASSUME IInv, Watch, NEW p \in Process, Restart(p)
  PROVE  IInv'
<1>1. /\ TypeOK /\ UNCHANGED <<world, listCache>>
      /\ failures' \in 0 .. MaxFailures
      /\ call' = [c \in Call |->
           IF ~At(c, {"idle"}) /\ call[c].at = p THEN Idle("lost") ELSE call[c]]
  BY FailsType DEF IInv, Restart
<1>2. Idle("lost") \in Calls /\ Idle("lost").stage = "idle"
  BY IdleIs, Zenon DEF Calls, Answers, Error
<1>3. \A c \in Call :
        call'[c] = call[c] \/ (call'[c] = Idle("lost"))
  BY <1>1
<1>4. call' \in [Call -> Calls]
  <2>1. call \in [Call -> Calls]
    BY <1>1, Zenon DEF TypeOK, Calls, Answers
  <2> DEFINE value(c) == IF ~At(c, {"idle"}) /\ call[c].at = p THEN Idle("lost")
                         ELSE call[c]
  <2>2. call' = [c \in Call |-> value(c)]
    BY <1>1
  <2> HIDE DEF Calls
  <2>3. \A c \in Call : value(c) \in Calls
    BY <1>2, <2>1
  <2> HIDE DEF value
  <2> QED
    BY <2>2, <2>3
<1>5. keyCache' \in [Process \cup {Database} -> [Issuer -> KeySlot]]
  <2> DEFINE row == [i \in Issuer |-> NoKeys]
  <2>1. NoKeys \in KeySlot
    BY BoundsAssumption DEF NoKeys, KeySlot
  <2>2. row \in [Issuer -> KeySlot]
    BY <2>1
  <2>3. keyCache \in [Process \cup {Database} -> [Issuer -> KeySlot]]
    BY <1>1, CachesType
  <2>4. keyCache' = [keyCache EXCEPT ![p] = row]
    BY DEF Restart
  <2> HIDE DEF row
  <2> QED
    BY <2>2, <2>3, <2>4
<1>6. listCache' \in [Issuer -> ListSlot] /\ CacheLag'
  BY <1>1, ListsKept
<1>7. TypeOK'
  BY <1>1, <1>4, <1>5, <1>6, TypeStep DEF world
<1>8. Fresh'
  <2>1. ASSUME NEW c \in Call
        PROVE  FreshOf(c)'
    <3>1. CASE call'[c] = call[c]
      BY <3>1, <2>1, FreshKept DEF IInv, Fresh
    <3>2. CASE call'[c] = Idle("lost")
      BY <3>2, <1>2, FreshIdle
    <3> QED
      BY <1>3, <3>1, <3>2
  <2> QED
    BY <2>1, Zenon DEF Fresh
<1>9. FetchLag'
  <2>1. ASSUME NEW c \in Call
        PROVE  FetchLagOf(c)'
    <3>1. FetchLagOf(c) /\ revokedFor' = revokedFor
      BY <1>1 DEF IInv, FetchLag, world
    <3>2. CASE call'[c] = call[c]
      BY <3>1, <3>2 DEF FetchLagOf
    <3>3. CASE call'[c] = Idle("lost")
      BY <3>3, <1>2 DEF FetchLagOf
    <3> QED
      BY <1>3, <3>2, <3>3
  <2> QED
    BY <2>1, Zenon DEF FetchLag
<1> QED
  BY <1>6, <1>7, <1>8, <1>9 DEF IInv

-----------------------------------------------------------------------------
(* The invariant holds.                                                    *)

LEMMA InitIInv == Init => IInv
<1> SUFFICES ASSUME Init PROVE IInv
  OBVIOUS
<1>1. TypeOK
  <2>1. /\ registry \in [Issuer -> Entry]
        /\ published \in [Issuer -> SUBSET Key]
        /\ expired \in SUBSET Credential
    BY ConstantsAssumption DEF Init, Entry
  <2>2. revokedFor \in [Credential \cup Key -> -1 .. Oldest]
    <3>1. -1 \in -1 .. Oldest
      BY BoundsAssumption DEF Oldest
    <3> QED
      BY <3>1 DEF Init
  <2>3. keyCache \in [Process \cup {Database} -> [Issuer -> KeySlot]]
    <3>1. NoKeys \in KeySlot
      BY BoundsAssumption DEF NoKeys, KeySlot
    <3> QED
      BY <3>1 DEF Init
  <2>4. listCache \in [Issuer -> ListSlot]
    <3>1. NoList \in ListSlot
      BY BoundsAssumption DEF NoList, ListSlot
    <3> QED
      BY <3>1 DEF Init
  <2>5. call \in [Call -> Running \cup {Idle(a) : a \in Error \cup {"none", "verified"}}]
    BY Zenon DEF Init
  <2>6. seen \in [Call -> SUBSET Fact]
    BY DEF Init
  <2>7. changes \in 0 .. MaxChanges /\ failures \in 0 .. MaxFailures
    BY BoundsAssumption DEF Init
  <2> QED
    BY <2>1, <2>2, <2>3, <2>4, <2>5, <2>6, <2>7, Zenon DEF TypeOK
<1>2. \A c \in Call : call[c].stage = "idle"
  BY IdleIs DEF Init
<1>3. Fresh /\ FetchLag
  BY <1>2 DEF Fresh, FreshOf, FetchLag, FetchLagOf
<1>4. CacheLag
  BY BoundsAssumption DEF Init, CacheLag, ListUsable, NoList
<1> QED
  BY <1>1, <1>3, <1>4 DEF IInv

LEMMA NextIInv == IInv /\ [Next]_vars => IInv'
<1> SUFFICES ASSUME IInv, [Next]_vars PROVE IInv'
  OBVIOUS
<1>1. CASE UNCHANGED vars
  <2>1. TypeOK'
    BY <1>1, Zenon DEF vars, IInv, TypeOK
  <2>2. Fresh' /\ FetchLag' /\ CacheLag'
    BY <1>1, Zenon DEF vars, IInv, Fresh, FreshOf, FetchLag, FetchLagOf, CacheLag,
       ListUsable, Tier, Shown, Required, Listed
  <2> QED
    BY <2>1, <2>2 DEF IInv
<1>2. CASE Next
  <2>1. Watch
    BY <1>2 DEF Next
  <2>2. ASSUME NEW c \in Call, Begin(c)
        PROVE  IInv'
    BY <2>1, <2>2, BeginStep
  <2>3. ASSUME NEW c \in Call, Advance(c)
        PROVE  IInv'
    BY <2>1, <2>3, UseCachedKeysStep, AskForKeysStep, KeysArriveStep,
       CheckIssuerStep, NoRevocationStep, IntrospectStep, IntrospectElsewhereStep, CheckCertificateStep,
       UseCachedListStep, AskForListStep, ListArrivesStep, BindStep, Zenon
       DEF Advance
  <2>4. ASSUME NEW c \in Call, Mishap(c)
        PROVE  IInv'
    BY <2>1, <2>4, KeysFailStep, IssuerQueryFailsStep, IntrospectionFailsStep,
       CertificateQueryFailsStep, ListFailsStep, Zenon DEF Mishap
  <2>5. ASSUME Outside
        PROVE  IInv'
    BY <2>1, <2>5, EditRegistryStep, ChangeStandingStep, PublishKeysStep, RevokeStep, ExpireStep,
       RestartStep, TickStep, Zenon DEF Outside
  <2> QED
    BY <1>2, <2>2, <2>3, <2>4, <2>5, Zenon DEF Next
<1> QED
  BY <1>1, <1>2, Zenon

THEOREM Invariant == Spec => []IInv
<1> QED
  BY InitIInv, NextIInv, PTL DEF Spec

(* The verifier's state has its type in every reachable state. *)
THEOREM TypeCorrect == Spec => []TypeOK
<1>1. IInv => TypeOK
  BY DEF IInv
<1> QED
  BY <1>1, Invariant, PTL

(* verifyCredential accepts only what was trusted as its tier reads the     *)
(* registry, unexpired and, where the mode is closed and the issuer itself  *)
(* is asked, unrevoked at some moment of that very call.                    *)
THEOREM AlwaysOnFreshTrust == Spec => VerifiedOnFreshTrust
<1>1. IInv => \A c \in Call :
                (At(c, {"binding"}) /\ call'[c].answer = "verified")
                  => Required(call[c].shows) \subseteq seen[c]
  BY DEF IInv, Fresh, FreshOf
<1> QED
  BY <1>1, Invariant, PTL DEF VerifiedOnFreshTrust

-----------------------------------------------------------------------------
(* Passing the status list.                                                *)

(* A step of one call leaves the others as they are. *)
LEMMA OthersStay ==
  ASSUME TypeOK, NEW c \in Call, Begin(c) \/ Advance(c) \/ Mishap(c),
         NEW d \in Call \ {c}
  PROVE  call'[d] = call[d]
<1>1. call \in [Call -> Calls]
  BY Zenon DEF TypeOK, Calls, Answers
<1> HIDE DEF Calls
<1>2. ASSUME NEW a, Reply(c, a)
      PROVE  call'[d] = call[d]
  BY <1>1, <1>2 DEF Reply
<1>3. ASSUME NEW stage, Proceed(c, stage)
      PROVE  call'[d] = call[d]
  BY <1>1, <1>3 DEF Proceed
<1>4. ASSUME NEW checks, NEW stage, Settle(c, checks, stage)
      PROVE  call'[d] = call[d]
  BY <1>2, <1>3, <1>4, Zenon DEF Settle
<1>5. CASE Begin(c)
  BY <1>1, <1>2, <1>5 DEF Begin
<1>6. CASE UseCachedKeys(c) \/ KeysArrive(c) \/ CheckIssuer(c)
  BY <1>4, <1>6, Zenon DEF UseCachedKeys, KeysArrive, CheckIssuer
<1>7. CASE AskForKeys(c) \/ AskForList(c)
  BY <1>1, <1>7 DEF AskForKeys, AskForList
<1>8. CASE NoRevocation(c) \/ Introspect(c) \/ IntrospectElsewhere(c) \/ CheckCertificate(c)
  BY <1>2, <1>3, <1>8, Zenon
     DEF NoRevocation, Introspect, IntrospectElsewhere, CheckCertificate
<1>9. CASE UseCachedList(c) \/ ListArrives(c) \/ Bind(c)
  BY <1>2, <1>3, <1>9, Zenon DEF UseCachedList, ListArrives, ListVerdict, Bind
<1>10. CASE KeysFail(c) \/ IssuerQueryFails(c) \/ CertificateQueryFails(c)
            \/ ListFails(c)
  BY <1>2, <1>3, <1>10, Zenon
     DEF KeysFail, IssuerQueryFails, CertificateQueryFails, ListFails
<1>11. CASE IntrospectionFails(c)
  <2>1. CASE call' = [call EXCEPT ![c].tries = @ + 1]
    BY <1>1, <2>1
  <2> QED
    BY <1>2, <1>3, <1>11, <2>1 DEF IntrospectionFails
<1> QED
  BY <1>5, <1>6, <1>7, <1>8, <1>9, <1>10, <1>11, Zenon DEF Advance, Mishap

(* Only a list, cached or just arrived, lets a listed credential pass. *)
LEMMA OnlyListsPass ==
  ASSUME TypeOK, NEW c \in Call, Listed(c), Advance(c) \/ Mishap(c),
         call[c].stage \notin {"idle", "binding"}, call'[c].stage = "binding"
  PROVE  \/ /\ ListUsable(listCache[IssuerOf(c)])
            /\ Shown(c) \notin listCache[IssuerOf(c)].barred
         \/ call[c].stage = "list" /\ Shown(c) \notin call[c].got
<1>1. call \in [Call -> Calls]
  BY Zenon DEF TypeOK, Calls, Answers
<1> HIDE DEF Calls
<1>2. Tier(Shown(c)) = 3
  BY DEF Listed
<1>3. ASSUME NEW a, Reply(c, a)
      PROVE  FALSE
  <2>1. call'[c] = Idle(a)
    BY <1>1, <1>3 DEF Reply
  <2> QED
    BY <2>1, IdleIs
<1>4. ASSUME NEW checks, NEW stage, Settle(c, checks, stage), stage # "binding"
      PROVE  FALSE
  <2>1. Proceed(c, stage)
    BY <1>3, <1>4, Zenon DEF Settle
  <2>2. call'[c].stage = stage
    BY <1>1, <2>1 DEF Proceed
  <2> QED
    BY <1>4, <2>2
<1>5. ~(UseCachedKeys(c) \/ KeysArrive(c) \/ CheckIssuer(c))
  <2>1. "issuer" # "binding" /\ "revocation" # "binding"
    OBVIOUS
  <2> QED
    BY <1>4, <2>1, Zenon DEF UseCachedKeys, KeysArrive, CheckIssuer
<1>6. ~(AskForKeys(c) \/ AskForList(c))
  <2>1. call[c] \in Running
    BY RunningIs
  <2>2. ASSUME AskForKeys(c)
        PROVE  call'[c].stage = "served"
    BY <1>1, <2>1, <2>2 DEF AskForKeys, Running
  <2>3. ASSUME AskForList(c)
        PROVE  call'[c].stage = "list"
    BY <1>1, <2>1, <2>3 DEF AskForList, Running
  <2> QED
    BY <2>2, <2>3
<1>7. ~(NoRevocation(c) \/ Introspect(c) \/ IntrospectElsewhere(c) \/ CheckCertificate(c)
        \/ IntrospectionFails(c) \/ CertificateQueryFails(c))
  BY <1>2 DEF NoRevocation, Introspect, IntrospectElsewhere, Introspects, CheckCertificate,
     IntrospectionFails, CertificateQueryFails
<1>8. ~(Bind(c) \/ KeysFail(c) \/ IssuerQueryFails(c) \/ ListFails(c))
  BY <1>3, Zenon DEF Bind, KeysFail, IssuerQueryFails, ListFails
<1>9. CASE UseCachedList(c)
  BY <1>3, <1>9, Zenon DEF UseCachedList, ListVerdict, Barred
<1>10. CASE ListArrives(c)
  <2>1. call[c].stage = "list"
    BY <1>10 DEF ListArrives
  <2>2. Shown(c) \notin call[c].got
    BY <1>3, <1>10, Zenon DEF ListArrives, ListVerdict, Barred
  <2> QED
    BY <2>1, <2>2
<1> QED
  BY <1>5, <1>6, <1>7, <1>8, <1>9, <1>10, Zenon DEF Advance, Mishap

(* A revoked credential passes the status check only for the lifetime of a *)
(* cached list and the time of one fetch (statusListChecker.js).           *)
THEOREM RevocationNeverLags == Spec => RevocationLagBounded
<1>1. ASSUME IInv, [Next]_vars, NEW c \in Call, call[c].stage # "idle", Listed(c),
             call[c].stage # "binding", call'[c].stage = "binding"
      PROVE  revokedFor[Shown(c)] < StatusTtl + FetchTimeout
  <2>1. TypeOK
    BY <1>1 DEF IInv
  <2>2. Advance(c) \/ Mishap(c)
    <3>1. Next
      BY <1>1, Zenon DEF vars
    <3>2. ASSUME NEW d \in Call, Begin(d) \/ Advance(d) \/ Mishap(d)
          PROVE  Advance(c) \/ Mishap(c)
      <4>1. d = c
        BY <1>1, <2>1, <3>2, OthersStay
      <4>2. ~Begin(c)
        BY <1>1 DEF Begin
      <4> QED
        BY <3>2, <4>1, <4>2
    <3>3. ~Outside
      <4>1. ASSUME NEW i \in Issuer
            PROVE  ~(EditRegistry(i) \/ ChangeStanding(i) \/ PublishKeys(i))
        BY <1>1 DEF EditRegistry, ChangeStanding, PublishKeys
      <4>2. ASSUME NEW h \in Revocable
            PROVE  ~Revoke(h)
        BY <1>1 DEF Revoke
      <4>3. ASSUME NEW cr \in Credential
            PROVE  ~Expire(cr)
        BY <1>1 DEF Expire
      <4>4. ASSUME NEW p \in Process
            PROVE  ~Restart(p)
        BY <1>1, IdleIs DEF Restart
      <4>5. ~Tick
        <5>1. call[c] \in Running
          BY <1>1, <2>1, RunningIs
        <5>2. ASSUME Tick
              PROVE  call'[c].stage = call[c].stage
          BY <5>1, <5>2 DEF Tick, Running
        <5> QED
          BY <1>1, <5>2
      <4> QED
        BY <4>1, <4>2, <4>3, <4>4, <4>5, Zenon DEF Outside
    <3> QED
      BY <3>1, <3>2, <3>3, Zenon DEF Next
  <2>3. /\ Shown(c) \in Credential /\ IssuerOf(c) \in Issuer
        /\ call[c] \in Running
    BY <1>1, <2>1, ShownIs, RunningIs
  <2>4. revokedFor[Shown(c)] \in Int
    BY <2>1, <2>3, BoundsAssumption DEF TypeOK, Oldest
  <2>5. CASE /\ ListUsable(listCache[IssuerOf(c)])
             /\ Shown(c) \notin listCache[IssuerOf(c)].barred
    <3>1. revokedFor[Shown(c)] <= listCache[IssuerOf(c)].age + FetchTimeout
      BY <1>1, <2>3, <2>5 DEF IInv, CacheLag
    <3>2. /\ listCache[IssuerOf(c)].age \in Nat
          /\ listCache[IssuerOf(c)].age < StatusTtl
      BY <2>1, <2>3, <2>5, BoundsAssumption DEF TypeOK, ListSlot, ListUsable
    <3> QED
      BY <2>4, <3>1, <3>2, BoundsAssumption
  <2>6. CASE call[c].stage = "list" /\ Shown(c) \notin call[c].got
    <3>1. revokedFor[Shown(c)] <= call[c].waited
      BY <1>1, <2>3, <2>6 DEF IInv, FetchLag, FetchLagOf
    <3>2. call[c].waited \in 0 .. FetchTimeout
      BY <2>3 DEF Running
    <3> QED
      BY <2>4, <3>1, <3>2, BoundsAssumption
  <2> QED
    BY <1>1, <2>1, <2>2, <2>5, <2>6, OnlyListsPass
<1>2. IInv /\ [Next]_vars =>
        [\A c \in Call :
          /\ ~At(c, {"idle"}) /\ Listed(c) /\ ~At(c, {"binding"})
          /\ call'[c].stage = "binding"
          => revokedFor[Shown(c)] < StatusTtl + FetchTimeout]_vars
  BY <1>1
<1> QED
  BY <1>2, Invariant, PTL DEF Spec, RevocationLagBounded

-----------------------------------------------------------------------------
(* The way of one call.                                                    *)

(* With the signature checked, the key is in the set that was looked at;    *)
(* with the certificate checked, it is the issuer's own.                    *)
LEMMA SignedWith ==
  ASSUME NEW cr \in Credential, NEW keys \in SUBSET Key,
         FirstError(SignatureChecks(cr, keys)) = "none"
  PROVE  Claims[cr].key \in keys
<1> DEFINE checks == SignatureChecks(cr, keys)
<1>1. DOMAIN checks = 1 .. 2 /\ \A i \in 1 .. 2 : checks[i][2] \in Error
  BY DEF SignatureChecks, Error
<1>2. checks[1][1] = KeyFound(cr, keys)
  BY DEF SignatureChecks
<1> HIDE DEF checks
<1>3. FirstError(checks) = "none" => \A i \in 1 .. 2 : checks[i][1]
  <2>1. 2 \in Nat
    OBVIOUS
  <2> QED
    BY <1>1, <2>1, FirstErrorIs, Zenon
<1>4. checks[1][1]
  <2>1. 1 \in 1 .. 2 /\ FirstError(checks) = "none"
    BY DEF checks
  <2> QED
    BY <1>3, <2>1, Zenon
<1>5. Selected(cr, keys) \subseteq keys
  BY ConstantsAssumption DEF Selected
<1> QED
  BY <1>2, <1>4, <1>5 DEF KeyFound

LEMMA CertifiedWith ==
  ASSUME NEW cr \in Credential, FirstError(X509Checks(cr)) = "none"
  PROVE  Claims[cr].key \in Holds[Claims[cr].issuer]
<1> DEFINE checks == X509Checks(cr)
<1>1. DOMAIN checks = 1 .. 7 /\ \A i \in 1 .. 7 : checks[i][2] \in Error
  BY DEF X509Checks, Error
<1>2. checks[3][1] = BoundToIssuer(cr) /\ checks[4][1] = (Claims[cr].key = Claims[cr].kid)
  BY DEF X509Checks
<1> HIDE DEF checks
<1>3. FirstError(checks) = "none" => \A i \in 1 .. 7 : checks[i][1]
  <2>1. 7 \in Nat
    OBVIOUS
  <2> QED
    BY <1>1, <2>1, FirstErrorIs, Zenon
<1>4. checks[3][1] /\ checks[4][1]
  <2>1. 3 \in 1 .. 7 /\ 4 \in 1 .. 7 /\ FirstError(checks) = "none"
    BY DEF checks
  <2> QED
    BY <1>3, <2>1, Zenon
<1> QED
  BY <1>2, <1>4 DEF BoundToIssuer

(* The stages one step leads from and to, and what it looked at. *)
Signature(c) ==
    \/ /\ call[c].stage = "keys" /\ call'[c].stage = "issuer"
       /\ Claims[Shown(c)].key \in keyCache[Home(c)][IssuerOf(c)].keys
    \/ /\ call[c].stage = "keys" /\ call'[c].stage = "served"
       /\ call'[c].got = published[IssuerOf(c)]
    \/ /\ call[c].stage = "served" /\ call'[c].stage = "issuer"
       /\ Claims[Shown(c)].key \in call[c].got
Trust(c) ==
    /\ call[c].stage = "issuer" /\ call'[c].stage = "revocation"
    /\ Tier(Shown(c)) = 2 => Claims[Shown(c)].key \in Holds[IssuerOf(c)]
Revocation(c) ==
    \/ call[c].stage = "revocation" /\ call'[c].stage \in {"list", "binding"}
    \/ call[c].stage = "list" /\ call'[c].stage = "binding"

Onward(c) ==
    /\ call'[c].shows = call[c].shows /\ call'[c].tries = call[c].tries
    /\ Signature(c) \/ Trust(c) \/ Revocation(c)
Again(c) ==
    /\ call[c].stage = "revocation" /\ call'[c].stage = "revocation"
    /\ call'[c].shows = call[c].shows
    /\ call[c].tries < Retries /\ call'[c].tries = call[c].tries + 1

LEMMA Way ==
  ASSUME IInv, NEW c \in Call, Advance(c) \/ Mishap(c), call[c].stage # "idle"
  PROVE  call'[c].stage = "idle" \/ Onward(c) \/ Again(c)
<1>1. call \in [Call -> Calls]
  BY Zenon DEF IInv, TypeOK, Calls, Answers
<1>2. call[c] \in Running /\ Shown(c) \in Credential
  BY RunningIs, ShownIs DEF IInv
<1> HIDE DEF Calls
<1>3. ASSUME NEW a, Reply(c, a)
      PROVE  call'[c].stage = "idle"
  <2>1. call'[c] = Idle(a)
    BY <1>1, <1>3 DEF Reply
  <2> QED
    BY <2>1, IdleIs
<1>4. ASSUME NEW stage, Proceed(c, stage)
      PROVE  /\ call'[c].stage = stage /\ call'[c].shows = call[c].shows
             /\ call'[c].tries = call[c].tries
  BY <1>1, <1>2, <1>4 DEF Proceed, Running
<1>5. ASSUME NEW checks, NEW stage, Settle(c, checks, stage)
      PROVE  \/ call'[c].stage = "idle"
             \/ /\ FirstError(checks) = "none"
                /\ call'[c].stage = stage /\ call'[c].shows = call[c].shows
                /\ call'[c].tries = call[c].tries
  BY <1>3, <1>4, <1>5, Zenon DEF Settle
<1>6. ASSUME UseCachedKeys(c)
      PROVE  call'[c].stage = "idle" \/ Onward(c)
  <2>1. Home(c) \in Process \cup {Database} /\ IssuerOf(c) \in Issuer
    BY <1>2, ShownIs DEF IInv, Running, Home
  <2>2. keyCache[Home(c)][IssuerOf(c)].keys \in SUBSET Key
    BY <2>1, CachesType DEF IInv, KeySlot
  <2> DEFINE checks == SignatureChecks(Shown(c), keyCache[Home(c)][IssuerOf(c)].keys)
  <2>3. Settle(c, checks, "issuer") /\ call[c].stage = "keys"
    BY <1>6 DEF UseCachedKeys
  <2>4. FirstError(checks) = "none" => Claims[Shown(c)].key \in keyCache[Home(c)][IssuerOf(c)].keys
    BY <1>2, <2>2, SignedWith, Zenon
  <2> HIDE DEF checks
  <2> QED
    BY <1>5, <2>3, <2>4, Zenon DEF Onward, Signature
<1>7. ASSUME AskForKeys(c)
      PROVE  Onward(c)
  BY <1>1, <1>2, <1>7 DEF AskForKeys, Onward, Signature, Running
<1>8. ASSUME KeysArrive(c)
      PROVE  call'[c].stage = "idle" \/ Onward(c)
  <2>1. call[c].got \in SUBSET Key
    BY <1>8 DEF KeysArrive, IInv, Fresh, FreshOf
  <2> DEFINE checks == SignatureChecks(Shown(c), call[c].got)
  <2>3. Settle(c, checks, "issuer") /\ call[c].stage = "served"
    BY <1>8 DEF KeysArrive
  <2>4. FirstError(checks) = "none" => Claims[Shown(c)].key \in call[c].got
    BY <1>2, <2>1, SignedWith, Zenon
  <2> HIDE DEF checks
  <2> QED
    BY <1>5, <2>3, <2>4, Zenon DEF Onward, Signature
<1>9. ASSUME CheckIssuer(c)
      PROVE  call'[c].stage = "idle" \/ Onward(c)
  BY <1>2, <1>5, <1>9, CertifiedWith, Zenon DEF CheckIssuer, Onward, Trust, IssuerOf
<1>10. ASSUME call[c].stage = "revocation", Proceed(c, "binding")
       PROVE  Onward(c)
  BY <1>4, <1>10 DEF Onward, Revocation
<1>11. ASSUME \/ NoRevocation(c) \/ Introspect(c) \/ IntrospectElsewhere(c)
              \/ CheckCertificate(c) \/ CertificateQueryFails(c)
       PROVE  call'[c].stage = "idle" \/ Onward(c)
  BY <1>3, <1>10, <1>11
     DEF NoRevocation, Introspect, IntrospectElsewhere, CheckCertificate, CertificateQueryFails
<1>12. ASSUME UseCachedList(c) \/ ListArrives(c)
       PROVE  call'[c].stage = "idle" \/ Onward(c)
  BY <1>3, <1>4, <1>12 DEF UseCachedList, ListArrives, ListVerdict, Onward, Revocation
<1>13. ASSUME AskForList(c)
       PROVE  Onward(c)
  BY <1>1, <1>2, <1>13 DEF AskForList, Onward, Revocation, Running
<1>14. ASSUME IntrospectionFails(c)
       PROVE  call'[c].stage = "idle" \/ Onward(c) \/ Again(c)
  <2>1. CASE call' = [call EXCEPT ![c].tries = @ + 1] /\ call[c].tries < Retries
    BY <1>1, <1>2, <1>14, <2>1 DEF IntrospectionFails, Again, Running
  <2> QED
    BY <1>3, <1>10, <1>14, <2>1 DEF IntrospectionFails
<1>15. ASSUME Bind(c) \/ KeysFail(c) \/ IssuerQueryFails(c) \/ ListFails(c)
       PROVE  call'[c].stage = "idle"
  BY <1>3, <1>15, Zenon DEF Bind, KeysFail, IssuerQueryFails, ListFails
<1> QED
  BY <1>6, <1>7, <1>8, <1>9, <1>11, <1>12, <1>13, <1>14, <1>15, Zenon DEF Advance, Mishap

(* What happens around a call ends it, makes it wait, or leaves it alone. *)
LEMMA AroundCalls ==
  ASSUME TypeOK, Outside, NEW d \in Call
  PROVE  \/ call'[d].stage = "idle"
         \/ call'[d] = call[d]
         \/ call'[d] = [call[d] EXCEPT !.waited = @ + 1]
<1>1. CASE Tick
  BY <1>1 DEF Tick
<1>2. ASSUME NEW p \in Process, Restart(p)
      PROVE  call'[d] = Idle("lost") \/ call'[d] = call[d]
  BY <1>2 DEF Restart
<1>3. ASSUME NEW i \in Issuer, EditRegistry(i) \/ ChangeStanding(i) \/ PublishKeys(i)
      PROVE  call'[d] = call[d]
  BY <1>3 DEF EditRegistry, ChangeStanding, PublishKeys
<1>4. ASSUME (\E h \in Revocable : Revoke(h)) \/ (\E cr \in Credential : Expire(cr))
      PROVE  call'[d] = call[d]
  BY <1>4 DEF Revoke, Expire
<1> QED
  BY <1>1, <1>2, <1>3, <1>4, IdleIs DEF Outside

-----------------------------------------------------------------------------
(* Whose key a credential was checked with.                                *)

(* What is published, cached or under way is the issuer's own. *)
KeySetsOwn ==
    /\ \A i \in Issuer : published[i] \subseteq Holds[i]
    /\ \A m \in Process \cup {Database} : \A i \in Issuer : keyCache[m][i].keys \subseteq Holds[i]

OwnKey(c) == Claims[Shown(c)].key \in Holds[IssuerOf(c)]

CheckedOf(c) ==
    /\ At(c, {"served"}) => call[c].got \subseteq Holds[IssuerOf(c)]
    /\ At(c, {"issuer"}) => Tier(Shown(c)) = 2 \/ OwnKey(c)
    /\ At(c, {"revocation", "list", "binding"}) => OwnKey(c)

OwnInv == KeySetsOwn /\ \A c \in Call : CheckedOf(c)

LEMMA OwnInit == Init => OwnInv
<1> SUFFICES ASSUME Init
             PROVE  OwnInv
  OBVIOUS
<1>1. \A c \in Call : call[c].stage = "idle"
  BY IdleIs DEF Init
<1>2. KeySetsOwn
  BY ConstantsAssumption DEF Init, KeySetsOwn, NoKeys
<1> QED
  BY <1>1, <1>2 DEF OwnInv, CheckedOf

(* An issuer publishes its own keys, and a cache holds what its issuer      *)
(* published: the entry of one issuer is never filled for another.          *)
LEMMA KeySetsStep ==
  ASSUME IInv, OwnInv, Next
  PROVE  KeySetsOwn'
<1>1. /\ published \in [Issuer -> SUBSET Key] /\ KeySetsOwn
      /\ keyCache \in [Process \cup {Database} -> [Issuer -> KeySlot]]
  BY CachesType DEF IInv, TypeOK, OwnInv
<1>2. ASSUME UNCHANGED <<published, keyCache>>
      PROVE  KeySetsOwn'
  BY <1>1, <1>2 DEF KeySetsOwn
<1>3. ASSUME NEW c \in Call, KeysArrive(c)
      PROVE  KeySetsOwn'
  <2>1. /\ call[c].stage = "served" /\ published' = published
        /\ keyCache' = [keyCache EXCEPT ![Home(c)][IssuerOf(c)] = [keys |-> call[c].got, age |-> 0]]
    BY <1>3 DEF KeysArrive
  <2>2. call[c].got \subseteq Holds[IssuerOf(c)]
    BY <2>1 DEF OwnInv, CheckedOf
  <2>3. ASSUME NEW m \in Process \cup {Database}, NEW i \in Issuer
        PROVE  keyCache'[m][i] = keyCache[m][i] \/ (i = IssuerOf(c) /\ keyCache'[m][i].keys = call[c].got)
    BY <1>1, <2>1
  <2> QED
    BY <1>1, <2>1, <2>2, <2>3 DEF KeySetsOwn
<1>4. ASSUME NEW i \in Issuer, PublishKeys(i)
      PROVE  KeySetsOwn'
  <2>1. PICK k \in Holds[i] : published' = [published EXCEPT ![i] = IF k \in @ THEN @ \ {k} ELSE @ \cup {k}]
    BY <1>4 DEF PublishKeys
  <2>2. keyCache' = keyCache
    BY <1>4 DEF PublishKeys
  <2> QED
    BY <1>1, <2>1, <2>2 DEF KeySetsOwn
<1>5. ASSUME Tick \/ \E p \in Process : Restart(p)
      PROVE  KeySetsOwn'
  <2>1. published' = published
    BY <1>5 DEF Tick, Restart
  <2>2. ASSUME NEW m \in Process \cup {Database}, NEW i \in Issuer
        PROVE  keyCache'[m][i].keys \subseteq keyCache[m][i].keys
    <3>1. keyCache[m][i] \in KeySlot
      BY <1>1
    <3>2. \/ keyCache'[m][i] = keyCache[m][i] \/ keyCache'[m][i] = NoKeys
          \/ keyCache'[m][i] = [keyCache[m][i] EXCEPT !.age = @ + 1]
      BY <1>1, <1>5 DEF Tick, Restart
    <3> QED
      BY <3>1, <3>2 DEF NoKeys, KeySlot
  <2> QED
    BY <1>1, <2>1, <2>2 DEF KeySetsOwn
<1>6. ASSUME NEW c \in Call, Begin(c) \/ Mishap(c)
      PROVE  UNCHANGED <<published, keyCache>>
  BY <1>6 DEF Begin, Mishap, KeysFail, IssuerQueryFails, IntrospectionFails,
     CertificateQueryFails, ListFails
<1>7. ASSUME NEW c \in Call, Advance(c), ~KeysArrive(c)
      PROVE  UNCHANGED <<published, keyCache>>
  BY <1>7 DEF Advance, UseCachedKeys, AskForKeys, CheckIssuer, NoRevocation, Introspect,
     IntrospectElsewhere, CheckCertificate, UseCachedList, AskForList, ListArrives, Bind
<1>8. ASSUME Outside
      PROVE  KeySetsOwn'
  <2>1. CASE \/ \E i \in Issuer : EditRegistry(i) \/ ChangeStanding(i)
             \/ \E h \in Revocable : Revoke(h)
             \/ \E cr \in Credential : Expire(cr)
    BY <1>2, <2>1 DEF EditRegistry, ChangeStanding, Revoke, Expire
  <2> QED
    BY <1>4, <1>5, <1>8, <2>1 DEF Outside
<1> QED
  BY <1>2, <1>3, <1>6, <1>7, <1>8 DEF Next

(* What is known of a call depends on the call alone. *)
LEMMA CheckedKept ==
  ASSUME NEW d \in Call, CheckedOf(d), call'[d].stage = call[d].stage,
         call'[d].shows = call[d].shows, call'[d].got = call[d].got
  PROVE  CheckedOf(d)'
  BY DEF CheckedOf, OwnKey, Shown, IssuerOf, Tier

LEMMA CheckedIdle ==
  ASSUME NEW d \in Call, call'[d].stage = "idle"
  PROVE  CheckedOf(d)'
  BY DEF CheckedOf

LEMMA BeginsUnchecked ==
  ASSUME TypeOK, NEW c \in Call, Begin(c)
  PROVE  \/ call'[c].stage \in {"idle", "keys"}
         \/ call'[c].stage = "issuer" /\ Tier(Shown(c))' = 2
<1>1. call \in [Call -> Calls]
  BY Zenon DEF TypeOK, Calls, Answers
<1> HIDE DEF Calls
<1>2. PICK p \in Process, s \in Presentation :
        IF FirstError(StructureChecks(s.credential)) # "none"
        THEN Reply(c, FirstError(StructureChecks(s.credential)))
        ELSE call' = [call EXCEPT ![c] =
                [Idle("none") EXCEPT
                   !.stage = IF Tier(s.credential) = 2 THEN "issuer" ELSE "keys",
                   !.at = p, !.shows = s]]
  BY Zenon DEF Begin
<1>3. CASE FirstError(StructureChecks(s.credential)) # "none"
  BY <1>1, <1>2, <1>3, IdleIs DEF Reply
<1>4. CASE FirstError(StructureChecks(s.credential)) = "none"
  <2>1. /\ call'[c].stage = IF Tier(s.credential) = 2 THEN "issuer" ELSE "keys"
        /\ call'[c].shows = s
    BY <1>1, <1>2, <1>4 DEF Idle
  <2> QED
    BY <2>1 DEF Tier, Shown
<1> QED
  BY <1>3, <1>4

LEMMA CheckedStep ==
  ASSUME IInv, OwnInv, Next, NEW d \in Call
  PROVE  CheckedOf(d)'
<1>1. TypeOK /\ CheckedOf(d) /\ KeySetsOwn
  BY DEF IInv, OwnInv
<1>2. ASSUME NEW c \in Call, Begin(c) \/ Advance(c) \/ Mishap(c), d # c
      PROVE  CheckedOf(d)'
  <2>1. call'[d] = call[d]
    BY <1>1, <1>2, OthersStay
  <2> QED
    BY <1>1, <2>1, CheckedKept
<1>3. ASSUME Begin(d)
      PROVE  CheckedOf(d)'
  BY <1>1, <1>3, BeginsUnchecked DEF CheckedOf
<1>4. ASSUME Advance(d) \/ Mishap(d)
      PROVE  CheckedOf(d)'
  <2>1. call[d].stage # "idle"
    BY <1>4 DEF Advance, Mishap, UseCachedKeys, AskForKeys, KeysArrive, CheckIssuer, NoRevocation,
       Introspect, IntrospectElsewhere, CheckCertificate, UseCachedList, AskForList, ListArrives, Bind, KeysFail,
       IssuerQueryFails, IntrospectionFails, CertificateQueryFails, ListFails
  <2>2. Home(d) \in Process \cup {Database} /\ IssuerOf(d) \in Issuer
    BY <1>1, <2>1, RunningIs, ShownIs DEF Running, Home
  <2>3. ASSUME call'[d].shows = call[d].shows
        PROVE  /\ Shown(d)' = Shown(d) /\ IssuerOf(d)' = IssuerOf(d)
               /\ OwnKey(d)' = OwnKey(d) /\ Tier(Shown(d))' = Tier(Shown(d))
    BY <2>3 DEF Shown, IssuerOf, OwnKey, Tier
  <2>4. CASE Onward(d) /\ Signature(d)
    BY <1>1, <2>2, <2>3, <2>4 DEF Onward, Signature, CheckedOf, KeySetsOwn, OwnKey
  <2>5. CASE Onward(d) /\ (Trust(d) \/ Revocation(d))
    BY <1>1, <2>3, <2>5 DEF Onward, Trust, Revocation, CheckedOf, OwnKey
  <2>6. CASE Again(d)
    BY <1>1, <2>3, <2>6 DEF Again, CheckedOf
  <2>7. CASE call'[d].stage = "idle"
    BY <2>7, CheckedIdle
  <2> QED
    BY <1>1, <1>4, <2>1, <2>4, <2>5, <2>6, <2>7, Way DEF Onward
<1>5. ASSUME Outside
      PROVE  CheckedOf(d)'
  <2>1. CASE call'[d] = call[d]
    BY <1>1, <2>1, CheckedKept
  <2>2. CASE call'[d].stage = "idle"
    BY <2>2, CheckedIdle
  <2>3. CASE call'[d] = [call[d] EXCEPT !.waited = @ + 1] /\ call[d].stage # "idle"
    <3>1. call[d] \in Running
      BY <1>1, <2>3, RunningIs
    <3>2. /\ call'[d].stage = call[d].stage /\ call'[d].shows = call[d].shows
          /\ call'[d].got = call[d].got
      BY <2>3, <3>1 DEF Running
    <3> QED
      BY <1>1, <3>2, CheckedKept
  <2>4. CASE call'[d] = [call[d] EXCEPT !.waited = @ + 1] /\ call[d].stage = "idle"
    <3>1. call[d] \in Calls
      BY <1>1, Zenon DEF TypeOK, Calls, Answers
    <3>2. call'[d].stage = "idle"
      BY <2>4, <3>1 DEF Calls, Running, Idle
    <3> QED
      BY <3>2, CheckedIdle
  <2> QED
    BY <1>1, <1>5, <2>1, <2>2, <2>3, <2>4, AroundCalls
<1> QED
  BY <1>2, <1>3, <1>4, <1>5 DEF Next

(* What reaches the last check, after which it may be verified, is signed   *)
(* with a key of its own issuer.                                            *)
SignedByIssuer == \A c \in Call : At(c, {"binding"}) => OwnKey(c)

(* In all three tiers, and whichever process or table cached the keys: an   *)
(* entry never serves for another issuer, and tier 2, which looks up no     *)
(* keys, binds the certificate to the issuer instead.                       *)
THEOREM AlwaysSignedByIssuer == Spec => []SignedByIssuer
<1>1. OwnInv => SignedByIssuer
  BY DEF OwnInv, CheckedOf, SignedByIssuer
<1>2. IInv /\ OwnInv /\ [Next]_vars => OwnInv'
  <2> SUFFICES ASSUME IInv, OwnInv, [Next]_vars
               PROVE  OwnInv'
    OBVIOUS
  <2>1. CASE UNCHANGED vars
    <3>1. \A c \in Call : CheckedOf(c)'
      BY <2>1, CheckedKept DEF vars, OwnInv
    <3> QED
      BY <2>1, <3>1 DEF vars, OwnInv, KeySetsOwn
  <2>2. CASE Next
    BY <2>2, KeySetsStep, CheckedStep DEF OwnInv
  <2> QED
    BY <2>1, <2>2
<1> QED
  BY <1>1, <1>2, OwnInit, Invariant, PTL DEF Spec

-----------------------------------------------------------------------------
(* How much a call has before it.                                          *)

Rank == [keys |-> 6, served |-> 5, issuer |-> 4, revocation |-> 3, list |-> 2, binding |-> 1]

Left(c) == Rank[call[c].stage] + (Retries - call[c].tries)

(* A step ends a call, brings it nearer to its end, or lets time pass in it. *)
CallsDwindle ==
    \A c \in Call : call[c].stage # "idle" =>
      /\ Left(c) \in Nat
      /\ \/ call'[c].stage = "idle"
         \/ Left(c)' < Left(c)
         \/ call'[c] = call[c]
         \/ call'[c] = [call[c] EXCEPT !.waited = @ + 1]

(* verifyCredential goes from check to check and never back; what it        *)
(* repeats, the introspection, it repeats at most Retries times.            *)
THEOREM CallsTerminate == Spec => [][CallsDwindle]_vars
<1>0. /\ Rank["keys"] = 6 /\ Rank["served"] = 5 /\ Rank["issuer"] = 4
      /\ Rank["revocation"] = 3 /\ Rank["list"] = 2 /\ Rank["binding"] = 1
  BY DEF Rank
<1>1. ASSUME IInv, Next
      PROVE  CallsDwindle
  <2> SUFFICES ASSUME NEW d \in Call, call[d].stage # "idle"
               PROVE  /\ Left(d) \in Nat
                      /\ \/ call'[d].stage = "idle" \/ Left(d)' < Left(d) \/ call'[d] = call[d]
                         \/ call'[d] = [call[d] EXCEPT !.waited = @ + 1]
    BY DEF CallsDwindle
  <2>1. TypeOK /\ call[d] \in Running
    BY <1>1, RunningIs DEF IInv
  <2>2. /\ call[d].stage \in Stage \ {"idle"} /\ call[d].tries \in 0 .. Retries /\ Retries \in Nat
    BY <2>1, BoundsAssumption DEF Running
  <2>3. Rank[call[d].stage] \in Nat /\ Left(d) \in Nat
    BY <1>0, <2>2 DEF Stage, Left
  <2>4. ASSUME Advance(d) \/ Mishap(d)
        PROVE  call'[d].stage = "idle" \/ Left(d)' < Left(d)
    <3>1. CASE Onward(d)
      BY <1>0, <2>2, <3>1 DEF Onward, Signature, Trust, Revocation, Left
    <3>2. CASE Again(d)
      BY <1>0, <2>2, <3>2 DEF Again, Left
    <3> QED
      BY <1>1, <2>4, <3>1, <3>2, Way
  <2>5. ~Begin(d)
    BY DEF Begin
  <2>6. ASSUME NEW c \in Call, c # d, Begin(c) \/ Advance(c) \/ Mishap(c)
        PROVE  call'[d] = call[d]
    BY <2>1, <2>6, OthersStay
  <2> QED
    BY <1>1, <2>1, <2>3, <2>4, <2>5, <2>6, AroundCalls DEF Next
<1>2. IInv /\ [Next]_vars => [CallsDwindle]_vars
  BY <1>1
<1> QED
  BY <1>2, Invariant, PTL DEF Spec
=============================================================================
