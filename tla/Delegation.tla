------------------------------- MODULE Delegation -------------------------------
(***************************************************************************)
(* POST /evaluate/batch for a delegation chain: verifyDelegationChain of    *)
(* portauth-engine/src/services/delegationVerifier.js, and the evaluation   *)
(* of the leaf credential by services/constraintEvaluator.js.               *)
(*                                                                          *)
(* The engine meets the credentials one by one, root first, with an await   *)
(* for each.  It compares each with the one before it, and then asks only   *)
(* the leaf whether the request is allowed.  That this is enough is what    *)
(* the properties say: nothing is allowed that a credential further up      *)
(* would refuse.  Local policy and the reservation of counters come after   *)
(* and can only deny: they are in EngineAudit and StatefulReserve.          *)
(***************************************************************************)
EXTENDS GlobPattern

CONSTANTS
  Credentials,        \* credentials that may be presented
  Requests,           \* what the leaf may be presented for
  Fields,             \* of a request context
  LocalTime,          \* minute and day of an instant in a time zone
  Days,
  Absent,             \* a field that is not there
  Null,               \* a field that is null
  MaxDepth,           \* max_depth of portauth_delegation_config
  RequireAttenuation  \* require_attenuation_proof of the same

Operators == {"lte", "lt", "gte", "gt", "eq"}
MatchTypes == {"exact", "prefix", "suffix", "restricted_glob"}
Stateful == {"CumulativeLimitConstraint", "UsageLimitConstraint"}

(* A credential is what verifyCredential returns as its payload: issuer,    *)
(* agent, id, delegatedFrom, permissions and the sequence of constraints.   *)
(* Defaults (period, scope, time zone, the timestamp field) are filled in;  *)
(* limits are the three fields a limit may be in, maxUses or maxAmount,     *)
(* value and limit, and scopeFields those that divide its counter.          *)
WellFormed(c) ==
  \/ c.type = "NumericLimitConstraint" /\ c.operator \in Operators /\ c.value \in Int
  \/ /\ c.type = "TemporalWindowConstraint"
     /\ c.validFrom \in Nat \cup {Absent} /\ c.validUntil \in Nat \cup {Absent}
     /\ c.daysOfWeek = Absent \/ c.daysOfWeek \subseteq Days
     /\ c.timezone \in DOMAIN LocalTime
  \/ c.type = "EnumeratedListConstraint"
  \/ /\ c.type = "StringPatternConstraint" /\ c.matchType \in MatchTypes
     /\ c.pattern \in IF c.matchType = "restricted_glob" THEN Globs ELSE Texts
  \/ /\ c.type \in Stateful
     /\ c.limits \in [1..3 -> Int \cup {Absent, Null}] /\ c.scopeFields \subseteq Fields

ASSUME CredentialsType == \A c \in Credentials :
  /\ Len(c.constraints) \in Nat /\ DOMAIN c.constraints = 1..Len(c.constraints)
  /\ \A i \in DOMAIN c.constraints :
       WellFormed(c.constraints[i]) /\ c.constraints[i].field \in Fields
ASSUME LocalTimeType == \A zone \in DOMAIN LocalTime :
  \A t \in DOMAIN LocalTime[zone] : LocalTime[zone][t].minute \in Nat
ASSUME RequestsType == \A r \in Requests : DOMAIN r.context = Fields
ASSUME ConfigType == MaxDepth \in Nat \ {0} /\ RequireAttenuation \in BOOLEAN

VARIABLES
  pc,       \* what the handler does next
  size,     \* number of credentials in the request
  chain,    \* those verified so far, root first
  request,  \* what the leaf was evaluated for
  reply     \* decision or error code

vars == <<pc, size, chain, request, reply>>

Outcomes == {"none", "allow", "permission_denied", "constraint_failed", "unverified",
             "delegation_depth_exceeded", "delegation_chain_broken", "delegation_widened"}

Init ==
  /\ pc = "receive" /\ size = 0 /\ chain = <<>>
  /\ request = Absent /\ reply = "none"

--------------------------------------------------------------------------------
(* What a constraint allows: constraintEvaluator.js.                        *)

Compares(operator, a, b) ==
  \/ operator = "eq" /\ a = b
  \/ operator = "lt" /\ a < b
  \/ operator = "lte" /\ a <= b
  \/ operator = "gt" /\ a > b
  \/ operator = "gte" /\ a >= b

(* What is no number satisfies no limit. *)
NumericLimit(c, v) == v \in Int /\ Compares(c.operator, v, c.value)

(* An empty list of days is no restriction. *)
TemporalWindow(c, t) ==
  LET now == LocalTime[c.timezone][t] IN
  /\ t \in DOMAIN LocalTime[c.timezone]
  /\ c.daysOfWeek = Absent \/ c.daysOfWeek = {} \/ now.day \in c.daysOfWeek
  /\ c.validFrom = Absent \/ now.minute >= c.validFrom
  /\ c.validUntil = Absent \/ now.minute <= c.validUntil

EnumeratedList(c, v) ==
  /\ v # Absent
  /\ c.denied = Absent \/ v \notin c.denied
  /\ c.allowed = Absent \/ v \in c.allowed

StringPattern(c, v) ==
  /\ v # Absent /\ v \in Texts
  /\ \/ c.matchType = "exact" /\ v = c.pattern
     \/ c.matchType = "prefix" /\ IsPrefix(c.pattern, v)
     \/ c.matchType = "suffix" /\ IsSuffix(c.pattern, v)
     \/ c.matchType = "restricted_glob" /\ MatchesGlob(c.pattern, v)

(* Stateful constraints are left to the reservation. *)
Satisfies(c, context) ==
  LET v == context[c.field] IN
  \/ c.type = "NumericLimitConstraint" /\ NumericLimit(c, v)
  \/ c.type = "TemporalWindowConstraint" /\ TemporalWindow(c, v)
  \/ c.type = "EnumeratedListConstraint" /\ EnumeratedList(c, v)
  \/ c.type = "StringPatternConstraint" /\ StringPattern(c, v)
  \/ c.type \in Stateful

EvaluateConstraints(cred, context) ==
  \A i \in DOMAIN cred.constraints : Satisfies(cred.constraints[i], context)

Permits(cred, r) == r.action \in cred.permissions /\ EvaluateConstraints(cred, r.context)

--------------------------------------------------------------------------------
(* Whether a delegate is no wider than its parent: delegationVerifier.js.   *)

NumericAttenuationOfCeilings(p, d) ==
  /\ d.operator = p.operator
  /\ p.operator \in {"lte", "lt", "gte", "gt"} => d.value <= p.value
  /\ p.operator = "eq" => d.value = p.value

NumericAttenuation(p, d) ==
  /\ d.operator = p.operator
  /\ p.operator \in {"lte", "lt"} => d.value <= p.value
  /\ p.operator \in {"gte", "gt"} => d.value >= p.value
  /\ p.operator = "eq" => d.value = p.value

(* Each part is compared when both have it. *)
TemporalAttenuation(p, d) ==
  /\ d.validFrom # Absent /\ p.validFrom # Absent => d.validFrom >= p.validFrom
  /\ d.validUntil # Absent /\ p.validUntil # Absent => d.validUntil <= p.validUntil
  /\ d.daysOfWeek # Absent /\ p.daysOfWeek # Absent => d.daysOfWeek \subseteq p.daysOfWeek

EnumeratedAttenuation(p, d) ==
  /\ d.allowed # Absent /\ p.allowed # Absent => d.allowed \subseteq p.allowed
  /\ d.denied # Absent /\ p.denied # Absent => p.denied \subseteq d.denied

StringPatternAttenuation(p, d) ==
  /\ d.matchType = p.matchType
  /\ p.matchType = "exact" => d.pattern = p.pattern
  /\ p.matchType = "prefix" => IsPrefix(p.pattern, d.pattern)
  /\ p.matchType = "suffix" => IsSuffix(p.pattern, d.pattern)
  /\ p.matchType = "restricted_glob" => GlobRefines(p.pattern, d.pattern)

SameStatefulWindowAnyPeriod(p, d) == d.scope = p.scope

SameStatefulWindow(p, d) == d.period = p.period /\ d.scope = p.scope

(* null counts as zero, a field that is not there as no number. *)
Number(v) == IF v = Null THEN 0 ELSE v

(* The first of the three fields that is not passed over, or the last. *)
LimitPast(passed, c) ==
  LET candidates == {k \in 1..3 : c.limits[k] \notin passed \/ k = 3}
  IN Number(c.limits[CHOOSE k \in candidates : \A l \in candidates : k <= l])

(* Attenuation passes over a field that is not there; the reservation also  *)
(* over one that is null.                                                   *)
ComparedLimit(c) == LimitPast({Absent}, c)
EnforcedLimit(c) == LimitPast({Absent, Null}, c)

(* The fields that divide a counter are not compared. *)
StatefulAttenuation(p, d) ==
  /\ p.type = "CumulativeLimitConstraint" => d.field = p.field
  /\ SameStatefulWindow(p, d)
  /\ ComparedLimit(d) \in Int /\ ComparedLimit(p) \in Int
  /\ ComparedLimit(d) <= ComparedLimit(p)

IsMoreRestrictive(p, d) ==
  \/ p.type = "NumericLimitConstraint" /\ NumericAttenuation(p, d)
  \/ p.type = "TemporalWindowConstraint" /\ TemporalAttenuation(p, d)
  \/ p.type = "EnumeratedListConstraint" /\ EnumeratedAttenuation(p, d)
  \/ p.type = "StringPatternConstraint" /\ StringPatternAttenuation(p, d)
  \/ p.type \in Stateful /\ StatefulAttenuation(p, d)

ConstraintsSameTarget(p, d) ==
  /\ d.type = p.type
  /\ IF p.id # Absent \/ d.id # Absent THEN p.id = d.id ELSE d.field = p.field

(* The first constraint of the delegate with the target of p. *)
FirstMatch(p, delegate, j) ==
  /\ j \in DOMAIN delegate.constraints
  /\ ConstraintsSameTarget(p, delegate.constraints[j])
  /\ \A k \in DOMAIN delegate.constraints :
       k < j => ~ConstraintsSameTarget(p, delegate.constraints[k])

VerifyAttenuation(parent, delegate) ==
  /\ delegate.permissions \subseteq parent.permissions
  /\ \A i \in DOMAIN parent.constraints : \E j \in DOMAIN delegate.constraints :
       /\ FirstMatch(parent.constraints[i], delegate, j)
       /\ IsMoreRestrictive(parent.constraints[i], delegate.constraints[j])

ValidateDelegationLink(parent, delegate) ==
  /\ delegate.issuer = parent.agent
  /\ delegate.delegatedFrom # Absent
  /\ delegate.delegatedFrom = parent.id

--------------------------------------------------------------------------------
(* The chain.                                                               *)

Answer(what) == pc' = "done" /\ reply' = what

DepthExceededByOne(n) == n > MaxDepth + 1

DepthExceeded(n) == n > MaxDepth

(* The request arrives, with one credential at least. *)
Receive ==
  /\ pc = "receive"
  /\ \E n \in 1..MaxDepth + 2 :
       /\ size' = n
       /\ IF DepthExceeded(n)
            THEN Answer("delegation_depth_exceeded")
            ELSE pc' = "verify" /\ UNCHANGED reply
  /\ UNCHANGED <<chain, request>>

(* verifyCredential refuses the next credential; if it does not trust the   *)
(* issuer of a delegate, the chain counts as broken.                        *)
Refuse ==
  /\ pc = "verify"
  /\ \/ Answer("unverified")
     \/ chain # <<>> /\ Answer("delegation_chain_broken")
  /\ UNCHANGED <<size, chain, request>>

Accept(cred) ==
  /\ chain' = Append(chain, cred)
  /\ pc' = IF Len(chain) + 1 = size THEN "evaluate" ELSE "verify"
  /\ UNCHANGED reply

(* It accepts the root ... *)
VerifyRoot(cred) ==
  /\ pc = "verify" /\ chain = <<>>
  /\ Accept(cred)
  /\ UNCHANGED <<size, request>>

(* ... or a delegate, whose link to the credential before it is checked.    *)
VerifyDelegate(cred) ==
  /\ pc = "verify" /\ chain # <<>>
  /\ LET parent == chain[Len(chain)] IN
     \/ /\ ~ValidateDelegationLink(parent, cred)
        /\ Answer("delegation_chain_broken") /\ UNCHANGED chain
     \/ /\ ValidateDelegationLink(parent, cred)
        /\ RequireAttenuation /\ ~VerifyAttenuation(parent, cred)
        /\ Answer("delegation_widened") /\ UNCHANGED chain
     \/ /\ ValidateDelegationLink(parent, cred)
        /\ RequireAttenuation => VerifyAttenuation(parent, cred)
        /\ Accept(cred)
  /\ UNCHANGED <<size, request>>

(* The permissions and constraints of the leaf decide. *)
Evaluate(r) ==
  /\ pc = "evaluate"
  /\ request' = r
  /\ LET leaf == chain[Len(chain)] IN
     \/ r.action \notin leaf.permissions /\ Answer("permission_denied")
     \/ /\ r.action \in leaf.permissions
        /\ Answer(IF EvaluateConstraints(leaf, r.context) THEN "allow" ELSE "constraint_failed")
  /\ UNCHANGED <<size, chain>>

(* The request has been answered. *)
Answered == pc = "done" /\ UNCHANGED vars

Next ==
  \/ Receive \/ Refuse \/ Answered
  \/ \E cred \in Credentials : VerifyRoot(cred) \/ VerifyDelegate(cred)
  \/ \E r \in Requests : Evaluate(r)

Spec == Init /\ [][Next]_vars
--------------------------------------------------------------------------------
(* Properties.                                                              *)

(* Every variable has its type, and no chain is longer than max_depth.      *)
TypeOK ==
  /\ pc \in {"receive", "verify", "evaluate", "done"}
  /\ size \in 0..MaxDepth + 2
  /\ chain \in Seq(Credentials) /\ Len(chain) <= MaxDepth
  /\ request \in Requests \cup {Absent}
  /\ reply \in Outcomes

(* A chain allows nothing that one of its credentials refuses, although     *)
(* only neighbours are compared and only the leaf is evaluated: every       *)
(* attenuation rule of delegationVerifier.js is sound for the evaluation in *)
(* constraintEvaluator.js.                                                  *)
NeverWidened ==
  RequireAttenuation /\ reply = "allow" => \A i \in DOMAIN chain : Permits(chain[i], request)

Kept(p, d) ==
  /\ d.type = p.type /\ d.id = p.id /\ d.period = p.period /\ d.scope = p.scope
  /\ d.scopeFields = p.scopeFields
  /\ p.type = "CumulativeLimitConstraint" => d.field = p.field
  /\ EnforcedLimit(d) <= EnforcedLimit(p)

(* A leaf that is evaluated carries every counter limit of every credential *)
(* above it: the counter it charges counts the same, over the same window,  *)
(* undivided, and the limit that the reservation holds it to is not raised. *)
LimitsOnlyLowered ==
  RequireAttenuation /\ pc = "evaluate" =>
    \A i \in 1..Len(chain) - 1 : \A a \in DOMAIN chain[i].constraints :
      LET p == chain[i].constraints[a]
          leaf == chain[Len(chain)]
      IN p.type \in Stateful =>
           \E b \in DOMAIN leaf.constraints : Kept(p, leaf.constraints[b])
================================================================================
