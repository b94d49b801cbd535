------------------------------ MODULE MCDelegation ------------------------------
(***************************************************************************)
(* Small instances of Delegation.  A credential belongs to a level of the   *)
(* chain; what it may carry is a set of constraint lists, one instance for  *)
(* each run.                                                                *)
(***************************************************************************)
EXTENDS Delegation

CONSTANTS
  Carried,   \* lists of constraints a credential may carry
  Strings    \* values of the resource in a request

--------------------------------------------------------------------------------
(* Constraints.                                                             *)

Numeric(operator, value) ==
  [type |-> "NumericLimitConstraint", id |-> Absent, field |-> "amount",
   operator |-> operator, value |-> value]

Window(from, until, days) ==
  [type |-> "TemporalWindowConstraint", id |-> Absent, field |-> "timestamp",
   validFrom |-> from, validUntil |-> until, daysOfWeek |-> days, timezone |-> "UTC"]

List(allowed, denied) ==
  [type |-> "EnumeratedListConstraint", id |-> Absent, field |-> "currency",
   allowed |-> allowed, denied |-> denied]

Pattern(matchType, pattern) ==
  [type |-> "StringPatternConstraint", id |-> Absent, field |-> "resource",
   matchType |-> matchType, pattern |-> pattern]

Counter(type, id, limits, period, scopeFields) ==
  [type |-> type, id |-> id, field |-> "amount", limits |-> limits,
   period |-> period, scope |-> "credential", scopeFields |-> scopeFields]

Usage(id, limit, period) ==
  Counter("UsageLimitConstraint", id, <<limit, Absent, Absent>>, period, {})

(* Every part of a window or a list is there, a star stays within its       *)
(* segment and "**" is one of its own.                                      *)
MCSpelledOut ==
  {<<>>}
  \cup {<<Numeric(op, v)>> : op \in {"lte", "gte", "eq"}, v \in {2, 3}}
  \cup {<<Numeric("lt", 3), Usage("uses", 2, "day")>>, <<Usage("uses", 1, "day")>>,
        <<Usage("uses", 1, "month")>>, <<Usage(Absent, 2, "day"), Usage(Absent, 1, "day")>>}
  \cup {<<Counter("CumulativeLimitConstraint", Absent, l, "day", {"currency"})>> :
          l \in {<<Absent, 2, Absent>>, <<1, Null, 5>>, <<Absent, Absent, 3>>}}
  \cup {<<Window(f, 3, days)>> : f \in {1, 2}, days \in {{"Mon"}, {"Mon", "Sun"}}}
  \cup {<<List(allowed, {"usd"} \ allowed)>> : allowed \in SUBSET {"usd", "eur"}}
  \cup {<<Pattern("prefix", p)>> : p \in {<<"a">>, <<"a", "b">>}}
  \cup {<<Pattern("suffix", p)>> : p \in {<<"b">>, <<"a", "b">>}}
  \cup {<<Pattern("exact", <<"a", "b">>)>>}
  \cup {<<Pattern("restricted_glob", p)>> :
          p \in {<< <<"a", "*">> >>, << <<"a", "b">> >>, << <<"*">>, <<"b">> >>,
                 << <<"a">>, <<"b">> >>, << <<"a">>, <<"*">> >>, <<AnyDepth, <<"b">> >>}}

(* A window or a list need not have every part.                             *)
MCPartial ==
  {<<Window(f, 3, days)>> : f \in {1, Absent}, days \in {{"Mon"}, {}, Absent}}
  \cup {<<List(allowed, Absent)>> : allowed \in {{"usd"}, Absent}}

(* Stars at the end of a segment, one or two.                               *)
MCSegments == {<<"*">>, <<"a">>, <<"a", "*">>, <<"a", "**">>}

MCGlobs ==
  {<<Pattern("restricted_glob", p)>> : p \in {<<s>> : s \in MCSegments} \cup (MCSegments \X MCSegments)}

MCLoose == MCPartial \cup MCGlobs

(* Limits written null, and a counter that is divided.                      *)
MCCounters ==
  {<<Counter("UsageLimitConstraint", "uses", l, "day", {})>> : l \in {<<2, Absent, Absent>>, <<Null, Absent, 5>>}}
  \cup {<<Counter("UsageLimitConstraint", "uses", <<2, Absent, Absent>>, "day", {"resource"})>>}

--------------------------------------------------------------------------------
(* Credentials: agent a is delegated to by the root, b by a, and so on.     *)

Agents == <<"root", "a", "b", "c", "d">>

MCCredential(level, from, permissions, constraints) ==
  [issuer |-> Agents[level], agent |-> Agents[level + 1], id |-> level,
   delegatedFrom |-> from, permissions |-> permissions, constraints |-> constraints]

MCCredentials ==
  {MCCredential(level, IF level = 1 THEN Absent ELSE level - 1, {"pay"}, k) :
     level \in 1..3, k \in Carried}
  \cup {MCCredential(2, from, {"pay", "read"}, <<>>) : from \in {Absent, 1, 3}}
  \cup {MCCredential(1, Absent, {"pay", "read"}, <<>>), MCCredential(4, 3, {"pay"}, <<>>)}

MCTime == [zone \in {"UTC"} |-> [t \in 0..5 |->
  [minute |-> (t % 3) + 1, day |-> IF t < 3 THEN "Mon" ELSE "Sun"]]]

MCContext(amount, currency, resource, t) ==
  [amount |-> amount, currency |-> currency, resource |-> resource, timestamp |-> t]

MCRequest(action, context) == [action |-> action, context |-> context]

(* One field at a time takes all its values. *)
MCRequests ==
  {MCRequest("pay", MCContext(v, "usd", <<"a", "b">>, 1)) : v \in {Absent, 1, 2, 3, 4}}
  \cup {MCRequest("pay", MCContext(2, v, <<"a", "b">>, 1)) : v \in {Absent, "eur"}}
  \cup {MCRequest("pay", MCContext(2, "usd", v, 1)) : v \in Strings}
  \cup {MCRequest("pay", MCContext(2, "usd", <<"a", "b">>, t)) : t \in 0..5}
  \cup {MCRequest("read", MCContext(2, "usd", <<"a", "b">>, 1))}

MCStrings == {Absent, <<"a">>, <<"b">>, <<"a", "/", "b">>, <<"a", "/", "b", "/", "b">>, <<"b", "/", "b">>}
================================================================================
