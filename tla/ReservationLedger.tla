--------------------------- MODULE ReservationLedger ---------------------------
(***************************************************************************)
(* What a stateful reservation promises the evaluation pipeline, without    *)
(* connections, statements or locks: a call either takes effect on all its *)
(* counters in one step, or on none, and it is refused only if a counter   *)
(* really has no room.  The result passResult or denyResult reports, the   *)
(* counters and the events are those of PostgresStatefulStore.reserve.     *)
(*                                                                          *)
(* The promise about idempotency keys is the one the code keeps: a         *)
(* candidate may be skipped only if its event is on record.  It may be     *)
(* charged although the event is on record: the engine looks for the event *)
(* before it owns the counter.                                             *)
(***************************************************************************)
EXTENDS Integers, Sequences, FiniteSets, FiniteSetsExt

CONSTANTS Calls, Bases, Forever, IdemKeys, NoKey, Cands, Idem, MaxClock

VARIABLES
  win,      \* the window each call computed its counter keys for
  balance,  \* the value of each counter
  recorded, \* idempotency events on record
  charged,  \* the candidates each call was charged for
  settled,  \* calls whose reservation took effect and who have not been told
  verdict   \* what each caller was told

ledgerVars == <<win, balance, recorded, charged, settled, verdict>>

LedgerCounters == Bases \X (0..MaxClock)
KeyOf(c, i) == <<Cands[c][i].base, IF Cands[c][i].base \in Forever THEN 0 ELSE win[c]>>
EventOf(c, i) == <<Idem[c], KeyOf(c, i)>>

(* What the candidates S of a call add to counter k. *)
Sum(c, S, k) ==
  MapThenSumSet(LAMBDA x : Cands[x[1]][x[2]].inc, {x \in {c} \X S : KeyOf(x[1], x[2]) = k})

(* A candidate that is not charged has an event on record, or is the same  *)
(* counter as an earlier candidate that is charged under the same key.     *)
MayCharge(c, n, S) ==
  \A i \in (1..n) \ S :
    /\ Idem[c] # NoKey
    /\ EventOf(c, i) \in recorded \/ \E j \in S : j < i /\ KeyOf(c, j) = KeyOf(c, i)

(* Counter k of candidate i after the charged candidates up to i. *)
After(c, i, S) == balance[KeyOf(c, i)] + Sum(c, {j \in S : j <= i}, KeyOf(c, i))

LedgerInit ==
  /\ win = [c \in Calls |-> 0]
  /\ balance = [k \in LedgerCounters |-> 0]
  /\ recorded = {}
  /\ charged = [c \in Calls |-> {}]
  /\ settled = {}
  /\ verdict = [c \in Calls |-> "none"]

Begin(c, t) ==
  /\ verdict[c] = "none" /\ c \notin settled
  /\ win' = [win EXCEPT ![c] = t]
  /\ verdict' = [verdict EXCEPT ![c] = IF Cands[c] = <<>> THEN "pass" ELSE "none"]
  /\ UNCHANGED <<balance, recorded, charged, settled>>

(* All candidates at once, each within its limit. *)
Reserve(c) ==
  /\ verdict[c] = "none" /\ c \notin settled
  /\ \E S \in SUBSET DOMAIN Cands[c] :
       /\ MayCharge(c, Len(Cands[c]), S)
       /\ \A i \in S : After(c, i, S) <= Cands[c][i].limit
       /\ charged' = [charged EXCEPT ![c] = S]
       /\ balance' = [k \in LedgerCounters |-> balance[k] + Sum(c, S, k)]
       /\ recorded' = recorded \cup
            IF Idem[c] = NoKey THEN {} ELSE {EventOf(c, i) : i \in S}
  /\ settled' = settled \cup {c}
  /\ UNCHANGED <<win, verdict>>

(* A refusal names a candidate that does not fit on top of those before it. *)
Refuse(c) ==
  /\ verdict[c] = "none" /\ c \notin settled
  /\ \E n \in DOMAIN Cands[c] : \E S \in SUBSET (1..n) :
       /\ n \in S /\ MayCharge(c, n, S)
       /\ After(c, n, S) > Cands[c][n].limit
  /\ verdict' = [verdict EXCEPT ![c] = "deny"]
  /\ UNCHANGED <<win, balance, recorded, charged, settled>>

Confirm(c) ==
  /\ verdict[c] = "none" /\ c \in settled
  /\ \E what \in {"pass", "error"} : verdict' = [verdict EXCEPT ![c] = what]
  /\ settled' = settled \ {c}
  /\ UNCHANGED <<win, balance, recorded, charged>>

(* Turned down before the store was asked, or given up without effect. *)
GiveUp(c) ==
  /\ verdict[c] = "none" /\ c \notin settled
  /\ \E what \in {"declined", "error"} : verdict' = [verdict EXCEPT ![c] = what]
  /\ UNCHANGED <<win, balance, recorded, charged, settled>>

LedgerNext ==
  \E c \in Calls :
    \/ \E t \in 0..MaxClock : Begin(c, t)
    \/ Reserve(c) \/ Refuse(c) \/ Confirm(c) \/ GiveUp(c)

LedgerSpec == LedgerInit /\ [][LedgerNext]_ledgerVars
================================================================================
