---------------------------- MODULE StatefulReserve ----------------------------
(***************************************************************************)
(* Reservation of stateful constraints (cumulative amounts and use counts)  *)
(* by the evaluation engine: evaluateStatefulConstraints and the reserve    *)
(* method of PostgresStatefulStore, portauth-engine/src/services/           *)
(* statefulAuthorizer.js.                                                   *)
(*                                                                          *)
(* A call is one invocation of evaluateStatefulConstraints.  Calls run      *)
(* concurrently: in one engine process they interleave at every await, and  *)
(* several engines may share the database.  A call reserves its candidates  *)
(* in order, inside one READ COMMITTED transaction on a pooled connection;  *)
(* every SQL statement is one atomic step here, and a statement that would  *)
(* wait for a row lock is disabled until the lock is free.                  *)
(*                                                                          *)
(* What PostgreSQL contributes: the newest version of a locked row belongs  *)
(* to the lock holder alone (working), everybody else reads the committed   *)
(* one (stored); a rollback drops the former and a commit installs it; a    *)
(* cycle of waiting transactions is broken by failing one of them.          *)
(***************************************************************************)
EXTENDS Integers, Sequences, FiniteSets, FiniteSetsExt

CONSTANTS
  Calls,      \* invocations of evaluateStatefulConstraints
  Bases,      \* what scopeMaterial hashes, apart from the window start
  Forever,    \* the bases whose constraint has no period (one window only)
  IdemKeys,   \* idempotency keys
  NoKey,      \* the call carries no idempotency key
  Nobody,     \* no transaction holds the row
  Cands,      \* the candidates of each call, in the order of the constraints
  Idem,       \* the idempotency key of each call
  PoolSize,   \* connections of the pg pool
  MaxClock,   \* bound: number of the last period window
  MaxFaults   \* bound: failing statements and lost answers of COMMIT

Candidate == [base : Bases, inc : Int, limit : Int]

ASSUME NobodyAssumption == Nobody \notin Calls
ASSUME NoKeyAssumption == NoKey \notin IdemKeys
ASSUME CandsAssumption == Cands \in [Calls -> Seq(Candidate)]
ASSUME IdemAssumption == Idem \in [Calls -> IdemKeys \cup {NoKey}]
ASSUME BoundsAssumption == PoolSize \in Nat \ {0} /\ MaxClock \in Nat /\ MaxFaults \in Nat

VARIABLES
  clock,      \* the period window the wall clock is in
  pc,         \* the next statement of each call
  idx,        \* the candidate a call is working on
  win,        \* the window a call computed its counter keys for
  held,       \* calls that hold a pooled connection
  lock,       \* portauth_authorization_counters: who has the row locked
  rows,       \* counters with a committed row
  stored,     \* committed value of a counter
  working,    \* value of a counter as the lock holder sees it
  events,     \* committed rows of portauth_authorization_counter_events
  newEvents,  \* counters for which a transaction inserted its event
  charges,    \* candidates whose increment a transaction applied
  outcome,    \* what the caller was told
  prior,      \* calls that had been answered when a call started (history)
  faults      \* failures so far

txVars == <<lock, rows, stored, working, events, newEvents, charges>>
vars == <<clock, pc, idx, win, held, txVars, outcome, prior, faults>>

Counters == Bases \X (0..MaxClock)
InStatement == {"check", "insert", "lock", "update", "event", "deny", "commit"}
InTx == InStatement \cup {"failing"}
PcStates == InTx \cup {"idle", "connect", "committed", "done"}
Outcomes == {"none", "pass", "deny", "declined", "error"}

(* The counter key of a candidate: its base and the start of its window. *)
Window(b, t) == IF b \in Forever THEN 0 ELSE t
CounterOf(c, i) == <<Cands[c][i].base, Window(Cands[c][i].base, win[c])>>
Cand(c) == Cands[c][idx[c]]
Here(c) == CounterOf(c, idx[c])

Init ==
  /\ clock = 0
  /\ pc = [c \in Calls |-> "idle"]
  /\ idx = [c \in Calls |-> 0]
  /\ win = [c \in Calls |-> 0]
  /\ held = {}
  /\ lock = [k \in Counters |-> Nobody]
  /\ rows = {}
  /\ stored = [k \in Counters |-> 0]
  /\ working = [k \in Counters |-> 0]
  /\ events = {}
  /\ newEvents = [c \in Calls |-> {}]
  /\ charges = [c \in Calls |-> {}]
  /\ outcome = [c \in Calls |-> "none"]
  /\ prior = [c \in Calls |-> {}]
  /\ faults = 0

--------------------------------------------------------------------------------
(* Before the transaction.                                                  *)

Tick ==
  /\ clock < MaxClock
  /\ clock' = clock + 1
  /\ UNCHANGED <<pc, idx, win, held, txVars, outcome, prior, faults>>

Answer(c, what) ==
  /\ pc' = [pc EXCEPT ![c] = "done"]
  /\ outcome' = [outcome EXCEPT ![c] = what]

(* The call reads the clock and derives its counter keys from it; without  *)
(* a stateful constraint it passes at once.                                *)
Start(c) ==
  /\ pc[c] = "idle"
  /\ win' = [win EXCEPT ![c] = clock]
  /\ prior' = [prior EXCEPT ![c] = {d \in Calls : pc[d] = "done"}]
  /\ IF Cands[c] = <<>>
       THEN Answer(c, "pass")
       ELSE pc' = [pc EXCEPT ![c] = "connect"] /\ UNCHANGED outcome
  /\ UNCHANGED <<clock, idx, held, txVars, faults>>

(* A candidate cannot be built (no limit, or no numeric field), or the     *)
(* state authority's signed counter leaves no room: denied (here: declined) *)
(* before the store is touched.                                            *)
Decline(c) ==
  /\ pc[c] = "connect"
  /\ Answer(c, "declined")
  /\ UNCHANGED <<clock, idx, win, held, txVars, prior, faults>>

FirstStatement(c) == IF Idem[c] = NoKey THEN "insert" ELSE "check"

(* pool.connect and BEGIN. *)
Connect(c) ==
  /\ pc[c] = "connect"
  /\ Cardinality(held) < PoolSize
  /\ held' = held \cup {c}
  /\ idx' = [idx EXCEPT ![c] = 1]
  /\ pc' = [pc EXCEPT ![c] = FirstStatement(c)]
  /\ UNCHANGED <<clock, win, txVars, outcome, prior, faults>>

--------------------------------------------------------------------------------
(* The statements of the transaction.                                       *)

AdvanceOffByOne(c) ==
  IF idx[c] <= Len(Cands[c])
    THEN /\ idx' = [idx EXCEPT ![c] = @ + 1]
         /\ pc' = [pc EXCEPT ![c] = FirstStatement(c)]
    ELSE /\ pc' = [pc EXCEPT ![c] = "commit"]
         /\ UNCHANGED idx

(* The loop goes on to the next candidate, or to COMMIT after the last. *)
Advance(c) ==
  IF idx[c] < Len(Cands[c])
    THEN /\ idx' = [idx EXCEPT ![c] = @ + 1]
         /\ pc' = [pc EXCEPT ![c] = FirstStatement(c)]
    ELSE /\ pc' = [pc EXCEPT ![c] = "commit"]
         /\ UNCHANGED idx

(* SELECT 1 FROM ..._counter_events: sees committed rows and its own. *)
EventVisible(c, k) == <<Idem[c], k>> \in events \/ k \in newEvents[c]

(* An event marks the candidate as already reserved under this key: it is  *)
(* reported as passed and the counter is left alone.  No lock is taken.    *)
CheckEvent(c) ==
  /\ pc[c] = "check"
  /\ IF EventVisible(c, Here(c))
       THEN Advance(c)
       ELSE pc' = [pc EXCEPT ![c] = "insert"] /\ UNCHANGED idx
  /\ UNCHANGED <<clock, win, held, txVars, outcome, prior, faults>>

(* INSERT ... ON CONFLICT DO NOTHING: nothing for a committed row, a wait  *)
(* for a row another transaction has inserted and not committed.           *)
InsertRow(c) ==
  LET k == Here(c) IN
  /\ pc[c] = "insert"
  /\ k \in rows \/ lock[k] \in {Nobody, c}
  /\ pc' = [pc EXCEPT ![c] = "lock"]
  /\ lock' = IF k \in rows THEN lock ELSE [lock EXCEPT ![k] = c]
  /\ UNCHANGED <<clock, idx, win, held, rows, stored, working, events,
                 newEvents, charges, outcome, prior, faults>>

LockRowUnlocked(c) ==
  LET k == Here(c)
      current == IF lock[k] = c THEN working[k] ELSE stored[k]
  IN
  /\ pc[c] = "lock"
  /\ pc' = [pc EXCEPT ![c] =
              IF current + Cand(c).inc > Cand(c).limit THEN "deny" ELSE "update"]
  /\ UNCHANGED <<clock, idx, win, held, txVars, outcome, prior, faults>>

LockRowRefusesAtLimit(c) ==
  LET k == Here(c) IN
  /\ pc[c] = "lock"
  /\ lock[k] \in {Nobody, c}
  /\ lock' = [lock EXCEPT ![k] = c]
  /\ pc' = [pc EXCEPT ![c] =
              IF working[k] + Cand(c).inc >= Cand(c).limit THEN "deny" ELSE "update"]
  /\ UNCHANGED <<clock, idx, win, held, rows, stored, working, events,
                 newEvents, charges, outcome, prior, faults>>

(* SELECT ... FOR UPDATE, which waits for the row, then the limit check. *)
LockRow(c) ==
  LET k == Here(c) IN
  /\ pc[c] = "lock"
  /\ lock[k] \in {Nobody, c}
  /\ lock' = [lock EXCEPT ![k] = c]
  /\ pc' = [pc EXCEPT ![c] =
              IF working[k] + Cand(c).inc > Cand(c).limit THEN "deny" ELSE "update"]
  /\ UNCHANGED <<clock, idx, win, held, rows, stored, working, events,
                 newEvents, charges, outcome, prior, faults>>

UpdateRowAutocommit(c) ==
  LET k == Here(c) IN
  /\ pc[c] = "update"
  /\ lock[k] \in {Nobody, c}
  /\ lock' = [lock EXCEPT ![k] = c]
  /\ working' = [working EXCEPT ![k] = @ + Cand(c).inc]
  /\ stored' = [stored EXCEPT ![k] = working'[k]]
  /\ charges' = [charges EXCEPT ![c] = @ \cup {idx[c]}]
  /\ IF Idem[c] = NoKey THEN Advance(c) ELSE pc' = [pc EXCEPT ![c] = "event"] /\ UNCHANGED idx
  /\ UNCHANGED <<clock, win, held, rows, events, newEvents, outcome, prior, faults>>

(* UPDATE ... SET used_amount = used_amount + $2; it takes the row lock     *)
(* like any UPDATE, which the statement before it already holds.           *)
UpdateRow(c) ==
  LET k == Here(c) IN
  /\ pc[c] = "update"
  /\ lock[k] \in {Nobody, c}
  /\ lock' = [lock EXCEPT ![k] = c]
  /\ working' = [working EXCEPT ![k] = @ + Cand(c).inc]
  /\ charges' = [charges EXCEPT ![c] = @ \cup {idx[c]}]
  /\ IF Idem[c] = NoKey THEN Advance(c) ELSE pc' = [pc EXCEPT ![c] = "event"] /\ UNCHANGED idx
  /\ UNCHANGED <<clock, win, held, rows, stored, events, newEvents, outcome, prior, faults>>

RecordEventForgotten(c) ==
  /\ pc[c] = "event"
  /\ Advance(c)
  /\ UNCHANGED <<clock, win, held, txVars, outcome, prior, faults>>

(* INSERT INTO ..._counter_events ... ON CONFLICT DO NOTHING.  The same     *)
(* event of another open transaction would make it wait, but that one      *)
(* would hold this counter's row lock.                                     *)
RecordEvent(c) ==
  /\ pc[c] = "event"
  /\ newEvents' = [newEvents EXCEPT ![c] = @ \cup {Here(c)}]
  /\ Advance(c)
  /\ UNCHANGED <<clock, win, held, lock, rows, stored, working, events,
                 charges, outcome, prior, faults>>

--------------------------------------------------------------------------------
(* The ends of the transaction.                                             *)

Unlocked(c) == [k \in Counters |-> IF lock[k] = c THEN Nobody ELSE lock[k]]

(* ROLLBACK on the server. *)
Undo(c) ==
  /\ lock' = Unlocked(c)
  /\ working' = [k \in Counters |-> IF lock[k] = c THEN stored[k] ELSE working[k]]
  /\ newEvents' = [newEvents EXCEPT ![c] = {}]
  /\ charges' = [charges EXCEPT ![c] = {}]
  /\ UNCHANGED <<rows, stored, events>>

(* COMMIT on the server. *)
Install(c) ==
  /\ lock' = Unlocked(c)
  /\ stored' = [k \in Counters |-> IF lock[k] = c THEN working[k] ELSE stored[k]]
  /\ rows' = rows \cup {k \in Counters : lock[k] = c}
  /\ events' = events \cup {<<Idem[c], k>> : k \in newEvents[c]}
  /\ newEvents' = [newEvents EXCEPT ![c] = {}]
  /\ UNCHANGED <<working, charges>>

(* COMMIT, as the server performs it. *)
Commit(c) ==
  /\ pc[c] = "commit"
  /\ Install(c)
  /\ pc' = [pc EXCEPT ![c] = "committed"]
  /\ UNCHANGED <<clock, idx, win, held, outcome, prior, faults>>

ReturnKeepsClient(c) ==
  /\ pc[c] = "committed"
  /\ Answer(c, "pass")
  /\ UNCHANGED <<clock, idx, win, held, txVars, prior, faults>>

(* The answer of COMMIT arrives; finally releases the connection. *)
Return(c) ==
  /\ pc[c] = "committed"
  /\ Answer(c, "pass")
  /\ held' = held \ {c}
  /\ UNCHANGED <<clock, idx, win, txVars, prior, faults>>

RollbackCommits(c) ==
  /\ pc[c] = "deny"
  /\ Install(c)
  /\ Answer(c, "deny")
  /\ held' = held \ {c}
  /\ UNCHANGED <<clock, idx, win, prior, faults>>

(* Over the limit: ROLLBACK, denied, and the connection is released. *)
Rollback(c) ==
  /\ pc[c] = "deny"
  /\ Undo(c)
  /\ Answer(c, "deny")
  /\ held' = held \ {c}
  /\ UNCHANGED <<clock, idx, win, prior, faults>>

AbortWithoutRollback(c) ==
  /\ pc[c] = "failing"
  /\ Answer(c, "error")
  /\ held' = held \ {c}
  /\ UNCHANGED <<clock, idx, win, txVars, prior, faults>>

(* The catch block: ROLLBACK, rethrow, and the connection is released.     *)
(* A connection that broke is rolled back by the server.                   *)
Abort(c) ==
  /\ pc[c] = "failing"
  /\ Undo(c)
  /\ Answer(c, "error")
  /\ held' = held \ {c}
  /\ UNCHANGED <<clock, idx, win, prior, faults>>

--------------------------------------------------------------------------------
(* Failures.                                                                *)

Fault == faults < MaxFaults /\ faults' = faults + 1

(* pool.connect rejects: nothing to release. *)
ConnectFails(c) ==
  /\ Fault
  /\ pc[c] = "connect"
  /\ Answer(c, "error")
  /\ UNCHANGED <<clock, idx, win, held, txVars, prior>>

(* A statement rejects, COMMIT before it took effect among them. *)
StatementFails(c) ==
  /\ Fault
  /\ pc[c] \in InStatement
  /\ pc' = [pc EXCEPT ![c] = "failing"]
  /\ UNCHANGED <<clock, idx, win, held, txVars, outcome, prior>>

(* COMMIT took effect and its answer is lost: the call fails all the same. *)
CommitAnswerLost(c) ==
  /\ Fault
  /\ pc[c] = "committed"
  /\ Answer(c, "error")
  /\ held' = held \ {c}
  /\ UNCHANGED <<clock, idx, win, txVars, prior>>

(* Whom a statement of c is waiting for. *)
WaitsOn(c) ==
  IF /\ pc[c] = "lock" \/ (pc[c] = "insert" /\ Here(c) \notin rows)
     /\ lock[Here(c)] # c
  THEN lock[Here(c)]
  ELSE Nobody

OnCycle(c) == \E S \in SUBSET Calls : c \in S /\ {WaitsOn(d) : d \in S} = S

(* The deadlock detector fails a transaction that is part of a cycle. *)
DeadlockVictim(c) ==
  /\ OnCycle(c)
  /\ pc' = [pc EXCEPT ![c] = "failing"]
  /\ UNCHANGED <<clock, idx, win, held, txVars, outcome, prior, faults>>

--------------------------------------------------------------------------------

Statement(c) ==
  \/ CheckEvent(c) \/ InsertRow(c) \/ LockRow(c) \/ UpdateRow(c) \/ RecordEvent(c)
  \/ Commit(c) \/ Return(c) \/ Rollback(c) \/ Abort(c)

Failure(c) ==
  \/ ConnectFails(c) \/ StatementFails(c) \/ CommitAnswerLost(c) \/ DeadlockVictim(c)

(* Every call has been answered: nothing is left to do. *)
AllAnswered ==
  /\ \A c \in Calls : pc[c] = "done"
  /\ UNCHANGED vars

Next ==
  \/ Tick
  \/ \E c \in Calls : Start(c) \/ Decline(c) \/ Connect(c) \/ Statement(c) \/ Failure(c)
  \/ AllAnswered

Spec == Init /\ [][Next]_vars

(* The event loop and the database keep working: a call that can take its  *)
(* next statement does, and a deadlock is eventually detected.  Nothing    *)
(* obliges a caller to call, the clock to tick or a statement to fail.     *)
Fairness ==
  \A c \in Calls :
    /\ WF_vars(Connect(c))
    /\ WF_vars(Statement(c))
    /\ WF_vars(DeadlockVictim(c))

FairSpec == Spec /\ Fairness
--------------------------------------------------------------------------------
(* Properties.                                                              *)

ControlTypeOK ==
  /\ clock \in 0..MaxClock
  /\ pc \in [Calls -> PcStates]
  /\ idx \in [Calls -> Nat]
  /\ \A c \in Calls : pc[c] = "connect" => Cands[c] # <<>>
  /\ \A c \in Calls : pc[c] \in InTx => idx[c] \in DOMAIN Cands[c]
  /\ win \in [Calls -> 0..MaxClock]
  /\ held \subseteq Calls
  /\ outcome \in [Calls -> Outcomes]
  /\ prior \in [Calls -> SUBSET Calls]
  /\ faults \in 0..MaxFaults

TablesTypeOK ==
  /\ lock \in [Counters -> Calls \cup {Nobody}]
  /\ rows \subseteq Counters
  /\ stored \in [Counters -> Int]
  /\ working \in [Counters -> Int]
  /\ events \subseteq (IdemKeys \cup {NoKey}) \X Counters
  /\ newEvents \in [Calls -> SUBSET Counters]
  /\ charges \in [Calls -> SUBSET Nat]
  /\ \A c \in Calls : charges[c] \subseteq DOMAIN Cands[c]

(* Every variable has its type; a call that is working on a candidate is    *)
(* working on one that exists.                                              *)
TypeOK == ControlTypeOK /\ TablesTypeOK

(* v is within the limit some call puts on counter k.                       *)
Allowed(k, v) ==
  \E c \in Calls : \E i \in DOMAIN Cands[c] :
    Cands[c][i].base = k[1] /\ v <= Cands[c][i].limit

(* However calls interleave, fail or wait, a counter that was ever charged  *)
(* is committed with a value within a limit imposed on it (the limit, when  *)
(* the constraints that share the counter agree on it).                     *)
WithinLimit == \A k \in Counters : stored[k] = 0 \/ Allowed(k, stored[k])

Finished(c) == pc[c] \in {"committed", "done"}

(* A committed counter is the sum of the increments of the calls whose      *)
(* reservation took effect: no update is lost, none is left behind by a     *)
(* rollback, none is applied twice by one call.                             *)
NoLostUpdate ==
  \A k \in Counters :
    stored[k] = MapThenSumSet(
      LAMBDA x : Cands[x[1]][x[2]].inc,
      {x \in UNION {{c} \X charges[c] : c \in {d \in Calls : Finished(d)}} :
         CounterOf(x[1], x[2]) = k})

(* Candidate i of call c is paid for: by c itself, or by a committed event. *)
Paid(c, i) ==
  i \in charges[c] \/ (Idem[c] # NoKey /\ <<Idem[c], CounterOf(c, i)>> \in events)

(* One candidate of several that fails leaves no trace: a call that ends    *)
(* without a pass has charged nothing, unless its COMMIT took effect and    *)
(* only the answer was lost; a call that passes has paid for every          *)
(* candidate.                                                               *)
AllOrNothing ==
  \A c \in Calls : pc[c] = "done" =>
    LET paid == \A i \in DOMAIN Cands[c] : Paid(c, i) IN
    /\ outcome[c] = "pass" => paid
    /\ outcome[c] = "error" => charges[c] = {} \/ paid
    /\ outcome[c] \in {"deny", "declined"} => charges[c] = {}

(* A retry that starts after the first attempt was answered, whatever the   *)
(* answer, does not charge a counter that attempt was charged for, if both  *)
(* carry the same idempotency key and fall into the same window.            *)
SequentialRetryFree ==
  \A c \in Calls : \A d \in prior[c] : Idem[c] = Idem[d] /\ Idem[c] # NoKey =>
    \A i \in charges[c] : \A j \in charges[d] : CounterOf(c, i) # CounterOf(d, j)

(* Two calls with one idempotency key do not both charge a counter, started *)
(* one after the other or at the same time.                                 *)
NoDoubleCharge ==
  \A c, d \in Calls : c # d /\ Idem[c] = Idem[d] /\ Idem[c] # NoKey /\ Finished(c) /\ Finished(d) =>
    \A i \in charges[c] : \A j \in charges[d] : CounterOf(c, i) # CounterOf(d, j)

(* A connection goes back to the pool without an open transaction: only a   *)
(* call that holds a connection has rows locked.                            *)
NoLockLeak == \A k \in Counters : lock[k] \in held \cup {Nobody}

UnderWay(c) == pc[c] \notin {"idle", "done"}

(* A connection is free for c, or its statement waits for no row. *)
Ready(c) ==
  \/ pc[c] = "connect" /\ Cardinality(held) < PoolSize
  \/ pc[c] \in InTx \cup {"committed"} /\ WaitsOn(c) = Nobody

(* The calls under way never all wait: one of them gets its connection or   *)
(* its row, or the database finds the cycle they wait in.  Calls that wait  *)
(* for a connection hold no row, and rows are held by calls that will end.  *)
NeverStuck ==
  (\E c \in Calls : UnderWay(c)) => \E c \in Calls : Ready(c) \/ OnCycle(c)

(* A call that asks for a connection is answered: calls neither starve in   *)
(* the pool nor wait for each other's rows for ever.                        *)
EveryCallAnswered == \A c \in Calls : pc[c] = "connect" ~> pc[c] = "done"

(* The transaction implements the one-step ledger: its effect appears at    *)
(* COMMIT, all at once, and a refusal is true of the committed counters.    *)
Ledger == INSTANCE ReservationLedger WITH
  balance <- stored,
  recorded <- events,
  charged <- [c \in Calls |-> IF Finished(c) THEN charges[c] ELSE {}],
  settled <- {c \in Calls : pc[c] = "committed"},
  verdict <- outcome

ImplementsLedger == Ledger!LedgerSpec
================================================================================
