------------------------- MODULE StatefulReserve_proofs -------------------------
(***************************************************************************)
(* Proofs about StatefulReserve, for any calls, candidates, keys, pool size *)
(* and bounds.                                                              *)
(***************************************************************************)
EXTENDS StatefulReserve, TLAPS, FiniteSetTheorems, WellFoundedInduction

--------------------------------------------------------------------------------
(* Type correctness.                                                        *)

(* The candidate a call names exists, and its counter key is a counter.     *)
LEMMA CandidateType ==
  ASSUME ControlTypeOK, NEW c \in Calls, NEW i \in DOMAIN Cands[c]
  PROVE  /\ i \in 1..Len(Cands[c])
         /\ Cands[c][i].base \in Bases
         /\ Cands[c][i].inc \in Int
         /\ Cands[c][i].limit \in Int
         /\ CounterOf(c, i) \in Counters
<1>1. Cands[c] \in Seq(Candidate)
  BY CandsAssumption
<1>2. i \in 1..Len(Cands[c]) /\ Cands[c][i] \in Candidate
  BY <1>1
<1>3. Cands[c][i].base \in Bases /\ Cands[c][i].inc \in Int /\ Cands[c][i].limit \in Int
  BY <1>2 DEF Candidate
<1>4. win[c] \in 0..MaxClock /\ 0 \in 0..MaxClock
  BY BoundsAssumption DEF ControlTypeOK
<1>5. CounterOf(c, i) \in Counters
  BY <1>3, <1>4 DEF CounterOf, Counters, Window
<1> QED
  BY <1>2, <1>3, <1>5

(* The same for the candidate an open transaction is working on.            *)
LEMMA HereType ==
  ASSUME ControlTypeOK, NEW c \in Calls, pc[c] \in InTx
  PROVE  /\ idx[c] \in DOMAIN Cands[c]
         /\ idx[c] \in 1..Len(Cands[c])
         /\ Cand(c).inc \in Int
         /\ Cand(c).limit \in Int
         /\ Here(c) \in Counters
  BY CandidateType DEF ControlTypeOK, Cand, Here

LEMMA TypeInit == Init => TypeOK
  BY NobodyAssumption, CandsAssumption, BoundsAssumption
  DEF Init, TypeOK, ControlTypeOK, TablesTypeOK, Counters, PcStates, InTx,
      InStatement, Outcomes

(* Where the calls are, and that each has a candidate there.                *)
PcOK ==
  /\ pc \in [Calls -> PcStates]
  /\ idx \in [Calls -> Nat]
  /\ \A c \in Calls : pc[c] = "connect" => Cands[c] # <<>>
  /\ \A c \in Calls : pc[c] \in InTx => idx[c] \in DOMAIN Cands[c]

(* A step that moves one call to another statement, on the same candidate.  *)
LEMMA MoveType ==
  ASSUME ControlTypeOK, NEW c \in Calls, pc[c] \in InTx, NEW p \in PcStates \ {"connect"},
         pc' = [pc EXCEPT ![c] = p], UNCHANGED idx
  PROVE  PcOK'
  BY DEF ControlTypeOK, PcOK

(* Going on to the next candidate keeps to the candidates there are.        *)
LEMMA AdvanceType ==
  ASSUME ControlTypeOK, NEW c \in Calls, pc[c] \in InTx, Advance(c)
  PROVE  PcOK'
<1>1. Cands[c] \in Seq(Candidate) /\ idx[c] \in 1..Len(Cands[c])
  BY HereType, CandsAssumption
<1>2. CASE idx[c] < Len(Cands[c])
  <2>1. idx[c] + 1 \in DOMAIN Cands[c] /\ idx[c] + 1 \in Nat
    BY <1>1, <1>2
  <2>2. FirstStatement(c) \in PcStates \ {"connect"}
    BY DEF FirstStatement, PcStates, InTx, InStatement
  <2>3. pc' = [pc EXCEPT ![c] = FirstStatement(c)] /\ idx' = [idx EXCEPT ![c] = idx[c] + 1]
    BY <1>2 DEF Advance
  <2> QED
    BY <2>1, <2>2, <2>3 DEF ControlTypeOK, PcOK
<1>3. CASE ~(idx[c] < Len(Cands[c]))
  <2>1. /\ pc' = [pc EXCEPT ![c] = "commit"] /\ UNCHANGED idx
        /\ "commit" \in PcStates \ {"connect"}
    BY <1>3 DEF Advance, PcStates, InTx, InStatement
  <2> QED
    BY <2>1, MoveType
<1> QED
  BY <1>2, <1>3

LEMMA AnswerType ==
  ASSUME ControlTypeOK, NEW c \in Calls, NEW what \in Outcomes, Answer(c, what),
         UNCHANGED idx
  PROVE  PcOK' /\ outcome' \in [Calls -> Outcomes]
  BY DEF ControlTypeOK, PcOK, Answer, PcStates, InTx, InStatement

(* The tables after a transaction ended, on either side.                    *)
LEMMA UndoType ==
  ASSUME TablesTypeOK, NEW c \in Calls, Undo(c)
  PROVE  TablesTypeOK'
  BY DEF TablesTypeOK, Undo, Unlocked

LEMMA InstallType ==
  ASSUME TablesTypeOK, NEW c \in Calls, Install(c)
  PROVE  TablesTypeOK'
<1>1. Idem[c] \in IdemKeys \cup {NoKey} /\ newEvents[c] \subseteq Counters
  BY IdemAssumption DEF TablesTypeOK
<1>2. {<<Idem[c], k>> : k \in newEvents[c]} \subseteq (IdemKeys \cup {NoKey}) \X Counters
  BY <1>1
<1>3. events' \subseteq (IdemKeys \cup {NoKey}) \X Counters
  BY <1>2 DEF TablesTypeOK, Install
<1> QED
  BY <1>3 DEF TablesTypeOK, Install, Unlocked

(* Only a call whose statement waits for a row is a deadlock victim.        *)
LEMMA VictimWaits ==
  ASSUME NEW c \in Calls, DeadlockVictim(c)
  PROVE  pc[c] \in {"insert", "lock"}
<1>1. PICK S \in SUBSET Calls : c \in S /\ {WaitsOn(d) : d \in S} = S
  BY DEF DeadlockVictim, OnCycle
<1>2. WaitsOn(c) \in Calls
  BY <1>1
<1> QED
  BY <1>2, NobodyAssumption DEF WaitsOn

LEMMA TypeStep == TypeOK /\ [Next]_vars => TypeOK'
<1> SUFFICES ASSUME TypeOK, [Next]_vars
             PROVE  TypeOK'
  OBVIOUS
<1> USE DEF TypeOK
<1>1. CASE Tick
  BY <1>1, BoundsAssumption DEF Tick, txVars, ControlTypeOK, TablesTypeOK, Counters
<1>2. ASSUME NEW c \in Calls, Start(c)
      PROVE  TypeOK'
  <2>1. win' \in [Calls -> 0..MaxClock] /\ prior' \in [Calls -> SUBSET Calls]
    BY <1>2 DEF Start, ControlTypeOK
  <2>2. PcOK' /\ outcome' \in [Calls -> Outcomes]
    BY <1>2 DEF Start, Answer, ControlTypeOK, PcOK, PcStates, InTx, InStatement, Outcomes
  <2> QED
    BY <1>2, <2>1, <2>2 DEF Start, txVars, ControlTypeOK, PcOK, TablesTypeOK
<1>3. ASSUME NEW c \in Calls, Decline(c) \/ ConnectFails(c)
      PROVE  TypeOK'
  <2>1. \E what \in Outcomes : Answer(c, what)
    BY <1>3 DEF Decline, ConnectFails, Outcomes
  <2>2. UNCHANGED <<clock, idx, win, held, txVars, prior>> /\ faults' \in 0..MaxFaults
    BY <1>3, BoundsAssumption DEF Decline, ConnectFails, Fault, ControlTypeOK
  <2> QED
    BY <2>1, <2>2, AnswerType DEF txVars, ControlTypeOK, PcOK, TablesTypeOK
<1>4. ASSUME NEW c \in Calls, Connect(c)
      PROVE  TypeOK'
  <2>1. Cands[c] \in Seq(Candidate) /\ Cands[c] # <<>>
    BY <1>4, CandsAssumption DEF Connect, ControlTypeOK
  <2>2. 1 \in DOMAIN Cands[c]
    BY <2>1
  <2>3. FirstStatement(c) \in PcStates \ {"connect"}
    BY DEF FirstStatement, PcStates, InTx, InStatement
  <2>4. PcOK' /\ held' \subseteq Calls
    BY <1>4, <2>2, <2>3 DEF Connect, ControlTypeOK, PcOK
  <2> QED
    BY <1>4, <2>4 DEF Connect, txVars, ControlTypeOK, PcOK, TablesTypeOK
<1>5. ASSUME NEW c \in Calls, CheckEvent(c) \/ InsertRow(c) \/ LockRow(c)
      PROVE  TypeOK'
  <2>1. pc[c] \in InTx
    BY <1>5 DEF CheckEvent, InsertRow, LockRow, InTx, InStatement
  <2>2. PcOK'
    BY <1>5, <2>1, MoveType, AdvanceType
    DEF CheckEvent, InsertRow, LockRow, PcStates, InTx, InStatement
  <2>3. Here(c) \in Counters
    BY <2>1, HereType
  <2>4. lock' \in [Counters -> Calls \cup {Nobody}]
    BY <1>5, <2>3 DEF CheckEvent, InsertRow, LockRow, txVars, TablesTypeOK
  <2> QED
    BY <1>5, <2>2, <2>4 DEF CheckEvent, InsertRow, LockRow, txVars, ControlTypeOK, PcOK, TablesTypeOK
<1>6. ASSUME NEW c \in Calls, UpdateRow(c)
      PROVE  TypeOK'
  <2>1. pc[c] \in InTx
    BY <1>6 DEF UpdateRow, InTx, InStatement
  <2>2. PcOK'
    BY <1>6, <2>1, MoveType, AdvanceType DEF UpdateRow, PcStates, InTx, InStatement
  <2>3. Here(c) \in Counters /\ Cand(c).inc \in Int /\ idx[c] \in DOMAIN Cands[c] /\ idx[c] \in Nat
    BY <2>1, HereType DEF ControlTypeOK
  <2>4. TablesTypeOK'
    BY <1>6, <2>3 DEF UpdateRow, TablesTypeOK
  <2> QED
    BY <1>6, <2>2, <2>4 DEF UpdateRow, ControlTypeOK, PcOK
<1>7. ASSUME NEW c \in Calls, RecordEvent(c)
      PROVE  TypeOK'
  <2>1. pc[c] \in InTx
    BY <1>7 DEF RecordEvent, InTx, InStatement
  <2>2. PcOK' /\ Here(c) \in Counters
    BY <1>7, <2>1, AdvanceType, HereType DEF RecordEvent
  <2> QED
    BY <1>7, <2>2 DEF RecordEvent, ControlTypeOK, PcOK, TablesTypeOK
<1>8. ASSUME NEW c \in Calls, Commit(c)
      PROVE  TypeOK'
  <2>1. PcOK' /\ TablesTypeOK'
    BY <1>8, MoveType, InstallType DEF Commit, PcStates, InTx, InStatement
  <2> QED
    BY <1>8, <2>1 DEF Commit, ControlTypeOK, PcOK
<1>9. ASSUME NEW c \in Calls, Return(c) \/ CommitAnswerLost(c) \/ Rollback(c) \/ Abort(c)
      PROVE  TypeOK'
  <2>1. \E what \in Outcomes : Answer(c, what)
    BY <1>9 DEF Return, CommitAnswerLost, Rollback, Abort, Outcomes
  <2>2. PcOK' /\ outcome' \in [Calls -> Outcomes]
    BY <1>9, <2>1, AnswerType DEF Return, CommitAnswerLost, Rollback, Abort
  <2>3. TablesTypeOK'
    BY <1>9, UndoType DEF Return, CommitAnswerLost, Rollback, Abort, txVars, TablesTypeOK
  <2>4. faults' \in 0..MaxFaults
    BY <1>9, BoundsAssumption
    DEF Return, CommitAnswerLost, Rollback, Abort, Fault, ControlTypeOK
  <2> QED
    BY <1>9, <2>2, <2>3, <2>4
    DEF Return, CommitAnswerLost, Rollback, Abort, ControlTypeOK, PcOK
<1>10. ASSUME NEW c \in Calls, StatementFails(c) \/ DeadlockVictim(c)
       PROVE  TypeOK'
  <2>1. pc[c] \in InTx
    BY <1>10, VictimWaits DEF StatementFails, InTx, InStatement
  <2>2. pc' = [pc EXCEPT ![c] = "failing"] /\ UNCHANGED idx
    BY <1>10 DEF StatementFails, DeadlockVictim
  <2>3. "failing" \in PcStates \ {"connect"}
    BY DEF PcStates, InTx, InStatement
  <2>4. PcOK'
    BY <2>1, <2>2, <2>3, MoveType
  <2>5. faults' \in 0..MaxFaults
    BY <1>10, BoundsAssumption DEF StatementFails, DeadlockVictim, Fault, ControlTypeOK
  <2> QED
    BY <1>10, <2>4, <2>5
    DEF StatementFails, DeadlockVictim, txVars, ControlTypeOK, PcOK, TablesTypeOK
<1>11. CASE UNCHANGED vars
  BY <1>11 DEF vars, txVars, ControlTypeOK, TablesTypeOK
<1> QED
  BY <1>1, <1>2, <1>3, <1>4, <1>5, <1>6, <1>7, <1>8, <1>9, <1>10, <1>11
  DEF Next, Statement, Failure, AllAnswered

(* Every reachable state is well typed.                                     *)
THEOREM TypeCorrect == Spec => []TypeOK
  BY TypeInit, TypeStep, PTL DEF Spec

--------------------------------------------------------------------------------
(* The inductive invariant.                                                 *)

(* Rows are locked by open transactions only, those hold a connection, and  *)
(* the row of a free counter has one version.                               *)
LockInv ==
  /\ \A k \in Counters : \A c \in Calls : lock[k] = c => pc[c] \in InTx
  /\ \A c \in Calls : pc[c] \in InTx \cup {"committed"} => c \in held
  /\ \A k \in Counters : lock[k] = Nobody => working[k] = stored[k]

(* Both versions of a row are within a limit, and what the limit check      *)
(* established is still true when the update is performed.                  *)
LimitInv ==
  /\ WithinLimit
  /\ \A k \in Counters : working[k] = 0 \/ Allowed(k, working[k])
  /\ \A c \in Calls : pc[c] = "update" =>
       /\ lock[Here(c)] = c
       /\ working[Here(c)] + Cand(c).inc <= Cand(c).limit

Keyed(c) == Idem[c] # NoKey
OnRecord(c, i) == <<Idem[c], CounterOf(c, i)>> \in events

(* A charge under a key has its event, committed or in the transaction;     *)
(* nothing is charged before the transaction or pending after it.           *)
EventInv ==
  /\ \A c \in Calls : pc[c] \in {"idle", "connect"} => charges[c] = {}
  /\ \A c \in Calls : pc[c] \in {"idle", "connect", "committed", "done"} => newEvents[c] = {}
  /\ \A c \in Calls : pc[c] \in {"check", "event"} => Keyed(c)
  /\ \A c \in Calls : Keyed(c) => \A i \in charges[c] :
       \/ OnRecord(c, i)
       \/ CounterOf(c, i) \in newEvents[c]
       \/ pc[c] = "event" /\ i = idx[c]
       \/ pc[c] = "failing"

(* A retry of an answered call does not get past the event check for a      *)
(* counter that call was charged for.                                       *)
RetryInv ==
  \A c \in Calls : \A d \in prior[c] :
    /\ pc[d] = "done"
    /\ Idem[c] = Idem[d] /\ Keyed(c) => \A j \in charges[d] :
         /\ \A i \in charges[c] : CounterOf(c, i) # CounterOf(d, j)
         /\ pc[c] \in {"insert", "lock", "update"} => Here(c) # CounterOf(d, j)

(* Candidate i of c is dealt with, as the transaction of c sees it.         *)
Settled(c, i) ==
  i \in charges[c] \/ (Keyed(c) /\ (OnRecord(c, i) \/ CounterOf(c, i) \in newEvents[c]))

(* The candidates before the current one are dealt with.                    *)
PaidInv ==
  /\ AllOrNothing
  /\ \A c \in Calls : pc[c] \in {"check", "insert", "lock", "update"} =>
       \A i \in DOMAIN Cands[c] : i < idx[c] => Settled(c, i)
  /\ \A c \in Calls : pc[c] = "event" =>
       \A i \in DOMAIN Cands[c] : i <= idx[c] => Settled(c, i)
  /\ \A c \in Calls : pc[c] = "commit" => \A i \in DOMAIN Cands[c] : Settled(c, i)
  /\ \A c \in Calls : pc[c] = "committed" => \A i \in DOMAIN Cands[c] : Paid(c, i)

IInv == TypeOK /\ LockInv /\ LimitInv /\ EventInv /\ RetryInv /\ PaidInv

LEMMA InvInit == Init => IInv
<1> SUFFICES ASSUME Init PROVE IInv
  OBVIOUS
<1>1. TypeOK
  BY TypeInit
<1>2. LockInv /\ EventInv /\ RetryInv
  BY NobodyAssumption DEF Init, LockInv, EventInv, RetryInv, InTx, InStatement
<1>3. LimitInv
  BY DEF Init, LimitInv, WithinLimit
<1>4. PaidInv
  BY DEF Init, PaidInv, AllOrNothing
<1> QED
  BY <1>1, <1>2, <1>3, <1>4 DEF IInv

(* Every statement but the ends leaves the other calls where they are.      *)
LEMMA AdvanceMoves ==
  ASSUME ControlTypeOK, NEW c \in Calls, Advance(c)
  PROVE  /\ \A d \in Calls \ {c} : pc'[d] = pc[d] /\ idx'[d] = idx[d]
         /\ pc'[c] \in {"check", "insert", "commit"}
         /\ pc'[c] = "check" => Idem[c] # NoKey
         /\ pc'[c] \in {"check", "insert"} => idx'[c] = idx[c] + 1
         /\ pc'[c] = "commit" => idx[c] >= Len(Cands[c])
  BY CandsAssumption DEF Advance, FirstStatement, ControlTypeOK

(* What a step of one call leaves alone in every other call.                *)
CallStep(c) ==
  \/ Start(c) \/ Decline(c) \/ Connect(c) \/ Statement(c) \/ Failure(c)

SameCall(d) ==
  /\ pc'[d] = pc[d] /\ idx'[d] = idx[d] /\ win'[d] = win[d]
  /\ newEvents'[d] = newEvents[d] /\ charges'[d] = charges[d]
  /\ outcome'[d] = outcome[d] /\ prior'[d] = prior[d]
  /\ (d \in held' <=> d \in held)

LEMMA OneMoves ==
  ASSUME TypeOK, NEW c \in Calls, CallStep(c), NEW d \in Calls, d # c
  PROVE  SameCall(d)
<1> USE DEF SameCall, TypeOK, ControlTypeOK, TablesTypeOK, txVars
<1>1. CASE Start(c) \/ Decline(c) \/ ConnectFails(c) \/ Connect(c)
  BY <1>1 DEF Start, Decline, ConnectFails, Connect, Answer
<1>2. CASE CheckEvent(c) \/ RecordEvent(c)
  BY <1>2, AdvanceMoves DEF CheckEvent, RecordEvent
<1>3. CASE InsertRow(c) \/ LockRow(c) \/ StatementFails(c) \/ DeadlockVictim(c)
  BY <1>3 DEF InsertRow, LockRow, StatementFails, DeadlockVictim
<1>4. CASE UpdateRow(c)
  BY <1>4, AdvanceMoves DEF UpdateRow
<1>5. CASE Commit(c)
  BY <1>5 DEF Commit, Install
<1>6. CASE Return(c) \/ CommitAnswerLost(c) \/ Rollback(c) \/ Abort(c)
  BY <1>6 DEF Return, CommitAnswerLost, Rollback, Abort, Answer, Undo
<1> QED
  BY <1>1, <1>2, <1>3, <1>4, <1>5, <1>6 DEF CallStep, Statement, Failure

(* What a step of c does to the rows it has not locked: nothing but lock    *)
(* free ones.                                                               *)
LEMMA RowsOfOthers ==
  ASSUME TypeOK, NEW c \in Calls, CallStep(c), NEW k \in Counters
  PROVE  /\ lock[k] \notin {c, Nobody} =>
              lock'[k] = lock[k] /\ working'[k] = working[k] /\ stored'[k] = stored[k]
         /\ lock'[k] \in {lock[k], c, Nobody}
<1> USE DEF TypeOK, ControlTypeOK, TablesTypeOK, txVars
<1>1. CASE Start(c) \/ Decline(c) \/ ConnectFails(c) \/ Connect(c)
  BY <1>1 DEF Start, Decline, ConnectFails, Connect
<1>2. CASE CheckEvent(c) \/ RecordEvent(c) \/ StatementFails(c) \/ DeadlockVictim(c)
  BY <1>2 DEF CheckEvent, RecordEvent, StatementFails, DeadlockVictim
<1>3. CASE InsertRow(c) \/ LockRow(c)
  BY <1>3 DEF InsertRow, LockRow
<1>4. CASE UpdateRow(c)
  BY <1>4 DEF UpdateRow
<1>5. CASE Commit(c)
  BY <1>5 DEF Commit, Install, Unlocked
<1>6. CASE Return(c) \/ CommitAnswerLost(c)
  BY <1>6 DEF Return, CommitAnswerLost
<1>7. CASE Rollback(c) \/ Abort(c)
  BY <1>7 DEF Rollback, Abort, Undo, Unlocked
<1> QED
  BY <1>1, <1>2, <1>3, <1>4, <1>5, <1>6, <1>7 DEF CallStep, Statement, Failure

LEMMA LockStep == IInv /\ [Next]_vars => LockInv'
<1> SUFFICES ASSUME IInv, [Next]_vars
             PROVE  LockInv'
  OBVIOUS
<1> USE DEF IInv, TypeOK, txVars
<1>1. CASE Tick \/ UNCHANGED vars
  BY <1>1 DEF Tick, vars, Counters, LockInv
<1>2. ASSUME NEW c \in Calls, CallStep(c)
      PROVE  LockInv'
  <2> USE DEF LockInv
  <2>1. ASSUME NEW k \in Counters, lock'[k] = c
        PROVE  pc'[c] \in InTx
    <3> USE <2>1, NobodyAssumption DEF InTx, InStatement
    <3>1. CASE Start(c) \/ Decline(c) \/ ConnectFails(c) \/ Connect(c)
      BY <3>1 DEF Start, Decline, ConnectFails, Connect
    <3>2. CASE CheckEvent(c) \/ UpdateRow(c) \/ RecordEvent(c)
      BY <3>2, AdvanceMoves DEF CheckEvent, UpdateRow, RecordEvent, ControlTypeOK
    <3>3. CASE InsertRow(c) \/ LockRow(c) \/ StatementFails(c) \/ DeadlockVictim(c)
      BY <3>3 DEF InsertRow, LockRow, StatementFails, DeadlockVictim, ControlTypeOK
    <3>4. CASE Return(c) \/ CommitAnswerLost(c)
      BY <3>4 DEF Return, CommitAnswerLost
    <3>5. CASE Commit(c) \/ Rollback(c) \/ Abort(c)
      BY <3>5 DEF Commit, Rollback, Abort, Install, Undo, Unlocked
    <3> QED
      BY <1>2, <3>1, <3>2, <3>3, <3>4, <3>5 DEF CallStep, Statement, Failure
  <2>2. (pc'[c] \in InTx \cup {"committed"}) => c \in held'
    <3> USE DEF InTx, InStatement, ControlTypeOK
    <3>1. CASE Start(c) \/ Decline(c) \/ ConnectFails(c) \/ Connect(c)
      BY <3>1 DEF Start, Decline, ConnectFails, Connect, Answer
    <3>2. CASE CheckEvent(c) \/ InsertRow(c) \/ LockRow(c) \/ UpdateRow(c) \/ RecordEvent(c)
      BY <3>2 DEF CheckEvent, InsertRow, LockRow, UpdateRow, RecordEvent
    <3>3. CASE Commit(c) \/ StatementFails(c)
      BY <3>3 DEF Commit, StatementFails
    <3>4. CASE DeadlockVictim(c)
      BY <3>4, VictimWaits DEF DeadlockVictim
    <3>5. CASE Return(c) \/ CommitAnswerLost(c) \/ Rollback(c) \/ Abort(c)
      BY <3>5 DEF Return, CommitAnswerLost, Rollback, Abort, Answer
    <3> QED
      BY <1>2, <3>1, <3>2, <3>3, <3>4, <3>5 DEF CallStep, Statement, Failure
  <2>3. ASSUME NEW k \in Counters, lock'[k] = Nobody
        PROVE  working'[k] = stored'[k]
    <3> USE <2>3, NobodyAssumption DEF TablesTypeOK
    <3>1. CASE Start(c) \/ Decline(c) \/ ConnectFails(c) \/ Connect(c)
      BY <3>1 DEF Start, Decline, ConnectFails, Connect
    <3>2. CASE CheckEvent(c) \/ InsertRow(c) \/ LockRow(c) \/ RecordEvent(c)
      BY <3>2 DEF CheckEvent, InsertRow, LockRow, RecordEvent
    <3>3. CASE UpdateRow(c)
      BY <3>3 DEF UpdateRow
    <3>4. CASE Return(c) \/ CommitAnswerLost(c) \/ StatementFails(c) \/ DeadlockVictim(c)
      BY <3>4 DEF Return, CommitAnswerLost, StatementFails, DeadlockVictim
    <3>5. CASE Commit(c) \/ Rollback(c) \/ Abort(c)
      BY <3>5 DEF Commit, Rollback, Abort, Install, Undo, Unlocked
    <3> QED
      BY <1>2, <3>1, <3>2, <3>3, <3>4, <3>5 DEF CallStep, Statement, Failure
  <2> QED
    BY <1>2, <2>1, <2>2, <2>3, OneMoves, RowsOfOthers, NobodyAssumption DEF SameCall
<1> QED
  BY <1>1, <1>2 DEF Next, AllAnswered, CallStep

(* A call's counter keys stay the same from its start on.                   *)
LEMMA KeysStay ==
  ASSUME TypeOK, NEW c \in Calls, CallStep(c), NEW d \in Calls, d # c \/ pc[d] # "idle"
  PROVE  /\ win'[d] = win[d]
         /\ \A i : CounterOf(d, i)' = CounterOf(d, i)
<1>1. CASE d # c
  BY <1>1, OneMoves DEF SameCall, CounterOf
<1>2. CASE d = c
  <2>1. win' = win
    BY <1>2 DEF CallStep, Statement, Failure, Start, Decline, Connect, CheckEvent, InsertRow,
       LockRow, UpdateRow, RecordEvent, Commit, Return, Rollback, Abort, ConnectFails,
       StatementFails, CommitAnswerLost, DeadlockVictim
  <2> QED
    BY <2>1 DEF CounterOf
<1> QED
  BY <1>1, <1>2

LEMMA LimitStep == IInv /\ [Next]_vars => LimitInv'
<1> SUFFICES ASSUME IInv, [Next]_vars
             PROVE  LimitInv'
  OBVIOUS
<1> USE DEF IInv, TypeOK
<1>1. CASE Tick \/ UNCHANGED vars
  BY <1>1 DEF Tick, vars, txVars, LimitInv, WithinLimit, Allowed, Counters, Here, Cand, CounterOf
<1>2. ASSUME NEW c \in Calls, CallStep(c)
      PROVE  LimitInv'
  <2> USE DEF LimitInv, WithinLimit
  <2>0. \A k, v : Allowed(k, v)' = Allowed(k, v')
    BY DEF Allowed
  <2>1. ASSUME NEW k \in Counters
        PROVE  /\ stored'[k] \in {stored[k], working[k]}
               /\ working'[k] \in {stored[k], working[k]} \/ (UpdateRow(c) /\ k = Here(c))
    <3> USE DEF TablesTypeOK, txVars
    <3>1. CASE Start(c) \/ Decline(c) \/ Connect(c) \/ CheckEvent(c) \/ ConnectFails(c)
      BY <3>1 DEF Start, Decline, Connect, CheckEvent, ConnectFails
    <3>2. CASE InsertRow(c) \/ LockRow(c) \/ RecordEvent(c) \/ StatementFails(c) \/ DeadlockVictim(c)
      BY <3>2 DEF InsertRow, LockRow, RecordEvent, StatementFails, DeadlockVictim
    <3>3. CASE UpdateRow(c)
      BY <3>3 DEF UpdateRow
    <3>4. CASE Return(c) \/ CommitAnswerLost(c)
      BY <3>4 DEF Return, CommitAnswerLost
    <3>5. CASE Commit(c) \/ Rollback(c) \/ Abort(c)
      BY <3>5 DEF Commit, Rollback, Abort, Install, Undo
    <3> QED
      BY <1>2, <3>1, <3>2, <3>3, <3>4, <3>5 DEF CallStep, Statement, Failure
  <2>2. ASSUME UpdateRow(c)
        PROVE  Allowed(Here(c), working'[Here(c)])
    <3>1. pc[c] \in InTx /\ pc[c] = "update"
      BY <2>2 DEF UpdateRow, InTx, InStatement
    <3>2. idx[c] \in DOMAIN Cands[c] /\ Here(c) \in Counters
      BY <3>1, HereType
    <3>3. working'[Here(c)] <= Cand(c).limit
      BY <2>2, <3>1, <3>2 DEF UpdateRow, TablesTypeOK
    <3>4. Cands[c][idx[c]].base = Here(c)[1]
      BY DEF Here, CounterOf
    <3> QED
      BY <3>2, <3>3, <3>4 DEF Allowed, Cand
  <2>3. WithinLimit' /\ \A k \in Counters : working'[k] = 0 \/ Allowed(k, working'[k])
    BY <2>1, <2>2 DEF Allowed, Counters
  <2>4. ASSUME NEW d \in Calls, pc'[d] = "update"
        PROVE  lock'[Here(d)'] = d /\ working'[Here(d)'] + Cand(d)'.inc <= Cand(d)'.limit
    <3>1. CASE d # c
      <4>1. pc[d] = "update" /\ pc[d] \in InTx /\ Here(d)' = Here(d) /\ Cand(d)' = Cand(d)
        BY <2>4, <3>1, <1>2, OneMoves, KeysStay DEF SameCall, Here, CounterOf, Cand, InTx, InStatement
      <4>2. Here(d) \in Counters /\ lock[Here(d)] = d
        BY <4>1, HereType
      <4> QED
        BY <4>1, <4>2, <3>1, <1>2, RowsOfOthers, NobodyAssumption
    <3>2. CASE d = c
      <4>1. LockRow(c)
        <5>1. ASSUME Advance(c) PROVE pc'[c] # "update"
          BY <5>1, AdvanceMoves
        <5> QED
          BY <1>2, <2>4, <3>2, <5>1
          DEF CallStep, Statement, Failure, Start, Decline, Connect, CheckEvent, InsertRow,
              LockRow, UpdateRow, RecordEvent, Commit, Return, Rollback, Abort, ConnectFails,
              StatementFails, CommitAnswerLost, DeadlockVictim, Answer, FirstStatement,
              ControlTypeOK
      <4>2. pc[c] \in InTx /\ Here(c)' = Here(c) /\ Cand(c)' = Cand(c)
        BY <4>1 DEF LockRow, Here, CounterOf, Cand, InTx, InStatement
      <4>3. Here(c) \in Counters /\ Cand(c).inc \in Int /\ Cand(c).limit \in Int
        BY <4>2, HereType
      <4> QED
        BY <2>4, <3>2, <4>1, <4>2, <4>3 DEF LockRow, ControlTypeOK, TablesTypeOK
    <3> QED
      BY <3>1, <3>2
  <2> QED
    BY <2>3, <2>4 DEF Allowed, Counters
<1> QED
  BY <1>1, <1>2 DEF Next, AllAnswered, CallStep

(* Committed events are never removed.                                      *)
LEMMA EventsGrow ==
  ASSUME NEW c \in Calls, CallStep(c)
  PROVE  events \subseteq events'
  BY DEF CallStep, Statement, Failure, Start, Decline, Connect, CheckEvent, InsertRow, LockRow,
     UpdateRow, RecordEvent, Commit, Return, Rollback, Abort, ConnectFails, StatementFails,
     CommitAnswerLost, DeadlockVictim, Undo, Install, txVars

LEMMA EventStep == IInv /\ [Next]_vars => EventInv'
<1> SUFFICES ASSUME IInv, [Next]_vars
             PROVE  EventInv'
  OBVIOUS
<1> USE DEF IInv, TypeOK
<1>1. CASE Tick \/ UNCHANGED vars
  BY <1>1 DEF Tick, vars, txVars, EventInv, Keyed, OnRecord, CounterOf
<1>2. ASSUME NEW c \in Calls, CallStep(c)
      PROVE  EventInv'
  <2> DEFINE Recorded(d) ==
        Keyed(d) => \A i \in charges[d] :
          \/ OnRecord(d, i)
          \/ CounterOf(d, i) \in newEvents[d]
          \/ pc[d] = "event" /\ i = idx[d]
          \/ pc[d] = "failing"
  <2> DEFINE Ev(d) ==
        /\ pc[d] \in {"idle", "connect"} => charges[d] = {}
        /\ pc[d] \in {"idle", "connect", "committed", "done"} => newEvents[d] = {}
        /\ pc[d] \in {"check", "event"} => Keyed(d)
        /\ Recorded(d)
  <2>0. \A d \in Calls : Ev(d)
    BY DEF EventInv
  <2>1. ASSUME NEW d \in Calls, d # c
        PROVE  Ev(d)'
    <3>1. SameCall(d) /\ \A i : CounterOf(d, i)' = CounterOf(d, i)
      BY <1>2, <2>1, OneMoves, KeysStay
    <3>2. \A i : OnRecord(d, i) => OnRecord(d, i)'
      BY <1>2, <3>1, EventsGrow DEF OnRecord
    <3> QED
      BY <2>0, <3>1, <3>2 DEF SameCall, Keyed
  <2>2. Ev(c)'
    <3> USE DEF ControlTypeOK, TablesTypeOK, txVars
    <3>0. Ev(c) /\ (Keyed(c)' <=> Keyed(c))
      BY <2>0 DEF Keyed
    <3>1. CASE Start(c)
      BY <3>0, <3>1 DEF Start, Answer
    <3>2. ASSUME pc[c] # "idle"
          PROVE  /\ \A i : CounterOf(c, i)' = CounterOf(c, i)
                 /\ \A i : OnRecord(c, i) => OnRecord(c, i)'
      BY <1>2, <3>2, KeysStay, EventsGrow DEF OnRecord
    <3>3. CASE Decline(c) \/ ConnectFails(c)
      BY <3>0, <3>3 DEF Decline, ConnectFails, Answer
    <3>4. CASE Connect(c)
      BY <3>0, <3>4 DEF Connect, FirstStatement, Keyed
    <3>5. CASE CheckEvent(c)
      <4>1. pc'[c] \in {"check", "insert", "commit"} /\ (pc'[c] = "check" => Keyed(c))
        BY <3>5, AdvanceMoves DEF CheckEvent, Keyed
      <4>2. charges'[c] = charges[c] /\ newEvents'[c] = newEvents[c] /\ pc[c] = "check"
        BY <3>5 DEF CheckEvent
      <4> QED
        BY <3>0, <3>2, <4>1, <4>2
    <3>6. CASE InsertRow(c) \/ LockRow(c)
      <4>1. /\ charges'[c] = charges[c] /\ newEvents'[c] = newEvents[c]
            /\ pc[c] \in {"insert", "lock"} /\ pc'[c] \in {"lock", "update", "deny"}
        BY <3>6 DEF InsertRow, LockRow
      <4> QED
        BY <3>0, <3>2, <4>1
    <3>7. CASE UpdateRow(c)
      <4>1. newEvents' = newEvents /\ charges'[c] = charges[c] \cup {idx[c]} /\ pc[c] = "update"
        BY <3>7 DEF UpdateRow
      <4>2. CASE Keyed(c)
        <5>1. pc'[c] = "event" /\ idx' = idx
          BY <3>7, <4>2 DEF UpdateRow, Keyed
        <5> QED
          BY <3>0, <3>2, <4>1, <4>2, <5>1
      <4>3. CASE ~Keyed(c)
        <5>1. pc'[c] \in {"insert", "commit"}
          BY <3>7, <4>3, AdvanceMoves DEF UpdateRow, Keyed
        <5> QED
          BY <3>0, <4>1, <4>3, <5>1
      <4> QED
        BY <4>2, <4>3
    <3>8. CASE RecordEvent(c)
      <4>1. /\ newEvents'[c] = newEvents[c] \cup {CounterOf(c, idx[c])}
            /\ charges'[c] = charges[c] /\ pc[c] = "event"
        BY <3>8 DEF RecordEvent, Here
      <4>2. pc'[c] \in {"check", "insert", "commit"} /\ (pc'[c] = "check" => Keyed(c))
        BY <3>8, AdvanceMoves DEF RecordEvent, Keyed
      <4> QED
        BY <3>0, <3>2, <4>1, <4>2
    <3>9. CASE Commit(c)
      <4>1. /\ newEvents'[c] = {} /\ charges'[c] = charges[c]
            /\ pc[c] = "commit" /\ pc'[c] = "committed"
            /\ \A k \in newEvents[c] : <<Idem[c], k>> \in events'
        BY <3>9 DEF Commit, Install
      <4> QED
        BY <3>0, <3>2, <4>1 DEF OnRecord
    <3>10. CASE Return(c) \/ CommitAnswerLost(c)
      <4>1. /\ newEvents'[c] = newEvents[c] /\ charges'[c] = charges[c]
            /\ pc[c] = "committed" /\ pc'[c] = "done"
        BY <3>10 DEF Return, CommitAnswerLost, Answer
      <4> QED
        BY <3>0, <3>2, <4>1
    <3>11. CASE Rollback(c) \/ Abort(c)
      BY <3>11 DEF Rollback, Abort, Undo, Answer
    <3>12. CASE StatementFails(c) \/ DeadlockVictim(c)
      <4>1. pc'[c] = "failing" /\ pc[c] # "idle"
        BY <3>12, VictimWaits DEF StatementFails, DeadlockVictim, InStatement
      <4> QED
        BY <4>1
    <3> QED
      BY <1>2, <3>1, <3>3, <3>4, <3>5, <3>6, <3>7, <3>8, <3>9, <3>10, <3>11, <3>12
      DEF CallStep, Statement, Failure
  <2>3. \A d \in Calls : Ev(d)'
    BY <2>1, <2>2
  <2> QED
    BY <2>3 DEF EventInv
<1> QED
  BY <1>1, <1>2 DEF Next, AllAnswered, CallStep

(* An answered call takes no step.                                          *)
LEMMA DoneStays ==
  ASSUME NEW c \in Calls, CallStep(c)
  PROVE  pc[c] # "done"
  BY VictimWaits DEF CallStep, Statement, Failure, Start, Decline, Connect, CheckEvent, InsertRow,
     LockRow, UpdateRow, RecordEvent, Commit, Return, Rollback, Abort, ConnectFails,
     StatementFails, CommitAnswerLost, DeadlockVictim, InStatement

LEMMA RetryStep == IInv /\ [Next]_vars => RetryInv'
<1> SUFFICES ASSUME IInv, [Next]_vars
             PROVE  RetryInv'
  OBVIOUS
<1> USE DEF IInv, TypeOK
<1>1. CASE Tick \/ UNCHANGED vars
  BY <1>1 DEF Tick, vars, txVars, RetryInv, Keyed, Here, CounterOf
<1>2. ASSUME NEW c \in Calls, CallStep(c)
      PROVE  RetryInv'
  <2> DEFINE Apart(a, d) ==
        \A j \in charges[d] :
          /\ \A i \in charges[a] : CounterOf(a, i) # CounterOf(d, j)
          /\ pc[a] \in {"insert", "lock", "update"} => Here(a) # CounterOf(d, j)
  <2>1. ASSUME NEW d \in Calls, pc[d] = "done"
        PROVE  d # c /\ SameCall(d) /\ \A i : CounterOf(d, i)' = CounterOf(d, i)
    BY <1>2, <2>1, DoneStays, OneMoves, KeysStay
  <2>2. ASSUME NEW a \in Calls, a # c, NEW d \in prior'[a]
        PROVE  pc'[d] = "done" /\ (Idem[a] = Idem[d] /\ Keyed(a) => Apart(a, d)')
    <3>1. SameCall(a) /\ \A i : CounterOf(a, i)' = CounterOf(a, i)
      BY <1>2, <2>2, OneMoves, KeysStay
    <3>2. d \in Calls /\ d \in prior[a] /\ pc[d] = "done"
      BY <2>2, <3>1 DEF SameCall, RetryInv, ControlTypeOK
    <3>3. Idem[a] = Idem[d] /\ Keyed(a) => Apart(a, d)
      BY <2>2, <3>2 DEF RetryInv
    <3> QED
      BY <2>1, <3>1, <3>2, <3>3 DEF SameCall, Here
  <2>3. ASSUME NEW d \in prior'[c]
        PROVE  pc'[d] = "done" /\ (Idem[c] = Idem[d] /\ Keyed(c) => Apart(c, d)')
    <3> USE DEF ControlTypeOK, TablesTypeOK, txVars
    <3>1. CASE Start(c)
      <4>1. d \in Calls /\ pc[d] = "done"
        BY <2>3, <3>1 DEF Start
      <4>2. charges'[c] = {} /\ pc'[c] \in {"connect", "done"}
        BY <3>1 DEF Start, Answer, EventInv
      <4> QED
        BY <2>1, <4>1, <4>2 DEF SameCall
    <3>2. CASE ~Start(c)
      <4>1. prior' = prior /\ pc[c] # "idle"
        BY <1>2, <3>2, VictimWaits DEF CallStep, Statement, Failure, Start, Decline, Connect, CheckEvent,
           InsertRow, LockRow, UpdateRow, RecordEvent, Commit, Return, Rollback, Abort,
           ConnectFails, StatementFails, CommitAnswerLost, DeadlockVictim, InStatement
      <4>2. d \in Calls /\ d \in prior[c] /\ pc[d] = "done"
        BY <2>3, <4>1 DEF RetryInv
      <4>3. SameCall(d) /\ \A i : CounterOf(d, i)' = CounterOf(d, i)
        BY <2>1, <4>2
      <4>4. \A i : CounterOf(c, i)' = CounterOf(c, i)
        BY <1>2, <4>1, KeysStay
      <4>5. ASSUME Idem[c] = Idem[d], Keyed(c)
            PROVE  Apart(c, d)'
        <5>1. Apart(c, d)
          BY <4>2, <4>5 DEF RetryInv
        <5>2. SUFFICES ASSUME NEW j \in charges[d]
              PROVE  /\ \A i \in charges'[c] : CounterOf(c, i) # CounterOf(d, j)
                     /\ pc'[c] \in {"insert", "lock", "update"} => Here(c)' # CounterOf(d, j)
          BY <4>3, <4>4 DEF SameCall
        <5>3. <<Idem[c], CounterOf(d, j)>> \in events
          BY <4>2, <4>5, <5>2 DEF EventInv, Keyed, OnRecord
        <5>4. CASE Decline(c) \/ ConnectFails(c)
          BY <5>1, <5>2, <5>4 DEF Decline, ConnectFails, Answer
        <5>5. CASE Connect(c)
          BY <4>5, <5>1, <5>2, <5>5 DEF Connect, FirstStatement, Keyed
        <5>6. ASSUME Advance(c) PROVE pc'[c] \in {"check", "commit"}
          BY <4>5, <5>6 DEF Advance, FirstStatement, Keyed
        <5>7. CASE CheckEvent(c)
          <6>1. charges' = charges
            BY <5>7 DEF CheckEvent
          <6>2. CASE EventVisible(c, Here(c))
            BY <5>1, <5>2, <5>6, <5>7, <6>1, <6>2 DEF CheckEvent
          <6>3. CASE ~EventVisible(c, Here(c))
            <7>1. Here(c) # CounterOf(d, j) /\ Here(c)' = CounterOf(c, idx[c])
              BY <4>4, <5>3, <5>7, <6>3 DEF EventVisible, CheckEvent, Here
            <7> QED
              BY <5>1, <5>2, <6>1, <7>1 DEF Here
          <6> QED
            BY <6>2, <6>3
        <5>8. CASE InsertRow(c) \/ LockRow(c)
          <6>1. /\ charges' = charges /\ idx' = idx
                /\ pc[c] \in {"insert", "lock"}
            BY <5>8 DEF InsertRow, LockRow
          <6> QED
            BY <4>4, <5>1, <5>2, <6>1 DEF Here
        <5>9. CASE UpdateRow(c)
          <6>1. charges'[c] = charges[c] \cup {idx[c]} /\ pc[c] = "update" /\ pc'[c] = "event"
            BY <4>5, <5>9 DEF UpdateRow, Keyed
          <6> QED
            BY <5>1, <5>2, <6>1 DEF Here
        <5>10. CASE RecordEvent(c)
          BY <5>1, <5>2, <5>6, <5>10 DEF RecordEvent
        <5>11. CASE Commit(c) \/ Return(c) \/ CommitAnswerLost(c)
          BY <5>1, <5>2, <5>11 DEF Commit, Install, Return, CommitAnswerLost, Answer
        <5>12. CASE Rollback(c) \/ Abort(c)
          BY <5>12 DEF Rollback, Abort, Undo, Answer
        <5>13. CASE StatementFails(c) \/ DeadlockVictim(c)
          BY <5>1, <5>2, <5>13 DEF StatementFails, DeadlockVictim
        <5> QED
          BY <1>2, <3>2, <5>4, <5>5, <5>7, <5>8, <5>9, <5>10, <5>11, <5>12, <5>13
          DEF CallStep, Statement, Failure
      <4> QED
        BY <4>2, <4>3, <4>5 DEF SameCall
    <3> QED
      BY <3>1, <3>2
  <2>4. \A a \in Calls : \A d \in prior'[a] :
          pc'[d] = "done" /\ (Idem[a] = Idem[d] /\ Keyed(a) => Apart(a, d)')
    BY <2>2, <2>3
  <2> QED
    BY <2>4 DEF RetryInv, Keyed
<1> QED
  BY <1>1, <1>2 DEF Next, AllAnswered, CallStep

(* What a step does to the calls that have ended or are about to.           *)
LEMMA PaidStep == IInv /\ [Next]_vars => PaidInv'
<1> SUFFICES ASSUME IInv, [Next]_vars
             PROVE  PaidInv'
  OBVIOUS
<1> USE DEF IInv, TypeOK
<1> DEFINE Ended(d) ==
      pc[d] = "done" =>
        /\ outcome[d] = "pass" => \A i \in DOMAIN Cands[d] : Paid(d, i)
        /\ outcome[d] = "error" => charges[d] = {} \/ \A i \in DOMAIN Cands[d] : Paid(d, i)
        /\ outcome[d] \in {"deny", "declined"} => charges[d] = {}
<1> DEFINE Before(d) ==
      /\ pc[d] \in {"check", "insert", "lock", "update"} =>
           \A i \in DOMAIN Cands[d] : i < idx[d] => Settled(d, i)
      /\ pc[d] = "event" => \A i \in DOMAIN Cands[d] : i <= idx[d] => Settled(d, i)
      /\ pc[d] = "commit" => \A i \in DOMAIN Cands[d] : Settled(d, i)
      /\ pc[d] = "committed" => \A i \in DOMAIN Cands[d] : Paid(d, i)
<1>0. \A d \in Calls : Ended(d) /\ Before(d)
  BY DEF PaidInv, AllOrNothing
<1>1. CASE Tick \/ UNCHANGED vars
  BY <1>1 DEF Tick, vars, txVars, PaidInv, AllOrNothing, Paid, Settled, Keyed, OnRecord, CounterOf
<1>2. ASSUME NEW c \in Calls, CallStep(c)
      PROVE  PaidInv'
  <2>1. ASSUME NEW d \in Calls, d # c
        PROVE  Ended(d)' /\ Before(d)'
    <3>1. SameCall(d) /\ \A i : CounterOf(d, i)' = CounterOf(d, i)
      BY <1>2, <2>1, OneMoves, KeysStay
    <3>2. \A i : (Paid(d, i) => Paid(d, i)') /\ (Settled(d, i) => Settled(d, i)')
      BY <1>2, <3>1, EventsGrow DEF SameCall, Paid, Settled, OnRecord, Keyed
    <3>3. Ended(d) /\ Before(d)
      BY <1>0
    <3>4. Before(d)'
      BY <3>1, <3>2, <3>3 DEF SameCall
    <3>5. Ended(d)'
      BY <3>1, <3>2, <3>3 DEF SameCall
    <3> QED
      BY <3>4, <3>5
  <2>2. Ended(c)' /\ Before(c)'
    <3> USE DEF ControlTypeOK, TablesTypeOK, txVars
    <3>0. Ended(c) /\ Before(c)
      BY <1>0
    <3>1. CASE Start(c)
      <4>1. charges'[c] = {} /\ pc'[c] \in {"connect", "done"}
        BY <3>1 DEF Start, Answer, EventInv
      <4>2. CASE Cands[c] = <<>>
        <5>1. outcome'[c] = "pass" /\ DOMAIN Cands[c] = {}
          BY <3>1, <4>2 DEF Start, Answer
        <5> QED
          BY <4>1, <5>1
      <4>3. CASE Cands[c] # <<>>
        BY <3>1, <4>1, <4>3 DEF Start
      <4> QED
        BY <4>2, <4>3
    <3>2. ASSUME pc[c] # "idle"
          PROVE  /\ \A i : CounterOf(c, i)' = CounterOf(c, i)
                 /\ \A i : charges[c] \subseteq charges'[c] => (Paid(c, i) => Paid(c, i)')
                 /\ \A i : charges[c] \subseteq charges'[c] /\ newEvents[c] \subseteq newEvents'[c]
                             => (Settled(c, i) => Settled(c, i)')
      BY <1>2, <3>2, KeysStay, EventsGrow DEF Paid, Settled, OnRecord, Keyed
    <3>3. CASE Decline(c) \/ ConnectFails(c)
      <4>1. pc'[c] = "done" /\ outcome'[c] \in {"declined", "error"} /\ charges'[c] = {}
        BY <3>3 DEF Decline, ConnectFails, Answer, EventInv
      <4> QED
        BY <4>1
    <3>4. CASE Connect(c)
      <4>1. idx'[c] = 1 /\ pc'[c] \in {"check", "insert"}
        BY <3>4 DEF Connect, FirstStatement
      <4>2. \A i \in DOMAIN Cands[c] : ~(i < idx'[c])
        BY <4>1, CandsAssumption
      <4> QED
        BY <4>1, <4>2
    <3>5. ASSUME Advance(c), pc[c] \in InTx,
                 \A i \in DOMAIN Cands[c] : i <= idx[c] => Settled(c, i)'
          PROVE  Ended(c)' /\ Before(c)'
      <4>1. /\ pc'[c] \in {"check", "insert", "commit"}
            /\ pc'[c] \in {"check", "insert"} => idx'[c] = idx[c] + 1
            /\ pc'[c] = "commit" => idx[c] >= Len(Cands[c])
        BY <3>5, AdvanceMoves
      <4>2. DOMAIN Cands[c] = 1..Len(Cands[c]) /\ Len(Cands[c]) \in Nat /\ idx[c] \in Nat
        BY CandsAssumption
      <4>3. /\ pc'[c] \in {"check", "insert"} => \A i \in DOMAIN Cands[c] : i < idx'[c] => i <= idx[c]
            /\ pc'[c] = "commit" => \A i \in DOMAIN Cands[c] : i <= idx[c]
        BY <4>1, <4>2
      <4> QED
        BY <3>5, <4>1, <4>3
    <3>6. CASE CheckEvent(c)
      <4>1. charges' = charges /\ newEvents' = newEvents /\ pc[c] = "check" /\ pc[c] \in InTx
        BY <3>6 DEF CheckEvent, InTx, InStatement
      <4>2. CASE EventVisible(c, Here(c))
        <5>1. Advance(c)
          BY <3>6, <4>2 DEF CheckEvent
        <5>2. Settled(c, idx[c])
          BY <4>1, <4>2 DEF EventVisible, Settled, OnRecord, Here, EventInv
        <5>3. \A i \in DOMAIN Cands[c] : i <= idx[c] => i < idx[c] \/ i = idx[c]
          BY CandsAssumption
        <5>4. \A i \in DOMAIN Cands[c] : i <= idx[c] => Settled(c, i)'
          BY <3>0, <3>2, <4>1, <5>2, <5>3
        <5> QED
          BY <3>5, <4>1, <5>1, <5>4
      <4>3. CASE ~EventVisible(c, Here(c))
        <5>1. pc'[c] = "insert" /\ idx' = idx
          BY <3>6, <4>3 DEF CheckEvent
        <5> QED
          BY <3>0, <3>2, <4>1, <5>1
      <4> QED
        BY <4>2, <4>3
    <3>7. CASE InsertRow(c) \/ LockRow(c)
      <4>1. /\ charges' = charges /\ newEvents' = newEvents /\ idx' = idx
            /\ pc[c] \in {"insert", "lock"} /\ pc'[c] \in {"lock", "update", "deny"}
        BY <3>7 DEF InsertRow, LockRow
      <4> QED
        BY <3>0, <3>2, <4>1
    <3>8. CASE UpdateRow(c)
      <4>1. /\ charges'[c] = charges[c] \cup {idx[c]} /\ newEvents' = newEvents
            /\ pc[c] = "update" /\ pc[c] \in InTx
        BY <3>8 DEF UpdateRow, InTx, InStatement
      <4>2. \A i \in DOMAIN Cands[c] : i <= idx[c] => i < idx[c] \/ i = idx[c]
        BY CandsAssumption
      <4>3. \A i \in DOMAIN Cands[c] : i < idx[c] => Settled(c, i)'
        BY <3>0, <3>2, <4>1
      <4>4. \A i \in DOMAIN Cands[c] : i <= idx[c] => Settled(c, i)'
        <5>1. idx[c] \in charges'[c]
          BY <4>1
        <5> QED
          BY <4>2, <4>3, <5>1 DEF Settled
      <4>5. CASE Keyed(c)
        <5>1. pc'[c] = "event" /\ idx' = idx
          BY <3>8, <4>5 DEF UpdateRow, Keyed
        <5> QED
          BY <4>4, <5>1
      <4>6. CASE ~Keyed(c)
        <5>1. Advance(c)
          BY <3>8, <4>6 DEF UpdateRow, Keyed
        <5> QED
          BY <3>5, <4>1, <4>4, <5>1
      <4> QED
        BY <4>5, <4>6
    <3>9. CASE RecordEvent(c)
      <4>1. /\ newEvents[c] \subseteq newEvents'[c] /\ charges' = charges
            /\ pc[c] = "event" /\ pc[c] \in InTx /\ Advance(c)
        BY <3>9 DEF RecordEvent, InTx, InStatement
      <4>2. \A i \in DOMAIN Cands[c] : i <= idx[c] => Settled(c, i)'
        BY <3>0, <3>2, <4>1
      <4> QED
        BY <3>5, <4>1, <4>2
    <3>10. CASE Commit(c)
      <4>1. /\ charges' = charges /\ pc[c] = "commit" /\ pc'[c] = "committed"
            /\ \A k \in newEvents[c] : <<Idem[c], k>> \in events'
        BY <3>10 DEF Commit, Install
      <4>2. \A i : Settled(c, i) => Paid(c, i)'
        BY <1>2, <3>2, <4>1, EventsGrow DEF Settled, Paid, OnRecord, Keyed
      <4> QED
        BY <3>0, <4>1, <4>2
    <3>11. CASE Return(c) \/ CommitAnswerLost(c)
      <4>1. /\ charges' = charges /\ pc[c] = "committed" /\ pc'[c] = "done"
            /\ outcome'[c] \in {"pass", "error"}
        BY <3>11 DEF Return, CommitAnswerLost, Answer
      <4>2. \A i \in DOMAIN Cands[c] : Paid(c, i)'
        BY <3>0, <3>2, <4>1
      <4> QED
        BY <4>1, <4>2
    <3>12. CASE Rollback(c) \/ Abort(c)
      <4>1. charges'[c] = {} /\ pc'[c] = "done" /\ outcome'[c] \in {"deny", "error"}
        BY <3>12 DEF Rollback, Abort, Undo, Answer
      <4> QED
        BY <4>1
    <3>13. CASE StatementFails(c) \/ DeadlockVictim(c)
      BY <3>13 DEF StatementFails, DeadlockVictim
    <3> QED
      BY <1>2, <3>1, <3>3, <3>4, <3>6, <3>7, <3>8, <3>9, <3>10, <3>11, <3>12, <3>13
      DEF CallStep, Statement, Failure
  <2>3. \A d \in Calls : Ended(d)' /\ Before(d)'
    BY <2>1, <2>2
  <2> QED
    BY <2>3 DEF PaidInv, AllOrNothing
<1> QED
  BY <1>1, <1>2 DEF Next, AllAnswered, CallStep

(* The invariant is inductive.                                              *)
LEMMA InvStep == IInv /\ [Next]_vars => IInv'
  BY TypeStep, LockStep, LimitStep, EventStep, RetryStep, PaidStep DEF IInv

LEMMA InvAlways == Spec => []IInv
  BY InvInit, InvStep, PTL DEF Spec

--------------------------------------------------------------------------------
(* What follows.                                                            *)

(* No interleaving of reserve calls, however many, drives a committed       *)
(* counter past the limits imposed on it.                                   *)
THEOREM LimitSafe == Spec => []WithinLimit
<1>1. IInv => WithinLimit
  BY DEF IInv, LimitInv
<1> QED
  BY <1>1, InvAlways, PTL

(* No path through reserve, a failing one included, gives a connection back *)
(* to the pool while its transaction still has a counter row locked.        *)
THEOREM ConnectionsClean == Spec => []NoLockLeak
<1>1. IInv => NoLockLeak
  BY DEF IInv, TypeOK, TablesTypeOK, LockInv, NoLockLeak
<1> QED
  BY <1>1, InvAlways, PTL

(* The catch and deny paths of reserve leave nothing behind, and a pass is  *)
(* paid for in full.                                                        *)
THEOREM ReservationAtomic == Spec => []AllOrNothing
<1>1. IInv => AllOrNothing
  BY DEF IInv, PaidInv
<1> QED
  BY <1>1, InvAlways, PTL

(* The event look-up of reserve is enough for retries that come one after   *)
(* the other, also after an error whose reservation took effect.            *)
THEOREM RetrySafe == Spec => []SequentialRetryFree
<1>1. IInv => SequentialRetryFree
  BY DEF IInv, RetryInv, SequentialRetryFree, Keyed
<1> QED
  BY <1>1, InvAlways, PTL
--------------------------------------------------------------------------------
(* Sets of least size.                                                      *)

(* A set of naturals that is not empty has a least member. *)
LEMMA LeastNat ==
  ASSUME NEW T \in SUBSET Nat, T # {}
  PROVE  \E x \in T : \A y \in T : x <= y
<1> DEFINE R == OpToRel(<, Nat)
<1>1. \E x \in T : \A y \in T : ~ (<<y, x>> \in R)
  <2> HIDE DEF R
  <2>1. IsWellFoundedOn(R, Nat)
    BY NatLessThanWellFounded, Zenon DEF R
  <2> QED
    BY <2>1, WFMin, Zenon
<1>2. PICK x \in T : \A y \in T : ~ (<<y, x>> \in R)
  BY <1>1
<1>3. ASSUME NEW y \in T, y < x
      PROVE  <<y, x>> \in R
  BY <1>3, Zenon DEF OpToRel
<1> HIDE DEF R
<1>4. ASSUME NEW y \in T
      PROVE  x <= y
  <2>1. ~(y < x)
    BY <1>2, <1>3
  <2> QED
    BY <2>1
<1> QED
  BY <1>4

(* Of finite sets one has the least size. *)
LEMMA LeastSet ==
  ASSUME NEW F, F # {}, \A T \in F : IsFiniteSet(T)
  PROVE  \E T \in F : \A U \in F : Cardinality(T) <= Cardinality(U)
<1> DEFINE sizes == {Cardinality(T) : T \in F}
<1>1. sizes \in SUBSET Nat /\ sizes # {}
  BY FS_CardinalityType
<1>2. PICK n \in sizes : \A m \in sizes : n <= m
  <2> HIDE DEF sizes
  <2> QED
    BY <1>1, LeastNat
<1> QED
  BY <1>2

--------------------------------------------------------------------------------
(* No deadlock.                                                             *)

(* The calls that hold a connection are those in a transaction, and there   *)
(* are no more of them than connections.                                    *)
PoolInv ==
  /\ IsFiniteSet(held)
  /\ Cardinality(held) <= PoolSize
  /\ \A c \in held : pc[c] \in InTx \cup {"committed"}

LEMMA PoolInit == Init => PoolInv
  BY FS_EmptySet, BoundsAssumption DEF Init, PoolInv

LEMMA PoolStep == IInv /\ PoolInv /\ [Next]_vars => PoolInv'
<1> SUFFICES ASSUME IInv, PoolInv, [Next]_vars
             PROVE  PoolInv'
  OBVIOUS
<1> USE DEF IInv, TypeOK, txVars
<1>1. CASE Tick \/ UNCHANGED vars
  BY <1>1 DEF Tick, vars, PoolInv
<1>2. ASSUME NEW c \in Calls, CallStep(c)
      PROVE  PoolInv'
  <2> USE DEF PoolInv, ControlTypeOK, InTx, InStatement
  <2>1. CASE Connect(c)
    <3>1. c \notin held /\ held' = held \cup {c} /\ Cardinality(held) < PoolSize
      BY <2>1 DEF Connect
    <3>2. IsFiniteSet(held') /\ Cardinality(held') = Cardinality(held) + 1
      BY <3>1, FS_AddElement
    <3>3. Cardinality(held) \in Nat /\ PoolSize \in Nat
      BY FS_CardinalityType, BoundsAssumption
    <3>4. Cardinality(held') <= PoolSize
      BY <3>1, <3>2, <3>3
    <3>5. pc'[c] \in {"insert", "check"}
      BY <2>1 DEF Connect, FirstStatement
    <3> QED
      BY <1>2, <3>1, <3>2, <3>4, <3>5, OneMoves DEF SameCall
  <2>2. CASE Return(c) \/ CommitAnswerLost(c) \/ Rollback(c) \/ Abort(c)
    <3>1. held' = held \ {c}
      BY <2>2 DEF Return, CommitAnswerLost, Rollback, Abort
    <3>2. IsFiniteSet(held') /\ Cardinality(held') <= Cardinality(held)
      BY <3>1, FS_Subset
    <3>3. Cardinality(held) \in Nat /\ Cardinality(held') \in Nat /\ PoolSize \in Nat
      BY <3>2, FS_CardinalityType, BoundsAssumption
    <3>4. Cardinality(held') <= PoolSize
      BY <3>2, <3>3
    <3> QED
      BY <1>2, <3>1, <3>2, <3>4, OneMoves DEF SameCall
  <2>3. ASSUME held' = held, c \in held => pc'[c] \in InTx \cup {"committed"}
        PROVE  PoolInv'
    BY <1>2, <2>3, OneMoves DEF SameCall
  <2>4. CASE Start(c) \/ Decline(c) \/ ConnectFails(c)
    BY <2>3, <2>4 DEF Start, Decline, ConnectFails
  <2>5. CASE CheckEvent(c) \/ UpdateRow(c) \/ RecordEvent(c)
    BY <2>3, <2>5, AdvanceMoves DEF CheckEvent, UpdateRow, RecordEvent
  <2>6. CASE InsertRow(c) \/ LockRow(c) \/ Commit(c) \/ StatementFails(c) \/ DeadlockVictim(c)
    BY <2>3, <2>6 DEF InsertRow, LockRow, Commit, StatementFails, DeadlockVictim
  <2> QED
    BY <1>2, <2>1, <2>2, <2>4, <2>5, <2>6 DEF CallStep, Statement, Failure
<1> QED
  BY <1>1, <1>2 DEF Next, AllAnswered, CallStep

(* Among finitely many waiting calls that wait for each other only, some    *)
(* form a cycle: a least nonempty set closed under WaitsOn is its image.    *)
LEMMA WaitCycle ==
  ASSUME NEW H \in SUBSET Calls, H # {}, IsFiniteSet(H),
         \A d \in H : WaitsOn(d) \in H
  PROVE  \E S \in SUBSET Calls : S # {} /\ {WaitsOn(d) : d \in S} = S
<1> DEFINE Closed == {T \in SUBSET H : T # {} /\ \A d \in T : WaitsOn(d) \in T}
<1>1. Closed # {} /\ \A T \in Closed : IsFiniteSet(T)
  BY FS_Subset
<1>2. PICK S \in Closed : \A U \in Closed : Cardinality(S) <= Cardinality(U)
  <2> HIDE DEF Closed
  <2> QED
    BY <1>1, LeastSet
<1> DEFINE image == {WaitsOn(d) : d \in S}
<1>3. image \in Closed /\ image \in SUBSET S
  OBVIOUS
<1>4. IsFiniteSet(S) /\ IsFiniteSet(image)
  BY <1>1, <1>3
<1>5. Cardinality(S) <= Cardinality(image)
  BY <1>2, <1>3
<1>6. /\ Cardinality(image) <= Cardinality(S)
      /\ Cardinality(S) = Cardinality(image) => S = image
  <2> HIDE DEF image
  <2> QED
    BY <1>3, <1>4, FS_Subset
<1>7. S = image
  <2> HIDE DEF image
  <2> QED
    BY <1>4, <1>5, <1>6, FS_CardinalityType
<1> QED
  BY <1>7

(* As long as a call is under way some call can go on: neither the pool nor *)
(* the row locks bring all of them to a halt, whatever their number and the *)
(* size of the pool.                                                        *)
THEOREM DeadlockFree == Spec => []NeverStuck
<1>1. ASSUME IInv, PoolInv
      PROVE  NeverStuck
  <2> SUFFICES ASSUME NEW c \in Calls, UnderWay(c),
                      \A d \in Calls : ~ Ready(d)
               PROVE  \E d \in Calls : OnCycle(d)
    BY DEF NeverStuck
  <2> USE <1>1 DEF IInv, TypeOK
  <2>1. held \subseteq Calls /\ IsFiniteSet(held)
    BY DEF ControlTypeOK, PoolInv
  <2>2. held # {}
    <3>1. SUFFICES ASSUME held = {}
                   PROVE  FALSE
      OBVIOUS
    <3>2. Cardinality(held) < PoolSize
      BY <3>1, FS_EmptySet, BoundsAssumption
    <3>3. pc[c] = "connect"
      BY <3>1 DEF UnderWay, LockInv, ControlTypeOK, PcStates
    <3> QED
      BY <3>2, <3>3 DEF Ready
  <2>3. ASSUME NEW d \in held
        PROVE  WaitsOn(d) \in held
    <3>1. d \in Calls /\ pc[d] \in InTx \cup {"committed"}
      BY <2>1 DEF PoolInv
    <3>2. WaitsOn(d) # Nobody
      BY <3>1 DEF Ready
    <3>3. pc[d] \in {"insert", "lock"} /\ WaitsOn(d) = lock[Here(d)]
      BY <3>2 DEF WaitsOn
    <3>4. Here(d) \in Counters
      BY <3>1, <3>3, HereType DEF InTx, InStatement
    <3>5. WaitsOn(d) \in Calls /\ pc[WaitsOn(d)] \in InTx
      BY <3>2, <3>3, <3>4 DEF TablesTypeOK, LockInv
    <3> QED
      BY <3>5 DEF LockInv
  <2>4. PICK S \in SUBSET Calls : S # {} /\ {WaitsOn(d) : d \in S} = S
    BY <2>1, <2>2, <2>3, WaitCycle
  <2> QED
    BY <2>4 DEF OnCycle
<1>2. Spec => [](IInv /\ PoolInv)
  BY InvInit, InvStep, PoolInit, PoolStep, PTL DEF Spec
<1> QED
  BY <1>1, <1>2, PTL

--------------------------------------------------------------------------------
(* Every step brings its call nearer to its answer.                         *)

(* The statements a call may still need: at most five for every candidate   *)
(* from the current one on, and the end of the transaction.                 *)
Remaining(c) ==
  LET after == 5 * (Len(Cands[c]) - idx[c]) + 2 IN
  CASE pc[c] = "idle" -> 5 * Len(Cands[c]) + 4
    [] pc[c] = "connect" -> 5 * Len(Cands[c]) + 3
    [] pc[c] = "check" -> after + 5
    [] pc[c] = "insert" -> after + 4
    [] pc[c] = "lock" -> after + 3
    [] pc[c] = "update" -> after + 2
    [] pc[c] = "event" -> after + 1
    [] pc[c] \in {"commit", "deny"} -> 2
    [] pc[c] \in {"committed", "failing"} -> 1
    [] pc[c] = "done" -> 0

Moves(c) == pc'[c] # pc[c] \/ idx'[c] # idx[c]

LEMMA RemainingType ==
  ASSUME TypeOK, NEW c \in Calls
  PROVE  Remaining(c) \in Nat
<1>1. Len(Cands[c]) \in Nat /\ pc[c] \in PcStates
  BY CandsAssumption DEF TypeOK, ControlTypeOK
<1>2. pc[c] \in InTx => idx[c] \in 1..Len(Cands[c])
  BY HereType DEF TypeOK
<1> QED
  BY <1>1, <1>2 DEF Remaining, PcStates, InTx, InStatement

(* A step of a call moves it, and to where less remains.                    *)
LEMMA StepCounts ==
  ASSUME TypeOK, NEW c \in Calls, CallStep(c)
  PROVE  Moves(c) /\ Remaining(c)' < Remaining(c)
<1> USE DEF TypeOK, ControlTypeOK, Remaining, Moves
<1>1. Len(Cands[c]) \in Nat /\ pc[c] \in PcStates
  BY CandsAssumption
<1>2. pc[c] \in InTx => idx[c] \in 1..Len(Cands[c])
  BY HereType
<1>3. CASE Start(c) \/ Decline(c) \/ ConnectFails(c)
  BY <1>1, <1>3 DEF Start, Decline, ConnectFails, Answer
<1>4. CASE Connect(c)
  BY <1>1, <1>4 DEF Connect, FirstStatement
<1>5. CASE CheckEvent(c) \/ UpdateRow(c) \/ RecordEvent(c)
  <2>1. pc[c] \in {"check", "update", "event"}
    BY <1>5 DEF CheckEvent, UpdateRow, RecordEvent
  <2>2. idx[c] \in Nat /\ idx[c] <= Len(Cands[c])
    BY <1>2, <2>1 DEF InTx, InStatement
  <2>3. Remaining(c) >= 5 * (Len(Cands[c]) - idx[c]) + 3
    <3>1. pc[c] = "check" => Remaining(c) = 5 * (Len(Cands[c]) - idx[c]) + 2 + 5
      OBVIOUS
    <3>2. pc[c] = "update" => Remaining(c) = 5 * (Len(Cands[c]) - idx[c]) + 2 + 2
      OBVIOUS
    <3>3. pc[c] = "event" => Remaining(c) = 5 * (Len(Cands[c]) - idx[c]) + 2 + 1
      OBVIOUS
    <3> HIDE DEF Remaining
    <3> QED
      BY <1>1, <2>1, <2>2, <3>1, <3>2, <3>3
  <2>4. CASE idx[c] < Len(Cands[c]) /\ Advance(c)
    <3>1. pc'[c] \in {"check", "insert"} /\ idx'[c] = idx[c] + 1
      BY <2>4 DEF Advance, FirstStatement
    <3>2. pc'[c] = "check" => Remaining(c)' = 5 * (Len(Cands[c]) - (idx[c] + 1)) + 2 + 5
      BY <3>1
    <3>3. pc'[c] = "insert" => Remaining(c)' = 5 * (Len(Cands[c]) - (idx[c] + 1)) + 2 + 4
      BY <3>1
    <3>4. Remaining(c) \in Nat
      BY RemainingType
    <3> HIDE DEF Remaining
    <3>5. ASSUME NEW n \in Nat, NEW i \in Nat, NEW r \in Nat, r >= 5 * (n - i) + 3
          PROVE  5 * (n - (i + 1)) + 2 + 5 < r /\ 5 * (n - (i + 1)) + 2 + 4 < r
      BY <3>5
    <3>6. Remaining(c)' < Remaining(c)
      BY <1>1, <2>3, <2>2, <3>1, <3>2, <3>3, <3>4, <3>5
    <3>7. idx'[c] # idx[c]
      BY <2>2, <3>1
    <3> QED
      BY <3>6, <3>7
  <2>5. CASE ~(idx[c] < Len(Cands[c])) /\ Advance(c)
    <3>1. pc'[c] = "commit"
      BY <2>5 DEF Advance
    <3>2. Remaining(c)' = 2
      BY <3>1
    <3> HIDE DEF Remaining
    <3> QED
      BY <1>1, <2>1, <2>3, <2>2, <3>1, <3>2, RemainingType
  <2>6. CASE CheckEvent(c) /\ ~ Advance(c)
    <3>1. pc[c] = "check" /\ pc'[c] = "insert" /\ idx'[c] = idx[c]
      BY <2>6 DEF CheckEvent
    <3> QED
      BY <1>1, <2>2, <3>1
  <2>7. CASE UpdateRow(c) /\ ~ Advance(c)
    <3>1. pc[c] = "update" /\ pc'[c] = "event" /\ idx'[c] = idx[c]
      BY <2>7 DEF UpdateRow
    <3> QED
      BY <1>1, <2>2, <3>1
  <2> QED
    BY <1>5, <2>4, <2>5, <2>6, <2>7 DEF RecordEvent
<1>6. CASE InsertRow(c) \/ LockRow(c)
  <2>1. idx'[c] = idx[c] /\ idx[c] \in 1..Len(Cands[c])
    BY <1>2, <1>6 DEF InsertRow, LockRow, InTx, InStatement
  <2>2. \/ pc[c] = "insert" /\ pc'[c] = "lock"
        \/ pc[c] = "lock" /\ pc'[c] \in {"deny", "update"}
    BY <1>6 DEF InsertRow, LockRow
  <2>3. CASE pc[c] = "insert" /\ pc'[c] = "lock"
    BY <1>1, <2>1, <2>3
  <2>4. CASE pc[c] = "lock" /\ pc'[c] = "update"
    BY <1>1, <2>1, <2>4
  <2>5. CASE pc[c] = "lock" /\ pc'[c] = "deny"
    BY <1>1, <2>1, <2>5
  <2> QED
    BY <2>2, <2>3, <2>4, <2>5
<1>7. CASE StatementFails(c) \/ DeadlockVictim(c)
  BY <1>1, <1>2, <1>7, VictimWaits DEF StatementFails, DeadlockVictim, InTx, InStatement
<1>8. CASE Commit(c) \/ Return(c) \/ CommitAnswerLost(c) \/ Rollback(c) \/ Abort(c)
  BY <1>8 DEF Commit, Return, CommitAnswerLost, Rollback, Abort, Answer
<1> QED
  BY <1>3, <1>4, <1>5, <1>6, <1>7, <1>8 DEF CallStep, Statement, Failure

(* A step is one of one call, which has less left to do than before, or it  *)
(* moves no call at all.                                                    *)
EveryStepCounts ==
  \A c \in Calls :
    Remaining(c) \in Nat /\ (Moves(c) => Remaining(c)' < Remaining(c))

(* A call takes at most 5 * n + 4 steps for n constraints, retried and       *)
(* failed statements included: reserve has no loop but the one over its      *)
(* candidates.  With DeadlockFree this leaves liveness to fairness alone.   *)
THEOREM CallsTerminate == Spec => [][EveryStepCounts]_vars
<1>1. ASSUME TypeOK, [Next]_vars
      PROVE  [EveryStepCounts]_vars
  <2>1. CASE UNCHANGED vars
    BY <2>1
  <2>2. CASE Tick
    BY <1>1, <2>2, RemainingType DEF Tick, EveryStepCounts, Moves
  <2>3. ASSUME NEW c \in Calls, CallStep(c)
        PROVE  EveryStepCounts
    BY <1>1, <2>3, RemainingType, StepCounts, OneMoves DEF EveryStepCounts, Moves, SameCall
  <2> QED
    BY <1>1, <2>1, <2>2, <2>3 DEF Next, AllAnswered, CallStep
<1> QED
  BY <1>1, TypeCorrect, PTL DEF Spec
================================================================================
