-------------------------- MODULE A2AReceiver_proofs --------------------------
(***************************************************************************)
(* Proofs about A2AReceiver, for any messages, keys, processes and bounds.  *)
(***************************************************************************)
EXTENDS A2AReceiver, TLAPS

USE DEF Row, Told, NoRecord, Goto, Answer, AskEngine

--------------------------------------------------------------------------------
(* Type correctness.                                                        *)

(* A call that meets a record is answered or takes it over.                 *)
LEMMA ExistingType ==
  ASSUME TypeOK, NEW c \in Calls, UseExisting(c)
  PROVE  /\ \/ pc' = [pc EXCEPT ![c] = "done"]
            \/ pc' = [pc EXCEPT ![c] = "reopen"] /\ records[KeyOf[c]].state = "failed"
         /\ reply' \in [Calls -> [kind : Kinds, from : Calls \cup {Nobody}]]
<1> DEFINE row == records[KeyOf[c]]
<1>1. row.state \in LifecycleStates /\ row.by \in Calls \cup {Nobody}
  BY KeyOfType DEF TypeOK
<1>2. Replayable(row.state) => VerdictOf(row.state) \in Kinds
  BY DEF Replayable, VerdictOf, Kinds, Verdicts
<1>3. CASE Replayable(row.state) /\ Answer(c, VerdictOf(row.state), row.by)
  BY <1>1, <1>2, <1>3 DEF TypeOK
<1>4. CASE Answer(c, "in_progress", row.by)
  BY <1>1, <1>4 DEF TypeOK, Kinds
<1>5. CASE Retryable(row.state) /\ Goto(c, "reopen") /\ UNCHANGED reply
  BY <1>5 DEF TypeOK, Retryable
<1> QED
  BY <1>3, <1>4, <1>5 DEF UseExisting

(* Every write to the task store leaves well-typed records.                 *)
Records == [Keys -> [state : LifecycleStates, by : Calls \cup {Nobody}]]

LEMMA PendingType ==
  ASSUME TypeOK, NEW c \in Calls, records' = [records EXCEPT ![KeyOf[c]] = Row("pending", c)]
  PROVE  records' \in Records
<1>1. Row("pending", c) \in [state : LifecycleStates, by : Calls \cup {Nobody}]
  BY DEF LifecycleStates
<1> QED
  BY <1>1 DEF Records, TypeOK

LEMMA FinalType ==
  ASSUME TypeOK, NEW c \in Calls, StoreFinal(c)
  PROVE  /\ records' \in Records
         /\ stored' \subseteq Keys \X [kind : Verdicts, from : Calls]
         /\ failed' \subseteq Keys
<1>1. FinalState(verdict[c]) \in LifecycleStates /\ verdict[c] \in Verdicts /\ KeyOf[c] \in Keys
  BY KeyOfType DEF TypeOK, FinalState, LifecycleStates, Verdicts
<1> QED
  BY <1>1 DEF TypeOK, StoreFinal, Records

(* So do an answer and the history of an orphan.                            *)
LEMMA AnswerType ==
  ASSUME TypeOK, NEW c \in Calls, NEW kind \in Kinds, NEW from \in Calls \cup {Nobody},
         Answer(c, kind, from)
  PROVE  /\ pc' \in [Calls -> PcStates]
         /\ reply' \in [Calls -> [kind : Kinds, from : Calls \cup {Nobody}]]
  BY DEF TypeOK, PcStates

LEMMA OrphanType ==
  ASSUME TypeOK, NEW c \in Calls, NEW why \in {"engine", "store", "crash"},
         Orphan(c, why) \/ UNCHANGED orphaned
  PROVE  orphaned' \in [Keys -> SUBSET {"engine", "store", "crash"}]
  BY KeyOfType DEF TypeOK, Orphan

LEMMA TypeInit == Init => TypeOK
  BY BoundsType DEF Init, TypeOK, PcStates, BeforeEngine, Working, LifecycleStates, Verdicts, Kinds

LEMMA TypeStep == TypeOK /\ [Next]_vars => TypeOK'
<1> SUFFICES ASSUME TypeOK, [Next]_vars
             PROVE  TypeOK'
  OBVIOUS
<1> USE DEF PcStates, BeforeEngine, Working, history, bounds
<1>1. ASSUME NEW c \in Calls, Receive(c) \/ Reject(c)
      PROVE  TypeOK'
  BY <1>1 DEF Receive, Reject, TypeOK, Kinds
<1>2. ASSUME NEW c \in Calls, Select(c) \/ Reselect(c)
      PROVE  TypeOK'
  BY <1>2, ExistingType DEF Select, Reselect, TypeOK
<1>3. ASSUME NEW c \in Calls, Insert(c) \/ Reopen(c)
      PROVE  TypeOK'
  <2>1. records' \in Records
    BY <1>3, PendingType DEF Insert, Reopen, TypeOK, Records
  <2>2. pc' \in [Calls -> PcStates] /\ asked' \subseteq Calls
    BY <1>3 DEF Insert, Reopen, TypeOK
  <2> QED
    BY <1>3, <2>1, <2>2 DEF Insert, Reopen, TypeOK, Records
<1>4. ASSUME NEW c \in Calls, EngineAnswers(c)
      PROVE  TypeOK'
  BY <1>4 DEF EngineAnswers, TypeOK
<1>5. ASSUME NEW c \in Calls, Persist(c)
      PROVE  TypeOK'
  BY <1>5, FinalType DEF Persist, TypeOK, Records
<1>6. ASSUME NEW c \in Calls, Reply(c)
      PROVE  TypeOK'
  BY <1>6 DEF Reply, TypeOK, Kinds
<1>7. ASSUME NEW c \in Calls, EngineUnreachable(c)
      PROVE  TypeOK'
  <2>1. "error" \in Kinds /\ outages' \in 0..MaxOutages
    BY <1>7, BoundsType DEF EngineUnreachable, TypeOK, Kinds
  <2>2. /\ pc' \in [Calls -> PcStates]
        /\ reply' \in [Calls -> [kind : Kinds, from : Calls \cup {Nobody}]]
    BY <1>7, <2>1, AnswerType DEF EngineUnreachable
  <2>3. orphaned' \in [Keys -> SUBSET {"engine", "store", "crash"}]
    BY <1>7, OrphanType DEF EngineUnreachable
  <2> QED
    BY <1>7, <2>1, <2>2, <2>3 DEF EngineUnreachable, TypeOK
<1>8. ASSUME NEW c \in Calls, StoreFailsBefore(c) \/ StoreFailsAfter(c)
      PROVE  TypeOK'
  <2>1. "persistence_failed" \in Kinds /\ faults' \in 0..MaxFaults
    BY <1>8, BoundsType DEF StoreFailsBefore, StoreFailsAfter, TypeOK, Kinds
  <2>2. /\ pc' \in [Calls -> PcStates]
        /\ reply' \in [Calls -> [kind : Kinds, from : Calls \cup {Nobody}]]
    BY <1>8, <2>1, AnswerType DEF StoreFailsBefore, StoreFailsAfter
  <2>3. orphaned' \in [Keys -> SUBSET {"engine", "store", "crash"}]
    BY <1>8, OrphanType DEF StoreFailsBefore, StoreFailsAfter
  <2>4. /\ records' \in Records
        /\ stored' \subseteq Keys \X [kind : Verdicts, from : Calls]
        /\ failed' \subseteq Keys
    <3>1. CASE StoreFinal(c)
      BY <3>1, FinalType
    <3>2. CASE UNCHANGED <<stored, failed>> /\ records' = [records EXCEPT ![KeyOf[c]] = Row("pending", c)]
      BY <3>2, PendingType DEF TypeOK
    <3>3. CASE UNCHANGED <<records, stored, failed>>
      BY <3>3 DEF TypeOK, Records
    <3> QED
      BY <1>8, <3>1, <3>2, <3>3 DEF StoreFailsBefore, StoreFailsAfter
  <2> QED
    BY <1>8, <2>1, <2>2, <2>3, <2>4 DEF StoreFailsBefore, StoreFailsAfter, TypeOK, Records
<1>9. ASSUME NEW p \in Procs, Crash(p)
       PROVE  TypeOK'
  BY <1>9, BoundsType DEF Crash, TypeOK, Kinds
<1>10. CASE UNCHANGED vars
  BY <1>10 DEF vars, TypeOK
<1> QED
  BY <1>1, <1>2, <1>3, <1>4, <1>5, <1>6, <1>7, <1>8, <1>9, <1>10
  DEF Next, Handle, Trouble, AllDone

(* Every reachable state of the receiver is well typed. *)
THEOREM TypeCorrect == Spec => []TypeOK
  BY TypeInit, TypeStep, PTL DEF Spec

--------------------------------------------------------------------------------
(* The inductive invariant.                                                 *)

(* Who evaluates has a record, and who takes one over saw a failure.        *)
EvalInv ==
  /\ \A c \in Calls : pc[c] \in Working \cup {"reply"} => c \in asked
  /\ \A c \in asked : records[KeyOf[c]].state # "none"
  /\ \A c \in Calls : pc[c] = "reopen" => KeyOf[c] \in failed
  /\ \A key \in Keys : records[key].state = "failed" => key \in failed
  /\ OneEvaluation

(* A stored response is the verdict of an evaluation that is over, a final  *)
(* record holds a stored response, and so does a reply.                     *)
IsVerdictOf(x) ==
  LET c == x[2].from IN
  c \in asked /\ KeyOf[c] = x[1] /\ verdict[c] = x[2].kind /\ pc[c] \in {"reply", "done"}

StoreInv ==
  /\ \A x \in stored : IsVerdictOf(x)
  /\ \A key \in Keys : records[key].state \in {"completed", "denied", "failed"} =>
       <<key, Told(VerdictOf(records[key].state), records[key].by)>> \in stored
  /\ \A c \in Calls : pc[c] = "reply" => <<KeyOf[c], Told(verdict[c], c)>> \in stored
  /\ PersistedBeforeAnswer

IInv == TypeOK /\ EvalInv /\ StoreInv /\ PendingExplained

LEMMA InvInit == Init => IInv
  BY TypeInit DEF Init, IInv, EvalInv, StoreInv, OneEvaluation, PersistedBeforeAnswer,
     PendingExplained, Orphaned, Working, Verdicts, Kinds

(* The effect of a write that makes a record pending, and of an answer.     *)
LEMMA PendingEffect ==
  ASSUME TypeOK, NEW c \in Calls, records' = [records EXCEPT ![KeyOf[c]] = Row("pending", c)]
  PROVE  /\ \A key \in Keys : key # KeyOf[c] => records'[key] = records[key]
         /\ records'[KeyOf[c]].state = "pending"
<1>1. records' = [key \in Keys |-> IF key = KeyOf[c] THEN Row("pending", c) ELSE records[key]]
  BY DEF TypeOK
<1>2. Row("pending", c).state = "pending"
  OBVIOUS
<1> HIDE DEF Row
<1> QED
  BY <1>1, <1>2, KeyOfType

LEMMA AnswerEffect ==
  ASSUME TypeOK, NEW c \in Calls, NEW kind, NEW from, Answer(c, kind, from)
  PROVE  /\ \A d \in Calls : d # c => pc'[d] = pc[d] /\ reply'[d] = reply[d]
         /\ pc'[c] = "done" /\ reply'[c].kind = kind
  BY DEF TypeOK

(* A call that meets a record repeats the response stored there, if any.    *)
LEMMA ExistingStored ==
  ASSUME IInv, NEW c \in Calls, UseExisting(c)
  PROVE  \/ /\ pc' = [pc EXCEPT ![c] = "reopen"] /\ reply' = reply
            /\ KeyOf[c] \in failed
         \/ /\ pc' = [pc EXCEPT ![c] = "done"]
            /\ \E r : /\ reply' = [reply EXCEPT ![c] = r]
                      /\ r.kind \in Verdicts => <<KeyOf[c], r>> \in stored
                      /\ r.kind # "unavailable"
<1> DEFINE row == records[KeyOf[c]]
<1>1. KeyOf[c] \in Keys
  BY KeyOfType
<1>2. CASE Replayable(row.state) /\ Answer(c, VerdictOf(row.state), row.by)
  <2>1. row.state \in {"completed", "denied"} /\ VerdictOf(row.state) \in {"allow", "deny"}
    BY <1>2 DEF Replayable, VerdictOf
  <2> DEFINE r == Told(VerdictOf(row.state), row.by)
  <2>2. <<KeyOf[c], r>> \in stored
    BY <1>1, <2>1 DEF IInv, StoreInv
  <2>3. r.kind # "unavailable"
    BY <2>1
  <2>4. pc' = [pc EXCEPT ![c] = "done"] /\ reply' = [reply EXCEPT ![c] = r]
    BY <1>2
  <2> HIDE DEF r
  <2> QED
    BY <2>2, <2>3, <2>4
<1>3. CASE Answer(c, "in_progress", row.by)
  <2>1. Told("in_progress", row.by).kind \notin Verdicts /\ Told("in_progress", row.by).kind # "unavailable"
    BY DEF Verdicts
  <2> QED
    BY <1>3, <2>1
<1>4. CASE Retryable(row.state) /\ Goto(c, "reopen") /\ UNCHANGED reply
  BY <1>1, <1>4 DEF Retryable, IInv, EvalInv
<1> QED
  BY <1>2, <1>3, <1>4 DEF UseExisting

LEMMA EvalStep == IInv /\ [Next]_vars => EvalInv'
<1> SUFFICES ASSUME IInv, [Next]_vars
             PROVE  EvalInv'
  OBVIOUS
<1> USE DEF IInv, TypeOK, EvalInv, OneEvaluation, Working, history, bounds
<1>1. ASSUME NEW c \in Calls, Receive(c) \/ Reject(c) \/ EngineAnswers(c) \/ Reply(c) \/ EngineUnreachable(c)
      PROVE  EvalInv'
  BY <1>1 DEF Receive, Reject, EngineAnswers, Reply, EngineUnreachable
<1>2. ASSUME NEW c \in Calls, Select(c) \/ Reselect(c)
      PROVE  EvalInv'
  BY <1>2, ExistingStored DEF Select, Reselect
<1>3. ASSUME NEW c \in Calls, Insert(c)
      PROVE  EvalInv'
  <2>1. CASE records[KeyOf[c]] = NoRecord
    <3>1. \A d \in asked : KeyOf[d] # KeyOf[c]
      BY <2>1
    <3>2. KeyOf[c] \in Keys
      BY KeyOfType
    <3>3. /\ pc' = [pc EXCEPT ![c] = "engine"] /\ asked' = asked \cup {c} /\ UNCHANGED failed
          /\ records' = [records EXCEPT ![KeyOf[c]] = Row("pending", c)]
      BY <1>3, <2>1 DEF Insert
    <3>4. /\ \A key \in Keys : key # KeyOf[c] => records'[key] = records[key]
          /\ records'[KeyOf[c]].state = "pending"
      BY <3>3, PendingEffect
    <3> QED
      BY <3>1, <3>2, <3>3, <3>4, KeyOfType
  <2>2. CASE records[KeyOf[c]] # NoRecord
    BY <1>3, <2>2 DEF Insert
  <2> QED
    BY <2>1, <2>2
<1>4. ASSUME NEW c \in Calls, Reopen(c)
      PROVE  EvalInv'
  BY <1>4, KeyOfType DEF Reopen
<1>5. ASSUME NEW c \in Calls, StoreFinal(c), pc[c] = "persist",
             \E p \in {"reply", "done"} : Goto(c, p), UNCHANGED asked
      PROVE  EvalInv'
  <2>1. KeyOf[c] \in Keys /\ verdict[c] \in Verdicts
    BY KeyOfType
  <2>2. /\ FinalState(verdict[c]) # "none"
        /\ FinalState(verdict[c]) = "failed" => verdict[c] = "unavailable"
    BY <2>1 DEF FinalState, Verdicts
  <2> QED
    BY <1>5, <2>1, <2>2 DEF StoreFinal
<1>6. ASSUME NEW c \in Calls, StoreFailsBefore(c)
      PROVE  EvalInv'
  <2>1. pc' = [pc EXCEPT ![c] = "done"] /\ UNCHANGED <<asked, failed>>
    BY <1>6 DEF StoreFailsBefore
  <2>2. CASE UNCHANGED records
    BY <2>1, <2>2
  <2>3. CASE records' = [records EXCEPT ![KeyOf[c]] = Row("pending", c)]
    <3>1. /\ \A key \in Keys : key # KeyOf[c] => records'[key] = records[key]
          /\ records'[KeyOf[c]].state = "pending"
      BY <2>3, PendingEffect
    <3> QED
      BY <2>1, <3>1, KeyOfType
  <2> QED
    BY <1>6, <2>2, <2>3 DEF StoreFailsBefore
<1>7. ASSUME NEW c \in Calls, StoreFailsAfter(c)
      PROVE  EvalInv'
  <2>1. CASE StoreFinal(c)
    BY <1>5, <1>7, <2>1 DEF StoreFailsAfter
  <2>2. CASE UNCHANGED <<records, stored, failed>>
    BY <1>7, <2>2 DEF StoreFailsAfter
  <2> QED
    BY <1>7, <2>1, <2>2 DEF StoreFailsAfter
<1>8. ASSUME NEW c \in Calls, Persist(c)
      PROVE  EvalInv'
  BY <1>5, <1>8 DEF Persist
<1>9. ASSUME NEW p \in Procs, Crash(p)
      PROVE  EvalInv'
  BY <1>9 DEF Crash
<1>10. CASE UNCHANGED vars
  BY <1>10 DEF vars
<1> QED
  BY <1>1, <1>2, <1>3, <1>4, <1>6, <1>7, <1>8, <1>9, <1>10
  DEF Next, Handle, Trouble, AllDone

(* A write that only makes records pending keeps StoreInv.                  *)
LEMMA PendingKeeps ==
  ASSUME IInv, NEW c \in Calls,
         \A d \in Calls : pc'[d] = IF d = c THEN pc'[c] ELSE pc[d],
         pc[c] \notin {"reply", "done"}, pc'[c] # "reply",
         asked \subseteq asked', UNCHANGED <<verdict, reply, stored>>,
         \A key \in Keys : records'[key] = records[key] \/ records'[key].state = "pending"
  PROVE  StoreInv'
<1>1. \A x \in stored' : IsVerdictOf(x)'
  BY DEF IInv, TypeOK, StoreInv, IsVerdictOf
<1>2. \A d \in Calls : pc'[d] = "reply" => <<KeyOf[d], Told(verdict'[d], d)>> \in stored'
  BY DEF IInv, StoreInv
<1>3. \A key \in Keys : records'[key].state \in {"completed", "denied", "failed"} =>
        <<key, Told(VerdictOf(records'[key].state), records'[key].by)>> \in stored'
  BY DEF IInv, StoreInv
<1>4. PersistedBeforeAnswer'
  BY DEF IInv, StoreInv, PersistedBeforeAnswer
<1> QED
  BY <1>1, <1>2, <1>3, <1>4 DEF StoreInv

LEMMA StoreStep == IInv /\ [Next]_vars => StoreInv'
<1> SUFFICES ASSUME IInv, [Next]_vars
             PROVE  StoreInv'
  OBVIOUS
<1> USE DEF IInv, TypeOK, StoreInv, IsVerdictOf, PersistedBeforeAnswer, history, bounds
<1>0. ASSUME NEW c \in Calls, NEW kind, kind \notin Verdicts, Answer(c, kind, Nobody),
             pc[c] \notin {"reply", "done"},
             \A key \in Keys : records'[key] = records[key] \/ records'[key].state = "pending",
             UNCHANGED <<verdict, asked, stored>>
      PROVE  StoreInv'
  <2>1. /\ \A d \in Calls : d # c => pc'[d] = pc[d] /\ reply'[d] = reply[d]
        /\ pc'[c] = "done" /\ reply'[c].kind = kind
    BY <1>0, AnswerEffect
  <2>2. \A x \in stored : x[2].from \in Calls /\ x[2].from # c
    BY <1>0
  <2>3. \A x \in stored' : IsVerdictOf(x)'
    BY <1>0, <2>1, <2>2
  <2>4. PersistedBeforeAnswer'
    BY <1>0, <2>1 DEF Verdicts
  <2> QED
    BY <1>0, <2>1, <2>3, <2>4
<1>1. ASSUME NEW c \in Calls, Receive(c) \/ Reject(c)
      PROVE  StoreInv'
  <2>1. CASE Receive(c)
    BY <2>1 DEF Receive
  <2>2. CASE Reject(c)
    <3>1. Answer(c, "rejected", Nobody) /\ UNCHANGED <<records, verdict, asked, stored>>
      BY <2>2 DEF Reject
    <3> QED
      BY <3>1, <1>0 DEF Verdicts
  <2> QED
    BY <1>1, <2>1, <2>2
<1>2. ASSUME NEW c \in Calls, Select(c) \/ Reselect(c)
      PROVE  StoreInv'
  <2>1. UNCHANGED <<records, verdict, asked, stored>> /\ pc[c] \notin {"reply", "done"}
    BY <1>2 DEF Select, Reselect
  <2>2. CASE pc' = [pc EXCEPT ![c] = "insert"] /\ UNCHANGED reply
    BY <2>1, <2>2, PendingKeeps
  <2>3. CASE UseExisting(c)
    <3>1. CASE pc' = [pc EXCEPT ![c] = "reopen"] /\ reply' = reply
      BY <2>1, <3>1, PendingKeeps
    <3>2. ASSUME NEW r, reply' = [reply EXCEPT ![c] = r], r.kind # "unavailable",
                 r.kind \in Verdicts => <<KeyOf[c], r>> \in stored,
                 pc' = [pc EXCEPT ![c] = "done"]
          PROVE  StoreInv'
      <4>1. \A x \in stored' : IsVerdictOf(x)'
        BY <2>1, <3>2
      <4>2. PersistedBeforeAnswer'
        BY <2>1, <3>2
      <4>3. \A d \in Calls : pc'[d] = "reply" => <<KeyOf[d], Told(verdict'[d], d)>> \in stored'
        BY <2>1, <3>2
      <4>4. \A key \in Keys : records'[key].state \in {"completed", "denied", "failed"} =>
              <<key, Told(VerdictOf(records'[key].state), records'[key].by)>> \in stored'
        BY <2>1
      <4> QED
        BY <4>1, <4>2, <4>3, <4>4
    <3> HIDE DEF IInv, StoreInv
    <3>3. \/ /\ pc' = [pc EXCEPT ![c] = "reopen"] /\ reply' = reply
             /\ KeyOf[c] \in failed
          \/ /\ pc' = [pc EXCEPT ![c] = "done"]
             /\ \E r : /\ reply' = [reply EXCEPT ![c] = r]
                       /\ r.kind \in Verdicts => <<KeyOf[c], r>> \in stored
                       /\ r.kind # "unavailable"
      BY <2>3, ExistingStored
    <3> QED
      BY <3>1, <3>2, <3>3
  <2> QED
    BY <1>2, <2>2, <2>3 DEF Select, Reselect
<1>3. ASSUME NEW c \in Calls, Insert(c) \/ Reopen(c)
      PROVE  StoreInv'
  <2>1. \A d \in Calls : pc'[d] = IF d = c THEN pc'[c] ELSE pc[d]
    BY <1>3 DEF Insert, Reopen
  <2>2. /\ pc[c] \notin {"reply", "done"} /\ pc'[c] # "reply"
        /\ asked \subseteq asked' /\ UNCHANGED <<verdict, reply, stored>>
    BY <1>3 DEF Insert, Reopen
  <2>3. \A key \in Keys : \/ records'[key] = records[key]
                          \/ records'[key].state = "pending"
    <3>1. CASE UNCHANGED records
      BY <3>1
    <3>2. CASE records' = [records EXCEPT ![KeyOf[c]] = Row("pending", c)]
      BY <3>2, PendingEffect
    <3> QED
      BY <1>3, <3>1, <3>2 DEF Insert, Reopen
  <2> QED
    BY <2>1, <2>2, <2>3, PendingKeeps
<1>4. ASSUME NEW c \in Calls, EngineAnswers(c)
      PROVE  StoreInv'
  BY <1>4 DEF EngineAnswers
<1>5. ASSUME NEW c \in Calls, StoreFinal(c), pc[c] = "persist", UNCHANGED <<verdict, asked>>,
             \/ Goto(c, "reply") /\ UNCHANGED reply
             \/ Answer(c, "persistence_failed", Nobody)
      PROVE  StoreInv'
  <2>1. KeyOf[c] \in Keys /\ verdict[c] \in Verdicts /\ c \in asked
    BY <1>5, KeyOfType DEF EvalInv, Working
  <2>2. VerdictOf(FinalState(verdict[c])) = verdict[c]
    BY <2>1 DEF FinalState, VerdictOf, Verdicts
  <2>3. \A x \in stored' : IsVerdictOf(x)'
    BY <1>5, <2>1 DEF StoreFinal
  <2>4. \A key \in Keys : records'[key].state \in {"completed", "denied", "failed"} =>
          <<key, Told(VerdictOf(records'[key].state), records'[key].by)>> \in stored'
    BY <1>5, <2>1, <2>2 DEF StoreFinal
  <2>5. stored \subseteq stored' /\ <<KeyOf[c], Told(verdict[c], c)>> \in stored'
    BY <1>5 DEF StoreFinal
  <2>6. \A d \in Calls : pc'[d] = "reply" => <<KeyOf[d], Told(verdict'[d], d)>> \in stored'
    BY <1>5, <2>5
  <2>7. CASE UNCHANGED reply
    BY <2>3, <2>4, <2>5, <2>6, <2>7
  <2>8. CASE Answer(c, "persistence_failed", Nobody)
    <3>1. /\ \A d \in Calls : d # c => reply'[d] = reply[d]
          /\ reply'[c].kind = "persistence_failed"
      BY <2>8, AnswerEffect
    <3>2. PersistedBeforeAnswer'
      BY <2>5, <3>1 DEF Verdicts
    <3> QED
      BY <2>3, <2>4, <2>6, <3>2
  <2> QED
    BY <1>5, <2>7, <2>8
<1>6. ASSUME NEW c \in Calls, Persist(c)
      PROVE  StoreInv'
  BY <1>5, <1>6 DEF Persist
<1>7. ASSUME NEW c \in Calls, Reply(c)
      PROVE  StoreInv'
  BY <1>7 DEF Reply
<1>8. ASSUME NEW c \in Calls, EngineUnreachable(c)
      PROVE  StoreInv'
  BY <1>8 DEF EngineUnreachable, Verdicts
<1>9. ASSUME NEW c \in Calls, StoreFailsBefore(c)
      PROVE  StoreInv'
  <2>1. Answer(c, "persistence_failed", Nobody) /\ pc[c] \notin {"reply", "done"}
    BY <1>9 DEF StoreFailsBefore, BeforeEngine
  <2>2. UNCHANGED <<verdict, asked, stored>>
    BY <1>9 DEF StoreFailsBefore
  <2>3. \A key \in Keys : \/ records'[key] = records[key]
                          \/ records'[key].state = "pending"
    <3>1. CASE UNCHANGED records
      BY <3>1
    <3>2. CASE records' = [records EXCEPT ![KeyOf[c]] = Row("pending", c)]
      BY <3>2, PendingEffect
    <3> QED
      BY <1>9, <3>1, <3>2 DEF StoreFailsBefore
  <2> QED
    BY <1>0, <2>1, <2>2, <2>3 DEF Verdicts
<1>10. ASSUME NEW c \in Calls, StoreFailsAfter(c)
       PROVE  StoreInv'
  <2>1. CASE StoreFinal(c)
    BY <1>5, <1>10, <2>1 DEF StoreFailsAfter
  <2>2. CASE UNCHANGED <<records, stored, failed>>
    BY <1>10, <2>2 DEF StoreFailsAfter, Verdicts
  <2> QED
    BY <1>10, <2>1, <2>2 DEF StoreFailsAfter
<1>11. ASSUME NEW p \in Procs, Crash(p)
       PROVE  StoreInv'
  BY <1>11 DEF Crash, Verdicts
<1>12. CASE UNCHANGED vars
  BY <1>12 DEF vars
<1> QED
  BY <1>1, <1>2, <1>3, <1>4, <1>6, <1>7, <1>8, <1>9, <1>10, <1>11, <1>12
  DEF Next, Handle, Trouble, AllDone

LEMMA OrphanStep == IInv /\ [Next]_vars => PendingExplained'
<1> SUFFICES ASSUME IInv, [Next]_vars
             PROVE  PendingExplained'
  OBVIOUS
<1> USE DEF IInv, TypeOK, PendingExplained, Orphaned, Working, history, bounds
<1>1. ASSUME NEW c \in Calls, Receive(c) \/ Reject(c) \/ EngineAnswers(c) \/ Reply(c)
      PROVE  PendingExplained'
  BY <1>1 DEF Receive, Reject, EngineAnswers, Reply
<1>2. ASSUME NEW c \in Calls, Select(c) \/ Reselect(c)
      PROVE  PendingExplained'
  BY <1>2, ExistingStored DEF Select, Reselect
<1>3. ASSUME NEW c \in Calls, Insert(c) \/ Reopen(c)
      PROVE  PendingExplained'
  BY <1>3, KeyOfType DEF Insert, Reopen
<1>4. ASSUME NEW c \in Calls, StoreFinal(c), pc[c] = "persist",
             \E p \in {"reply", "done"} : Goto(c, p), UNCHANGED orphaned
      PROVE  PendingExplained'
  <2>1. KeyOf[c] \in Keys /\ FinalState(verdict[c]) # "pending"
    BY KeyOfType DEF FinalState, Verdicts
  <2> QED
    BY <1>4, <2>1 DEF StoreFinal
<1>5. ASSUME NEW c \in Calls, Persist(c)
      PROVE  PendingExplained'
  BY <1>4, <1>5 DEF Persist
<1>6. ASSUME NEW c \in Calls, NEW why, Orphan(c, why), UNCHANGED records,
             \E p \in {"reply", "done"} : Goto(c, p)
      PROVE  PendingExplained'
  BY <1>6, KeyOfType DEF Orphan
<1>7. ASSUME NEW c \in Calls, EngineUnreachable(c)
      PROVE  PendingExplained'
  BY <1>6, <1>7 DEF EngineUnreachable
<1>8. ASSUME NEW c \in Calls, StoreFailsBefore(c)
      PROVE  PendingExplained'
  <2>1. /\ \A d \in Calls : pc'[d] = IF d = c THEN "done" ELSE pc[d]
        /\ pc[c] \notin Working
    BY <1>8 DEF StoreFailsBefore, BeforeEngine
  <2>2. CASE UNCHANGED <<records, orphaned>>
    BY <2>1, <2>2
  <2>3. CASE Orphan(c, "store") /\ records' = [records EXCEPT ![KeyOf[c]] = Row("pending", c)]
    <3>1. \A key \in Keys : key # KeyOf[c] => records'[key] = records[key]
      BY <2>3, PendingEffect
    <3>2. \A key \in Keys : orphaned'[key] = IF key = KeyOf[c] THEN orphaned[key] \cup {"store"} ELSE orphaned[key]
      BY <2>3, KeyOfType DEF Orphan
    <3> QED
      BY <2>1, <3>1, <3>2
  <2> QED
    BY <1>8, <2>2, <2>3 DEF StoreFailsBefore
<1>9. ASSUME NEW c \in Calls, StoreFailsAfter(c)
      PROVE  PendingExplained'
  BY <1>4, <1>6, <1>9 DEF StoreFailsAfter
<1>10. ASSUME NEW p \in Procs, Crash(p)
       PROVE  PendingExplained'
  BY <1>10 DEF Crash
<1>11. CASE UNCHANGED vars
  BY <1>11 DEF vars
<1> QED
  BY <1>1, <1>2, <1>3, <1>5, <1>7, <1>8, <1>9, <1>10, <1>11
  DEF Next, Handle, Trouble, AllDone

(* The invariant is inductive.                                              *)
LEMMA InvAlways == Spec => []IInv
<1>1. IInv /\ [Next]_vars => IInv'
  BY TypeStep, EvalStep, StoreStep, OrphanStep DEF IInv
<1> QED
  BY InvInit, <1>1, PTL DEF Spec

--------------------------------------------------------------------------------
(* What follows.                                                            *)

(* createPending lets one message per idempotency key through to the        *)
(* engine, until a failure stored under the key opens it for another.       *)
THEOREM EvaluatedOnce == Spec => []OneEvaluation
<1>1. IInv => OneEvaluation
  BY DEF IInv, EvalInv
<1> QED
  BY <1>1, InvAlways, PTL

(* Retries and duplicates are told what the one evaluation decided.         *)
THEOREM OneDecision == Spec => []AnswersAgree
<1>1. ASSUME IInv, NEW c \in Calls, NEW d \in Calls, Final(c), Final(d),
             KeyOf[c] = KeyOf[d], KeyOf[c] \notin failed
      PROVE  reply[c] = reply[d]
  <2>1. <<KeyOf[c], reply[c]>> \in stored /\ <<KeyOf[d], reply[d]>> \in stored
    BY <1>1 DEF IInv, StoreInv, PersistedBeforeAnswer, Final, Verdicts
  <2>2. IsVerdictOf(<<KeyOf[c], reply[c]>>) /\ IsVerdictOf(<<KeyOf[d], reply[d]>>)
    <3>1. \A x \in stored : IsVerdictOf(x)
      BY <1>1 DEF IInv, StoreInv
    <3> QED
      BY <2>1, <3>1
  <2>3. reply[c].from = reply[d].from
    BY <1>1, <2>2 DEF IInv, IsVerdictOf, EvalInv, OneEvaluation
  <2>4. reply[c].kind = reply[d].kind
    BY <2>2, <2>3 DEF IsVerdictOf
  <2>5. /\ reply[c] \in [kind : Kinds, from : Calls \cup {Nobody}]
        /\ reply[d] \in [kind : Kinds, from : Calls \cup {Nobody}]
    BY <1>1 DEF IInv, TypeOK
  <2> QED
    BY <2>3, <2>4, <2>5
<1>2. IInv => AnswersAgree
  BY <1>1 DEF AnswersAgree
<1> QED
  BY <1>2, InvAlways, PTL

(* handleSendMessage never reports a decision that is not on record, and    *)
(* never replays a stored failure.                                          *)
THEOREM DecisionOnRecord == Spec => []PersistedBeforeAnswer
<1>1. IInv => PersistedBeforeAnswer
  BY DEF IInv, StoreInv
<1> QED
  BY <1>1, InvAlways, PTL

(* A pending record that nobody works on was left by a crash, by a failed   *)
(* statement or by an unreachable engine.                                   *)
THEOREM OrphansExplained == Spec => []PendingExplained
<1>1. IInv => PendingExplained
  BY DEF IInv
<1> QED
  BY <1>1, InvAlways, PTL
--------------------------------------------------------------------------------
(* Replays.                                                                 *)

(* Before it asks, a call has no part in what is stored; a call that was    *)
(* over when c arrived stays over, and was not told what c decided.         *)
ReplayInv ==
  /\ \A c \in asked : pc[c] \in Working \cup {"reply", "done"}
  /\ \A c \in Calls : \A d \in prior[c] :
       pc[d] = "done" /\ (Final(d) => reply[d].from # c)

LEMMA ReplayInit == Init => ReplayInv
  BY DEF Init, ReplayInv

(* A decision a caller was told is that of a call that asked.               *)
LEMMA DecidedByAsker ==
  ASSUME IInv, NEW d \in Calls, Final(d)
  PROVE  reply[d].from \in asked /\ KeyOf[reply[d].from] = KeyOf[d]
<1>1. <<KeyOf[d], reply[d]>> \in stored
  BY DEF IInv, StoreInv, PersistedBeforeAnswer, Final, Verdicts
<1>2. \A x \in stored : IsVerdictOf(x)
  BY DEF IInv, StoreInv
<1> QED
  BY <1>1, <1>2 DEF IsVerdictOf

LEMMA ReplayStep == IInv /\ ReplayInv /\ [Next]_vars => ReplayInv'
<1> SUFFICES ASSUME IInv, ReplayInv, [Next]_vars
             PROVE  ReplayInv'
  OBVIOUS
<1> USE DEF IInv, TypeOK, ReplayInv, Working, Final, history, bounds
<1>1. ASSUME NEW c \in Calls, Receive(c)
      PROVE  ReplayInv'
  <2>1. c \notin asked
    BY <1>1 DEF Receive
  <2>2. \A d \in Calls : Final(d) => reply[d].from # c
    BY <2>1, DecidedByAsker
  <2> QED
    BY <1>1, <2>1, <2>2 DEF Receive
<1>2. ASSUME NEW c \in Calls, pc[c] # "done", UNCHANGED prior,
             \A d \in Calls \ {c} : pc'[d] = pc[d] /\ reply'[d] = reply[d],
             asked' \in {asked, asked \cup {c}},
             c \in asked' => pc'[c] \in Working \cup {"reply", "done"}
      PROVE  ReplayInv'
  BY <1>2
<1>3. ASSUME NEW c \in Calls, Reject(c) \/ Select(c) \/ Reselect(c)
      PROVE  ReplayInv'
  <2>1. c \notin asked
    BY <1>3 DEF Reject, Select, Reselect
  <2>2. UNCHANGED <<prior, asked>>
    BY <1>3 DEF Reject, Select, Reselect
  <2>3. \A d \in Calls \ {c} : pc'[d] = pc[d] /\ reply'[d] = reply[d]
    BY <1>3 DEF Reject, Select, Reselect, UseExisting
  <2>4. pc[c] # "done"
    BY <1>3 DEF Reject, Select, Reselect
  <2> QED
    BY <1>2, <2>1, <2>2, <2>3, <2>4
<1>4. ASSUME NEW c \in Calls, Insert(c) \/ Reopen(c)
      PROVE  ReplayInv'
  BY <1>2, <1>4 DEF Insert, Reopen
<1>5. ASSUME NEW c \in Calls,
             EngineAnswers(c) \/ Persist(c) \/ Reply(c) \/ EngineUnreachable(c) \/ StoreFailsAfter(c)
      PROVE  ReplayInv'
  BY <1>2, <1>5 DEF EngineAnswers, Persist, Reply, EngineUnreachable, StoreFailsAfter
<1>6. ASSUME NEW c \in Calls, StoreFailsBefore(c)
      PROVE  ReplayInv'
  BY <1>2, <1>6 DEF StoreFailsBefore, BeforeEngine
<1>7. ASSUME NEW p \in Procs, Crash(p)
      PROVE  ReplayInv'
  BY <1>7 DEF Crash
<1>8. CASE UNCHANGED vars
  BY <1>8 DEF vars
<1> QED
  BY <1>1, <1>3, <1>4, <1>5, <1>6, <1>7, <1>8 DEF Next, Handle, Trouble, AllDone

(* A decision that was told is replayed to every later message under its    *)
(* key, unless an engine failure was stored there: the terminal state that  *)
(* gets lost (FinalIsReplayed) is lost through Reopen and nothing else.     *)
THEOREM DecisionsReplayed == Spec => []ReplayedUnlessFailed
<1>1. IInv /\ ReplayInv => ReplayedUnlessFailed
  <2> SUFFICES ASSUME IInv, ReplayInv, NEW c \in asked, NEW d \in prior[c],
                      KeyOf[c] = KeyOf[d], Final(d), KeyOf[c] \notin failed
               PROVE  FALSE
    BY DEF ReplayedUnlessFailed
  <2>1. c \in Calls /\ d \in Calls
    BY DEF IInv, TypeOK
  <2>2. reply[d].from \in asked /\ KeyOf[reply[d].from] = KeyOf[d]
    BY <2>1, DecidedByAsker
  <2>3. reply[d].from = c
    BY <2>2 DEF IInv, EvalInv, OneEvaluation
  <2> QED
    BY <2>1, <2>3 DEF ReplayInv
<1>2. Spec => [](IInv /\ ReplayInv)
  <2>1. IInv /\ [Next]_vars => IInv'
    BY TypeStep, EvalStep, StoreStep, OrphanStep DEF IInv
  <2> QED
    BY InvInit, ReplayInit, <2>1, ReplayStep, PTL DEF Spec
<1> QED
  BY <1>1, <1>2, PTL

(* A completed or denied record is not written again.                       *)
FinalRecordKept ==
  \A key \in Keys :
    Replayable(records[key].state) /\ key \notin failed => records'[key] = records[key]

(* The UPDATEs of the task store have no guard (WHERE id = $1): what keeps  *)
(* a terminal record is that nobody but its one evaluation writes it.  It   *)
(* takes a failure stored under the key to have a second writer.            *)
THEOREM TerminalIsTerminal == Spec => [][FinalRecordKept]_vars
<1>1. ASSUME IInv, NEW c \in Calls, pc[c] \in {"insert", "reopen", "persist"},
             pc[c] = "insert" => records[KeyOf[c]] = NoRecord,
             Replayable(records[KeyOf[c]].state), KeyOf[c] \notin failed
      PROVE  FALSE
  <2> DEFINE row == records[KeyOf[c]]
  <2>1. KeyOf[c] \in Keys /\ row.state \in {"completed", "denied"}
    BY <1>1, KeyOfType DEF Replayable
  <2>2. pc[c] # "insert"
    BY <1>1, <2>1
  <2>3. pc[c] # "reopen"
    BY <1>1 DEF IInv, EvalInv
  <2>4. <<KeyOf[c], Told(VerdictOf(row.state), row.by)>> \in stored
    BY <1>1, <2>1 DEF IInv, StoreInv
  <2>5. row.by \in asked /\ KeyOf[row.by] = KeyOf[c] /\ pc[row.by] \in {"reply", "done"}
    BY <1>1, <2>4 DEF IInv, StoreInv, IsVerdictOf
  <2>6. c \in asked
    BY <1>1, <2>2, <2>3 DEF IInv, EvalInv, Working
  <2> QED
    BY <1>1, <2>2, <2>3, <2>5, <2>6 DEF IInv, EvalInv, OneEvaluation
<1>2. ASSUME IInv, [Next]_vars
      PROVE  [FinalRecordKept]_vars
  <2> USE DEF IInv, TypeOK
  <2>1. ASSUME NEW c \in Calls, pc[c] \in {"insert", "reopen", "persist"},
               pc[c] = "insert" => records[KeyOf[c]] = NoRecord,
               \E r : records' = [records EXCEPT ![KeyOf[c]] = r]
        PROVE  FinalRecordKept
    BY <1>1, <1>2, <2>1 DEF FinalRecordKept
  <2>2. ASSUME UNCHANGED records
        PROVE  FinalRecordKept
    BY <2>2 DEF FinalRecordKept
  <2>3. ASSUME NEW c \in Calls,
               Receive(c) \/ Reject(c) \/ Select(c) \/ Reselect(c) \/ EngineAnswers(c)
                 \/ Reply(c) \/ EngineUnreachable(c)
        PROVE  FinalRecordKept
    BY <2>2, <2>3 DEF Receive, Reject, Select, Reselect, EngineAnswers, Reply, EngineUnreachable
  <2>4. ASSUME NEW c \in Calls, Insert(c) \/ Reopen(c) \/ Persist(c)
        PROVE  FinalRecordKept
    BY <2>1, <2>2, <2>4 DEF Insert, Reopen, Persist, StoreFinal
  <2>5. ASSUME NEW c \in Calls, StoreFailsBefore(c) \/ StoreFailsAfter(c)
        PROVE  FinalRecordKept
    BY <2>1, <2>2, <2>5 DEF StoreFailsBefore, StoreFailsAfter, StoreFinal
  <2>6. ASSUME NEW p \in Procs, Crash(p)
        PROVE  FinalRecordKept
    BY <2>2, <2>6 DEF Crash
  <2> QED
    BY <1>2, <2>3, <2>4, <2>5, <2>6 DEF Next, Handle, Trouble, AllDone
<1> QED
  BY <1>2, InvAlways, PTL DEF Spec

--------------------------------------------------------------------------------
(* Every step of a message brings it nearer to its answer.                  *)

Rank == [idle |-> 8, select |-> 7, insert |-> 6, reselect |-> 5, reopen |-> 4,
         engine |-> 3, persist |-> 2, reply |-> 1, done |-> 0]

Descends == \A c \in Calls : pc'[c] # pc[c] => Rank[pc'[c]] < Rank[pc[c]]

(* A message takes at most eight steps to its answer, crashes and failing   *)
(* statements included: no pair of calls sends each other back to the       *)
(* look-up, and a lost race is not run again.                               *)
THEOREM MessagesTerminate == Spec => [][Descends]_vars
<1>1. /\ Rank["idle"] = 8 /\ Rank["select"] = 7 /\ Rank["insert"] = 6
      /\ Rank["reselect"] = 5 /\ Rank["reopen"] = 4 /\ Rank["engine"] = 3
      /\ Rank["persist"] = 2 /\ Rank["reply"] = 1 /\ Rank["done"] = 0
  BY DEF Rank
<1>2. \A x \in PcStates : x # "done" => 0 < Rank[x]
  BY <1>1 DEF PcStates, BeforeEngine, Working
<1>3. ASSUME IInv, [Next]_vars
      PROVE  [Descends]_vars
  <2> USE DEF IInv, TypeOK, PcStates, BeforeEngine, Working
  <2>1. ASSUME NEW c \in Calls, NEW x, Goto(c, x), Rank[x] < Rank[pc[c]]
        PROVE  Descends
    BY <1>3, <2>1 DEF Descends
  <2>2. ASSUME NEW c \in Calls, Goto(c, "done"), pc[c] # "done"
        PROVE  Descends
    BY <1>1, <1>2, <1>3, <2>1, <2>2
  <2>3. ASSUME NEW c \in Calls, Receive(c)
        PROVE  Descends
    <3>1. pc[c] = "idle" /\ Goto(c, "select")
      BY <2>3 DEF Receive
    <3> HIDE DEF Goto
    <3> QED
      BY <1>1, <2>1, <3>1
  <2>4. ASSUME NEW c \in Calls, Reject(c) \/ Reply(c) \/ Trouble(c)
        PROVE  Descends
    <3>1. pc[c] # "done" /\ Goto(c, "done")
      BY <2>4 DEF Reject, Reply, Trouble, EngineUnreachable, StoreFailsBefore, StoreFailsAfter
    <3> QED
      BY <2>2, <3>1
  <2>5. ASSUME NEW c \in Calls, Select(c) \/ Reselect(c)
        PROVE  Descends
    <3>1. pc[c] \in {"select", "reselect"}
      BY <2>5 DEF Select, Reselect
    <3>2. \E x \in {"insert", "reopen", "done"} : Goto(c, x) /\ (x = "insert" => pc[c] = "select")
      BY <2>5 DEF Select, Reselect, UseExisting
    <3> HIDE DEF Goto
    <3> QED
      BY <1>1, <2>1, <3>1, <3>2
  <2>6. ASSUME NEW c \in Calls, Insert(c) \/ Reopen(c) \/ EngineAnswers(c) \/ Persist(c)
        PROVE  Descends
    <3>1. \/ pc[c] = "insert" /\ (Goto(c, "reselect") \/ Goto(c, "engine"))
          \/ pc[c] = "reopen" /\ Goto(c, "engine")
          \/ pc[c] = "engine" /\ Goto(c, "persist")
          \/ pc[c] = "persist" /\ Goto(c, "reply")
      BY <2>6 DEF Insert, Reopen, EngineAnswers, Persist
    <3> HIDE DEF Goto
    <3> QED
      BY <1>1, <2>1, <3>1
  <2>7. ASSUME NEW p \in Procs, Crash(p)
        PROVE  Descends
    BY <1>1, <1>2, <1>3, <2>7 DEF Crash, Descends
  <2>8. CASE UNCHANGED vars
    BY <2>8
  <2> QED
    BY <1>3, <2>3, <2>4, <2>5, <2>6, <2>7, <2>8 DEF Next, Handle, AllDone
<1> QED
  BY <1>3, InvAlways, PTL DEF Spec
================================================================================
