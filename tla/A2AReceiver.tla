------------------------------ MODULE A2AReceiver ------------------------------
(***************************************************************************)
(* handleSendMessage of the A2A receiver and the Postgres task store behind *)
(* it, extensions/a2a/receiver-middleware/src/index.js.                     *)
(*                                                                          *)
(* A call is one inbound message; the calls of several receiver processes   *)
(* interleave at every await.  A task record is what a retry under the same *)
(* idempotency key meets: it is created pending before the policy engine is *)
(* asked, and replaced by the final response before the caller is told.     *)
(*                                                                          *)
(* The engine is external: it allows, denies, answers with a failure, or    *)
(* cannot be reached.  Processes crash, and statements of the store fail    *)
(* with or without having taken effect.                                     *)
(***************************************************************************)
EXTENDS Integers, FiniteSets

CONSTANTS
  Calls,      \* inbound messages that carry the extension
  Keys,       \* idempotency keys (metadata idempotencyKey, else messageId)
  Procs,      \* receiver processes that share the task store
  KeyOf,      \* the idempotency key of each call
  ProcOf,     \* the process that handles it
  Nobody,     \* no call
  MaxCrashes, \* bound: crashes of a process
  MaxFaults,  \* bound: failing statements of the task store
  MaxOutages  \* bound: requests that do not reach the engine

ASSUME NobodyIsNoCall == Nobody \notin Calls
ASSUME KeyOfType == KeyOf \in [Calls -> Keys]
ASSUME ProcOfType == ProcOf \in [Calls -> Procs]
ASSUME BoundsType == MaxCrashes \in Nat /\ MaxFaults \in Nat /\ MaxOutages \in Nat

VARIABLES
  pc,       \* what each call does next
  records,  \* the task record of each key: lifecycle state and last writer
  verdict,  \* what the engine answered to a call
  reply,    \* what the caller of each call was told, and whose evaluation it is
  crashes, faults, outages,
  \* history, which no action reads:
  asked,    \* calls that asked the engine
  prior,    \* calls that were over when a call arrived
  stored,   \* responses that were ever stored under a key
  failed,   \* keys under which an engine failure was ever stored
  orphaned  \* why a key's record may be pending with nobody working on it

history == <<prior, stored, failed, orphaned>>
bounds == <<crashes, faults, outages>>
vars == <<pc, records, verdict, reply, bounds, asked, history>>

LifecycleStates == {"none", "pending", "completed", "denied", "failed"}
Verdicts == {"allow", "deny", "unavailable"}
Kinds == Verdicts \cup {"none", "rejected", "in_progress", "persistence_failed", "error", "lost"}
BeforeEngine == {"select", "insert", "reselect", "reopen"}
Working == {"engine", "persist"}
PcStates == {"idle", "reply", "done"} \cup BeforeEngine \cup Working

Row(state, c) == [state |-> state, by |-> c]
Told(kind, c) == [kind |-> kind, from |-> c]
NoRecord == Row("none", Nobody)

Init ==
  /\ pc = [c \in Calls |-> "idle"]
  /\ records = [key \in Keys |-> NoRecord]
  /\ verdict = [c \in Calls |-> "unavailable"]
  /\ reply = [c \in Calls |-> Told("none", Nobody)]
  /\ crashes = 0 /\ faults = 0 /\ outages = 0
  /\ asked = {}
  /\ prior = [c \in Calls |-> {}]
  /\ stored = {}
  /\ failed = {}
  /\ orphaned = [key \in Keys |-> {}]

Goto(c, where) == pc' = [pc EXCEPT ![c] = where]

Answer(c, kind, from) ==
  /\ Goto(c, "done")
  /\ reply' = [reply EXCEPT ![c] = Told(kind, from)]

(* From here on the call evaluates: it asks the engine. *)
AskEngine(c) == Goto(c, "engine") /\ asked' = asked \cup {c}

--------------------------------------------------------------------------------
(* Arrival.                                                                 *)

(* The message, its metadata, the mapped request context and the proof of  *)
(* possession policy are in order.                                          *)
Receive(c) ==
  /\ pc[c] = "idle"
  /\ Goto(c, "select")
  /\ prior' = [prior EXCEPT ![c] = {d \in Calls : pc[d] = "done"}]
  /\ UNCHANGED <<records, verdict, reply, bounds, asked, stored, failed, orphaned>>

(* They are not: nothing is stored and the engine is not asked. *)
Reject(c) ==
  /\ pc[c] = "idle"
  /\ Answer(c, "rejected", Nobody)
  /\ UNCHANGED <<records, verdict, bounds, asked, history>>

--------------------------------------------------------------------------------
(* createPending, and what handleSendMessage makes of a record it found.    *)

Replayable(state) == state \in {"completed", "denied"}

RetryablePending(state) == state \in {"failed", "pending"}
Retryable(state) == state = "failed"

VerdictOf(state) ==
  CASE state = "completed" -> "allow" [] state = "denied" -> "deny" [] state = "failed" -> "unavailable"

(* A final response is replayed, a pending record reported as in progress,  *)
(* a failed one taken over by another evaluation.                           *)
UseExisting(c) ==
  LET row == records[KeyOf[c]] IN
  \/ /\ Replayable(row.state)
     /\ Answer(c, VerdictOf(row.state), row.by)
  \/ /\ ~Replayable(row.state) /\ ~Retryable(row.state)
     /\ Answer(c, "in_progress", row.by)
  \/ /\ ~Replayable(row.state) /\ Retryable(row.state)
     /\ Goto(c, "reopen") /\ UNCHANGED reply

Select(c) ==
  /\ pc[c] = "select"
  /\ IF records[KeyOf[c]] = NoRecord
       THEN Goto(c, "insert") /\ UNCHANGED reply
       ELSE UseExisting(c)
  /\ UNCHANGED <<records, verdict, bounds, asked, history>>

InsertUpserts(c) ==
  /\ pc[c] = "insert"
  /\ AskEngine(c)
  /\ records' = [records EXCEPT ![KeyOf[c]] = Row("pending", c)]
  /\ UNCHANGED <<verdict, reply, bounds, history>>

(* INSERT: one of several racing calls creates the record, the others fail  *)
(* on the unique idempotency key.                                           *)
Insert(c) ==
  /\ pc[c] = "insert"
  /\ IF records[KeyOf[c]] = NoRecord
       THEN AskEngine(c) /\ records' = [records EXCEPT ![KeyOf[c]] = Row("pending", c)]
       ELSE Goto(c, "reselect") /\ UNCHANGED <<records, asked>>
  /\ UNCHANGED <<verdict, reply, bounds, history>>

ReselectRetriesInsert(c) ==
  /\ pc[c] = "reselect"
  /\ Goto(c, "insert")
  /\ UNCHANGED <<records, verdict, reply, bounds, asked, history>>

(* A racing call reads the record that beat it.  Records are not deleted,   *)
(* so it is there.                                                          *)
Reselect(c) ==
  /\ pc[c] = "reselect"
  /\ UseExisting(c)
  /\ UNCHANGED <<records, verdict, bounds, asked, history>>

(* UPDATE ... WHERE id = $1: whatever became of the record since it was     *)
(* read as failed, it is pending again and its response is gone.            *)
Reopen(c) ==
  /\ pc[c] = "reopen"
  /\ records' = [records EXCEPT ![KeyOf[c]] = Row("pending", c)]
  /\ AskEngine(c)
  /\ UNCHANGED <<verdict, reply, bounds, history>>

--------------------------------------------------------------------------------
(* The evaluation and its outcome.                                          *)

(* Any response: 2xx or an error with a decision counts as allow or deny,   *)
(* an error without a decision as a failure.                                *)
EngineAnswers(c) ==
  /\ pc[c] = "engine"
  /\ \E v \in Verdicts : verdict' = [verdict EXCEPT ![c] = v]
  /\ Goto(c, "persist")
  /\ UNCHANGED <<records, reply, bounds, asked, history>>

FinalStateUnlisted(v) ==
  CASE v = "allow" -> "completed" [] v = "deny" -> "rejected" [] v = "unavailable" -> "failed"

FinalState(v) ==
  CASE v = "allow" -> "completed" [] v = "deny" -> "denied" [] v = "unavailable" -> "failed"

StoreFinal(c) ==
  /\ records' = [records EXCEPT ![KeyOf[c]] = Row(FinalState(verdict[c]), c)]
  /\ stored' = stored \cup {<<KeyOf[c], Told(verdict[c], c)>>}
  /\ failed' = IF verdict[c] = "unavailable" THEN failed \cup {KeyOf[c]} ELSE failed

PersistSkipsFailed(c) ==
  /\ pc[c] = "persist"
  /\ IF verdict[c] = "unavailable" THEN UNCHANGED <<records, stored, failed>> ELSE StoreFinal(c)
  /\ Goto(c, "reply")
  /\ UNCHANGED <<verdict, reply, bounds, asked, prior, orphaned>>

(* persistFinalResponse: the record takes the final state and response. *)
Persist(c) ==
  /\ pc[c] = "persist"
  /\ StoreFinal(c)
  /\ Goto(c, "reply")
  /\ UNCHANGED <<verdict, reply, bounds, asked, prior, orphaned>>

(* Then the caller is told. *)
Reply(c) ==
  /\ pc[c] = "reply"
  /\ Answer(c, verdict[c], c)
  /\ UNCHANGED <<records, verdict, bounds, asked, history>>

--------------------------------------------------------------------------------
(* What goes wrong.                                                         *)

Orphan(c, why) == orphaned' = [orphaned EXCEPT ![KeyOf[c]] = @ \cup {why}]

(* fetch rejects, or the response breaks off: handleSendMessage rejects     *)
(* too, and the record stays as it is.                                      *)
EngineUnreachable(c) ==
  /\ outages < MaxOutages /\ outages' = outages + 1
  /\ pc[c] = "engine"
  /\ Answer(c, "error", Nobody)
  /\ Orphan(c, "engine")
  /\ UNCHANGED <<records, verdict, crashes, faults, asked, prior, stored, failed>>

(* A statement before the evaluation fails: 500, the engine is not asked.   *)
(* The INSERT or UPDATE may have taken effect nevertheless.                 *)
StoreFailsBefore(c) ==
  /\ faults < MaxFaults /\ faults' = faults + 1
  /\ pc[c] \in BeforeEngine
  /\ Answer(c, "persistence_failed", Nobody)
  /\ \/ UNCHANGED <<records, orphaned>>
     \/ /\ pc[c] = "reopen" \/ (pc[c] = "insert" /\ records[KeyOf[c]] = NoRecord)
        /\ records' = [records EXCEPT ![KeyOf[c]] = Row("pending", c)]
        /\ Orphan(c, "store")
  /\ UNCHANGED <<verdict, crashes, outages, asked, prior, stored, failed>>

StoreFailsAfterUnnoticed(c) ==
  /\ faults < MaxFaults /\ faults' = faults + 1
  /\ pc[c] = "persist"
  /\ Answer(c, verdict[c], c)
  /\ Orphan(c, "store")
  /\ UNCHANGED <<records, verdict, crashes, outages, asked, prior, stored, failed>>

(* The final UPDATE fails: 500, whatever the engine decided. *)
StoreFailsAfter(c) ==
  /\ faults < MaxFaults /\ faults' = faults + 1
  /\ pc[c] = "persist"
  /\ Answer(c, "persistence_failed", Nobody)
  /\ \/ Orphan(c, "store") /\ UNCHANGED <<records, stored, failed>>
     \/ StoreFinal(c) /\ UNCHANGED orphaned
  /\ UNCHANGED <<verdict, crashes, outages, asked, prior>>

(* A process exits with its calls; their callers get no answer. *)
Crash(p) ==
  LET mine == {c \in Calls : ProcOf[c] = p /\ pc[c] \notin {"idle", "done"}} IN
  /\ crashes < MaxCrashes /\ crashes' = crashes + 1
  /\ mine # {}
  /\ pc' = [c \in Calls |-> IF c \in mine THEN "done" ELSE pc[c]]
  /\ reply' = [c \in Calls |-> IF c \in mine THEN Told("lost", Nobody) ELSE reply[c]]
  /\ orphaned' = [key \in Keys |->
       IF \E c \in mine : KeyOf[c] = key /\ pc[c] \in Working
         THEN orphaned[key] \cup {"crash"} ELSE orphaned[key]]
  /\ UNCHANGED <<records, verdict, faults, outages, asked, prior, stored, failed>>

--------------------------------------------------------------------------------

Handle(c) ==
  \/ Select(c) \/ Insert(c) \/ Reselect(c) \/ Reopen(c)
  \/ EngineAnswers(c) \/ Persist(c) \/ Reply(c)

Trouble(c) == EngineUnreachable(c) \/ StoreFailsBefore(c) \/ StoreFailsAfter(c)

(* Every message has been dealt with. *)
AllDone ==
  /\ \A c \in Calls : pc[c] = "done"
  /\ UNCHANGED vars

Next ==
  \/ \E c \in Calls : Receive(c) \/ Reject(c) \/ Handle(c) \/ Trouble(c)
  \/ \E p \in Procs : Crash(p)
  \/ AllDone

Spec == Init /\ [][Next]_vars

(* A call goes on as long as its process lives: statements return and the   *)
(* engine answers or the request fails.                                     *)
FairSpec == Spec /\ \A c \in Calls : WF_vars(Handle(c))
--------------------------------------------------------------------------------
(* Properties.                                                              *)

(* Every variable has its type. *)
TypeOK ==
  /\ pc \in [Calls -> PcStates]
  /\ records \in [Keys -> [state : LifecycleStates, by : Calls \cup {Nobody}]]
  /\ verdict \in [Calls -> Verdicts]
  /\ reply \in [Calls -> [kind : Kinds, from : Calls \cup {Nobody}]]
  /\ crashes \in 0..MaxCrashes /\ faults \in 0..MaxFaults /\ outages \in 0..MaxOutages
  /\ asked \subseteq Calls
  /\ prior \in [Calls -> SUBSET Calls]
  /\ stored \subseteq Keys \X [kind : Verdicts, from : Calls]
  /\ failed \subseteq Keys
  /\ orphaned \in [Keys -> SUBSET {"engine", "store", "crash"}]

(* However many messages race under one idempotency key, and through        *)
(* whichever processes, one of them asks the engine, as long as no engine   *)
(* failure was stored under the key.                                        *)
OneEvaluation ==
  \A c, d \in asked : KeyOf[c] = KeyOf[d] /\ KeyOf[c] \notin failed => c = d

Final(c) == reply[c].kind \in {"allow", "deny"}

(* Whoever is told a decision under a key is told the same one, with the    *)
(* same audit record, unless an engine failure was stored in between.       *)
AnswersAgree ==
  \A c, d \in Calls : Final(c) /\ Final(d) /\ KeyOf[c] = KeyOf[d] /\ KeyOf[c] \notin failed =>
    reply[c] = reply[d]

(* A decision or an engine failure is reported only after exactly that      *)
(* response was stored under the key: no claim of success when the final    *)
(* write failed.  A failure is told to the call that met it and to no other: *)
(* it is transient.                                                         *)
PersistedBeforeAnswer ==
  \A c \in Calls : reply[c].kind \in Verdicts =>
    /\ <<KeyOf[c], reply[c]>> \in stored
    /\ reply[c].kind = "unavailable" => reply[c].from = c

Orphaned(key) ==
  records[key].state = "pending" /\ ~ \E c \in Calls : KeyOf[c] = key /\ pc[c] \in Working

(* A record is left pending with nobody to finish it only where the code    *)
(* gives up on it: a crash, a failed statement or an unreachable engine.    *)
PendingExplained == \A key \in Keys : Orphaned(key) => orphaned[key] # {}

(* A message that arrives after a decision was told under its key never     *)
(* asks the engine: the stored response is replayed.                        *)
FinalIsReplayed ==
  \A c \in asked : \A d \in prior[c] : ~(KeyOf[c] = KeyOf[d] /\ Final(d))

(* It does so only under a key with a stored engine failure: a decision     *)
(* told is otherwise replayed to whoever comes later, also when the caller  *)
(* that was told it had lost the race, or the process that made it is gone. *)
ReplayedUnlessFailed ==
  \A c \in asked : \A d \in prior[c] :
    KeyOf[c] = KeyOf[d] /\ Final(d) => KeyOf[c] \in failed

(* Every message is answered while its process lives. *)
EveryMessageAnswered == \A c \in Calls : pc[c] = "select" ~> pc[c] = "done"
================================================================================
