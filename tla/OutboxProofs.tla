----------------------------- MODULE OutboxProofs -----------------------------
(***************************************************************************)
(* Theorems about Outbox, for any number of clients, workers, schedulers   *)
(* and messages and any scenarios.                                         *)
(***************************************************************************)
EXTENDS Outbox, FiniteSetTheorems, TLAPS

-----------------------------------------------------------------------------
(* One active scheduler *)

LEMMA LockTypeInit == Init => LockTypeOK
<1> SUFFICES ASSUME Init PROVE LockTypeOK
  OBVIOUS
<1>1. scenario.trouble \in Nat
  BY OutboundScenariosAssumption DEF Init, MessageInit, ScenarioTypes
<1> QED BY <1>1 DEF Init, LockInit, LockTypeOK, Start, SchedulerSteps

LEMMA RunningAreSchedulers ==
  ASSUME MessageTypeOK PROVE scenario.running \subseteq Schedulers
  BY OutboxAssumption DEF MessageTypeOK, ScenarioTypes

(* What a step does to the lock. *)
LockNext ==
  \/ UNCHANGED lockVars
  \/ \E s \in Schedulers :
       \/ Tick(s) \/ TickEnds(s) \/ RefreshGet(s) \/ Acquire(s) \/ Renew(s)
       \/ Wake(s) \/ Stop(s) \/ ReleaseGet(s) \/ ReleaseDelete(s) \/ Die(s)
  \/ DeadLockExpires \/ SlowLockExpires

LEMMA NextIsLockNext ==
  ASSUME MessageTypeOK, [Next]_vars PROVE LockNext
<1>1. CASE MessageStep
  BY <1>1 DEF MessageStep, LockNext
<1>2. ASSUME NEW s \in scenario.running, SchedulerStep(s) \/ SchedulerDies(s) PROVE LockNext
  <2>1. s \in Schedulers
    BY RunningAreSchedulers
  <2> QED BY <1>2, <2>1 DEF SchedulerStep, SchedulerDies, BeginReconcile, EndReconcile,
                            LockStep, LockNext
<1>3. CASE DeadLockExpires \/ SlowLockExpires
  BY <1>3 DEF LockNext
<1>4. CASE UNCHANGED vars
  BY <1>4 DEF vars, LockNext
<1> QED BY <1>1, <1>2, <1>3, <1>4 DEF Next

LEMMA GoType ==
  ASSUME LockTypeOK, NEW s \in Schedulers, NEW step \in SchedulerSteps, Go(s, step)
  PROVE  sch' \in [Schedulers -> [step : SchedulerSteps, then : {"tick", "sleep"}]]
  BY DEF LockTypeOK, Go

LEMMA RefreshedType ==
  ASSUME LockTypeOK, NEW s \in Schedulers, NEW held \in BOOLEAN, Refreshed(s, held)
  PROVE  sch' \in [Schedulers -> [step : SchedulerSteps, then : {"tick", "sleep"}]]
<1>1. sch[s].then \in {"tick", "sleep"}
  BY DEF LockTypeOK
<1>2. (IF held \/ sch[s].then = "sleep" THEN sch[s].then ELSE "get") \in SchedulerSteps
  BY <1>1 DEF SchedulerSteps
<1> QED BY <1>2, GoType DEF Refreshed

LEMMA RestartType ==
  ASSUME LockTypeOK, NEW s \in Schedulers, Restart(s)
  PROVE  sch' \in [Schedulers -> [step : SchedulerSteps, then : {"tick", "sleep"}]]
  BY DEF LockTypeOK, Restart, Start, SchedulerSteps

LEMMA LockTypeStep == LockTypeOK /\ LockNext => LockTypeOK'
<1> SUFFICES ASSUME LockTypeOK, LockNext PROVE LockTypeOK'
  OBVIOUS
<1> DEFINE SchType == sch' \in [Schedulers -> [step : SchedulerSteps, then : {"tick", "sleep"}]]
<1>1. CASE UNCHANGED lockVars
  BY <1>1 DEF lockVars, LockTypeOK
<1>2. ASSUME NEW s \in Schedulers, Tick(s) \/ TickEnds(s) PROVE LockTypeOK'
  <2>1. SchType
    BY <1>2, GoType DEF Tick, TickEnds, SchedulerSteps
  <2> QED BY <1>2, <2>1 DEF Tick, TickEnds, LockTypeOK
<1>3. ASSUME NEW s \in Schedulers, RefreshGet(s) PROVE LockTypeOK'
  <2>1. Go(s, "acquire") \/ Go(s, "renew") \/ Refreshed(s, FALSE)
    BY <1>3 DEF RefreshGet
  <2>2. SchType
    BY <2>1, GoType, RefreshedType DEF SchedulerSteps
  <2> QED BY <1>3, <2>2 DEF RefreshGet, LockTypeOK
<1>4. ASSUME NEW s \in Schedulers, Acquire(s) PROVE LockTypeOK'
  <2>1. Refreshed(s, TRUE) \/ Refreshed(s, FALSE)
    BY <1>4 DEF Acquire
  <2>2. SchType
    BY <2>1, RefreshedType
  <2> QED BY <1>4, <2>2 DEF Acquire, LockTypeOK
<1>5. ASSUME NEW s \in Schedulers, Renew(s) PROVE LockTypeOK'
  <2>1. SchType
    BY <1>5, RefreshedType DEF Renew
  <2> QED BY <1>5, <2>1 DEF Renew, LockTypeOK
<1>6. ASSUME NEW s \in Schedulers, Wake(s) PROVE LockTypeOK'
  <2>1. CASE Restart(s)
    BY <1>6, <2>1, RestartType DEF Wake, LockTypeOK
  <2>2. CASE sch' = [sch EXCEPT ![s] = [step |-> "get", then |-> "sleep"]]
    BY <1>6, <2>2 DEF Wake, LockTypeOK, SchedulerSteps
  <2> QED BY <1>6, <2>1, <2>2 DEF Wake
<1>7. ASSUME NEW s \in Schedulers, Stop(s) PROVE LockTypeOK'
  <2>1. SchType
    BY <1>7, GoType DEF Stop, SchedulerSteps
  <2> QED BY <1>7, <2>1 DEF Stop, LockTypeOK
<1>8. ASSUME NEW s \in Schedulers, ReleaseGet(s) PROVE LockTypeOK'
  <2>1. Go(s, "release_delete") \/ Restart(s)
    BY <1>8 DEF ReleaseGet
  <2>2. SchType
    BY <2>1, GoType, RestartType DEF SchedulerSteps
  <2> QED BY <1>8, <2>2 DEF ReleaseGet, LockTypeOK
<1>9. ASSUME NEW s \in Schedulers, ReleaseDelete(s) PROVE LockTypeOK'
  <2>1. SchType
    BY <1>9, RestartType DEF ReleaseDelete
  <2> QED BY <1>9, <2>1 DEF ReleaseDelete, LockTypeOK
<1>10. ASSUME NEW s \in Schedulers, Die(s) PROVE LockTypeOK'
  <2>1. SchType
    BY <1>10, RestartType DEF Die
  <2> QED BY <1>10, <2>1 DEF Die, Disown, LockTypeOK
<1>11. CASE DeadLockExpires \/ SlowLockExpires
  BY <1>11 DEF DeadLockExpires, SlowLockExpires, LockTypeOK
<1> QED BY <1>1, <1>2, <1>3, <1>4, <1>5, <1>6, <1>7, <1>8, <1>9, <1>10, <1>11 DEF LockNext

(* Who is in a tick, or about to renew, has the lock or lost it unawares.  *)
OwnerInv ==
  \A s \in Schedulers : InTick(s) \/ InStep(s, "renew") => lock = s \/ s \in lapsed

LEMMA OwnerStep == LockTypeOK /\ OwnerInv /\ LockNext => OwnerInv'
<1> SUFFICES ASSUME LockTypeOK, OwnerInv, LockNext,
                    NEW t \in Schedulers, (InTick(t) \/ InStep(t, "renew"))'
             PROVE  lock' = t \/ t \in lapsed'
  BY DEF OwnerInv
<1> USE SchedulersAssumption DEF InTick, InStep, OwnerInv, LockTypeOK
<1>1. CASE UNCHANGED lockVars
  BY <1>1 DEF lockVars
<1>2. ASSUME NEW s \in Schedulers, Tick(s) \/ TickEnds(s) PROVE lock' = t \/ t \in lapsed'
  BY <1>2 DEF Tick, TickEnds, Go
<1>3. ASSUME NEW s \in Schedulers, RefreshGet(s) PROVE lock' = t \/ t \in lapsed'
  BY <1>3 DEF RefreshGet, Refreshed, Go
<1>4. ASSUME NEW s \in Schedulers, Acquire(s) PROVE lock' = t \/ t \in lapsed'
  BY <1>4 DEF Acquire, Refreshed, Go
<1>5. ASSUME NEW s \in Schedulers, Renew(s) PROVE lock' = t \/ t \in lapsed'
  BY <1>5 DEF Renew, Refreshed, Go
<1>6. ASSUME NEW s \in Schedulers, Wake(s) PROVE lock' = t \/ t \in lapsed'
  BY <1>6 DEF Wake, Restart, Start
<1>7. ASSUME NEW s \in Schedulers, Stop(s) \/ ReleaseGet(s) PROVE lock' = t \/ t \in lapsed'
  BY <1>7 DEF Stop, ReleaseGet, Restart, Start, Go
<1>8. ASSUME NEW s \in Schedulers, ReleaseDelete(s) \/ Die(s) PROVE lock' = t \/ t \in lapsed'
  BY <1>8 DEF ReleaseDelete, Die, Disown, Restart, Start
<1>9. CASE DeadLockExpires \/ SlowLockExpires
  BY <1>9 DEF DeadLockExpires, SlowLockExpires
<1> QED BY <1>1, <1>2, <1>3, <1>4, <1>5, <1>6, <1>7, <1>8, <1>9 DEF LockNext

LEMMA OwnerInit == Init => OwnerInv
  BY DEF Init, LockInit, OwnerInv, InTick, InStep, Start

LEMMA OwnerIsActive == OwnerInv => SingleActive
  BY DEF OwnerInv, SingleActive

-----------------------------------------------------------------------------
(* Types of the messages, and what a step of each process carries *)

MsgType   == [Messages -> [status : MsgStatuses, rcp : {"none", "sent", "failed"}]]
ApiType   == [Clients -> [step : ApiSteps, m : 0..MaxMessages, answer : 0..MaxMessages]]
WkType    == [Workers -> [step : WorkerSteps, m : 0..MaxMessages, a : 0..MaxRetries, cat : Answers]]
RecType   == [Reconcilers -> [step : RecSteps, todo : SUBSET Messages,
                              m : 0..MaxMessages, s : MsgStatuses]]
JobCounts == [Messages -> [0..MaxRetries -> Nat]]

MsgOK == msg \in MsgType /\ truth \in [Messages -> MsgStatuses]

(* A request that has inserted a message has it. *)
ApiOK ==
  /\ api \in ApiType
  /\ \A c \in Clients : api[c].step \in {"enqueue", "store"} => api[c].m \in Messages

(* A job at work has a message and an attempt, and knows what to store. *)
WkOK ==
  /\ wk \in WkType
  /\ \A w \in Workers :
       /\ wk[w].step # "idle" => wk[w].m \in Messages
       /\ wk[w].step = "schedule" => wk[w].a < MaxRetries
       /\ wk[w].step = "store" => wk[w].cat \in {"sent", "sending"}

(* A reconciliation with a message in hand has it. *)
RecOK ==
  /\ rec \in RecType
  /\ \A s \in Reconcilers : rec[s].step \in {"fetch", "write", "repair"} => rec[s].m \in Messages

KeysOK == /\ old \subseteq Messages /\ outkey \subseteq Messages
          /\ reqkey \in {"free", "claimed"} /\ result \in 0..MaxMessages
GhostsOK == live \in [Messages -> Nat] /\ lost \in [Messages -> Nat]

MessageInv ==
  /\ MsgOK /\ ApiOK /\ WkOK /\ RecOK /\ KeysOK /\ GhostsOK
  /\ jobs \in JobCounts /\ scenario \in ScenarioTypes

LEMMA MessageInvType == MessageInv => MessageTypeOK
  BY DEF MessageInv, MessageTypeOK, MsgOK, ApiOK, WkOK, RecOK, KeysOK, GhostsOK,
         MsgType, ApiType, WkType, RecType, JobCounts

LEMMA StatusNames ==
  /\ CanonicalStatuses \subseteq MsgStatuses
  /\ {"none", "queued", "sending", "sent", "failed", "delivered", "read", "undelivered"}
       \subseteq MsgStatuses
  BY DEF MsgStatuses, CanonicalStatuses, SuccessPath, FailureStatuses

LEMMA MessageNumbers == 0 \in 0..MaxMessages /\ 0 \in 0..MaxRetries /\ Messages \subseteq 0..MaxMessages
  BY OutboundBoundsAssumption DEF Messages

LEMMA SpendType ==
  ASSUME scenario \in ScenarioTypes, NEW what \in {"requests", "faults", "crashes", "trouble"},
         Spend(what)
  PROVE  scenario' \in ScenarioTypes
<1>1. scenario[what] \in Nat /\ scenario[what] - 1 \in Nat
  BY DEF Spend, ScenarioTypes
<1> QED BY <1>1 DEF Spend, ScenarioTypes

LEMMA SetStatusType ==
  ASSUME msg \in MsgType, NEW m, NEW s \in MsgStatuses, SetStatus(m, s)
  PROVE  msg' \in MsgType
  BY DEF MsgType, SetStatus

LEMMA JobsType ==
  ASSUME jobs \in JobCounts, NEW m \in Messages, NEW a \in 0..MaxRetries,
         \/ jobs' = [jobs EXCEPT ![m][a] = @ + 1]
         \/ jobs[m][a] > 0 /\ jobs' = [jobs EXCEPT ![m][a] = @ - 1]
  PROVE  jobs' \in JobCounts
<1> DEFINE Put(n) == [jobs EXCEPT ![m][a] = n]
<1>1. ASSUME NEW n \in Nat PROVE Put(n) \in JobCounts
  <2>1. [jobs[m] EXCEPT ![a] = n] \in [0..MaxRetries -> Nat]
    BY DEF JobCounts
  <2> QED BY <2>1 DEF JobCounts
<1>2. jobs[m][a] \in Nat
  BY DEF JobCounts
<1>3. PICK n \in Nat : jobs' = Put(n)
  <2>1. CASE jobs' = [jobs EXCEPT ![m][a] = @ + 1]
    <3>1. jobs' = Put(jobs[m][a] + 1) /\ jobs[m][a] + 1 \in Nat
      BY <1>2, <2>1
    <3> QED BY <1>2, <3>1
  <2>2. CASE jobs[m][a] > 0 /\ jobs' = [jobs EXCEPT ![m][a] = @ - 1]
    <3>1. jobs' = Put(jobs[m][a] - 1) /\ jobs[m][a] - 1 \in Nat
      BY <1>2, <2>2
    <3> QED BY <3>1
  <2> QED BY <2>1, <2>2
<1> QED BY <1>1, <1>3

LEMMA MessageInitType == MessageInit => MessageInv
<1> SUFFICES ASSUME MessageInit PROVE MessageInv
  OBVIOUS
<1>1. scenario \in ScenarioTypes
  BY OutboundScenariosAssumption DEF MessageInit
<1>2. MsgOK
  BY StatusNames DEF MessageInit, MsgType, MsgOK
<1>3. ApiOK /\ WkOK
  BY MessageNumbers DEF MessageInit, ApiType, ApiOK, WkType, WkOK, NoRequest, NoJob,
                        ApiSteps, WorkerSteps, Answers
<1>4. RecOK
  BY StatusNames, MessageNumbers DEF MessageInit, RecType, RecOK, NoRec, RecSteps
<1> QED BY <1>1, <1>2, <1>3, <1>4, MessageNumbers
  DEF MessageInit, MessageInv, KeysOK, GhostsOK, JobCounts

(* Requests *)

LEMMA ApiToOK ==
  ASSUME ApiOK, NEW c \in Clients, NEW step \in ApiSteps, ApiTo(c, step),
         step \in {"enqueue", "store"} => api[c].m \in Messages
  PROVE  ApiOK'
<1>1. api' \in ApiType
  BY DEF ApiOK, ApiType, ApiTo
<1>2. ASSUME NEW d \in Clients, api'[d].step \in {"enqueue", "store"} PROVE api'[d].m \in Messages
  BY <1>2 DEF ApiOK, ApiType, ApiTo
<1> QED BY <1>1, <1>2 DEF ApiOK

LEMMA AnswerOK ==
  ASSUME ApiOK, NEW c \in Clients, NEW m \in 0..MaxMessages, Answer(c, m)
  PROVE  ApiOK'
<1>1. api' \in ApiType
  BY MessageNumbers DEF ApiOK, ApiType, Answer, NoRequest, ApiSteps
<1>2. ASSUME NEW d \in Clients, api'[d].step \in {"enqueue", "store"} PROVE api'[d].m \in Messages
  BY <1>2 DEF ApiOK, ApiType, Answer, NoRequest
<1> QED BY <1>1, <1>2 DEF ApiOK

LEMMA ApiStepOK ==
  ASSUME MessageInv, NEW c \in Clients, send_message(c) \/ Handle(c) \/ ApiCrash(c)
  PROVE  MessageInv'
<1>0. /\ MsgOK /\ ApiOK /\ WkOK /\ RecOK /\ KeysOK /\ GhostsOK
      /\ jobs \in JobCounts /\ scenario \in ScenarioTypes
  BY DEF MessageInv
<1>1. UNCHANGED <<old, outkey, wk, rec, truth, live, lost>>
  BY DEF send_message, Handle, ApiCrash, Look, LookAgain, Policy, ClaimKey, Insert, EnqueueSend,
         StoreResult, apiRest, ghosts
<1>2. WkOK' /\ RecOK' /\ GhostsOK'
  BY <1>0, <1>1 DEF WkOK, RecOK, GhostsOK
<1>3. ASSUME ApiOK', jobs' \in JobCounts, scenario' \in ScenarioTypes, msg' \in MsgType,
             reqkey' \in {reqkey, "claimed"}, result' \in 0..MaxMessages
      PROVE  MessageInv'
  BY <1>0, <1>1, <1>2, <1>3 DEF MessageInv, MsgOK, KeysOK
<1>4. msg \in MsgType /\ result \in 0..MaxMessages /\ 0 \in 0..MaxMessages
  BY <1>0, MessageNumbers DEF MsgOK, KeysOK
<1>5. CASE send_message(c)
  <2>1. scenario' \in ScenarioTypes
    BY <1>0, <1>5, SpendType DEF send_message
  <2>2. api' \in ApiType
    BY <1>0, <1>5, MessageNumbers DEF send_message, ApiOK, ApiType, NoRequest, ApiSteps
  <2>3. ASSUME NEW d \in Clients, api'[d].step \in {"enqueue", "store"}
        PROVE  api'[d].m \in Messages
    BY <1>0, <1>5, <2>3 DEF send_message, ApiOK, ApiType, NoRequest
  <2>4. ApiOK'
    BY <2>2, <2>3 DEF ApiOK
  <2> QED BY <1>0, <1>3, <1>4, <1>5, <2>1, <2>4 DEF send_message
<1>6. CASE Look(c)
  <2>1. ApiOK'
    BY <1>0, <1>4, <1>6, ApiToOK, AnswerOK DEF Look, ApiSteps
  <2> QED BY <1>0, <1>3, <1>4, <1>6, <2>1 DEF Look
<1>7. CASE LookAgain(c)
  <2>1. ApiOK'
    BY <1>0, <1>4, <1>7, AnswerOK DEF LookAgain
  <2> QED BY <1>0, <1>3, <1>4, <1>7, <2>1 DEF LookAgain
<1>8. CASE Policy(c)
  <2>1. ApiOK'
    BY <1>0, <1>4, <1>8, ApiToOK, AnswerOK DEF Policy, ApiSteps
  <2> QED BY <1>0, <1>3, <1>4, <1>8, <2>1 DEF Policy
<1>9. CASE ClaimKey(c)
  <2>1. ApiTo(c, "policy") \/ ApiTo(c, "look_again")
    BY <1>9 DEF ClaimKey
  <2>2. ApiOK'
    BY <1>0, <2>1, ApiToOK DEF ApiSteps
  <2> QED BY <1>0, <1>3, <1>4, <1>9, <2>2 DEF ClaimKey
<1>10. CASE Insert(c)
  <2>1. PICK m \in Messages : /\ SetStatus(m, "queued")
                              /\ api' = [api EXCEPT ![c].step = "enqueue", ![c].m = m]
    BY <1>10 DEF Insert
  <2>2. msg' \in MsgType
    BY <1>4, <2>1, SetStatusType, StatusNames
  <2>3. m \in 0..MaxMessages
    BY MessageNumbers
  <2> DEFINE mid == [api EXCEPT ![c].step = "enqueue"]
  <2>4. mid \in ApiType /\ api' = [mid EXCEPT ![c].m = m]
    BY <1>0, <2>1 DEF ApiOK, ApiType, ApiSteps
  <2>5. api' \in ApiType
    BY <2>3, <2>4 DEF ApiType
  <2>6. ASSUME NEW d \in Clients, api'[d].step \in {"enqueue", "store"}
        PROVE  api'[d].m \in Messages
    BY <1>0, <2>1, <2>4, <2>6 DEF ApiOK, ApiType
  <2>7. ApiOK'
    BY <2>5, <2>6 DEF ApiOK
  <2> QED BY <1>0, <1>3, <1>4, <1>10, <2>2, <2>7 DEF Insert
<1>11. CASE EnqueueSend(c)
  <2>1. api[c].m \in Messages /\ api[c].m \in 0..MaxMessages
    BY <1>0, <1>11, MessageNumbers DEF EnqueueSend, InApi, ApiOK
  <2>2. jobs' \in JobCounts
    BY <1>0, <1>11, <2>1, JobsType, MessageNumbers DEF EnqueueSend
  <2>3. ApiTo(c, "store") \/ Answer(c, api[c].m)
    BY <1>11 DEF EnqueueSend
  <2>4. ApiOK'
    BY <1>0, <2>1, <2>3, ApiToOK, AnswerOK DEF ApiSteps
  <2> QED BY <1>0, <1>3, <1>4, <1>11, <2>2, <2>4 DEF EnqueueSend
<1>12. CASE StoreResult(c)
  <2>1. api[c].m \in 0..MaxMessages
    BY <1>0 DEF ApiOK, ApiType
  <2>2. ApiOK'
    BY <1>0, <1>12, <2>1, AnswerOK DEF StoreResult
  <2> QED BY <1>0, <1>3, <1>4, <1>12, <2>1, <2>2 DEF StoreResult
<1>13. CASE ApiCrash(c)
  <2>1. scenario' \in ScenarioTypes
    BY <1>0, <1>13, SpendType DEF ApiCrash
  <2>2. ApiOK'
    BY <1>0, <1>4, <1>13, AnswerOK DEF ApiCrash
  <2> QED BY <1>0, <1>3, <1>4, <1>13, <2>1, <2>2 DEF ApiCrash
<1> QED BY <1>5, <1>6, <1>7, <1>8, <1>9, <1>10, <1>11, <1>12, <1>13 DEF Handle

(* Workers *)

LEMMA WkPutOK ==
  ASSUME WkOK, NEW w \in Workers,
         NEW step \in WorkerSteps, NEW m \in 0..MaxMessages, NEW a \in 0..MaxRetries,
         NEW cat \in Answers,
         wk' = [wk EXCEPT ![w] = [step |-> step, m |-> m, a |-> a, cat |-> cat]],
         step # "idle" => m \in Messages,
         step = "schedule" => a < MaxRetries,
         step = "store" => cat \in {"sent", "sending"}
  PROVE  WkOK'
<1>1. wk' \in WkType
  BY DEF WkOK, WkType
<1>2. ASSUME NEW v \in Workers
      PROVE  /\ wk'[v].step # "idle" => wk'[v].m \in Messages
             /\ wk'[v].step = "schedule" => wk'[v].a < MaxRetries
             /\ wk'[v].step = "store" => wk'[v].cat \in {"sent", "sending"}
  BY DEF WkOK, WkType
<1> QED BY <1>1, <1>2 DEF WkOK

LEMMA WkFields ==
  ASSUME WkOK, NEW w \in Workers
  PROVE  /\ wk[w].m \in 0..MaxMessages /\ wk[w].a \in 0..MaxRetries /\ wk[w].cat \in Answers
         /\ wk[w].step # "idle" => wk[w].m \in Messages
  BY DEF WkOK, WkType

LEMMA JobToOK ==
  ASSUME WkOK, NEW w \in Workers, wk[w].step # "idle",
         NEW step \in WorkerSteps, step # "store", JobTo(w, step),
         step = "schedule" => wk[w].a < MaxRetries
  PROVE  WkOK'
<1>1. wk' = [wk EXCEPT ![w] = [step |-> step, m |-> wk[w].m, a |-> wk[w].a, cat |-> wk[w].cat]]
  <2>1. [wk[w] EXCEPT !.step = step] = [step |-> step, m |-> wk[w].m, a |-> wk[w].a, cat |-> wk[w].cat]
    BY DEF WkOK, WkType
  <2> QED BY <2>1 DEF JobTo
<1> QED BY <1>1, WkPutOK, WkFields

LEMMA JobEndsOK ==
  ASSUME WkOK, NEW w \in Workers, JobEnds(w)
  PROVE  WkOK'
<1>1. wk' = [wk EXCEPT ![w] = [step |-> "idle", m |-> 0, a |-> 0, cat |-> "sent"]]
  BY DEF JobEnds, NoJob
<1> QED BY <1>1, WkPutOK, MessageNumbers DEF WorkerSteps, Answers

(* An answer of the provider, or an error after it, as it is caught. *)
LEMMA CaughtOK ==
  ASSUME WkOK, NEW w \in Workers, wk[w].step # "idle",
         NEW step \in {"store", "except"}, NEW cat \in Answers,
         step = "store" => cat \in {"sent", "sending"},
         Caught(w, step, cat)
  PROVE  WkOK'
  BY WkPutOK, WkFields DEF Caught, WorkerSteps

LEMMA CountsOK ==
  ASSUME GhostsOK, NEW m \in Messages,
         live' \in {live, [live EXCEPT ![m] = @ + 1], [live EXCEPT ![m] = @]},
         lost' \in {lost, [lost EXCEPT ![m] = @ + 1], [lost EXCEPT ![m] = @]}
  PROVE  GhostsOK'
<1>1. live[m] + 1 \in Nat /\ lost[m] + 1 \in Nat
  BY DEF GhostsOK
<1>2. live' \in [Messages -> Nat]
  BY <1>1 DEF GhostsOK
<1>3. lost' \in [Messages -> Nat]
  BY <1>1 DEF GhostsOK
<1> QED BY <1>2, <1>3 DEF GhostsOK

LEMMA WorkerStepOK ==
  ASSUME MessageInv, NEW w \in Workers, JobStep(w) \/ SendFault(w) \/ WorkerCrash(w)
  PROVE  MessageInv'
<1>0. /\ MsgOK /\ ApiOK /\ WkOK /\ RecOK /\ KeysOK /\ GhostsOK
      /\ jobs \in JobCounts /\ scenario \in ScenarioTypes
  BY DEF MessageInv
<1>1. UNCHANGED <<old, reqkey, result, api, rec>>
  BY DEF JobStep, StartSend, ClaimSend, Gate, MarkSending, ProviderCall, StoreSent, Except, Schedule,
         SendFault, WorkerCrash, workerRest
<1>2. ApiOK' /\ RecOK'
  BY <1>0, <1>1 DEF ApiOK, RecOK
<1>3. ASSUME WkOK', MsgOK', GhostsOK', jobs' \in JobCounts, scenario' \in ScenarioTypes,
             outkey' \subseteq Messages
      PROVE  MessageInv'
  BY <1>0, <1>1, <1>2, <1>3 DEF MessageInv, KeysOK
<1>4. /\ msg \in MsgType /\ outkey \subseteq Messages
      /\ wk[w].step # "idle" => wk[w].m \in Messages
      /\ wk[w].a \in 0..MaxRetries
  BY <1>0, WkFields DEF MsgOK, KeysOK
<1>5. UNCHANGED <<live, lost>> => GhostsOK'
  BY <1>0 DEF GhostsOK
<1>6. UNCHANGED <<msg, truth>> => MsgOK'
  BY <1>0 DEF MsgOK
<1>7. CASE StartSend(w)
  <2>1. PICK m \in Messages, a \in 0..MaxRetries :
          /\ jobs[m][a] > 0 /\ jobs' = [jobs EXCEPT ![m][a] = @ - 1]
          /\ wk' = [wk EXCEPT ![w] =
               IF msg[m].status \in Ended THEN NoJob
               ELSE [step |-> IF a = 0 THEN "claim" ELSE "gate",
                     m |-> m, a |-> a, cat |-> "sent"]]
    BY <1>7 DEF StartSend
  <2>2. jobs' \in JobCounts
    BY <1>0, <2>1, JobsType
  <2>3. \/ JobEnds(w)
        \/ wk' = [wk EXCEPT ![w] = [step |-> "claim", m |-> m, a |-> a, cat |-> "sent"]]
        \/ wk' = [wk EXCEPT ![w] = [step |-> "gate", m |-> m, a |-> a, cat |-> "sent"]]
    <3>2. CASE msg[m].status \in Ended
      BY <2>1, <3>2 DEF JobEnds
    <3>3. CASE msg[m].status \notin Ended /\ a = 0
      BY <2>1, <3>3
    <3>4. CASE msg[m].status \notin Ended /\ a # 0
      BY <2>1, <3>4
    <3> QED BY <3>2, <3>3, <3>4
  <2>4. WkOK'
    BY <1>0, <2>3, JobEndsOK, WkPutOK, MessageNumbers DEF WorkerSteps, Answers
  <2> QED BY <1>0, <1>3, <1>4, <1>5, <1>6, <1>7, <2>2, <2>4 DEF StartSend, ghosts
<1>8. CASE ClaimSend(w)
  <2>1. WkOK'
    BY <1>0, <1>8, JobToOK, JobEndsOK DEF ClaimSend, InJob, WorkerSteps
  <2> QED BY <1>0, <1>3, <1>4, <1>5, <1>6, <1>8, <2>1 DEF ClaimSend, InJob, ghosts
<1>9. CASE Gate(w)
  <2>1. WkOK'
    BY <1>0, <1>9, JobToOK, JobEndsOK DEF Gate, InJob, WorkerSteps
  <2>2. msg' \in MsgType
    BY <1>4, <1>9, SetStatusType, StatusNames DEF Gate
  <2>3. jobs' \in JobCounts
    BY <1>0, <1>4, <1>9, JobsType DEF Gate, InJob
  <2>4. MsgOK'
    BY <1>0, <1>9, <2>2 DEF Gate, MsgOK, ghosts
  <2> QED BY <1>0, <1>3, <1>4, <1>5, <1>9, <2>1, <2>3, <2>4 DEF Gate, ghosts
<1>10. CASE MarkSending(w)
  <2>1. WkOK'
    BY <1>0, <1>10, JobToOK DEF MarkSending, InJob, WorkerSteps
  <2>2. msg' \in MsgType
    BY <1>4, <1>10, SetStatusType, StatusNames DEF MarkSending
  <2>3. MsgOK'
    BY <1>0, <1>10, <2>2 DEF MarkSending, MsgOK, ghosts
  <2> QED BY <1>0, <1>3, <1>4, <1>5, <1>10, <2>1, <2>3 DEF MarkSending, ghosts
<1>11. ASSUME NEW answer \in Answers, ProviderCall(w, answer) PROVE MessageInv'
  <2>1. WkOK'
    <3>1. CASE answer \in {"sent", "sending"}
      <4>1. Caught(w, "store", answer)
        BY <1>11, <3>1 DEF ProviderCall
      <4> QED BY <1>0, <1>11, <3>1, <4>1, CaughtOK DEF ProviderCall, InJob
    <3>2. CASE answer \notin {"sent", "sending"}
      <4>1. PICK cat \in Answers : Caught(w, "except", cat)
        BY <1>11, <3>2 DEF ProviderCall, Answers
      <4> QED BY <1>0, <1>11, <4>1, CaughtOK DEF ProviderCall, InJob
    <3> QED BY <3>1, <3>2
  <2>2. GhostsOK'
    BY <1>0, <1>4, <1>11, CountsOK DEF ProviderCall, InJob
  <2> QED BY <1>0, <1>3, <1>4, <1>6, <1>11, <2>1, <2>2 DEF ProviderCall
<1>12. ASSUME WriteSent(w), InJob(w, "store") PROVE MsgOK'
  <2>1. wk[w].cat \in {"sent", "sending"} /\ wk[w].m \in Messages
    BY <1>0, <1>4, <1>12 DEF WkOK, InJob
  <2>2. msg' \in MsgType
    BY <1>4, <1>12, <2>1, SetStatusType, StatusNames DEF WriteSent
  <2>3. truth' \in [Messages -> MsgStatuses]
    BY <1>0, <1>12, StatusNames DEF WriteSent, MsgOK
  <2> QED BY <2>2, <2>3 DEF MsgOK
<1>13. CASE StoreSent(w)
  <2>1. WkOK'
    BY <1>0, <1>13, JobEndsOK DEF StoreSent
  <2>2. MsgOK'
    BY <1>12, <1>13 DEF StoreSent
  <2> QED BY <1>0, <1>3, <1>4, <1>5, <1>13, <2>1, <2>2 DEF StoreSent
<1>14. CASE SendFault(w)
  <2>1. WkOK'
    BY <1>0, <1>14, CaughtOK DEF SendFault, InJob, Answers
  <2>2. MsgOK'
    BY <1>6, <1>12, <1>14 DEF SendFault
  <2>3. GhostsOK'
    BY <1>0, <1>4, <1>14, CountsOK DEF SendFault, InJob
  <2>4. scenario' \in ScenarioTypes
    BY <1>0, <1>14, SpendType DEF SendFault
  <2> QED BY <1>0, <1>3, <1>4, <1>14, <2>1, <2>2, <2>3, <2>4 DEF SendFault
<1>15. CASE Except(w)
  <2>1. WkOK'
    BY <1>0, <1>15, JobToOK, JobEndsOK DEF Except, InJob, WorkerSteps
  <2>2. msg' \in MsgType
    BY <1>4, <1>15, SetStatusType, StatusNames DEF Except
  <2>3. MsgOK'
    BY <1>0, <1>15, <2>2 DEF Except, MsgOK, ghosts
  <2> QED BY <1>0, <1>3, <1>4, <1>5, <1>15, <2>1, <2>3 DEF Except, ghosts
<1>16. CASE Schedule(w)
  <2>1. WkOK'
    BY <1>0, <1>16, JobEndsOK DEF Schedule
  <2>2. wk[w].m \in Messages /\ wk[w].a + 1 \in 0..MaxRetries
    BY <1>0, <1>4, <1>16, OutboundBoundsAssumption DEF Schedule, InJob, WkOK
  <2>3. jobs' \in JobCounts
    BY <1>0, <1>16, <2>2, JobsType DEF Schedule
  <2> QED BY <1>0, <1>3, <1>4, <1>5, <1>6, <1>16, <2>1, <2>3 DEF Schedule, ghosts
<1>17. CASE WorkerCrash(w)
  <2>1. WkOK'
    BY <1>0, <1>17, JobEndsOK DEF WorkerCrash
  <2>2. GhostsOK'
    BY <1>0, <1>4, <1>17, CountsOK DEF WorkerCrash, InJob
  <2>3. scenario' \in ScenarioTypes
    BY <1>0, <1>17, SpendType DEF WorkerCrash
  <2> QED BY <1>0, <1>3, <1>4, <1>6, <1>17, <2>1, <2>2, <2>3 DEF WorkerCrash
<1> QED BY <1>7, <1>8, <1>9, <1>10, <1>11, <1>13, <1>14, <1>15, <1>16, <1>17 DEF JobStep

(* The provider and time *)

LEMMA ProviderStepOK ==
  ASSUME MessageInv, NEW m \in Messages, Advance(m) \/ Report(m) \/ Age(m)
  PROVE  MessageInv'
<1>0. /\ MsgOK /\ ApiOK /\ WkOK /\ RecOK /\ KeysOK /\ GhostsOK
      /\ jobs \in JobCounts /\ scenario \in ScenarioTypes
  BY DEF MessageInv
<1>1. UNCHANGED <<keys, jobs, api, wk, rec, live, lost, scenario>>
  BY DEF Advance, Report, Age, ghosts
<1>2. ASSUME MsgOK', old' \subseteq Messages PROVE MessageInv'
  BY <1>0, <1>1, <1>2 DEF MessageInv, ApiOK, WkOK, RecOK, KeysOK, GhostsOK, keys
<1>3. CASE Advance(m)
  <2>1. PICK s \in NextTruth(truth[m]) : truth' = [truth EXCEPT ![m] = s]
    BY <1>3 DEF Advance
  <2>2. s \in MsgStatuses
    BY StatusNames DEF NextTruth
  <2>3. MsgOK'
    BY <1>0, <1>3, <2>1, <2>2 DEF Advance, MsgOK, docs
  <2> QED BY <1>0, <1>2, <1>3, <2>3 DEF Advance, docs, KeysOK
<1>4. CASE Report(m)
  <2>1. truth[m] \in MsgStatuses /\ msg \in MsgType
    BY <1>0 DEF MsgOK
  <2>2. msg' \in MsgType
    BY <1>4, <2>1, SetStatusType DEF Report
  <2>3. MsgOK'
    BY <1>0, <1>4, <2>2 DEF Report, MsgOK, ghosts
  <2> QED BY <1>0, <1>2, <1>4, <2>3 DEF Report, KeysOK
<1>5. CASE Age(m)
  BY <1>0, <1>2, <1>5 DEF Age, MsgOK, KeysOK, ghosts
<1> QED BY <1>3, <1>4, <1>5

(* Reconciliation *)

LEMMA RecPutOK ==
  ASSUME RecOK, NEW s \in Reconcilers, NEW step \in RecSteps, NEW todo, todo \subseteq Messages,
         NEW m \in 0..MaxMessages, NEW got \in MsgStatuses,
         RecTo(s, step, todo, m, got),
         step \in {"fetch", "write", "repair"} => m \in Messages
  PROVE  RecOK'
<1>1. rec' \in RecType
  BY DEF RecOK, RecType, RecTo
<1>2. ASSUME NEW t \in Reconcilers, rec'[t].step \in {"fetch", "write", "repair"}
      PROVE  rec'[t].m \in Messages
  BY <1>2 DEF RecOK, RecType, RecTo
<1> QED BY <1>1, <1>2 DEF RecOK

LEMMA RecFields ==
  ASSUME RecOK, NEW s \in Reconcilers
  PROVE  /\ rec[s].todo \subseteq Messages /\ rec[s].m \in 0..MaxMessages
         /\ rec[s].s \in MsgStatuses
         /\ rec[s].step \in {"fetch", "write", "repair"} => rec[s].m \in Messages
  BY DEF RecOK, RecType

LEMMA RecGoOK ==
  ASSUME RecOK, NEW s \in Reconcilers, NEW step \in RecSteps,
         rec' = [rec EXCEPT ![s].step = step],
         step \in {"fetch", "write", "repair"} => rec[s].m \in Messages
  PROVE  RecOK'
<1>1. RecTo(s, step, rec[s].todo, rec[s].m, rec[s].s)
  <2>1. [rec[s] EXCEPT !.step = step]
          = [step |-> step, todo |-> rec[s].todo, m |-> rec[s].m, s |-> rec[s].s]
    BY DEF RecOK, RecType
  <2> QED BY <2>1 DEF RecTo
<1>2. /\ rec[s].todo \subseteq Messages /\ rec[s].m \in 0..MaxMessages
      /\ rec[s].s \in MsgStatuses
  BY RecFields
<1> QED BY <1>1, <1>2, RecPutOK

LEMMA RecStopOK ==
  ASSUME RecOK, NEW s \in Reconcilers, rec' = [rec EXCEPT ![s] = NoRec]
  PROVE  RecOK'
<1>1. RecTo(s, "idle", {}, 0, "none") /\ {} \subseteq Messages
  BY DEF NoRec, RecTo
<1> QED BY <1>1, RecPutOK, StatusNames, MessageNumbers DEF RecSteps

LEMMA ReconcileOK ==
  ASSUME MessageInv, NEW s \in Reconcilers, UNCHANGED recRest, RecOK', msg' \in MsgType
  PROVE  MessageInv'
<1> USE DEF MessageInv, recRest, keys, ghosts
<1>1. MsgOK'
  BY DEF MsgOK
<1>2. ApiOK' /\ WkOK' /\ KeysOK' /\ GhostsOK'
  BY DEF ApiOK, WkOK, KeysOK, GhostsOK
<1> QED BY <1>1, <1>2

LEMMA ReconcileStepOK ==
  ASSUME MessageInv, NEW s \in Reconcilers, Reconcile(s)
  PROVE  MessageInv'
<1>0. MsgOK /\ RecOK /\ KeysOK /\ msg \in MsgType
  BY DEF MessageInv, MsgOK
<1>1. CASE Scan(s)
  <2> DEFINE due == {m \in old : msg[m].status \in Unsent}
  <2>1. due \subseteq Messages
    BY <1>0 DEF KeysOK
  <2>2. RecTo(s, "next", due, 0, "none")
    BY <1>1 DEF Scan
  <2>3. RecOK'
    BY <1>0, <2>1, <2>2, RecPutOK, StatusNames, MessageNumbers DEF RecSteps
  <2> QED BY <1>0, <1>1, <2>3, ReconcileOK DEF Scan
<1>2. CASE NextStale(s)
  <2>1. CASE rec[s].todo = {}
    <3>1. RecOK'
      BY <1>0, <1>2, <2>1, RecStopOK DEF NextStale
    <3> QED BY <1>0, <1>2, <3>1, ReconcileOK DEF NextStale
  <2>2. CASE rec[s].todo # {}
    <3>1. PICK m \in rec[s].todo, step \in {"fetch", "write"} :
            RecTo(s, step, rec[s].todo \ {m}, m, "none")
      BY <1>2, <2>2 DEF NextStale
    <3>2. m \in Messages /\ m \in 0..MaxMessages /\ rec[s].todo \ {m} \subseteq Messages
      BY <1>0, RecFields, MessageNumbers
    <3>3. RecOK'
      BY <1>0, <3>1, <3>2, RecPutOK, StatusNames DEF RecSteps
    <3> QED BY <1>0, <1>2, <3>3, ReconcileOK DEF NextStale
  <2> QED BY <2>1, <2>2
<1>3. CASE Fetch(s)
  <2>1. rec[s].m \in Messages
    BY <1>0, <1>3, RecFields DEF Fetch, InRec
  <2>2. PICK got \in {truth[rec[s].m], "none"} :
          RecTo(s, "write", rec[s].todo, rec[s].m, got)
    BY <1>3 DEF Fetch
  <2>3. got \in MsgStatuses
    BY <1>0, <2>1, StatusNames DEF MsgOK
  <2>4. RecOK'
    BY <1>0, <2>1, <2>2, <2>3, RecPutOK, RecFields DEF RecSteps
  <2> QED BY <1>0, <1>3, <2>4, ReconcileOK DEF Fetch
<1>4. CASE WriteStale(s)
  <2>1. rec[s].m \in Messages
    BY <1>0, <1>4, RecFields DEF WriteStale, InRec
  <2>2. RecOK'
    BY <1>0, <1>4, <2>1, RecGoOK DEF WriteStale, RecSteps
  <2>3. msg' \in MsgType
    BY <1>0, <1>4, SetStatusType, StatusNames DEF WriteStale, Confirmed
  <2> QED BY <1>4, <2>2, <2>3, ReconcileOK DEF WriteStale
<1>5. CASE RepairRecipient(s)
  <2>1. RecOK'
    BY <1>0, <1>5, RecGoOK DEF RepairRecipient, RecSteps
  <2>2. msg' \in MsgType
    BY <1>0, <1>5 DEF RepairRecipient, MsgType
  <2> QED BY <1>5, <2>1, <2>2, ReconcileOK DEF RepairRecipient
<1> QED BY <1>1, <1>2, <1>3, <1>4, <1>5 DEF Reconcile

LEMMA MessageStepOK == MessageInv /\ [Next]_vars => MessageInv'
<1> SUFFICES ASSUME MessageInv, [Next]_vars PROVE MessageInv'
  OBVIOUS
<1>0. RecOK /\ MsgOK /\ scenario.running \subseteq Reconcilers
  BY DEF MessageInv, ScenarioTypes
<1>1. CASE UNCHANGED messageVars
  BY <1>1 DEF MessageInv, MsgOK, ApiOK, WkOK, RecOK, KeysOK, GhostsOK,
              messageVars, docs, keys, ghosts
<1>2. CASE MessageStep
  BY <1>2, ApiStepOK, WorkerStepOK, ProviderStepOK DEF MessageStep
<1>3. ASSUME NEW s \in scenario.running, SchedulerStep(s) \/ SchedulerDies(s)
      PROVE  MessageInv'
  <2>1. s \in Reconcilers
    BY <1>0
  <2>2. CASE BeginReconcile(s)
    <3>1. RecOK'
      BY <1>0, <2>1, <2>2, RecGoOK DEF BeginReconcile, RecSteps
    <3> QED BY <1>0, <2>1, <2>2, <3>1, ReconcileOK DEF BeginReconcile, MsgOK
  <2>3. CASE SchedulerDies(s)
    <3>1. RecOK'
      BY <1>0, <2>1, <2>3, RecStopOK DEF SchedulerDies
    <3> QED BY <1>0, <2>1, <2>3, <3>1, ReconcileOK DEF SchedulerDies, MsgOK
  <2>4. CASE EndReconcile(s) \/ LockStep(s)
    BY <1>1, <2>4 DEF EndReconcile, LockStep
  <2>5. CASE Reconcile(s)
    BY <2>1, <2>5, ReconcileStepOK
  <2> QED BY <1>3, <2>2, <2>3, <2>4, <2>5 DEF SchedulerStep
<1>4. CASE (DeadLockExpires \/ SlowLockExpires) /\ UNCHANGED messageVars
  BY <1>1, <1>4
<1>5. CASE UNCHANGED vars
  BY <1>1, <1>5 DEF vars
<1> QED BY <1>2, <1>3, <1>4, <1>5 DEF Next

(* Every reachable state is well typed, on both sides of the composition. *)
THEOREM TypeCorrect == Spec => []TypeOK
<1> DEFINE Inv == LockTypeOK /\ MessageInv
<1>1. Init => Inv
  BY LockTypeInit, MessageInitType DEF Init
<1>2. Inv /\ [Next]_vars => Inv'
  BY MessageStepOK, MessageInvType, NextIsLockNext, LockTypeStep
<1>3. Inv => TypeOK
  BY MessageInvType DEF TypeOK
<1> QED BY <1>1, <1>2, <1>3, PTL DEF Spec

(* Two scheduler processes are in a tick at the same time only if one of   *)
(* them has outlived the lock's time to live (_refresh_lock, run).         *)
THEOREM OneOwner == Spec => []SingleActive
<1> DEFINE Inv == LockTypeOK /\ MessageInv /\ OwnerInv
<1>1. Init => Inv
  BY LockTypeInit, MessageInitType, OwnerInit DEF Init
<1>2. Inv /\ [Next]_vars => Inv'
  BY MessageStepOK, MessageInvType, NextIsLockNext, LockTypeStep, OwnerStep
<1>3. Inv => SingleActive
  BY OwnerIsActive
<1> QED BY <1>1, <1>2, <1>3, PTL DEF Spec

-----------------------------------------------------------------------------
(* The promise: at most one attempt of a message is under way *)

Retries == 1..MaxRetries

(* A worker past the claim may still send, and so may the job of a retry. *)
Sends(w, m) == wk[w].m = m /\ wk[w].step \notin {"idle", "claim"}

OneAttempt(m) ==
  /\ \A v, w \in Workers : Sends(v, m) /\ Sends(w, m) => v = w
  /\ \A a, b \in Retries : jobs[m][a] > 0 /\ jobs[m][b] > 0 => a = b
  /\ \A a \in Retries : jobs[m][a] <= 1
  /\ \A w \in Workers, a \in Retries : Sends(w, m) => jobs[m][a] = 0

(* The attempt belongs to whoever claimed the key. *)
KeyTaken(m) ==
  /\ \A w \in Workers : Sends(w, m) => m \in outkey
  /\ \A a \in Retries : jobs[m][a] > 0 => m \in outkey

(* What was accepted is accounted for, whenever another attempt may follow. *)
Accounted(m) ==
  /\ live[m] <= lost[m] + 1
  /\ m \notin outkey => live[m] <= lost[m]
  /\ \A a \in Retries : jobs[m][a] > 0 => live[m] <= lost[m]
  /\ \A w \in Workers : Sends(w, m) =>
       IF wk[w].step = "store" THEN live[m] > 0 ELSE live[m] <= lost[m]

SendInv == \A m \in Messages : OneAttempt(m) /\ KeyTaken(m) /\ Accounted(m)

LEMMA RetryNumbers == Retries \subseteq 0..MaxRetries /\ 0 \notin Retries
  BY OutboundBoundsAssumption DEF Retries

LEMMA SendInit == MessageInit => SendInv
<1> SUFFICES ASSUME MessageInit, NEW m \in Messages
             PROVE  OneAttempt(m) /\ KeyTaken(m) /\ Accounted(m)
  BY DEF SendInv
<1>1. \A a \in Retries : jobs[m][a] = 0
  BY RetryNumbers DEF MessageInit
<1>2. \A w \in Workers : ~Sends(w, m)
  BY DEF MessageInit, Sends, NoJob
<1>3. live[m] = 0 /\ lost[m] = 0
  BY DEF MessageInit
<1> QED BY <1>1, <1>2, <1>3 DEF OneAttempt, KeyTaken, Accounted

(* A step that leaves the attempts of a message alone. *)
Untouched(m) ==
  /\ \A w \in Workers : Sends(w, m)' =>
       Sends(w, m) /\ (wk'[w].step = "store" <=> wk[w].step = "store")
  /\ \A a \in Retries : jobs'[m][a] = jobs[m][a]
  /\ m \in outkey' <=> m \in outkey
  /\ live'[m] = live[m] /\ lost'[m] = lost[m]

LEMMA UntouchedKeeps ==
  ASSUME NEW m, OneAttempt(m), KeyTaken(m), Accounted(m), Untouched(m)
  PROVE  OneAttempt(m)' /\ KeyTaken(m)' /\ Accounted(m)'
<1>1. OneAttempt(m)'
  BY DEF OneAttempt, Untouched
<1>2. KeyTaken(m)'
  BY DEF KeyTaken, Untouched
<1>3. Accounted(m)'
  BY DEF Accounted, Untouched
<1> QED BY <1>1, <1>2, <1>3

LEMMA OthersUntouched ==
  ASSUME WkOK, jobs \in JobCounts, GhostsOK, NEW w \in Workers, NEW n,
         \A m \in Messages : m # n =>
           /\ jobs'[m] = jobs[m] /\ live'[m] = live[m] /\ lost'[m] = lost[m]
           /\ m \in outkey' <=> m \in outkey,
         \A v \in Workers : v # w => wk'[v] = wk[v],
         wk'[w].step # "idle" => wk'[w].m = n,
         NEW m \in Messages, m # n
  PROVE  Untouched(m)
<1>1. ASSUME NEW v \in Workers, Sends(v, m)'
      PROVE  Sends(v, m) /\ (wk'[v].step = "store" <=> wk[v].step = "store")
  <2>1. v # w
    BY <1>1 DEF Sends
  <2> QED BY <1>1, <2>1 DEF Sends
<1> QED BY <1>1 DEF Untouched

LEMMA NoMoreJobs ==
  ASSUME jobs \in JobCounts, NEW n \in Messages, \A b \in Retries : ~(jobs[n][b] > 0)
  PROVE  \A b \in Retries : jobs[n][b] = 0
<1>1. \A b \in Retries : jobs[n][b] \in Nat
  BY RetryNumbers DEF JobCounts
<1> QED BY <1>1

PutJobs(n, a, k) == jobs' = [jobs EXCEPT ![n][a] = k]

LEMMA JobsAt ==
  ASSUME jobs \in JobCounts, NEW n \in Messages, NEW a \in 0..MaxRetries, NEW k,
         PutJobs(n, a, k)
  PROVE  /\ jobs'[n][a] = k
         /\ \A b \in 0..MaxRetries : b # a => jobs'[n][b] = jobs[n][b]
         /\ \A m \in Messages : m # n => jobs'[m] = jobs[m]
  BY DEF JobCounts, PutJobs

LEMMA WorkerSends ==
  ASSUME MessageInv, SendInv, NEW w \in Workers, JobStep(w) \/ SendFault(w) \/ WorkerCrash(w)
  PROVE  SendInv' /\ (Promise!PromiseNext \/ UNCHANGED <<live, lost>>)
<1>0. /\ WkOK /\ GhostsOK /\ KeysOK /\ jobs \in JobCounts
      /\ \A v \in Workers : wk[v].step # "idle" => wk[v].m \in Messages
      /\ \A v \in Workers : wk[v].a \in 0..MaxRetries
      /\ wk \in [Workers -> [step : WorkerSteps, m : 0..MaxMessages, a : 0..MaxRetries,
                             cat : Answers]]
  BY WkFields DEF MessageInv, WkOK, WkType
<1>1. ASSUME \A m \in Messages : Untouched(m) PROVE SendInv'
  BY <1>1, UntouchedKeeps DEF SendInv
(* The message in hand is n; nothing happens to the others. *)
<1>2. ASSUME NEW n \in Messages,
             \A m \in Messages : m # n =>
               /\ jobs'[m] = jobs[m] /\ live'[m] = live[m] /\ lost'[m] = lost[m]
               /\ m \in outkey' <=> m \in outkey,
             \A v \in Workers : v # w => wk'[v] = wk[v],
             wk'[w].step # "idle" => wk'[w].m = n,
             OneAttempt(n)' /\ KeyTaken(n)' /\ Accounted(n)'
      PROVE  SendInv'
  <2>1. ASSUME NEW m \in Messages PROVE OneAttempt(m)' /\ KeyTaken(m)' /\ Accounted(m)'
    <3>1. CASE m = n
      BY <1>2, <3>1
    <3>2. CASE m # n
      <4>1. Untouched(m)
        BY <1>0, <1>2, <3>2, OthersUntouched
      <4> QED BY <4>1, UntouchedKeeps DEF SendInv
    <3> QED BY <3>1, <3>2
  <2> QED BY <2>1 DEF SendInv
<1>3. CASE StartSend(w)
  <2>1. PICK n \in Messages, a \in 0..MaxRetries :
          /\ jobs[n][a] > 0 /\ jobs' = [jobs EXCEPT ![n][a] = @ - 1]
          /\ wk' = [wk EXCEPT ![w] =
               IF msg[n].status \in Ended THEN NoJob
               ELSE [step |-> IF a = 0 THEN "claim" ELSE "gate",
                     m |-> n, a |-> a, cat |-> "sent"]]
    BY <1>3 DEF StartSend
  <2>2. /\ UNCHANGED <<outkey, live, lost>> /\ ~Sends(w, n)
        /\ \A m \in Messages : ~Sends(w, m)
    BY <1>0, <1>3 DEF StartSend, ghosts, Sends, InJob
  <2>3. /\ jobs'[n][a] = jobs[n][a] - 1
        /\ \A b \in 0..MaxRetries : b # a => jobs'[n][b] = jobs[n][b]
        /\ \A m \in Messages : m # n => jobs'[m] = jobs[m]
    <3>1. PutJobs(n, a, jobs[n][a] - 1) /\ jobs \in JobCounts
      BY <1>0, <2>1 DEF PutJobs
    <3> QED BY <3>1, JobsAt
  <2>4. \A v \in Workers : v # w => wk'[v] = wk[v]
    BY <1>0, <2>1
  <2>5. /\ wk'[w].step # "idle" => wk'[w].m = n
        /\ wk'[w].step \in {"idle", "claim", "gate"}
        /\ wk'[w].step = "gate" => a # 0
    BY <1>0, <2>1 DEF NoJob
  <2>6. OneAttempt(n) /\ KeyTaken(n) /\ Accounted(n) /\ jobs[n][a] \in Nat
    BY <1>0 DEF SendInv, JobCounts
  <2>7. CASE a = 0
    <3>1. Untouched(n)
      BY <2>2, <2>3, <2>4, <2>5, <2>7, RetryNumbers DEF Untouched, Sends
    <3>2. OneAttempt(n)' /\ KeyTaken(n)' /\ Accounted(n)'
      BY <2>6, <3>1, UntouchedKeeps
    <3> QED BY <1>2, <2>2, <2>3, <2>4, <2>5, <3>2
  <2>8. CASE a # 0
    <3>1. a \in Retries /\ jobs[n][a] = 1 /\ n \in outkey /\ live[n] <= lost[n]
      BY <2>1, <2>6, <2>8, OutboundBoundsAssumption DEF Retries, OneAttempt, KeyTaken, Accounted
    <3>2. \A b \in Retries : jobs[n][b] \in Nat
      BY <1>0, RetryNumbers DEF JobCounts
    <3>3. \A b \in Retries : jobs'[n][b] = 0
      <4> TAKE b \in Retries
      <4>1. CASE b = a
        BY <2>3, <3>1, <4>1
      <4>2. CASE b # a
        <5>1. jobs[n][b] = 0
          BY <2>6, <3>1, <3>2, <4>2 DEF OneAttempt
        <5> QED BY <2>3, <4>2, <5>1, RetryNumbers
      <4> QED BY <4>1, <4>2
    <3>4. \A v \in Workers : Sends(v, n)' => v = w
      BY <2>1, <2>4, <2>6, <3>1 DEF Sends, OneAttempt
    <3>5. OneAttempt(n)'
      BY <3>3, <3>4 DEF OneAttempt
    <3>7. KeyTaken(n)'
      BY <2>2, <3>1, <3>3 DEF KeyTaken
    <3>6. Accounted(n)'
      BY <2>2, <2>5, <2>6, <3>1, <3>3, <3>4 DEF Accounted
    <3> QED BY <1>2, <2>2, <2>3, <2>4, <2>5, <3>5, <3>6, <3>7
  <2> QED BY <2>2, <2>7, <2>8
<1>4. CASE ClaimSend(w)
  <2> PICK n \in Messages : n = wk[w].m
    BY <1>0, <1>4 DEF ClaimSend, InJob
  <2>1. /\ UNCHANGED <<jobs, live, lost>> /\ n \in Messages /\ outkey' = outkey \cup {n}
        /\ \A m \in Messages : ~Sends(w, m)
    BY <1>0, <1>4 DEF ClaimSend, ghosts, Sends, InJob
  <2>2. \A v \in Workers : v # w => wk'[v] = wk[v]
    BY <1>0, <1>4 DEF ClaimSend, JobEnds, JobTo
  <2>3. OneAttempt(n) /\ KeyTaken(n) /\ Accounted(n)
    BY <2>1 DEF SendInv
  <2>4. CASE n \in outkey
    <3>1. wk'[w].step = "idle"
      BY <1>0, <1>4, <2>4 DEF ClaimSend, JobEnds, NoJob
    <3>2. \A m \in Messages : Untouched(m)
      BY <2>1, <2>2, <2>4, <3>1 DEF Untouched, Sends
    <3> QED BY <1>1, <2>1, <3>2
  <2>5. CASE n \notin outkey
    <3>1. wk'[w].step = "gate" /\ wk'[w].m = n
      BY <1>0, <1>4, <2>5 DEF ClaimSend, JobTo
    <3>2. \A a \in Retries : ~(jobs[n][a] > 0) /\ jobs[n][a] = 0
      <4>1. \A a \in Retries : ~(jobs[n][a] > 0)
        BY <2>3, <2>5 DEF KeyTaken
      <4> QED BY <1>0, <4>1, NoMoreJobs
    <3>3. \A v \in Workers : Sends(v, n)' => v = w
      BY <2>2, <2>3, <2>5 DEF Sends, KeyTaken
    <3>4. OneAttempt(n)' /\ KeyTaken(n)'
      BY <2>1, <3>2, <3>3 DEF OneAttempt, KeyTaken
    <3>5. Accounted(n)'
      BY <2>1, <2>3, <2>5, <3>1, <3>2, <3>3 DEF Accounted
    <3> QED BY <1>2, <2>1, <2>2, <3>1, <3>4, <3>5
  <2> QED BY <2>4, <2>5

<1>5. \A m \in Messages : OneAttempt(m) /\ KeyTaken(m) /\ Accounted(m)
  BY DEF SendInv
(* The job goes on as the attempt it was, or ends, and nothing else changes. *)
<1>6. ASSUME UNCHANGED <<jobs, outkey, live, lost>>,
             \/ JobEnds(w)
             \/ \E step \in WorkerSteps \ {"store"} :
                  JobTo(w, step) /\ wk[w].step \notin {"idle", "claim", "store"}
      PROVE  SendInv' /\ UNCHANGED <<live, lost>>
  <2>1. \A v \in Workers : v # w => wk'[v] = wk[v]
    BY <1>0, <1>6 DEF JobEnds, JobTo
  <2>2. \/ wk'[w].step = "idle"
        \/ /\ wk'[w].m = wk[w].m /\ wk[w].step \notin {"idle", "claim", "store"}
           /\ wk'[w].step # "store"
    BY <1>0, <1>6 DEF JobEnds, JobTo, NoJob
  <2>3. \A m \in Messages : Untouched(m)
    BY <1>6, <2>1, <2>2 DEF Untouched, Sends
  <2> QED BY <1>1, <1>6, <2>3
<1>7. CASE Gate(w)
  <2> PICK n \in Messages, a \in 0..MaxRetries : n = wk[w].m /\ a = wk[w].a
    BY <1>0, <1>7 DEF Gate, InJob
  <2>0. /\ n \in Messages /\ a \in 0..MaxRetries /\ wk[w].step = "gate"
        /\ UNCHANGED <<outkey, live, lost>>
    BY <1>0, <1>7 DEF Gate, InJob, ghosts
  <2>1. CASE UNCHANGED jobs
    <3>1. JobTo(w, "start") \/ JobEnds(w)
      BY <1>7 DEF Gate
    <3> QED BY <1>6, <2>0, <2>1, <3>1 DEF WorkerSteps
  <2>2. CASE jobs' = [jobs EXCEPT ![n][a] = @ + 1] /\ JobEnds(w)
    <3>1. /\ jobs'[n][a] = jobs[n][a] + 1
          /\ \A b \in 0..MaxRetries : b # a => jobs'[n][b] = jobs[n][b]
          /\ \A m \in Messages : m # n => jobs'[m] = jobs[m]
      <4>1. PutJobs(n, a, jobs[n][a] + 1) /\ jobs \in JobCounts
        BY <1>0, <2>2 DEF PutJobs
      <4> QED BY <4>1, JobsAt
    <3>2. (\A v \in Workers : v # w => wk'[v] = wk[v]) /\ wk'[w].step = "idle"
      BY <1>0, <2>2 DEF JobEnds, NoJob
    <3>3. Sends(w, n) /\ OneAttempt(n) /\ KeyTaken(n) /\ Accounted(n)
      BY <1>5, <2>0 DEF Sends
    <3>4. CASE a = 0
      <4>1. Untouched(n)
        BY <2>0, <3>1, <3>2, <3>4, RetryNumbers DEF Untouched, Sends
      <4>2. OneAttempt(n)' /\ KeyTaken(n)' /\ Accounted(n)'
        BY <3>3, <4>1, UntouchedKeeps
      <4> QED BY <1>2, <2>0, <3>1, <3>2, <4>2
    <3>5. CASE a # 0
      <4>1. a \in Retries
        BY <2>0, <3>5, OutboundBoundsAssumption DEF Retries
      <4>2. \A b \in Retries : jobs[n][b] = 0
        BY <3>3 DEF OneAttempt
      <4>3. jobs'[n][a] = 1 /\ \A b \in Retries : b # a => jobs'[n][b] = 0
        BY <3>1, <4>1, <4>2, RetryNumbers
      <4>4. \A v \in Workers : ~Sends(v, n)'
        BY <3>2, <3>3 DEF Sends, OneAttempt
      <4>5. n \in outkey /\ live[n] <= lost[n]
        BY <2>0, <3>3 DEF KeyTaken, Accounted
      <4>6. OneAttempt(n)'
        BY <4>1, <4>3, <4>4 DEF OneAttempt
      <4>7. KeyTaken(n)'
        BY <2>0, <4>4, <4>5 DEF KeyTaken
      <4>8. Accounted(n)'
        BY <2>0, <3>3, <4>4, <4>5 DEF Accounted
      <4> QED BY <1>2, <2>0, <3>1, <3>2, <4>6, <4>7, <4>8
    <3> QED BY <2>0, <3>4, <3>5
  <2> QED BY <1>7, <2>1, <2>2 DEF Gate
<1>8. CASE MarkSending(w)
  BY <1>6, <1>8 DEF MarkSending, InJob, WorkerSteps, ghosts
<1>9. CASE StoreSent(w)
  BY <1>6, <1>9 DEF StoreSent
<1>10. CASE Except(w)
  BY <1>6, <1>10 DEF Except, InJob, WorkerSteps, ghosts
<1>11. ASSUME NEW answer \in Answers, ProviderCall(w, answer)
       PROVE  SendInv' /\ (Promise!PromiseNext \/ UNCHANGED <<live, lost>>)
  <2> PICK n \in Messages : n = wk[w].m
    BY <1>0, <1>11 DEF ProviderCall, InJob
  <2> DEFINE accepted == answer \in {"sent", "sending", "lost"}
  <2>0. n \in Messages /\ wk[w].step = "call" /\ UNCHANGED <<jobs, outkey>>
    BY <1>0, <1>11 DEF ProviderCall, InJob
  <2>1. \E step \in {"store", "except"}, cat \in Answers :
          Caught(w, step, cat) /\ (step = "store" <=> answer \in {"sent", "sending"})
    BY <1>11 DEF ProviderCall, Answers
  <2>2. /\ \A v \in Workers : v # w => wk'[v] = wk[v]
        /\ wk'[w].m = n /\ (wk'[w].step = "store" <=> answer \in {"sent", "sending"})
    BY <1>0, <2>1 DEF Caught
  <2>3. Sends(w, n) /\ OneAttempt(n) /\ KeyTaken(n) /\ Accounted(n)
    BY <1>5, <2>0 DEF Sends
  <2>4. /\ \A v \in Workers : Sends(v, n) => v = w
        /\ \A a \in Retries : jobs[n][a] = 0
        /\ n \in outkey /\ live[n] <= lost[n] /\ live[n] \in Nat /\ lost[n] \in Nat
    BY <1>0, <2>0, <2>3 DEF OneAttempt, KeyTaken, Accounted, GhostsOK
  <2>5. \A v \in Workers : Sends(v, n)' => v = w
    BY <2>2, <2>4 DEF Sends
  <2>6. OneAttempt(n)' /\ KeyTaken(n)'
    BY <2>0, <2>4, <2>5 DEF OneAttempt, KeyTaken
  <2>7. /\ live'[n] = IF accepted THEN live[n] + 1 ELSE live[n]
        /\ lost'[n] = IF answer = "lost" THEN lost[n] + 1 ELSE lost[n]
        /\ \A m \in Messages : m # n => live'[m] = live[m] /\ lost'[m] = lost[m]
    BY <1>0, <1>11, <2>0 DEF ProviderCall, GhostsOK
  <2>8. /\ live'[n] <= lost'[n] + 1
        /\ IF answer \in {"sent", "sending"} THEN live'[n] > 0 ELSE live'[n] <= lost'[n]
    <3>1. CASE answer \in {"sent", "sending"}
      BY <2>4, <2>7, <3>1
    <3>2. CASE answer = "lost"
      BY <2>4, <2>7, <3>2
    <3>3. CASE ~accepted
      BY <2>4, <2>7, <3>3
    <3> QED BY <3>1, <3>2, <3>3
  <2>9. Accounted(n)'
    BY <2>0, <2>2, <2>4, <2>5, <2>8 DEF Accounted
  <2>10. SendInv'
    BY <1>2, <2>0, <2>2, <2>6, <2>7, <2>9
  <2>11. Promise!PromiseNext \/ UNCHANGED <<live, lost>>
    <3>1. CASE answer = "lost"
      <4>1. Promise!Accept(n, TRUE)
        BY <1>11, <2>4, <3>1 DEF ProviderCall, Promise!Accept
      <4> QED BY <2>0, <4>1 DEF Promise!PromiseNext
    <3>2. CASE answer \in {"sent", "sending"}
      <4>1. lost' = lost
        BY <1>0, <1>11, <3>2 DEF ProviderCall, GhostsOK
      <4>2. Promise!Accept(n, FALSE)
        BY <1>11, <2>4, <3>2, <4>1 DEF ProviderCall, Promise!Accept
      <4> QED BY <2>0, <4>2 DEF Promise!PromiseNext
    <3>3. CASE ~accepted
      BY <1>0, <1>11, <3>3 DEF ProviderCall, GhostsOK
    <3> QED BY <3>1, <3>2, <3>3
  <2> QED BY <2>10, <2>11
(* The note of a message that was just accepted gets lost. *)
<1>12. ASSUME InJob(w, "store"), UNCHANGED <<jobs, outkey, live>>,
              lost' = [lost EXCEPT ![wk[w].m] = @ + 1],
              JobEnds(w) \/ Caught(w, "except", "retryable")
       PROVE  SendInv' /\ Promise!PromiseNext
  <2> PICK n \in Messages : n = wk[w].m
    BY <1>0, <1>12 DEF InJob
  <2>0. n \in Messages /\ wk[w].step = "store"
    BY <1>0, <1>12 DEF InJob
  <2>1. /\ \A v \in Workers : v # w => wk'[v] = wk[v]
        /\ wk'[w].step = "idle" \/ (wk'[w].step = "except" /\ wk'[w].m = n)
    BY <1>0, <1>12 DEF JobEnds, Caught, NoJob
  <2>2. Sends(w, n) /\ OneAttempt(n) /\ KeyTaken(n) /\ Accounted(n)
    BY <1>5, <2>0 DEF Sends
  <2>3. /\ \A v \in Workers : Sends(v, n) => v = w
        /\ \A a \in Retries : jobs[n][a] = 0
        /\ n \in outkey /\ live[n] > 0 /\ live[n] <= lost[n] + 1
        /\ live[n] \in Nat /\ lost[n] \in Nat
    BY <1>0, <2>0, <2>2 DEF OneAttempt, KeyTaken, Accounted, GhostsOK
  <2>4. \A v \in Workers : Sends(v, n)' => v = w
    BY <2>1, <2>3 DEF Sends
  <2>5. OneAttempt(n)' /\ KeyTaken(n)'
    BY <1>12, <2>3, <2>4 DEF OneAttempt, KeyTaken
  <2>6. /\ lost'[n] = lost[n] + 1
        /\ \A m \in Messages : m # n => lost'[m] = lost[m]
    BY <1>0, <1>12, <2>0 DEF GhostsOK
  <2>7. Accounted(n)'
    BY <1>12, <2>1, <2>3, <2>4, <2>6 DEF Accounted
  <2>8. SendInv'
    BY <1>2, <1>12, <2>0, <2>1, <2>5, <2>6, <2>7
  <2>9. Promise!Forget(n)
    BY <1>12, <2>3 DEF Promise!Forget
  <2> QED BY <2>0, <2>8, <2>9 DEF Promise!PromiseNext
<1>13. CASE SendFault(w)
  BY <1>12, <1>13 DEF SendFault
<1>14. CASE Schedule(w)
  <2> PICK n \in Messages, a \in Nat : n = wk[w].m /\ a = wk[w].a + 1
    BY <1>0, <1>14 DEF Schedule, InJob
  <2>0. /\ n \in Messages /\ wk[w].step = "schedule" /\ a \in Retries /\ a \in 0..MaxRetries
        /\ UNCHANGED <<outkey, live, lost>> /\ JobEnds(w)
        /\ jobs' = [jobs EXCEPT ![n][a] = @ + 1]
    BY <1>0, <1>14, OutboundBoundsAssumption DEF Schedule, InJob, WkOK, Retries, ghosts
  <2>1. /\ jobs'[n][a] = jobs[n][a] + 1
        /\ \A b \in 0..MaxRetries : b # a => jobs'[n][b] = jobs[n][b]
        /\ \A m \in Messages : m # n => jobs'[m] = jobs[m]
    <3>1. PutJobs(n, a, jobs[n][a] + 1) /\ jobs \in JobCounts
      BY <1>0, <2>0 DEF PutJobs
    <3> QED BY <2>0, <3>1, JobsAt
  <2>2. (\A v \in Workers : v # w => wk'[v] = wk[v]) /\ wk'[w].step = "idle"
    BY <1>0, <2>0 DEF JobEnds, NoJob
  <2>3. Sends(w, n) /\ OneAttempt(n) /\ KeyTaken(n) /\ Accounted(n)
    BY <1>5, <2>0 DEF Sends
  <2>4. \A b \in Retries : jobs[n][b] = 0
    BY <2>3 DEF OneAttempt
  <2>5. jobs'[n][a] = 1 /\ \A b \in Retries : b # a => jobs'[n][b] = 0
    BY <2>0, <2>1, <2>4, RetryNumbers
  <2>6. \A v \in Workers : ~Sends(v, n)'
    BY <2>2, <2>3 DEF Sends, OneAttempt
  <2>7. n \in outkey /\ live[n] <= lost[n]
    BY <2>0, <2>3 DEF KeyTaken, Accounted
  <2>8. OneAttempt(n)'
    BY <2>0, <2>5, <2>6 DEF OneAttempt
  <2>9. KeyTaken(n)'
    BY <2>0, <2>6, <2>7 DEF KeyTaken
  <2>10. Accounted(n)'
    BY <2>0, <2>3, <2>6, <2>7 DEF Accounted
  <2> QED BY <1>2, <2>0, <2>1, <2>2, <2>8, <2>9, <2>10
<1>15. CASE WorkerCrash(w)
  <2>1. CASE InJob(w, "store")
    BY <1>12, <1>15, <2>1 DEF WorkerCrash
  <2>2. CASE ~InJob(w, "store")
    BY <1>6, <1>15, <2>2 DEF WorkerCrash
  <2> QED BY <2>1, <2>2
<1>16. StartSend(w) \/ ClaimSend(w) => UNCHANGED <<live, lost>>
  BY DEF StartSend, ClaimSend, ghosts
<1> QED BY <1>3, <1>4, <1>7, <1>8, <1>9, <1>10, <1>11, <1>13, <1>14, <1>15, <1>16 DEF JobStep

LEMMA SendsStep ==
  ASSUME MessageInv, SendInv, [Next]_vars
  PROVE  SendInv' /\ (Promise!PromiseNext \/ UNCHANGED <<live, lost>>)
<1>0. jobs \in JobCounts /\ scenario.running \subseteq Reconcilers
  BY DEF MessageInv, ScenarioTypes
<1>1. ASSUME UNCHANGED <<wk, outkey, live, lost>>,
             \A m \in Messages, a \in Retries : jobs'[m][a] = jobs[m][a]
      PROVE  SendInv' /\ UNCHANGED <<live, lost>>
  <2>1. ASSUME NEW m \in Messages PROVE OneAttempt(m)' /\ KeyTaken(m)' /\ Accounted(m)'
    <3>1. Untouched(m)
      BY <1>1 DEF Untouched, Sends
    <3> QED BY <3>1, UntouchedKeeps DEF SendInv
  <2> QED BY <1>1, <2>1 DEF SendInv
<1>2. CASE UNCHANGED messageVars
  BY <1>1, <1>2 DEF messageVars, keys, ghosts
<1>3. ASSUME NEW c \in Clients, send_message(c) \/ Handle(c) \/ ApiCrash(c)
      PROVE  SendInv' /\ UNCHANGED <<live, lost>>
  <2>1. UNCHANGED <<wk, outkey, live, lost>>
    BY <1>3 DEF send_message, Handle, ApiCrash, Look, LookAgain, Policy, ClaimKey, Insert,
                EnqueueSend, StoreResult, apiRest, ghosts
  <2>2. CASE EnqueueSend(c)
    <3>1. PICK n \in Messages : PutJobs(n, 0, jobs[n][0] + 1)
      BY <2>2 DEF EnqueueSend, InApi, MessageInv, ApiOK, PutJobs
    <3>2. /\ \A a \in 0..MaxRetries : a # 0 => jobs'[n][a] = jobs[n][a]
          /\ \A m \in Messages : m # n => jobs'[m] = jobs[m]
      BY <1>0, <3>1, JobsAt, MessageNumbers
    <3>3. \A m \in Messages, a \in Retries : jobs'[m][a] = jobs[m][a]
      BY <3>2, RetryNumbers
    <3> QED BY <1>1, <2>1, <3>3
  <2>3. CASE ~EnqueueSend(c)
    <3>1. UNCHANGED jobs
      BY <1>3, <2>3 DEF send_message, Handle, ApiCrash, Look, LookAgain, Policy, ClaimKey, Insert,
                        StoreResult
    <3> QED BY <1>1, <2>1, <3>1
  <2> QED BY <2>2, <2>3
<1>4. ASSUME NEW m \in Messages, Advance(m) \/ Report(m) \/ Age(m)
      PROVE  SendInv' /\ UNCHANGED <<live, lost>>
  BY <1>1, <1>4 DEF Advance, Report, Age, keys, ghosts
<1>5. CASE MessageStep
  BY <1>3, <1>4, <1>5, WorkerSends DEF MessageStep
<1>6. ASSUME NEW s \in scenario.running, SchedulerStep(s) \/ SchedulerDies(s)
      PROVE  SendInv' /\ UNCHANGED <<live, lost>>
  <2>1. CASE UNCHANGED recRest
    BY <1>1, <2>1 DEF recRest, keys, ghosts
  <2>2. CASE Reconcile(s)
    BY <2>1, <2>2 DEF Reconcile, Scan, NextStale, Fetch, WriteStale, RepairRecipient
  <2>3. CASE BeginReconcile(s) \/ SchedulerDies(s)
    BY <2>1, <2>3 DEF BeginReconcile, SchedulerDies
  <2>4. CASE EndReconcile(s) \/ LockStep(s)
    BY <1>2, <2>4 DEF EndReconcile, LockStep, messageVars, keys, ghosts
  <2> QED BY <1>6, <2>2, <2>3, <2>4 DEF SchedulerStep
<1>7. CASE (DeadLockExpires \/ SlowLockExpires) /\ UNCHANGED messageVars
  BY <1>2, <1>7 DEF messageVars, ghosts
<1>8. CASE UNCHANGED vars
  BY <1>2, <1>8 DEF vars, messageVars, ghosts
<1> QED BY <1>5, <1>6, <1>7, <1>8 DEF Next

(* The outgoing side implements SendPromise: whatever overlaps, is retried, *)
(* put off or dies, a message of the chat is accepted a second time only if *)
(* the system could not know of the first (send_outbound_message and the    *)
(* "outbound" key it claims).                                               *)
THEOREM Implements == Spec => KeepsPromise
<1> DEFINE Inv == MessageInv /\ SendInv
<1>1. Init => Inv /\ Promise!PromiseInit
  <2>1. MessageInit => Promise!PromiseInit
    BY DEF MessageInit, Promise!PromiseInit
  <2> QED BY <2>1, MessageInitType, SendInit DEF Init
<1>2. Inv /\ [Next]_vars => Inv'
  BY MessageStepOK, SendsStep
<1>3. Inv /\ [Next]_vars => [Promise!PromiseNext]_<<live, lost>>
  BY SendsStep
<1> QED BY <1>1, <1>2, <1>3, PTL DEF Spec, KeepsPromise, Promise!PromiseSpec

-----------------------------------------------------------------------------
(* One message per key *)

(* A request that won the key, until it has inserted its message. *)
Inserting(c) == api[c].step \in {"policy", "insert"}

(* The key lets one request through, ever: it is never freed again. *)
KeyedInv ==
  scenario.keyed =>
    /\ reqkey = "free" => /\ \A c \in Clients : ~Inserting(c)
                          /\ \A m \in Messages : ~Requested(m)
    /\ \A c, d \in Clients : Inserting(c) /\ Inserting(d) => c = d
    /\ \A c \in Clients, m \in Messages : ~(Inserting(c) /\ Requested(m))
    /\ \A m, n \in Messages : Requested(m) /\ Requested(n) => m = n

LEMMA KeyedInit == MessageInit => KeyedInv
  BY DEF MessageInit, KeyedInv, Inserting, Requested, NoRequest

LEMMA ScenarioBy ==
  ASSUME MessageInv, [Next]_vars
  PROVE  scenario'.keyed = scenario.keyed /\ scenario'.campaign = scenario.campaign
<1>1. ASSUME NEW what \in {"requests", "faults", "crashes"}, Spend(what)
      PROVE  scenario'.keyed = scenario.keyed /\ scenario'.campaign = scenario.campaign
  BY <1>1 DEF Spend, MessageInv, ScenarioTypes
<1>2. CASE UNCHANGED scenario
  BY <1>2
<1>3. ASSUME NEW c \in Clients, send_message(c) \/ Handle(c) \/ ApiCrash(c)
      PROVE  UNCHANGED scenario \/ Spend("requests") \/ Spend("crashes")
  BY <1>3 DEF send_message, Handle, ApiCrash, Look, LookAgain, Policy, ClaimKey, Insert,
              EnqueueSend, StoreResult
<1>4. ASSUME NEW w \in Workers, JobStep(w) \/ SendFault(w) \/ WorkerCrash(w)
      PROVE  UNCHANGED scenario \/ Spend("faults") \/ Spend("crashes")
  BY <1>4 DEF JobStep, SendFault, WorkerCrash, StartSend, ClaimSend, Gate, MarkSending,
              ProviderCall, StoreSent, Except, Schedule
<1>5. ASSUME NEW m \in Messages, Advance(m) \/ Report(m) \/ Age(m)
      PROVE  UNCHANGED scenario
  BY <1>5 DEF Advance, Report, Age
<1>6. ASSUME NEW s, SchedulerStep(s) \/ SchedulerDies(s)
      PROVE  UNCHANGED scenario
  BY <1>6 DEF SchedulerStep, SchedulerDies, BeginReconcile, EndReconcile, LockStep, Reconcile,
              Scan, NextStale, Fetch, WriteStale, RepairRecipient, recRest, messageVars
<1> QED BY <1>1, <1>2, <1>3, <1>4, <1>5, <1>6
  DEF Next, MessageStep, vars, messageVars

(* Nothing but the requests moves them on, and nothing else uses their key. *)
LEMMA OthersLeaveRequests ==
  ASSUME [Next]_vars,
         \A c \in Clients : ~(send_message(c) \/ Handle(c) \/ ApiCrash(c))
  PROVE  UNCHANGED <<api, reqkey>>
<1>1. ASSUME NEW w \in Workers, JobStep(w) \/ SendFault(w) \/ WorkerCrash(w)
      PROVE  UNCHANGED <<api, reqkey>>
  BY <1>1 DEF JobStep, SendFault, WorkerCrash, StartSend, ClaimSend, Gate, MarkSending,
              ProviderCall, StoreSent, Except, Schedule, workerRest
<1>2. ASSUME NEW m \in Messages, Advance(m) \/ Report(m) \/ Age(m)
      PROVE  UNCHANGED <<api, reqkey>>
  BY <1>2 DEF Advance, Report, Age, keys
<1>3. ASSUME NEW s, SchedulerStep(s) \/ SchedulerDies(s)
      PROVE  UNCHANGED <<api, reqkey>>
  BY <1>3 DEF SchedulerStep, SchedulerDies, BeginReconcile, EndReconcile, LockStep, Reconcile,
              Scan, NextStale, Fetch, WriteStale, RepairRecipient, recRest, messageVars, keys
<1> QED BY <1>1, <1>2, <1>3 DEF Next, MessageStep, vars, messageVars, keys

(* With a key, a request comes to insert a message only by claiming it. *)
LEMMA InsertingBy ==
  ASSUME MessageInv, [Next]_vars, scenario.keyed, NEW c \in Clients, Inserting(c)'
  PROVE  \/ Inserting(c) /\ api'[c].step # "enqueue"
         \/ /\ reqkey = "free" /\ reqkey' = "claimed" /\ UNCHANGED msg
            /\ \A d \in Clients \ {c} : api'[d] = api[d]
<1> USE DEF Inserting
<1>0. api \in ApiType
  BY DEF MessageInv, ApiOK
<1>1. CASE UNCHANGED api
  BY <1>1
<1>2. ASSUME NEW d \in Clients, send_message(d) \/ Handle(d) \/ ApiCrash(d), d # c
      PROVE  api'[c] = api[c]
  BY <1>0, <1>2 DEF send_message, Handle, ApiCrash, Look, LookAgain, Policy, ClaimKey, Insert,
              EnqueueSend, StoreResult, ApiTo, Answer, ApiType
<1>3. CASE send_message(c) \/ ApiCrash(c) \/ Look(c) \/ LookAgain(c) \/ EnqueueSend(c)
           \/ StoreResult(c) \/ Insert(c)
  BY <1>0, <1>3 DEF send_message, ApiCrash, Look, LookAgain, EnqueueSend, StoreResult, Insert,
                    InApi, ApiTo, Answer, NoRequest, ApiType
<1>4. CASE Policy(c)
  BY <1>0, <1>4 DEF Policy, InApi, ApiTo, Answer, NoRequest, ApiType
<1>5. CASE ClaimKey(c)
  BY <1>0, <1>5 DEF ClaimKey, InApi, ApiTo, ApiType
<1> QED BY <1>1, <1>2, <1>3, <1>4, <1>5, OthersLeaveRequests DEF Handle

-----------------------------------------------------------------------------
(* Whatever is in somebody's hands has been inserted *)

Inserted(m) == msg[m].status # "none"

InHandSteps == {"fetch", "write", "repair"}

InsertedInv ==
  /\ \A m \in Messages : \/ Inserted(m)
                         \/ /\ truth[m] = "none" /\ m \notin old
                            /\ \A a \in 0..MaxRetries : ~(jobs[m][a] > 0)
  /\ \A w \in Workers : wk[w].step # "idle" => Inserted(wk[w].m)
  /\ \A c \in Clients : api[c].step = "enqueue" => Inserted(api[c].m)
  /\ \A s \in Reconcilers :
       /\ \A m \in rec[s].todo : Inserted(m)
       /\ rec[s].step \in InHandSteps => Inserted(rec[s].m)

LEMMA InsertedInit == MessageInit => InsertedInv
<1> SUFFICES ASSUME MessageInit PROVE InsertedInv
  OBVIOUS
<1>1. ASSUME NEW m \in Messages
      PROVE  \/ Inserted(m)
             \/ /\ truth[m] = "none" /\ m \notin old
                /\ \A a \in 0..MaxRetries : ~(jobs[m][a] > 0)
  BY DEF MessageInit, Inserted
<1> QED BY <1>1 DEF MessageInit, InsertedInv, NoJob, NoRequest, NoRec, InHandSteps

(* What a step may do to the status of message m.                          *)
MovesBy(m) ==
  \/ msg'[m].status = msg[m].status
  \/ /\ msg'[m].status # "none"
     /\ \/ \E c \in Clients : Insert(c)
        \/ \E w \in Workers : wk[w].step # "idle" /\ wk[w].m = m
        \/ Report(m)
        \/ \E s \in Reconcilers :
             /\ rec[s].step = "write" /\ rec[s].m = m
             /\ rec[s].s \in Confirmed \/ msg[m].status \in Unsent

LEMMA StatusBy ==
  ASSUME MessageInv, [Next]_vars, NEW m \in Messages
  PROVE  MovesBy(m)
<1>0. /\ msg \in MsgType /\ WkOK /\ RecOK /\ scenario.running \subseteq Reconcilers
  BY DEF MessageInv, MsgOK, ScenarioTypes
<1>1. ASSUME NEW c \in Clients, send_message(c) \/ Handle(c) \/ ApiCrash(c)
      PROVE  MovesBy(m)
  <2>1. CASE Insert(c)
    <3>1. PICK n \in Messages : SetStatus(n, "queued")
      BY <2>1 DEF Insert
    <3> QED BY <1>0, <2>1, <3>1 DEF SetStatus, MovesBy, MsgType
  <2>2. CASE ~Insert(c)
    <3>1. UNCHANGED msg
      BY <1>1, <2>2 DEF send_message, Handle, ApiCrash, Look, LookAgain, Policy, ClaimKey,
                        EnqueueSend, StoreResult
    <3> QED BY <3>1 DEF MovesBy
  <2> QED BY <2>1, <2>2
<1>2. ASSUME NEW w \in Workers, JobStep(w) \/ SendFault(w) \/ WorkerCrash(w)
      PROVE  MovesBy(m)
  <2>1. UNCHANGED msg \/ \E s \in MsgStatuses \ {"none"} :
          wk[w].step # "idle" /\ SetStatus(wk[w].m, s)
    <3>1. CASE StartSend(w) \/ ClaimSend(w) \/ WorkerCrash(w) \/ Schedule(w)
               \/ \E answer \in Answers : ProviderCall(w, answer)
      BY <3>1 DEF StartSend, ClaimSend, WorkerCrash, Schedule, ProviderCall
    <3>2. CASE Gate(w) \/ MarkSending(w) \/ Except(w)
      BY <3>2, StatusNames DEF Gate, MarkSending, Except, InJob
    <3>3. CASE StoreSent(w) \/ SendFault(w)
      <4>1. wk[w].step = "store" /\ wk[w].cat \in {"sent", "sending"}
        BY <1>0, <3>3 DEF WkOK, StoreSent, SendFault, InJob
      <4> QED BY <3>3, <4>1, StatusNames DEF StoreSent, SendFault, WriteSent
    <3> QED BY <1>2, <3>1, <3>2, <3>3 DEF JobStep
  <2>2. CASE UNCHANGED msg
    BY <2>2 DEF MovesBy
  <2>3. ASSUME NEW s \in MsgStatuses \ {"none"}, wk[w].step # "idle", SetStatus(wk[w].m, s)
        PROVE  MovesBy(m)
    BY <1>0, <2>3 DEF SetStatus, MsgType, MovesBy
  <2> QED BY <2>1, <2>2, <2>3
<1>3. ASSUME NEW n \in Messages, Advance(n) \/ Report(n) \/ Age(n)
      PROVE  MovesBy(m)
  <2>1. CASE Advance(n) \/ Age(n)
    BY <2>1 DEF Advance, Age, docs, MovesBy
  <2>2. CASE Report(n)
    <3>1. truth[n] # "none" /\ SetStatus(n, truth[n])
      BY <2>2 DEF Report
    <3> QED BY <1>0, <2>2, <3>1 DEF SetStatus, MsgType, MovesBy
  <2> QED BY <1>3, <2>1, <2>2
<1>4. ASSUME NEW s \in scenario.running, SchedulerStep(s) \/ SchedulerDies(s)
      PROVE  MovesBy(m)
  <2>1. s \in Reconcilers
    BY <1>0
  <2>2. CASE BeginReconcile(s) \/ EndReconcile(s) \/ LockStep(s) \/ SchedulerDies(s)
             \/ Scan(s) \/ NextStale(s) \/ Fetch(s)
    BY <2>2 DEF BeginReconcile, EndReconcile, LockStep, SchedulerDies, Scan, NextStale, Fetch,
                messageVars, docs, MovesBy
  <2>3. CASE WriteStale(s)
    <3>1. \/ UNCHANGED msg
          \/ \E t \in {"failed"} \cup Confirmed :
               /\ rec[s].step = "write" /\ SetStatus(rec[s].m, t)
               /\ rec[s].s \in Confirmed \/ msg[rec[s].m].status \in Unsent
      BY <2>3 DEF WriteStale, InRec
    <3>2. "none" \notin {"failed"} \cup Confirmed
      BY DEF Confirmed
    <3> QED BY <1>0, <2>1, <3>1, <3>2 DEF SetStatus, MsgType, MovesBy
  <2>4. CASE RepairRecipient(s)
    BY <1>0, <2>4 DEF RepairRecipient, MsgType, MovesBy
  <2> QED BY <1>4, <2>2, <2>3, <2>4 DEF SchedulerStep, Reconcile
<1>5. CASE UNCHANGED msg
  BY <1>5 DEF MovesBy
<1> QED BY <1>1, <1>2, <1>3, <1>4, <1>5 DEF Next, MessageStep, vars, messageVars, docs

(* A message stays inserted. *)
LEMMA InsertedStays ==
  ASSUME MessageInv, [Next]_vars, NEW m \in Messages, Inserted(m)
  PROVE  Inserted(m)'
  BY StatusBy DEF MovesBy, Inserted

LEMMA JobsComeFrom ==
  ASSUME MessageInv, [Next]_vars, NEW m \in Messages, NEW a \in 0..MaxRetries, jobs'[m][a] > 0
  PROVE  \/ jobs[m][a] > 0
         \/ \E c \in Clients : api[c].step = "enqueue" /\ api[c].m = m
         \/ \E w \in Workers : wk[w].step # "idle" /\ wk[w].m = m
<1> DEFINE Goal == \/ jobs[m][a] > 0
                   \/ \E c \in Clients : api[c].step = "enqueue" /\ api[c].m = m
                   \/ \E w \in Workers : wk[w].step # "idle" /\ wk[w].m = m
<1>0. jobs \in JobCounts /\ WkOK /\ ApiOK
  BY DEF MessageInv
<1>1. CASE jobs' = jobs
  BY <1>1
<1>2. ASSUME NEW n \in Messages, NEW b \in 0..MaxRetries, NEW k, n # m,
             jobs' = [jobs EXCEPT ![n][b] = k]
      PROVE  Goal
  BY <1>0, <1>2 DEF JobCounts
<1>3. ASSUME NEW c \in Clients, send_message(c) \/ Handle(c) \/ ApiCrash(c)
      PROVE  Goal
  <2>1. CASE EnqueueSend(c)
    <3>1. api[c].step = "enqueue" /\ api[c].m \in Messages
      BY <1>0, <2>1 DEF EnqueueSend, InApi, ApiOK
    <3>2. jobs' = [jobs EXCEPT ![api[c].m][0] = @ + 1]
      BY <2>1 DEF EnqueueSend
    <3> QED BY <1>0, <3>1, <3>2 DEF JobCounts
  <2>2. CASE ~EnqueueSend(c)
    BY <1>1, <1>3, <2>2 DEF send_message, Handle, ApiCrash, Look, LookAgain, Policy, ClaimKey,
                            Insert, StoreResult
  <2> QED BY <2>1, <2>2
<1>4. ASSUME NEW w \in Workers, JobStep(w) \/ SendFault(w) \/ WorkerCrash(w)
      PROVE  Goal
  <2>1. CASE StartSend(w)
    <3>1. PICK n \in Messages, b \in 0..MaxRetries :
            jobs[n][b] > 0 /\ jobs' = [jobs EXCEPT ![n][b] = @ - 1]
      BY <2>1 DEF StartSend
    <3>2. CASE n = m /\ b = a
      BY <3>1, <3>2
    <3>3. CASE ~(n = m /\ b = a)
      BY <1>0, <3>1, <3>3 DEF JobCounts
    <3> QED BY <3>2, <3>3
  <2>2. CASE Gate(w) \/ Schedule(w)
    <3>1. wk[w].step # "idle" /\ wk[w].m \in Messages
      BY <1>0, <2>2 DEF Gate, Schedule, InJob, WkOK
    <3>2. jobs' = jobs \/ \E b : jobs' = [jobs EXCEPT ![wk[w].m][b] = @ + 1]
      BY <2>2 DEF Gate, Schedule
    <3> QED BY <1>0, <3>1, <3>2 DEF JobCounts
  <2>3. CASE ~(StartSend(w) \/ Gate(w) \/ Schedule(w))
    BY <1>1, <1>4, <2>3 DEF JobStep, SendFault, WorkerCrash, ClaimSend, MarkSending, ProviderCall,
                            StoreSent, Except
  <2> QED BY <2>1, <2>2, <2>3
<1>5. ASSUME NEW n \in Messages, Advance(n) \/ Report(n) \/ Age(n)
      PROVE  UNCHANGED jobs
  BY <1>5 DEF Advance, Report, Age
<1>6. ASSUME NEW s, SchedulerStep(s) \/ SchedulerDies(s)
      PROVE  UNCHANGED jobs
  BY <1>6 DEF SchedulerStep, SchedulerDies, BeginReconcile, EndReconcile, LockStep, Reconcile,
              Scan, NextStale, Fetch, WriteStale, RepairRecipient, recRest, messageVars
<1> QED BY <1>1, <1>3, <1>4, <1>5, <1>6 DEF Next, MessageStep, vars, messageVars

LEMMA WorkComesFrom ==
  ASSUME MessageInv, [Next]_vars, NEW w \in Workers, wk'[w].step # "idle"
  PROVE  \/ wk[w].step # "idle" /\ wk'[w].m = wk[w].m
         \/ \E m \in Messages, a \in 0..MaxRetries : jobs[m][a] > 0 /\ wk'[w].m = m
<1> DEFINE Goal == \/ wk[w].step # "idle" /\ wk'[w].m = wk[w].m
                   \/ \E m \in Messages, a \in 0..MaxRetries : jobs[m][a] > 0 /\ wk'[w].m = m
<1>0. wk \in WkType
  BY DEF MessageInv, WkOK
<1>1. CASE UNCHANGED wk
  BY <1>1
<1>2. ASSUME NEW v \in Workers, JobStep(v) \/ SendFault(v) \/ WorkerCrash(v)
      PROVE  Goal
  <2>1. CASE v # w
    <3>1. \E x : wk' = [wk EXCEPT ![v] = x]
      BY <1>0, <1>2 DEF JobStep, SendFault, WorkerCrash, StartSend, ClaimSend, Gate, MarkSending,
              ProviderCall, StoreSent, Except, Schedule, JobTo, JobEnds, Caught, WkType
    <3> QED BY <1>0, <1>1, <2>1, <3>1 DEF WkType
  <2>2. CASE v = w /\ StartSend(w)
    BY <1>0, <2>2 DEF StartSend, WkType, NoJob
  <2>3. CASE v = w /\ ~StartSend(w)
    BY <1>0, <1>2, <2>3 DEF JobStep, SendFault, WorkerCrash, ClaimSend, Gate, MarkSending,
              ProviderCall, StoreSent, Except, Schedule, JobTo, JobEnds, Caught, WkType, NoJob,
              InJob
  <2> QED BY <2>1, <2>2, <2>3
<1>3. ASSUME NEW c \in Clients, send_message(c) \/ Handle(c) \/ ApiCrash(c)
      PROVE  UNCHANGED wk
  BY <1>3 DEF send_message, Handle, ApiCrash, Look, LookAgain, Policy, ClaimKey, Insert,
              EnqueueSend, StoreResult, apiRest
<1>4. ASSUME NEW m \in Messages, Advance(m) \/ Report(m) \/ Age(m)
      PROVE  UNCHANGED wk
  BY <1>4 DEF Advance, Report, Age
<1>5. ASSUME NEW s, SchedulerStep(s) \/ SchedulerDies(s)
      PROVE  UNCHANGED wk
  BY <1>5 DEF SchedulerStep, SchedulerDies, BeginReconcile, EndReconcile, LockStep, Reconcile,
              Scan, NextStale, Fetch, WriteStale, RepairRecipient, recRest, messageVars
<1> QED BY <1>1, <1>2, <1>3, <1>4, <1>5 DEF Next, MessageStep, vars, messageVars

LEMMA EnqueuedComesFrom ==
  ASSUME MessageInv, [Next]_vars, NEW c \in Clients, api'[c].step = "enqueue"
  PROVE  \/ api[c].step = "enqueue" /\ api'[c].m = api[c].m
         \/ api'[c].m \in Messages /\ msg'[api'[c].m].status # "none"
<1>0. api \in ApiType /\ msg \in MsgType
  BY DEF MessageInv, ApiOK, MsgOK
<1>1. CASE UNCHANGED api
  BY <1>1
<1>2. ASSUME NEW d \in Clients, send_message(d) \/ Handle(d) \/ ApiCrash(d), d # c
      PROVE  api'[c] = api[c]
  BY <1>0, <1>2 DEF send_message, Handle, ApiCrash, Look, LookAgain, Policy, ClaimKey, Insert,
              EnqueueSend, StoreResult, ApiTo, Answer, ApiType
<1>3. CASE send_message(c) \/ ApiCrash(c) \/ Look(c) \/ LookAgain(c) \/ EnqueueSend(c)
           \/ StoreResult(c) \/ ClaimKey(c)
  BY <1>0, <1>3 DEF send_message, ApiCrash, Look, LookAgain, EnqueueSend, StoreResult, ClaimKey,
                    InApi, ApiTo, Answer, NoRequest, ApiType
<1>4. CASE Policy(c)
  BY <1>0, <1>4 DEF Policy, InApi, ApiTo, Answer, NoRequest, ApiType
<1>5. CASE Insert(c)
  <2>1. PICK m \in Messages : SetStatus(m, "queued")
                              /\ api' = [api EXCEPT ![c].step = "enqueue", ![c].m = m]
    BY <1>5 DEF Insert
  <2>2. api'[c].m = m
    BY <1>0, <2>1 DEF ApiType
  <2>3. msg'[m].status = "queued"
    BY <1>0, <2>1 DEF SetStatus, MsgType
  <2>4. msg'[api'[c].m].status # "none"
    BY <2>2, <2>3
  <2> QED BY <2>2, <2>4
<1> QED BY <1>1, <1>2, <1>3, <1>4, <1>5, OthersLeaveRequests DEF Handle

LEMMA TruthComesFrom ==
  ASSUME MessageInv, [Next]_vars, NEW m \in Messages, truth'[m] # "none"
  PROVE  truth[m] # "none" \/ \E w \in Workers : wk[w].step # "idle" /\ wk[w].m = m
<1> DEFINE Goal == truth[m] # "none" \/ \E w \in Workers : wk[w].step # "idle" /\ wk[w].m = m
<1>0. truth \in [Messages -> MsgStatuses]
  BY DEF MessageInv, MsgOK
<1>1. CASE UNCHANGED truth
  BY <1>1
<1>2. ASSUME NEW w \in Workers, JobStep(w) \/ SendFault(w) \/ WorkerCrash(w)
      PROVE  Goal
  <2>1. CASE StoreSent(w) \/ SendFault(w)
    BY <1>0, <2>1 DEF StoreSent, SendFault, WriteSent, InJob
  <2>2. CASE ~(StoreSent(w) \/ SendFault(w))
    BY <1>1, <1>2, <2>2 DEF JobStep, WorkerCrash, StartSend, ClaimSend, Gate, MarkSending,
                            ProviderCall, Except, Schedule, ghosts
  <2> QED BY <2>1, <2>2
<1>3. ASSUME NEW n \in Messages, Advance(n) \/ Report(n) \/ Age(n)
      PROVE  Goal
  <2>1. CASE Advance(n)
    BY <1>0, <2>1 DEF Advance, NextTruth
  <2> QED BY <1>1, <1>3, <2>1 DEF Report, Age, ghosts
<1>4. ASSUME NEW c \in Clients, send_message(c) \/ Handle(c) \/ ApiCrash(c)
      PROVE  UNCHANGED truth
  BY <1>4 DEF send_message, Handle, ApiCrash, Look, LookAgain, Policy, ClaimKey, Insert,
              EnqueueSend, StoreResult, apiRest, ghosts
<1>5. ASSUME NEW s, SchedulerStep(s) \/ SchedulerDies(s)
      PROVE  UNCHANGED truth
  BY <1>5 DEF SchedulerStep, SchedulerDies, BeginReconcile, EndReconcile, LockStep, Reconcile,
              Scan, NextStale, Fetch, WriteStale, RepairRecipient, recRest, messageVars, ghosts
<1> QED BY <1>1, <1>2, <1>3, <1>4, <1>5 DEF Next, MessageStep, vars, messageVars, ghosts

LEMMA OldComesFrom ==
  ASSUME [Next]_vars, NEW m \in old'
  PROVE  m \in old \/ Inserted(m)
<1>1. CASE UNCHANGED old
  BY <1>1
<1>2. ASSUME NEW n \in Messages, Advance(n) \/ Report(n) \/ Age(n)
      PROVE  m \in old \/ Inserted(m)
  BY <1>2 DEF Advance, Report, Age, docs, Inserted
<1>3. ASSUME NEW c \in Clients, send_message(c) \/ Handle(c) \/ ApiCrash(c)
      PROVE  UNCHANGED old
  BY <1>3 DEF send_message, Handle, ApiCrash, Look, LookAgain, Policy, ClaimKey, Insert,
              EnqueueSend, StoreResult, apiRest
<1>4. ASSUME NEW w \in Workers, JobStep(w) \/ SendFault(w) \/ WorkerCrash(w)
      PROVE  UNCHANGED old
  BY <1>4 DEF JobStep, SendFault, WorkerCrash, StartSend, ClaimSend, Gate, MarkSending,
              ProviderCall, StoreSent, Except, Schedule, workerRest
<1>5. ASSUME NEW s, SchedulerStep(s) \/ SchedulerDies(s)
      PROVE  UNCHANGED old
  BY <1>5 DEF SchedulerStep, SchedulerDies, BeginReconcile, EndReconcile, LockStep, Reconcile,
              Scan, NextStale, Fetch, WriteStale, RepairRecipient, recRest, messageVars, docs
<1> QED BY <1>1, <1>2, <1>3, <1>4, <1>5 DEF Next, MessageStep, vars, messageVars, docs

LEMMA HandComesFrom ==
  ASSUME MessageInv, [Next]_vars, NEW s \in Reconcilers
  PROVE  /\ \A m \in rec'[s].todo : m \in rec[s].todo \/ Inserted(m)
         /\ rec'[s].step \in InHandSteps =>
              \/ rec[s].step \in InHandSteps /\ rec'[s].m = rec[s].m
              \/ rec'[s].m \in rec[s].todo
<1> USE DEF InHandSteps
<1> DEFINE Goal == /\ \A m \in rec'[s].todo : m \in rec[s].todo \/ Inserted(m)
                   /\ rec'[s].step \in InHandSteps =>
                        \/ rec[s].step \in InHandSteps /\ rec'[s].m = rec[s].m
                        \/ rec'[s].m \in rec[s].todo
<1>0. rec \in RecType /\ scenario.running \subseteq Reconcilers
  BY DEF MessageInv, RecOK, ScenarioTypes
<1>1. CASE rec'[s] = rec[s]
  BY <1>1
<1>2. ASSUME NEW t \in scenario.running, SchedulerStep(t) \/ SchedulerDies(t)
      PROVE  Goal
  <2>1. t \in Reconcilers
    BY <1>0
  <2>2. CASE t # s
    <3>1. rec' = rec \/ \E x : rec' = [rec EXCEPT ![t] = x]
      BY <1>0, <1>2, <2>1 DEF SchedulerStep, SchedulerDies, BeginReconcile, EndReconcile, LockStep,
             Reconcile, Scan, NextStale, Fetch, WriteStale, RepairRecipient, messageVars, RecTo,
             RecType
    <3> QED BY <1>0, <1>1, <2>1, <2>2, <3>1 DEF RecType
  <2>3. CASE t = s /\ (EndReconcile(s) \/ LockStep(s))
    BY <1>1, <2>3 DEF EndReconcile, LockStep, messageVars
  <2>4. CASE t = s /\ (BeginReconcile(s) \/ SchedulerDies(s))
    BY <1>0, <2>4 DEF BeginReconcile, SchedulerDies, NoRec, RecType
  <2>5. CASE t = s /\ Scan(s)
    <3>1. rec'[s].todo = {m \in old : msg[m].status \in Unsent} /\ rec'[s].step = "next"
      BY <1>0, <2>5 DEF Scan, RecTo, RecType
    <3> QED BY <3>1 DEF Inserted, Unsent
  <2>6. CASE t = s /\ NextStale(s)
    BY <1>0, <2>6 DEF NextStale, RecTo, RecType, NoRec
  <2>7. CASE t = s /\ (Fetch(s) \/ WriteStale(s) \/ RepairRecipient(s))
    BY <1>0, <2>7 DEF Fetch, WriteStale, RepairRecipient, RecTo, RecType, InRec
  <2> QED BY <1>2, <2>2, <2>3, <2>4, <2>5, <2>6, <2>7 DEF SchedulerStep, Reconcile
<1>3. ASSUME NEW c \in Clients, send_message(c) \/ Handle(c) \/ ApiCrash(c)
      PROVE  UNCHANGED rec
  BY <1>3 DEF send_message, Handle, ApiCrash, Look, LookAgain, Policy, ClaimKey, Insert,
              EnqueueSend, StoreResult, apiRest
<1>4. ASSUME NEW w \in Workers, JobStep(w) \/ SendFault(w) \/ WorkerCrash(w)
      PROVE  UNCHANGED rec
  BY <1>4 DEF JobStep, SendFault, WorkerCrash, StartSend, ClaimSend, Gate, MarkSending,
              ProviderCall, StoreSent, Except, Schedule, workerRest
<1>5. ASSUME NEW m \in Messages, Advance(m) \/ Report(m) \/ Age(m)
      PROVE  UNCHANGED rec
  BY <1>5 DEF Advance, Report, Age
<1> QED BY <1>1, <1>2, <1>3, <1>4, <1>5 DEF Next, MessageStep, vars, messageVars

LEMMA InsertedStep == MessageInv /\ InsertedInv /\ [Next]_vars => InsertedInv'
<1> SUFFICES ASSUME MessageInv, InsertedInv, [Next]_vars PROVE InsertedInv'
  OBVIOUS
<1>0. WkOK /\ ApiOK /\ RecOK /\ old \subseteq Messages /\ MessageInv'
  BY MessageStepOK DEF MessageInv, KeysOK
<1>1. ASSUME NEW m \in Messages, ~Inserted(m)'
      PROVE  truth'[m] = "none" /\ m \notin old'
             /\ \A a \in 0..MaxRetries : ~(jobs'[m][a] > 0)
  <2>1. ~Inserted(m)
    BY <1>1, InsertedStays
  <2>2. /\ \A w \in Workers : wk[w].step # "idle" => wk[w].m # m
        /\ \A c \in Clients : api[c].step = "enqueue" => api[c].m # m
        /\ truth[m] = "none" /\ m \notin old
        /\ \A a \in 0..MaxRetries : ~(jobs[m][a] > 0)
    BY <2>1 DEF InsertedInv
  <2> QED BY <2>1, <2>2, TruthComesFrom, OldComesFrom, JobsComeFrom
<1>2. ASSUME NEW w \in Workers, wk'[w].step # "idle" PROVE Inserted(wk[w].m)'
  <2>1. wk'[w].m \in Messages /\ Inserted(wk'[w].m)
    BY <1>0, <1>2, WorkComesFrom DEF InsertedInv, WkOK
  <2> QED BY <2>1, InsertedStays DEF Inserted
<1>3. ASSUME NEW c \in Clients, api'[c].step = "enqueue" PROVE Inserted(api[c].m)'
  <2>1. CASE api[c].step = "enqueue" /\ api'[c].m = api[c].m
    <3>1. api[c].m \in Messages /\ Inserted(api[c].m)
      BY <1>0, <2>1 DEF InsertedInv, ApiOK
    <3> QED BY <2>1, <3>1, InsertedStays DEF Inserted
  <2> QED BY <1>3, <2>1, EnqueuedComesFrom DEF Inserted
<1>4. ASSUME NEW s \in Reconcilers
      PROVE  /\ \A m \in rec'[s].todo : Inserted(m)'
             /\ rec'[s].step \in InHandSteps => Inserted(rec[s].m)'
  <2>1. rec[s].todo \subseteq Messages /\ rec'[s].todo \subseteq Messages
    BY <1>0 DEF MessageInv, RecOK, RecType
  <2>2. rec[s].step \in InHandSteps => rec[s].m \in Messages
    BY <1>0 DEF RecOK, InHandSteps
  <2>3. \A m \in rec'[s].todo : Inserted(m)'
    BY <2>1, HandComesFrom, InsertedStays DEF InsertedInv
  <2>4. rec'[s].step \in InHandSteps => rec'[s].m \in Messages /\ Inserted(rec'[s].m)
    BY <2>1, <2>2, HandComesFrom DEF InsertedInv
  <2> QED BY <2>3, <2>4, InsertedStays DEF Inserted
<1> QED BY <1>1, <1>2, <1>3, <1>4 DEF InsertedInv

(* Only a request that inserts makes a message, and one at a time. *)
LEMMA MadeBy ==
  ASSUME MessageInv, InsertedInv, [Next]_vars, NEW m \in Messages, ~Inserted(m), Inserted(m)'
  PROVE  \E c \in Clients : /\ Inserting(c) /\ ~Inserting(c)'
                            /\ \A d \in Clients \ {c} : api'[d] = api[d]
                            /\ \A n \in Messages \ {m} : msg'[n] = msg[n]
                            /\ UNCHANGED reqkey
<1>0. msg \in MsgType /\ api \in ApiType
  BY DEF MessageInv, ApiOK, MsgOK
<1>1. PICK c \in Clients : Insert(c)
  <2>1. \A w \in Workers : ~(wk[w].step # "idle" /\ wk[w].m = m)
    BY DEF InsertedInv
  <2>2. \A s \in Reconcilers : ~(rec[s].step = "write" /\ rec[s].m = m)
    BY DEF InsertedInv, InHandSteps
  <2>3. ~Report(m)
    BY DEF InsertedInv, Report
  <2> QED BY <2>1, <2>2, <2>3, StatusBy DEF MovesBy, Inserted
<1>2. PICK n \in Messages : SetStatus(n, "queued")
                            /\ api' = [api EXCEPT ![c].step = "enqueue", ![c].m = n]
  BY <1>1 DEF Insert
<1>3. n = m
  BY <1>0, <1>2 DEF SetStatus, MsgType, Inserted
<1>4. Inserting(c) /\ ~Inserting(c)' /\ \A d \in Clients \ {c} : api'[d] = api[d]
  BY <1>0, <1>1, <1>2 DEF Insert, InApi, Inserting, ApiType
<1>5. \A k \in Messages \ {m} : msg'[k] = msg[k]
  BY <1>0, <1>2, <1>3 DEF SetStatus, MsgType
<1> QED BY <1>1, <1>4, <1>5 DEF Insert

LEMMA KeyStaysClaimed == ASSUME MessageInv, [Next]_vars, reqkey' = "free" PROVE reqkey = "free"
<1>1. ASSUME NEW c \in Clients, send_message(c) \/ Handle(c) \/ ApiCrash(c)
      PROVE  reqkey = "free"
  BY <1>1 DEF send_message, Handle, ApiCrash, Look, LookAgain, Policy, ClaimKey, Insert,
              EnqueueSend, StoreResult
<1> QED BY <1>1, OthersLeaveRequests

LEMMA KeyedStep == MessageInv /\ InsertedInv /\ KeyedInv /\ [Next]_vars => KeyedInv'
<1> SUFFICES ASSUME MessageInv, InsertedInv, KeyedInv, [Next]_vars, scenario.keyed
             PROVE  KeyedInv'
  BY ScenarioBy DEF KeyedInv
<1>1. scenario'.keyed = scenario.keyed /\ scenario'.campaign = scenario.campaign
  BY ScenarioBy
<1>2. /\ reqkey = "free" => /\ \A c \in Clients : ~Inserting(c)
                            /\ \A m \in Messages : ~Requested(m)
      /\ \A c, d \in Clients : Inserting(c) /\ Inserting(d) => c = d
      /\ \A c \in Clients, m \in Messages : ~(Inserting(c) /\ Requested(m))
      /\ \A m, n \in Messages : Requested(m) /\ Requested(n) => m = n
  BY DEF KeyedInv
<1>3. ASSUME NEW m \in Messages, Requested(m)', ~Requested(m)
      PROVE  /\ \A c \in Clients : ~Inserting(c)'
             /\ \A n \in Messages : Requested(n)' => n = m
             /\ reqkey' # "free"
  <2>1. ~Inserted(m) /\ Inserted(m)'
    BY <1>1, <1>3 DEF Requested, Inserted
  <2>2. PICK c \in Clients : /\ Inserting(c) /\ ~Inserting(c)'
                             /\ \A d \in Clients \ {c} : api'[d] = api[d]
                             /\ \A n \in Messages \ {m} : msg'[n] = msg[n]
                             /\ UNCHANGED reqkey
    BY <2>1, MadeBy
  <2>3. \A d \in Clients : ~Inserting(d)'
    BY <1>2, <2>2 DEF Inserting
  <2>4. \A n \in Messages : Requested(n)' => n = m
    BY <1>1, <1>2, <2>2 DEF Requested
  <2> QED BY <1>2, <2>2, <2>3, <2>4
<1>4. CASE \E m \in Messages : Requested(m)' /\ ~Requested(m)
  BY <1>3, <1>4 DEF KeyedInv
<1>5. CASE \A m \in Messages : Requested(m)' => Requested(m)
  <2>1. CASE \E c \in Clients : Inserting(c)' /\ ~Inserting(c)
    <3>1. PICK c \in Clients : Inserting(c)' /\ ~Inserting(c)
      BY <2>1
    <3>2. /\ reqkey = "free" /\ reqkey' = "claimed"
          /\ \A d \in Clients \ {c} : api'[d] = api[d]
      BY <3>1, InsertingBy
    <3>3. \A d \in Clients : Inserting(d)' => d = c
      BY <1>2, <3>2 DEF Inserting
    <3> QED BY <1>2, <1>5, <3>2, <3>3 DEF KeyedInv
  <2>2. CASE \A c \in Clients : Inserting(c)' => Inserting(c)
    <3>1. reqkey' = "free" => reqkey = "free"
      BY KeyStaysClaimed
    <3> QED BY <1>2, <1>5, <2>2, <3>1 DEF KeyedInv
  <2> QED BY <2>1, <2>2
<1> QED BY <1>4, <1>5

LEMMA KeyedIsOne == KeyedInv => OneMessagePerKey
<1> SUFFICES ASSUME KeyedInv, scenario.keyed
             PROVE  Cardinality({m \in Messages : Requested(m)}) <= 1
  BY DEF OneMessagePerKey
<1> DEFINE S == {m \in Messages : Requested(m)}
<1>1. CASE S = {}
  BY <1>1, FS_EmptySet
<1>2. ASSUME NEW m \in S PROVE Cardinality(S) <= 1
  <2>1. S = {m}
    BY <1>2 DEF KeyedInv
  <2> QED BY <2>1, FS_Singleton
<1> QED BY <1>1, <1>2

(* However the requests with one Idempotency-Key overlap, repeat and die   *)
(* half-way, they make one message (send_message, idempotency.py).         *)
THEOREM OneMessage == Spec => []OneMessagePerKey
<1> DEFINE Inv == MessageInv /\ InsertedInv /\ KeyedInv
<1>1. Init => Inv
  BY MessageInitType, InsertedInit, KeyedInit DEF Init
<1>2. Inv /\ [Next]_vars => Inv'
  BY MessageStepOK, InsertedStep, KeyedStep
<1>3. Inv => OneMessagePerKey
  BY KeyedIsOne
<1> QED BY <1>1, <1>2, <1>3, PTL DEF Spec

-----------------------------------------------------------------------------
(* What reached the customer *)

LEMMA DeliveredKept ==
  ASSUME MessageInv, [Next]_vars, NEW m \in Messages, ~Busy(m),
         msg[m].status \in {"delivered", "read"}
  PROVE  \/ msg'[m].status \in {"delivered", "read"}
         \/ msg'[m].status = truth[m] /\ is_failure_status(truth[m])
<1>0. msg \in MsgType /\ truth \in [Messages -> MsgStatuses]
  BY DEF MessageInv, MsgOK
<1>1. CASE msg'[m].status = msg[m].status
  BY <1>1
<1>2. ASSUME NEW c \in Clients, Insert(c) PROVE msg'[m].status = msg[m].status
  BY <1>0, <1>2 DEF Insert, SetStatus, MsgType
<1>3. CASE Report(m)
  <2>1. msg'[m].status = truth[m] /\ should_apply_status(msg[m].status, truth[m])
    BY <1>0, <1>3 DEF Report, SetStatus, MsgType
  <2>2. normalize_status(msg[m].status) = msg[m].status
    BY DEF normalize_status, CanonicalStatuses, SuccessPath
  <2>3. CASE is_failure_status(truth[m])
    BY <2>1, <2>3
  <2>4. CASE ~is_failure_status(truth[m])
    <3>1. truth[m] # msg[m].status /\ SuccessRank(truth[m]) > SuccessRank(msg[m].status)
      BY <2>1, <2>2, <2>4 DEF should_apply_status
    <3>2. truth[m] \in SuccessPath \cup {"none"}
      BY <1>0, <2>4 DEF MsgStatuses, CanonicalStatuses, is_failure_status
    <3>3. truth[m] \in {"delivered", "read"}
      BY <3>1, <3>2 DEF SuccessRank, SuccessPath
    <3> QED BY <2>1, <3>3
  <2> QED BY <2>3, <2>4
<1>4. ~\E w \in Workers : wk[w].step # "idle" /\ wk[w].m = m
  BY DEF Busy
<1>5. ~\E s \in Reconcilers : /\ rec[s].step = "write" /\ rec[s].m = m
                              /\ rec[s].s \in Confirmed \/ msg[m].status \in Unsent
  BY DEF Busy, Unsent
<1> QED BY <1>1, <1>2, <1>3, <1>4, <1>5, StatusBy DEF MovesBy

(* A message shown as delivered or read is not shown as less later, unless *)
(* the provider reports a failure: reconciliation and put-off retries do   *)
(* not take it back (should_apply_status, reconcile_stale_messages).       *)
THEOREM DeliveredIsKept == Spec => NotTakenBack
<1>1. Init => MessageInv
  BY MessageInitType DEF Init
<1>2. MessageInv /\ [Next]_vars => MessageInv'
  BY MessageStepOK
<1>3. MessageInv /\ [Next]_vars => DeliveredStays
  BY DeliveredKept DEF DeliveredStays
<1>4. MessageInv /\ [Next]_vars => [DeliveredStays]_vars
  BY <1>3
<1> QED BY <1>1, <1>2, <1>4, PTL DEF Spec, NotTakenBack

=============================================================================
