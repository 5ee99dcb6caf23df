------------------------ MODULE CampaignEngineProofs ------------------------
(***************************************************************************)
(* Machine-checked proofs about CampaignEngine, for every set of           *)
(* recipients, workers and clients, every provider and every bound.        *)
(***************************************************************************)
EXTENDS CampaignEngine, TLAPS

TypeInv == TypeOK /\ LocalsSet

(* Counting recipients by status always gives a campaign status. *)
LEMMA FinalizeType ==
  \A s, f : finalize_status_from_counts(s, f) \in CampaignStatuses
BY DEF finalize_status_from_counts, CampaignStatuses

(* A provider status becomes one of a recipient's own statuses. *)
LEMMA MapProviderType ==
  \A s \in ProviderStatuses : MapProviderStatus(s) \in RecipientStatuses \ {"gone"}
BY DEF ProviderStatuses, MapProviderStatus, RecipientStatuses, RECIPIENT_OPEN,
       RECIPIENT_TERMINAL

(* The initial state is well typed. *)
LEMMA InitTypeInv == Init => TypeInv
<1>. SUFFICES ASSUME Init PROVE TypeInv
  OBVIOUS
<1>. USE DEF Init
<1>1. cstat \in CampaignStatuses
  BY DEF CampaignStatuses
<1>2. rstat \in [Recipients -> RecipientStatuses]
  BY DEF RecipientStatuses, RECIPIENT_OPEN, RECIPIENT_TERMINAL
<1>3. /\ attempts \in [Recipients -> Int] /\ expired \in [Recipients -> Nat]
      /\ sends \in [Recipients -> Nat] /\ sendq \in [Recipients -> Nat]
      /\ sid \in [Recipients -> BOOLEAN] /\ claims \in [Recipients -> BOOLEAN]
  OBVIOUS
<1>4. ctlq \in [JobKinds -> Nat] /\ api \in [Clients -> ApiSteps]
  BY DEF ApiSteps
<1>5. Idle \in WorkerStates
  BY DEF Idle, WorkerStates, WorkerSteps
<1>6. wk \in [Workers -> WorkerStates]
  BY <1>5
<1>7. LocalsSet
  BY DEF LocalsSet, Idle, RecipientSteps
<1>8. /\ stopped \in BOOLEAN
      /\ scenario \in ScenarioTypes
  BY ScenariosAssumption
<1>. QED  BY <1>1, <1>2, <1>3, <1>4, <1>6, <1>7, <1>8 DEF TypeInv, TypeOK

(* What a step may do to one worker: idle, move on with the same locals,   *)
(* or any well-formed record of locals.                                    *)
LEMMA WorkerUpdate ==
  ASSUME TypeInv, NEW w \in Workers, NEW rec \in WorkerStates,
         wk' = [wk EXCEPT ![w] = rec],
         rec.step \in RecipientSteps => rec.r \in Recipients,
         rec.step = "complete_write" => rec.seen \in CampaignStatuses
  PROVE  wk' \in [Workers -> WorkerStates] /\ LocalsSet'
BY DEF TypeInv, TypeOK, LocalsSet

LEMMA GotoUpdate ==
  ASSUME TypeInv, NEW w \in Workers, NEW s \in WorkerSteps,
         Goto(w, s), s # "complete_write",
         s \in RecipientSteps => wk[w].r \in Recipients
  PROVE  wk' \in [Workers -> WorkerStates] /\ LocalsSet'
<1>1. wk' = [wk EXCEPT ![w] = [wk[w] EXCEPT !.step = s]]
  BY DEF Goto
<1>2. [wk[w] EXCEPT !.step = s] \in WorkerStates
  BY DEF TypeInv, TypeOK, WorkerStates
<1>3. /\ [wk[w] EXCEPT !.step = s].step = s
      /\ [wk[w] EXCEPT !.step = s].r = wk[w].r
  BY DEF TypeInv, TypeOK, WorkerStates
<1>. QED  BY <1>1, <1>2, <1>3, WorkerUpdate

LEMMA ReturnUpdate ==
  ASSUME TypeInv, NEW w \in Workers, Return(w) \/ Leave(w)
  PROVE  wk' \in [Workers -> WorkerStates] /\ LocalsSet'
BY WorkerUpdate DEF Return, Leave, Idle, WorkerStates, WorkerSteps, RecipientSteps

LEMMA RaiseUpdate ==
  ASSUME TypeInv, NEW w \in Workers, NEW cat \in Categories,
         Raise(w, cat), wk[w].r \in Recipients
  PROVE  wk' \in [Workers -> WorkerStates] /\ LocalsSet'
<1>. DEFINE rec == [wk[w] EXCEPT !.step = "except_read", !.cat = cat]
<1>1. wk' = [wk EXCEPT ![w] = rec]
  BY DEF Raise
<1>2. rec \in WorkerStates /\ rec.step = "except_read" /\ rec.r = wk[w].r
  BY DEF TypeInv, TypeOK, WorkerStates, WorkerSteps
<1>. QED  BY <1>1, <1>2, WorkerUpdate

LEMMA WorkersUnchanged ==
  ASSUME TypeInv, UNCHANGED wk
  PROVE  wk' \in [Workers -> WorkerStates] /\ LocalsSet'
BY DEF TypeInv, TypeOK, LocalsSet

(* The unconditional writes keep their types. *)
LEMMA SetCampaignType ==
  ASSUME TypeInv, NEW s \in CampaignStatuses, SetCampaign(s)
  PROVE  cstat' \in CampaignStatuses
BY DEF TypeInv, TypeOK, SetCampaign

LEMMA SetRecipientType ==
  ASSUME TypeInv, NEW r \in Recipients, NEW s \in RecipientStatuses,
         SetRecipient(r, s)
  PROVE  rstat' \in [Recipients -> RecipientStatuses]
BY DEF TypeInv, TypeOK, SetRecipient

LEMMA MoveAllType ==
  ASSUME TypeInv, NEW S, NEW s \in RecipientStatuses, MoveAll(S, s)
  PROVE  rstat' \in [Recipients -> RecipientStatuses]
BY DEF TypeInv, TypeOK, MoveAll

LEMMA QueueType ==
  ASSUME TypeInv, NEW k \in JobKinds, Enqueue(k) \/ Dequeue(k)
  PROVE  ctlq' \in [JobKinds -> Nat]
BY DEF TypeInv, TypeOK, Enqueue, Dequeue

(* The statuses the code writes are statuses. *)
LEMMA StatusTypes ==
  /\ \A s \in {"queued", "running", "paused", "cancelled", "draft", "scheduled", "gone"} :
       s \in CampaignStatuses
  /\ \A s \in {"queued", "processing", "sent", "retrying", "skipped", "failed",
               "cancelled", "replied", "gone"} : s \in RecipientStatuses
BY DEF CampaignStatuses, RecipientStatuses, RECIPIENT_OPEN, RECIPIENT_TERMINAL

(* Taking a job from a queue. *)
LEMMA TypeTakeJob ==
  ASSUME TypeInv, NEW w \in Workers, TakeJob(w)
  PROVE  TypeInv'
<1>. USE DEF TypeInv, TypeOK, dbVars, history, AtStep
<1>1. CASE StartRead(w)
  BY <1>1, GotoUpdate, WorkersUnchanged, QueueType
  DEF StartRead, JobKinds, WorkerSteps, RecipientSteps
<1>2. CASE BatchJob(w)
  BY <1>2, GotoUpdate, QueueType
  DEF BatchJob, JobKinds, WorkerSteps, RecipientSteps
<1>3. CASE FinalizeJob(w)
  BY <1>3, GotoUpdate, QueueType
  DEF FinalizeJob, JobKinds, WorkerSteps, RecipientSteps
<1>4. CASE DueWin(w)
  BY <1>4, GotoUpdate, StatusTypes
  DEF DueWin, redisVars, WorkerSteps, RecipientSteps
<1>5. ASSUME NEW r \in Recipients, SendStart(w, r) PROVE TypeInv'
  <2>. DEFINE rec == [wk[w] EXCEPT !.r = r,
                        !.step = IF cstat \in TERMINAL_STATUSES
                                 THEN "cancel_recipient" ELSE "win"]
  <2>1. rec \in WorkerStates /\ rec.r = r /\ rec.step \in {"cancel_recipient", "win"}
    BY DEF WorkerStates, WorkerSteps
  <2>2. UNCHANGED wk \/ wk' = [wk EXCEPT ![w] = rec]
    BY <1>5 DEF SendStart
  <2>. HIDE DEF rec
  <2>3. rec.step \in RecipientSteps /\ rec.step # "complete_write"
    BY <2>1 DEF RecipientSteps
  <2>4. CASE UNCHANGED wk
    BY <1>5, <2>4, WorkersUnchanged DEF SendStart
  <2>5. CASE wk' = [wk EXCEPT ![w] = rec]
    <3>1. wk' \in [Workers -> WorkerStates] /\ LocalsSet'
      BY <2>1, <2>3, <2>5, WorkerUpdate
    <3>. QED  BY <1>5, <3>1 DEF SendStart
  <2>. QED  BY <2>2, <2>4, <2>5
<1>. QED  BY <1>1, <1>2, <1>3, <1>4, <1>5 DEF TakeJob

(* Starting, batching and completing. *)
LEMMA TypeControlJob ==
  ASSUME TypeInv, NEW w \in Workers,
         \/ StartWrite(w) \/ StartQueue(w) \/ DueEnqueue(w)
         \/ BatchPick(w) \/ BatchEnqueue(w)
         \/ CompleteCheck(w) \/ CompleteRefresh(w) \/ CompleteWrite(w)
  PROVE  TypeInv'
<1>. USE DEF TypeInv, TypeOK, dbVars, history, AtStep
<1>1. CASE StartWrite(w)
  BY <1>1, GotoUpdate, SetCampaignType, StatusTypes
  DEF StartWrite, redisVars, WorkerSteps, RecipientSteps
<1>2. CASE StartQueue(w)
  BY <1>2, GotoUpdate, MoveAllType, StatusTypes
  DEF StartQueue, redisVars, WorkerSteps, RecipientSteps
<1>3. CASE DueEnqueue(w)
  BY <1>3, ReturnUpdate, QueueType
  DEF DueEnqueue, JobKinds
<1>4. CASE BatchPick(w)
  <2>1. CASE Return(w)
    BY <1>4, <2>1, ReturnUpdate DEF BatchPick, redisVars
  <2>2. ASSUME NEW due \in SUBSET InStatus(rstat, {"retrying"}), NEW ids \in Picks(due),
               wk' = [wk EXCEPT ![w].ids = ids,
                                ![w].step = IF ids = {} THEN "complete_check"
                                            ELSE "enqueue"]
        PROVE  TypeInv'
    <3>. DEFINE rec == [wk[w] EXCEPT !.ids = ids,
                          !.step = IF ids = {} THEN "complete_check" ELSE "enqueue"]
    <3>1. ids \subseteq Recipients
      BY DEF Picks, InStatus
    <3>2. rec \in WorkerStates /\ rec.step \in {"complete_check", "enqueue"}
      BY <3>1 DEF WorkerStates, WorkerSteps
    <3>3. wk' = [wk EXCEPT ![w] = rec]
      BY <2>2
    <3>. QED  BY <1>4, <3>2, <3>3, WorkerUpdate DEF BatchPick, RecipientSteps, redisVars
  <2>. QED  BY <1>4, <2>1, <2>2 DEF BatchPick
<1>5. CASE BatchEnqueue(w)
  BY <1>5, ReturnUpdate, QueueType
  DEF BatchEnqueue, JobKinds
<1>6. CASE CompleteCheck(w)
  BY <1>6, GotoUpdate, ReturnUpdate
  DEF CompleteCheck, redisVars, WorkerSteps, RecipientSteps
<1>7. CASE CompleteRefresh(w)
  <2>. DEFINE final == finalize_status_from_counts(cstat, rstat)
              rec == [wk[w] EXCEPT !.step = "complete_write", !.seen = final]
  <2>1. final \in CampaignStatuses
    BY FinalizeType
  <2>2. rec \in WorkerStates /\ rec.step = "complete_write" /\ rec.seen = final
    BY <2>1 DEF WorkerStates, WorkerSteps
  <2>3. wk' = [wk EXCEPT ![w] = rec]
    BY <1>7 DEF CompleteRefresh
  <2>. HIDE DEF rec
  <2>4. wk' \in [Workers -> WorkerStates] /\ LocalsSet'
    BY <2>1, <2>2, <2>3, WorkerUpdate DEF RecipientSteps
  <2>. QED  BY <1>7, <2>4 DEF CompleteRefresh, redisVars
<1>8. CASE CompleteWrite(w)
  BY <1>8, ReturnUpdate, SetCampaignType
  DEF CompleteWrite, LocalsSet, redisVars
<1>. QED  BY <1>1, <1>2, <1>3, <1>4, <1>5, <1>6, <1>7, <1>8

(* Sending to one recipient, up to the except handler. *)
LEMMA TypeSendJob ==
  ASSUME TypeInv, NEW w \in Workers,
         \/ CancelRecipient(w) \/ Win(w) \/ MetaSent(w) \/ Claim(w)
         \/ Gate(w) \/ Permit(w) \/ ProviderCall(w) \/ Mark(w)
  PROVE  TypeInv'
<1>. USE DEF TypeInv, TypeOK, dbVars, history, AtStep
<1>. wk[w].step \in RecipientSteps /\ wk[w].r \in Recipients
  BY DEF LocalsSet, RecipientSteps, CancelRecipient, Win, MetaSent, Claim, Gate,
         Permit, ProviderCall, Mark
<1>1. CASE CancelRecipient(w)
  BY <1>1, ReturnUpdate, SetRecipientType, StatusTypes
  DEF CancelRecipient, redisVars
<1>2. CASE Win(w)
  <2>. DEFINE r == wk[w].r
              n == attempts[r] + 1
              s == IF scenario.provider = "meta" /\ sid[r] THEN "meta_sent" ELSE "claim"
              rec == [wk[w] EXCEPT !.att = n, !.step = s]
  <2>1. rec \in WorkerStates /\ rec.r = r /\ rec.step \in {"meta_sent", "claim"}
    <3>1. n \in Int /\ s \in {"meta_sent", "claim"}
      OBVIOUS
    <3>. HIDE DEF n, s
    <3>. QED  BY <3>1 DEF WorkerStates, WorkerSteps
  <2>2. \/ Return(w) /\ UNCHANGED <<rstat, attempts>>
        \/ /\ wk' = [wk EXCEPT ![w] = rec]
           /\ rstat' = [rstat EXCEPT ![r] = "processing"]
           /\ attempts' = [attempts EXCEPT ![r] = @ + 1]
    BY <1>2 DEF Win
  <2>. HIDE DEF rec
  <2>3. rec.step # "complete_write"
    BY <2>1
  <2>4. wk' \in [Workers -> WorkerStates] /\ LocalsSet'
    BY <2>1, <2>2, <2>3, WorkerUpdate, ReturnUpdate
  <2>. QED  BY <1>2, <2>2, <2>4, StatusTypes DEF Win, redisVars
<1>3. CASE MetaSent(w)
  BY <1>3, ReturnUpdate, SetRecipientType, StatusTypes
  DEF MetaSent, redisVars
<1>4. CASE Claim(w)
  BY <1>4, GotoUpdate, ReturnUpdate
  DEF Claim, WorkerSteps, RecipientSteps
<1>5. CASE Gate(w)
  <2>1. "policy" \in Categories
    BY DEF Categories
  <2>2. rstat' \in [Recipients -> RecipientStatuses]
    BY <1>5, SetRecipientType, StatusTypes DEF Gate
  <2>3. Goto(w, "permit") \/ Goto(w, "complete_check") \/ Raise(w, "policy") \/ Return(w)
    BY <1>5 DEF Gate
  <2>4. wk' \in [Workers -> WorkerStates] /\ LocalsSet'
    <3>1. CASE Goto(w, "permit")
      BY <3>1, GotoUpdate DEF WorkerSteps, RecipientSteps
    <3>2. CASE Goto(w, "complete_check")
      BY <3>2, GotoUpdate DEF WorkerSteps, RecipientSteps
    <3>3. CASE Raise(w, "policy") \/ Return(w)
      BY <2>1, <3>3, RaiseUpdate, ReturnUpdate
    <3>. QED  BY <2>3, <3>1, <3>2, <3>3
  <2>. QED  BY <1>5, <2>2, <2>4 DEF Gate, redisVars
<1>6. CASE Permit(w)
  <2>1. rstat' \in [Recipients -> RecipientStatuses]
    BY <1>6, SetRecipientType, StatusTypes DEF Permit
  <2>2. wk' \in [Workers -> WorkerStates] /\ LocalsSet'
    BY <1>6, GotoUpdate, ReturnUpdate DEF Permit, WorkerSteps, RecipientSteps
  <2>. QED  BY <1>6, <2>1, <2>2 DEF Permit
<1>7. CASE ProviderCall(w)
  <2>1. wk' \in [Workers -> WorkerStates] /\ LocalsSet'
    BY <1>7, GotoUpdate, RaiseUpdate DEF ProviderCall, WorkerSteps, RecipientSteps
  <2>. QED  BY <1>7, <2>1 DEF ProviderCall, redisVars
<1>8. CASE Mark(w)
  <2>1. wk' \in [Workers -> WorkerStates] /\ LocalsSet'
    BY <1>8, GotoUpdate DEF Mark, WorkerSteps, RecipientSteps
  <2>2. rstat' \in [Recipients -> RecipientStatuses] /\ sid' \in [Recipients -> BOOLEAN]
    BY <1>8, StatusTypes DEF Mark
  <2>. QED  BY <1>8, <2>1, <2>2 DEF Mark, redisVars
<1>. QED  BY <1>1, <1>2, <1>3, <1>4, <1>5, <1>6, <1>7, <1>8

(* The except handler. *)
LEMMA TypeExcept ==
  ASSUME TypeInv, NEW w \in Workers,
         \/ ExceptRead(w) \/ ExceptBlocked(w) \/ ExceptCancelled(w)
         \/ ExceptRetry(w) \/ ExceptFinal(w) \/ AccountPause(w)
  PROVE  TypeInv'
<1>. USE DEF TypeInv, TypeOK, dbVars, history, AtStep
<1>. wk[w].r \in Recipients
  BY DEF LocalsSet, RecipientSteps, ExceptRead, ExceptBlocked, ExceptCancelled,
         ExceptRetry, ExceptFinal, AccountPause
<1>1. CASE ExceptRead(w)
  <2>. DEFINE rec == [wk[w] EXCEPT !.step = "except_write", !.seen = cstat]
  <2>1. rec \in WorkerStates /\ rec.step = "except_write" /\ rec.r = wk[w].r
    BY DEF WorkerStates, WorkerSteps
  <2>2. wk' = [wk EXCEPT ![w] = rec]
    BY <1>1 DEF ExceptRead
  <2>. HIDE DEF rec
  <2>3. wk' \in [Workers -> WorkerStates] /\ LocalsSet'
    BY <2>1, <2>2, WorkerUpdate
  <2>. QED  BY <1>1, <2>3 DEF ExceptRead, redisVars
<1>2. CASE ExceptBlocked(w)
  BY <1>2, GotoUpdate, SetRecipientType, StatusTypes
  DEF ExceptBlocked, redisVars, WorkerSteps, RecipientSteps
<1>3. CASE ExceptCancelled(w)
  BY <1>3, ReturnUpdate, SetRecipientType, StatusTypes
  DEF ExceptCancelled, redisVars
<1>4. CASE ExceptRetry(w)
  BY <1>4, ReturnUpdate, SetRecipientType, StatusTypes
  DEF ExceptRetry
<1>5. CASE ExceptFinal(w)
  BY <1>5, ReturnUpdate, SetRecipientType, StatusTypes
  DEF ExceptFinal, FinalStatuses, redisVars
<1>6. CASE AccountPause(w)
  BY <1>6, ReturnUpdate, SetCampaignType, StatusTypes
  DEF AccountPause, redisVars
<1>. QED  BY <1>1, <1>2, <1>3, <1>4, <1>5, <1>6

(* A handler's check only moves the handler to its first write. *)
LEMMA TypeApiRequest ==
  ASSUME TypeInv, NEW c \in Clients, ApiRequest(c)
  PROVE  TypeInv'
<1>1. PICK op \in AllApiOps, step \in ApiSteps : Request(c, op, step)
  BY DEF ApiRequest, start_campaign, pause_campaign, resume_campaign, cancel_campaign,
         retry_failed, update_campaign, delete_campaign, AllApiOps, ApiSteps
<1>2. wk' \in [Workers -> WorkerStates] /\ LocalsSet'
  BY <1>1, WorkersUnchanged DEF Request
<1>. QED
  BY <1>1, <1>2
  DEF Request, TypeInv, TypeOK, ScenarioTypes, dbVars, redisVars, history

(* A handler's writes. *)
LEMMA TypeApiFinish ==
  ASSUME TypeInv, NEW c \in Clients, ApiFinish(c)
  PROVE  TypeInv'
<1>. USE DEF TypeInv, TypeOK, dbVars, history
<1>1. wk' \in [Workers -> WorkerStates] /\ LocalsSet'
  BY WorkersUnchanged
  DEF ApiFinish, StartCommit, PauseCommit, ResumeCommit, ResumeRequeue, CancelCommit,
      CancelOpenRecipients, CancelRecount, RetryRequeue, RetryCommit, EditCommit, DeleteCommit
<1>2. \A from, to : ApiGoto(c, from, to) /\ to \in ApiSteps => api' \in [Clients -> ApiSteps]
  BY DEF ApiGoto
<1>3. CASE StartCommit(c)
  BY <1>1, <1>2, <1>3, SetCampaignType, StatusTypes, QueueType DEF StartCommit, ApiSteps, JobKinds
<1>4. CASE PauseCommit(c)
  BY <1>1, <1>2, <1>4, SetCampaignType, StatusTypes DEF PauseCommit, ApiSteps, redisVars
<1>5. CASE ResumeCommit(c)
  BY <1>1, <1>2, <1>5, SetCampaignType, StatusTypes DEF ResumeCommit, ApiSteps, redisVars
<1>6. CASE ResumeRequeue(c)
  BY <1>1, <1>2, <1>6, MoveAllType, StatusTypes, QueueType DEF ResumeRequeue, ApiSteps, JobKinds
<1>7. CASE CancelCommit(c)
  BY <1>1, <1>2, <1>7, SetCampaignType, StatusTypes DEF CancelCommit, ApiSteps, redisVars
<1>8. CASE CancelOpenRecipients(c)
  BY <1>1, <1>2, <1>8, MoveAllType, StatusTypes DEF CancelOpenRecipients, ApiSteps, redisVars
<1>9. CASE CancelRecount(c)
  BY <1>1, <1>2, <1>9, SetCampaignType, StatusTypes DEF CancelRecount, ApiSteps, redisVars
<1>10. CASE RetryRequeue(c)
  BY <1>1, <1>2, <1>10, MoveAllType, StatusTypes DEF RetryRequeue, ApiSteps, redisVars
<1>11. CASE RetryCommit(c)
  BY <1>1, <1>2, <1>11, SetCampaignType, StatusTypes, QueueType DEF RetryCommit, ApiSteps, JobKinds
<1>12. CASE EditCommit(c)
  BY <1>1, <1>2, <1>12, SetCampaignType, StatusTypes DEF EditCommit, ApiSteps, redisVars
<1>13. CASE DeleteCommit(c)
  BY <1>1, <1>2, <1>13, StatusTypes DEF DeleteCommit, ApiSteps, redisVars
<1>. QED  BY <1>3, <1>4, <1>5, <1>6, <1>7, <1>8, <1>9, <1>10, <1>11, <1>12, <1>13 DEF ApiFinish

(* Crashes, faults, expiries and callbacks. *)
LEMMA TypeEnvironment ==
  ASSUME TypeInv, Environment
  PROVE  TypeInv'
<1>. USE DEF TypeInv, TypeOK, history
<1>1. ASSUME NEW w \in Workers, Crash(w) PROVE TypeInv'
  BY <1>1, ReturnUpdate DEF Crash, ScenarioTypes, dbVars, redisVars
<1>2. ASSUME NEW w \in Workers, Fault(w) PROVE TypeInv'
  <2>1. "retryable" \in Categories /\ wk[w].r \in Recipients
    BY <1>2 DEF Categories, Fault, WorkerStates
  <2>2. wk' \in [Workers -> WorkerStates] /\ LocalsSet'
    BY <1>2, <2>1, RaiseUpdate DEF Fault
  <2>. QED  BY <1>2, <2>2 DEF Fault, ScenarioTypes, dbVars, redisVars
<1>3. ASSUME NEW r \in Recipients, Expire(r) PROVE TypeInv'
  BY <1>3, WorkersUnchanged DEF Expire, ScenarioTypes, dbVars
<1>4. ASSUME NEW r \in Recipients, Reply(r) PROVE TypeInv'
  BY <1>4, WorkersUnchanged, StatusTypes DEF Reply, redisVars
<1>5. ASSUME NEW r \in Recipients, NEW s \in ProviderStatuses, DeliveryEvent(r, s)
      PROVE  TypeInv'
  BY <1>5, WorkersUnchanged, MapProviderType DEF DeliveryEvent, redisVars
<1>. QED  BY <1>1, <1>2, <1>3, <1>4, <1>5 DEF Environment

LEMMA TypeNext == TypeInv /\ [Next]_vars => TypeInv'
<1>. SUFFICES ASSUME TypeInv, [Next]_vars PROVE TypeInv'
  OBVIOUS
<1>1. ASSUME NEW w \in Workers, RunJob(w) PROVE TypeInv'
  BY <1>1, TypeControlJob, TypeSendJob, TypeExcept DEF RunJob
<1>2. CASE UNCHANGED vars
  BY <1>2 DEF vars, dbVars, redisVars, history, TypeInv, TypeOK, LocalsSet
<1>. QED
  BY <1>1, <1>2, TypeTakeJob, TypeApiRequest, TypeApiFinish, TypeEnvironment DEF Next

(* Every reachable state is well typed: every status is one the code       *)
(* knows, and a job past its first read has a recipient to work on.        *)
THEOREM TypeCorrect == Spec => []TypeOK
<1>1. Spec => []TypeInv
  BY InitTypeInv, TypeNext, PTL DEF Spec
<1>2. TypeInv => TypeOK
  BY DEF TypeInv
<1>. QED  BY <1>1, <1>2, PTL

-----------------------------------------------------------------------------
(* At most one accepted message per life of the idempotency key.           *)

(* A step of worker w that leaves the others alone, and after which w may  *)
(* send only if it could before, to the same recipient.                    *)
QuietStep(w) ==
  /\ \A v \in Workers \ {w} : wk'[v] = wk[v]
  /\ wk'[w].step \in {"gate", "permit", "provider"} =>
       PreSend(w) /\ wk'[w].r = wk[w].r

LEMMA QuietKeepsClaim ==
  ASSUME TypeInv, ClaimInv, NEW w \in Workers, QuietStep(w),
         UNCHANGED <<claims, sends, expired>>
  PROVE  ClaimInv'
BY DEF ClaimInv, QuietStep, PreSend

LEMMA QuietGoto ==
  ASSUME TypeInv, NEW w \in Workers, NEW s \in WorkerSteps, Goto(w, s),
         s \in {"gate", "permit", "provider"} => PreSend(w)
  PROVE  QuietStep(w)
BY DEF TypeInv, TypeOK, WorkerStates, Goto, QuietStep

LEMMA QuietReturn ==
  ASSUME TypeInv, NEW w \in Workers, Return(w) \/ Leave(w)
  PROVE  QuietStep(w)
BY DEF TypeInv, TypeOK, WorkerStates, Return, Leave, Idle, QuietStep

LEMMA QuietRaise ==
  ASSUME TypeInv, NEW w \in Workers, NEW cat, Raise(w, cat)
  PROVE  QuietStep(w)
BY DEF TypeInv, TypeOK, WorkerStates, Raise, QuietStep

LEMMA QuietSame ==
  ASSUME NEW w \in Workers, UNCHANGED wk
  PROVE  QuietStep(w)
BY DEF QuietStep, PreSend

(* Every step of a job is quiet, except the claim that succeeds and the    *)
(* call the provider accepts.                                              *)
LEMMA QuietTakeJob ==
  ASSUME TypeInv, NEW w \in Workers, TakeJob(w)
  PROVE  QuietStep(w) /\ UNCHANGED <<claims, sends, expired>>
<1>. USE DEF history
<1>1. CASE StartRead(w) \/ BatchJob(w) \/ FinalizeJob(w)
  BY <1>1, QuietGoto, QuietSame DEF StartRead, BatchJob, FinalizeJob, WorkerSteps
<1>2. CASE DueWin(w)
  BY <1>2, QuietGoto DEF DueWin, WorkerSteps, redisVars
<1>3. ASSUME NEW r \in Recipients, SendStart(w, r)
      PROVE  QuietStep(w) /\ UNCHANGED <<claims, sends, expired>>
  BY <1>3, QuietSame
  DEF SendStart, QuietStep, TypeInv, TypeOK, WorkerStates
<1>. QED  BY <1>1, <1>2, <1>3 DEF TakeJob

LEMMA QuietControlJob ==
  ASSUME TypeInv, NEW w \in Workers,
         \/ StartWrite(w) \/ StartQueue(w) \/ DueEnqueue(w)
         \/ BatchPick(w) \/ BatchEnqueue(w)
         \/ CompleteCheck(w) \/ CompleteRefresh(w) \/ CompleteWrite(w)
  PROVE  QuietStep(w) /\ UNCHANGED <<claims, sends, expired>>
<1>. USE DEF history, redisVars
<1>1. CASE StartWrite(w) \/ StartQueue(w) \/ CompleteCheck(w)
  BY <1>1, QuietGoto, QuietReturn DEF StartWrite, StartQueue, CompleteCheck, WorkerSteps
<1>2. CASE DueEnqueue(w) \/ BatchEnqueue(w) \/ CompleteWrite(w)
  BY <1>2, QuietReturn DEF DueEnqueue, BatchEnqueue, CompleteWrite
<1>3. CASE BatchPick(w)
  <2>1. CASE Return(w)
    BY <1>3, <2>1, QuietReturn DEF BatchPick
  <2>2. ASSUME NEW ids,
               wk' = [wk EXCEPT ![w].ids = ids,
                                ![w].step = IF ids = {} THEN "complete_check"
                                            ELSE "enqueue"]
        PROVE  QuietStep(w)
    BY <2>2 DEF QuietStep, TypeInv, TypeOK, WorkerStates
  <2>. QED  BY <1>3, <2>1, <2>2 DEF BatchPick
<1>4. CASE CompleteRefresh(w)
  <2>. DEFINE final == finalize_status_from_counts(cstat, rstat)
  <2>1. wk' = [wk EXCEPT ![w].step = "complete_write", ![w].seen = final]
    BY <1>4 DEF CompleteRefresh
  <2>. HIDE DEF final
  <2>2. QuietStep(w)
    BY <2>1 DEF QuietStep, TypeInv, TypeOK, WorkerStates
  <2>. QED  BY <1>4, <2>2 DEF CompleteRefresh
<1>. QED  BY <1>1, <1>2, <1>3, <1>4

LEMMA QuietSendJob ==
  ASSUME TypeInv, NEW w \in Workers,
         \/ CancelRecipient(w) \/ Win(w) \/ MetaSent(w)
         \/ Gate(w) \/ Permit(w) \/ Mark(w)
  PROVE  QuietStep(w) /\ UNCHANGED <<claims, sends, expired>>
<1>. USE DEF history, redisVars
<1>1. CASE CancelRecipient(w) \/ MetaSent(w)
  BY <1>1, QuietReturn DEF CancelRecipient, MetaSent
<1>2. CASE Win(w)
  BY <1>2, QuietReturn DEF Win, QuietStep, TypeInv, TypeOK, WorkerStates
<1>3. CASE Gate(w)
  <2>1. Goto(w, "permit") \/ Goto(w, "complete_check") \/ Raise(w, "policy") \/ Return(w)
    BY <1>3 DEF Gate
  <2>2. PreSend(w)
    BY <1>3 DEF Gate, AtStep, PreSend
  <2>3. QuietStep(w)
    BY <2>1, <2>2, QuietGoto, QuietRaise, QuietReturn DEF WorkerSteps
  <2>. QED  BY <1>3, <2>3 DEF Gate
<1>4. CASE Permit(w)
  BY <1>4, QuietGoto, QuietReturn DEF Permit, AtStep, PreSend, WorkerSteps
<1>5. CASE Mark(w)
  BY <1>5, QuietGoto DEF Mark, WorkerSteps
<1>. QED  BY <1>1, <1>2, <1>3, <1>4, <1>5

LEMMA QuietExcept ==
  ASSUME TypeInv, NEW w \in Workers,
         \/ ExceptRead(w) \/ ExceptBlocked(w) \/ ExceptCancelled(w)
         \/ ExceptRetry(w) \/ ExceptFinal(w) \/ AccountPause(w)
  PROVE  QuietStep(w) /\ UNCHANGED <<claims, sends, expired>>
<1>. USE DEF history, redisVars
<1>1. CASE ExceptRead(w)
  BY <1>1 DEF ExceptRead, QuietStep, TypeInv, TypeOK, WorkerStates
<1>2. CASE ExceptBlocked(w)
  BY <1>2, QuietGoto DEF ExceptBlocked, WorkerSteps
<1>3. CASE ExceptCancelled(w) \/ ExceptRetry(w) \/ ExceptFinal(w) \/ AccountPause(w)
  BY <1>3, QuietReturn DEF ExceptCancelled, ExceptRetry, ExceptFinal, AccountPause
<1>. QED  BY <1>1, <1>2, <1>3

(* SET NX: only the job that creates the key goes on.  Nobody else holds   *)
(* it, because whoever may still send owns an existing key.                *)
LEMMA ClaimStep ==
  ASSUME TypeInv, ClaimInv, NEW w \in Workers, Claim(w)
  PROVE  ClaimInv'
<1>. DEFINE r == wk[w].r
<1>1. r \in Recipients
  BY DEF Claim, AtStep, TypeInv, LocalsSet, RecipientSteps
<1>2. CASE claims[r]
  <2>1. QuietStep(w)
    BY <1>2, QuietReturn DEF Claim
  <2>2. UNCHANGED <<claims, sends, expired>>
    BY <1>1, <1>2 DEF Claim, TypeInv, TypeOK, history
  <2>. QED  BY <2>1, <2>2, QuietKeepsClaim
<1>3. CASE ~claims[r]
  <2>1. /\ wk' = [wk EXCEPT ![w].step = "gate"]
        /\ claims' = [claims EXCEPT ![r] = TRUE]
        /\ UNCHANGED <<sends, expired>>
    BY <1>3 DEF Claim, Goto, history
  <2>2. /\ wk'[w].step = "gate" /\ wk'[w].r = r
        /\ \A v \in Workers \ {w} : wk'[v] = wk[v]
    <3>1. wk \in [Workers -> WorkerStates] /\ wk[w] \in WorkerStates
      BY DEF TypeInv, TypeOK
    <3>2. wk' = [wk EXCEPT ![w] = [wk[w] EXCEPT !.step = "gate"]]
      BY <2>1
    <3>3. wk'[w] = [wk[w] EXCEPT !.step = "gate"]
      BY <3>1, <3>2
    <3>. QED  BY <3>1, <3>2, <3>3 DEF WorkerStates
  <2>3. /\ claims'[r] /\ sends[r] <= expired[r]
        /\ \A q \in Recipients \ {r} : claims'[q] = claims[q]
    <3>1. claims'[r] /\ \A q \in Recipients \ {r} : claims'[q] = claims[q]
      BY <1>1, <2>1 DEF TypeInv, TypeOK
    <3>2. sends[r] <= expired[r]
      BY <1>1, <1>3 DEF TypeInv, TypeOK, ClaimInv
    <3>. QED  BY <3>1, <3>2
  <2>4. \A v \in Workers : PreSend(v) => wk[v].r # r
    BY <1>3 DEF ClaimInv
  <2>5. \A v \in Workers : PreSend(v) => wk[v].r \in Recipients
    BY DEF PreSend, TypeInv, LocalsSet, RecipientSteps
  <2>6. \A q \in Recipients : sends[q] \in Nat /\ expired[q] \in Nat
    BY DEF TypeInv, TypeOK
  <2>. QED  BY <1>1, <2>1, <2>2, <2>3, <2>4, <2>5, <2>6 DEF ClaimInv, PreSend
<1>. QED  BY <1>2, <1>3

(* The provider accepts: the count of the key's life is used up and the    *)
(* job can send no more.                                                   *)
LEMMA ProviderStep ==
  ASSUME TypeInv, ClaimInv, NEW w \in Workers, ProviderCall(w)
  PROVE  ClaimInv'
<1>. DEFINE r == wk[w].r
<1>1. r \in Recipients /\ PreSend(w)
  BY DEF ProviderCall, AtStep, TypeInv, LocalsSet, RecipientSteps, PreSend
<1>2. QuietStep(w) /\ UNCHANGED <<claims, expired>>
  BY QuietGoto, QuietRaise DEF ProviderCall, redisVars, WorkerSteps
<1>3. CASE UNCHANGED sends
  BY <1>2, <1>3, QuietKeepsClaim
<1>4. CASE sends' = [sends EXCEPT ![r] = @ + 1] /\ Goto(w, "mark")
  <2>1. wk'[w].step = "mark" /\ \A v \in Workers \ {w} : wk'[v] = wk[v]
    BY <1>4 DEF Goto, TypeInv, TypeOK, WorkerStates
  <2>2. /\ sends'[r] = sends[r] + 1 /\ sends[r] <= expired[r] /\ claims[r]
        /\ \A q \in Recipients \ {r} : sends'[q] = sends[q]
    BY <1>1, <1>4 DEF ClaimInv, TypeInv, TypeOK
  <2>3. \A v \in Workers \ {w} : PreSend(v) => wk[v].r # r /\ wk[v].r \in Recipients
    BY <1>1 DEF ClaimInv, PreSend, TypeInv, LocalsSet, RecipientSteps
  <2>4. \A q \in Recipients : sends[q] \in Nat /\ expired[q] \in Nat
    BY DEF TypeInv, TypeOK
  <2>5. \A v \in Workers :
          PreSend(v)' => claims'[wk'[v].r] /\ sends'[wk'[v].r] <= expired'[wk'[v].r]
    BY <1>2, <2>1, <2>2, <2>3 DEF ClaimInv, PreSend
  <2>6. \A u, v \in Workers : PreSend(u)' /\ PreSend(v)' /\ wk'[u].r = wk'[v].r => u = v
    BY <2>1 DEF ClaimInv, PreSend
  <2>7. \A q \in Recipients :
          sends'[q] <= expired'[q] + (IF claims'[q] THEN 1 ELSE 0)
    BY <1>2, <2>2, <2>4 DEF ClaimInv
  <2>. QED  BY <2>5, <2>6, <2>7 DEF ClaimInv
<1>. QED  BY <1>3, <1>4 DEF ProviderCall

(* The API handlers touch neither the keys, nor the jobs, nor the provider. *)
LEMMA ApiFrame ==
  ASSUME NEW c \in Clients, ApiRequest(c) \/ ApiFinish(c)
  PROVE  UNCHANGED <<claims, sends, expired, wk>>
BY DEF ApiRequest, ApiFinish, Request, start_campaign, pause_campaign, resume_campaign,
      cancel_campaign, retry_failed, update_campaign, delete_campaign, StartCommit,
      PauseCommit, ResumeCommit, ResumeRequeue, CancelCommit, CancelOpenRecipients,
      CancelRecount, RetryRequeue, RetryCommit, EditCommit, DeleteCommit,
      redisVars, history

(* The TTL runs out while no job works on the recipient: the key's next    *)
(* life starts with one more expiry counted.                               *)
LEMMA ExpireStep ==
  ASSUME TypeInv, ClaimInv, NEW r \in Recipients, Expire(r)
  PROVE  ClaimInv'
<1>1. /\ UNCHANGED <<sends, wk>>
      /\ claims'[r] = FALSE /\ expired'[r] = expired[r] + 1
      /\ \A q \in Recipients \ {r} : claims'[q] = claims[q] /\ expired'[q] = expired[q]
  BY DEF Expire, TypeInv, TypeOK
<1>2. \A w \in Workers : wk[w].r # r
  BY DEF Expire
<1>3. \A w \in Workers : PreSend(w) => wk[w].r \in Recipients \ {r}
  BY <1>2 DEF PreSend, TypeInv, LocalsSet, RecipientSteps
<1>4. \A q \in Recipients : sends[q] \in Nat /\ expired[q] \in Nat
  BY DEF TypeInv, TypeOK
<1>5. sends[r] <= expired[r] + 1
  BY <1>4 DEF ClaimInv
<1>. QED  BY <1>1, <1>3, <1>4, <1>5 DEF ClaimInv, PreSend

LEMMA ClaimEnvironment ==
  ASSUME TypeInv, ClaimInv, Environment
  PROVE  ClaimInv'
<1>1. ASSUME NEW w \in Workers, Crash(w) \/ Fault(w) PROVE ClaimInv'
  <2>1. QuietStep(w)
    BY <1>1, QuietReturn, QuietRaise DEF Crash, Fault
  <2>. QED  BY <1>1, <2>1, QuietKeepsClaim DEF Crash, Fault, redisVars, history
<1>2. ASSUME NEW r \in Recipients, Reply(r) \/ \E s \in ProviderStatuses : DeliveryEvent(r, s)
      PROVE  ClaimInv'
  BY <1>2 DEF Reply, DeliveryEvent, redisVars, history, ClaimInv, PreSend
<1>. QED  BY <1>1, <1>2, ExpireStep DEF Environment

LEMMA ClaimNext == TypeInv /\ ClaimInv /\ [Next]_vars => ClaimInv'
<1>. SUFFICES ASSUME TypeInv, ClaimInv, [Next]_vars PROVE ClaimInv'
  OBVIOUS
<1>1. ASSUME NEW w \in Workers, TakeJob(w) \/ RunJob(w) PROVE ClaimInv'
  <2>1. CASE Claim(w) \/ ProviderCall(w)
    BY <2>1, ClaimStep, ProviderStep
  <2>2. CASE ~(Claim(w) \/ ProviderCall(w))
    <3>1. QuietStep(w) /\ UNCHANGED <<claims, sends, expired>>
      BY <1>1, <2>2, QuietTakeJob, QuietControlJob, QuietSendJob, QuietExcept DEF RunJob
    <3>. QED  BY <3>1, QuietKeepsClaim
  <2>. QED  BY <2>1, <2>2
<1>2. ASSUME NEW c \in Clients, ApiRequest(c) \/ ApiFinish(c) PROVE ClaimInv'
  BY <1>2, ApiFrame DEF ClaimInv, PreSend
<1>3. CASE UNCHANGED vars
  BY <1>3 DEF vars, redisVars, history, ClaimInv, PreSend
<1>. QED  BY <1>1, <1>2, <1>3, ClaimEnvironment DEF Next

LEMMA ClaimInit == Init => ClaimInv
BY DEF Init, ClaimInv, PreSend, Idle

(* Nobody gets a campaign message twice while the idempotency key lives:   *)
(* for every number of workers, duplicate jobs, crashes, faults, retries   *)
(* and API calls, the provider accepts at most one message per recipient   *)
(* plus one for every expiry of the key.                                   *)
THEOREM AtMostOnce == Spec => []AtMostOncePerClaim
<1>1. Spec => []TypeInv
  BY InitTypeInv, TypeNext, PTL DEF Spec
<1>2. Spec => []ClaimInv
  BY <1>1, ClaimInit, ClaimNext, PTL DEF Spec
<1>3. TypeInv /\ ClaimInv => AtMostOncePerClaim
  BY DEF TypeInv, TypeOK, ClaimInv, AtMostOncePerClaim
<1>. QED  BY <1>1, <1>2, <1>3, PTL

-----------------------------------------------------------------------------
(* A recipient shown as sent has a message the provider accepted. *)

(* No recipient enters a success status. *)
NoNewSuccess ==
  \A q \in Recipients : rstat'[q] \in SuccessStatuses => rstat[q] \in SuccessStatuses

LEMMA SetRecipientFails ==
  ASSUME TypeInv, NEW r, NEW s, s \notin SuccessStatuses, SetRecipient(r, s)
  PROVE  NoNewSuccess
BY DEF NoNewSuccess, SetRecipient, TypeInv, TypeOK, SuccessStatuses

LEMMA MoveAllFails ==
  ASSUME NEW S, NEW s, s \notin SuccessStatuses, MoveAll(S, s)
  PROVE  NoNewSuccess
BY DEF NoNewSuccess, MoveAll

(* The jobs at the two steps that record a message are the ones before. *)
NoNewRecorder ==
  \A w \in Workers : wk'[w].step \in {"mark", "meta_sent"} => wk'[w] = wk[w]

LEMMA RecorderGoto ==
  ASSUME TypeInv, NEW w \in Workers, NEW s, s \notin {"mark", "meta_sent"},
         Goto(w, s)
  PROVE  NoNewRecorder
BY DEF TypeInv, TypeOK, WorkerStates, Goto, NoNewRecorder

LEMMA RecorderReturn ==
  ASSUME TypeInv, NEW w \in Workers, Return(w) \/ Leave(w)
  PROVE  NoNewRecorder
BY DEF TypeInv, TypeOK, Return, Leave, Idle, NoNewRecorder

LEMMA RecorderRaise ==
  ASSUME TypeInv, NEW w \in Workers, NEW cat, Raise(w, cat)
  PROVE  NoNewRecorder
BY DEF TypeInv, TypeOK, WorkerStates, Raise, NoNewRecorder

LEMMA AcceptedFrame ==
  ASSUME TypeInv, AcceptedInv, NoNewSuccess, NoNewRecorder, UNCHANGED <<sid, sends>>
  PROVE  AcceptedInv'
BY DEF AcceptedInv, SentMeansAccepted, NoNewSuccess, NoNewRecorder

LEMMA AcceptedTakeJob ==
  ASSUME TypeInv, NEW w \in Workers, TakeJob(w)
  PROVE  NoNewSuccess /\ NoNewRecorder /\ UNCHANGED <<sid, sends>>
<1>. USE DEF history, dbVars
<1>1. CASE StartRead(w) \/ BatchJob(w) \/ FinalizeJob(w)
  BY <1>1, RecorderGoto DEF StartRead, BatchJob, FinalizeJob, NoNewSuccess, NoNewRecorder
<1>2. CASE DueWin(w)
  BY <1>2, RecorderGoto DEF DueWin, NoNewSuccess
<1>3. ASSUME NEW r \in Recipients, SendStart(w, r)
      PROVE  NoNewSuccess /\ NoNewRecorder /\ UNCHANGED <<sid, sends>>
  BY <1>3 DEF SendStart, NoNewRecorder, NoNewSuccess, TypeInv, TypeOK, WorkerStates
<1>. QED  BY <1>1, <1>2, <1>3 DEF TakeJob

LEMMA AcceptedControlJob ==
  ASSUME TypeInv, NEW w \in Workers,
         \/ StartWrite(w) \/ StartQueue(w) \/ DueEnqueue(w)
         \/ BatchPick(w) \/ BatchEnqueue(w)
         \/ CompleteCheck(w) \/ CompleteRefresh(w) \/ CompleteWrite(w)
  PROVE  NoNewSuccess /\ NoNewRecorder /\ UNCHANGED <<sid, sends>>
<1>. USE DEF history, dbVars
<1>1. CASE StartWrite(w) \/ CompleteCheck(w)
  BY <1>1, RecorderGoto, RecorderReturn DEF StartWrite, CompleteCheck, NoNewSuccess
<1>2. CASE StartQueue(w)
  BY <1>2, RecorderGoto, MoveAllFails DEF StartQueue, SuccessStatuses
<1>3. CASE DueEnqueue(w) \/ BatchEnqueue(w) \/ CompleteWrite(w)
  BY <1>3, RecorderReturn DEF DueEnqueue, BatchEnqueue, CompleteWrite, NoNewSuccess
<1>4. CASE BatchPick(w)
  <2>1. CASE Return(w)
    BY <1>4, <2>1, RecorderReturn DEF BatchPick, NoNewSuccess
  <2>2. ASSUME NEW ids,
               wk' = [wk EXCEPT ![w].ids = ids,
                                ![w].step = IF ids = {} THEN "complete_check"
                                            ELSE "enqueue"]
        PROVE  NoNewRecorder
    BY <2>2 DEF NoNewRecorder, TypeInv, TypeOK, WorkerStates
  <2>. QED  BY <1>4, <2>1, <2>2 DEF BatchPick, NoNewSuccess
<1>5. CASE CompleteRefresh(w)
  <2>. DEFINE final == finalize_status_from_counts(cstat, rstat)
  <2>1. wk' = [wk EXCEPT ![w].step = "complete_write", ![w].seen = final]
    BY <1>5 DEF CompleteRefresh
  <2>. HIDE DEF final
  <2>2. NoNewRecorder
    BY <2>1 DEF NoNewRecorder, TypeInv, TypeOK, WorkerStates
  <2>. QED  BY <1>5, <2>2 DEF CompleteRefresh, NoNewSuccess
<1>. QED  BY <1>1, <1>2, <1>3, <1>4, <1>5

LEMMA AcceptedOther ==
  ASSUME TypeInv, NEW w \in Workers,
         \/ CancelRecipient(w) \/ Claim(w) \/ Gate(w) \/ Permit(w)
         \/ ExceptRead(w) \/ ExceptBlocked(w) \/ ExceptCancelled(w)
         \/ ExceptRetry(w) \/ ExceptFinal(w) \/ AccountPause(w)
  PROVE  NoNewSuccess /\ NoNewRecorder /\ UNCHANGED <<sid, sends>>
<1>. USE DEF history, dbVars, SuccessStatuses
<1>1. CASE CancelRecipient(w) \/ ExceptCancelled(w) \/ ExceptRetry(w)
  BY <1>1, RecorderReturn, SetRecipientFails
  DEF CancelRecipient, ExceptCancelled, ExceptRetry, NoNewSuccess
<1>2. CASE Claim(w)
  BY <1>2, RecorderReturn, RecorderGoto DEF Claim, NoNewSuccess
<1>3. CASE Gate(w)
  <2>1. Goto(w, "permit") \/ Goto(w, "complete_check") \/ Raise(w, "policy") \/ Return(w)
    BY <1>3 DEF Gate
  <2>2. NoNewRecorder
    BY <2>1, RecorderGoto, RecorderRaise, RecorderReturn
  <2>3. NoNewSuccess
    BY <1>3, SetRecipientFails DEF Gate, NoNewSuccess
  <2>. QED  BY <1>3, <2>2, <2>3 DEF Gate
<1>4. CASE Permit(w)
  BY <1>4, RecorderGoto, RecorderReturn, SetRecipientFails DEF Permit, NoNewSuccess
<1>5. CASE ExceptRead(w)
  BY <1>5 DEF ExceptRead, NoNewSuccess, NoNewRecorder, TypeInv, TypeOK, WorkerStates
<1>6. CASE ExceptBlocked(w)
  BY <1>6, RecorderGoto, SetRecipientFails DEF ExceptBlocked
<1>7. CASE ExceptFinal(w)
  <2>1. PICK s \in {"skipped", "failed"} : SetRecipient(wk[w].r, s)
    BY <1>7 DEF ExceptFinal, FinalStatuses
  <2>. QED  BY <1>7, <2>1, RecorderReturn, SetRecipientFails DEF ExceptFinal
<1>8. CASE AccountPause(w)
  BY <1>8, RecorderReturn DEF AccountPause, NoNewSuccess
<1>. QED  BY <1>1, <1>2, <1>3, <1>4, <1>5, <1>6, <1>7, <1>8

(* The Meta shortcut is entered only with a stored message id. *)
LEMMA AcceptedWin ==
  ASSUME TypeInv, AcceptedInv, NEW w \in Workers, Win(w)
  PROVE  AcceptedInv'
<1>. DEFINE r == wk[w].r
<1>1. r \in Recipients
  BY DEF Win, AtStep, TypeInv, LocalsSet, RecipientSteps
<1>2. UNCHANGED <<sid, sends>> /\ NoNewSuccess
  BY DEF Win, history, NoNewSuccess, TypeInv, TypeOK, SuccessStatuses
<1>3. \A v \in Workers \ {w} : wk'[v] = wk[v]
  BY DEF Win, Return, TypeInv, TypeOK
<1>4. wk'[w].step = "mark" => FALSE
  BY DEF Win, Return, Idle, TypeInv, TypeOK, WorkerStates
<1>5. wk'[w].step = "meta_sent" => wk'[w].r = r /\ sid[r]
  BY DEF Win, Return, Idle, TypeInv, TypeOK, WorkerStates
<1>. QED
  BY <1>1, <1>2, <1>3, <1>4, <1>5 DEF AcceptedInv, SentMeansAccepted, NoNewSuccess

LEMMA AcceptedMetaSent ==
  ASSUME TypeInv, AcceptedInv, NEW w \in Workers, MetaSent(w)
  PROVE  AcceptedInv'
<1>1. UNCHANGED <<sid, sends>> /\ NoNewRecorder
  BY RecorderReturn DEF MetaSent, history
<1>2. sends[wk[w].r] > 0
  BY DEF MetaSent, AtStep, AcceptedInv
<1>3. \A q \in Recipients \ {wk[w].r} : rstat'[q] = rstat[q]
  BY DEF MetaSent, SetRecipient, TypeInv, TypeOK
<1>. QED  BY <1>1, <1>2, <1>3 DEF AcceptedInv, SentMeansAccepted, NoNewRecorder

LEMMA AcceptedProviderCall ==
  ASSUME TypeInv, AcceptedInv, NEW w \in Workers, ProviderCall(w)
  PROVE  AcceptedInv'
<1>. DEFINE r == wk[w].r
<1>1. r \in Recipients /\ UNCHANGED <<rstat, sid>>
  BY DEF ProviderCall, AtStep, TypeInv, LocalsSet, RecipientSteps, dbVars
<1>2. CASE UNCHANGED sends /\ \E cat \in Categories : Raise(w, cat)
  BY <1>1, <1>2, RecorderRaise, AcceptedFrame DEF NoNewSuccess
<1>3. CASE sends' = [sends EXCEPT ![r] = @ + 1] /\ Goto(w, "mark")
  <2>1. /\ sends'[r] > 0
        /\ \A q \in Recipients : sends[q] > 0 => sends'[q] > 0
    BY <1>1, <1>3 DEF TypeInv, TypeOK
  <2>2. wk'[w].r = r /\ \A v \in Workers \ {w} : wk'[v] = wk[v]
    BY <1>3 DEF Goto, TypeInv, TypeOK, WorkerStates
  <2>3. \A v \in Workers : wk[v].step \in {"mark", "meta_sent"} => wk[v].r \in Recipients
    BY DEF TypeInv, LocalsSet, RecipientSteps
  <2>. QED  BY <1>1, <2>1, <2>2, <2>3 DEF AcceptedInv, SentMeansAccepted
<1>. QED  BY <1>2, <1>3 DEF ProviderCall

LEMMA AcceptedMark ==
  ASSUME TypeInv, AcceptedInv, NEW w \in Workers, Mark(w)
  PROVE  AcceptedInv'
<1>1. UNCHANGED sends /\ NoNewRecorder
  BY RecorderGoto DEF Mark, history
<1>2. sends[wk[w].r] > 0
  BY DEF Mark, AtStep, AcceptedInv
<1>3. \A q \in Recipients \ {wk[w].r} : rstat'[q] = rstat[q] /\ sid'[q] = sid[q]
  BY DEF Mark, TypeInv, TypeOK
<1>. QED  BY <1>1, <1>2, <1>3 DEF AcceptedInv, SentMeansAccepted, NoNewRecorder

LEMMA AcceptedApi ==
  ASSUME TypeInv, NEW c \in Clients, ApiRequest(c) \/ ApiFinish(c)
  PROVE  NoNewSuccess /\ NoNewRecorder /\ UNCHANGED <<sid, sends>>
<1>. USE DEF history, dbVars, SuccessStatuses
<1>1. NoNewRecorder
  BY ApiFrame DEF NoNewRecorder
<1>2. CASE ApiRequest(c)
  BY <1>1, <1>2
  DEF ApiRequest, Request, start_campaign, pause_campaign, resume_campaign,
      cancel_campaign, retry_failed, update_campaign, delete_campaign, NoNewSuccess
<1>3. CASE StartCommit(c) \/ PauseCommit(c) \/ ResumeCommit(c) \/ CancelCommit(c)
           \/ CancelRecount(c) \/ RetryCommit(c) \/ EditCommit(c) \/ DeleteCommit(c)
  BY <1>1, <1>3
  DEF StartCommit, PauseCommit, ResumeCommit, CancelCommit, CancelRecount, RetryCommit,
      EditCommit, DeleteCommit, NoNewSuccess
<1>4. CASE ResumeRequeue(c) \/ CancelOpenRecipients(c) \/ RetryRequeue(c)
  BY <1>1, <1>4, MoveAllFails DEF ResumeRequeue, CancelOpenRecipients, RetryRequeue
<1>. QED  BY <1>2, <1>3, <1>4 DEF ApiFinish

LEMMA AcceptedEnvironment ==
  ASSUME TypeInv, AcceptedInv, Environment
  PROVE  AcceptedInv'
<1>1. ASSUME NEW w \in Workers, Crash(w) \/ Fault(w) PROVE AcceptedInv'
  <2>1. NoNewRecorder
    BY <1>1, RecorderReturn, RecorderRaise DEF Crash, Fault
  <2>. QED  BY <1>1, <2>1, AcceptedFrame DEF Crash, Fault, dbVars, history, NoNewSuccess
<1>2. ASSUME NEW r \in Recipients, Expire(r) PROVE AcceptedInv'
  BY <1>2, AcceptedFrame DEF Expire, dbVars, NoNewSuccess, NoNewRecorder
<1>3. ASSUME NEW r \in Recipients,
             Reply(r) \/ \E s \in ProviderStatuses : DeliveryEvent(r, s)
      PROVE  AcceptedInv'
  <2>1. UNCHANGED <<sid, sends, wk>>
    BY <1>3 DEF Reply, DeliveryEvent, history
  <2>2. \A q \in Recipients \ {r} : rstat'[q] = rstat[q]
    BY <1>3 DEF Reply, DeliveryEvent, TypeInv, TypeOK
  <2>3. sid[r] \/ rstat[r] \in SuccessStatuses
    BY <1>3 DEF Reply, DeliveryEvent, SuccessStatuses
  <2>. QED  BY <2>1, <2>2, <2>3 DEF AcceptedInv, SentMeansAccepted
<1>. QED  BY <1>1, <1>2, <1>3 DEF Environment

LEMMA AcceptedNext == TypeInv /\ AcceptedInv /\ [Next]_vars => AcceptedInv'
<1>. SUFFICES ASSUME TypeInv, AcceptedInv, [Next]_vars PROVE AcceptedInv'
  OBVIOUS
<1>1. ASSUME NEW w \in Workers, TakeJob(w) \/ RunJob(w) PROVE AcceptedInv'
  <2>1. CASE Win(w) \/ MetaSent(w) \/ ProviderCall(w) \/ Mark(w)
    BY <2>1, AcceptedWin, AcceptedMetaSent, AcceptedProviderCall, AcceptedMark
  <2>2. CASE ~(Win(w) \/ MetaSent(w) \/ ProviderCall(w) \/ Mark(w))
    <3>1. NoNewSuccess /\ NoNewRecorder /\ UNCHANGED <<sid, sends>>
      BY <1>1, <2>2, AcceptedTakeJob, AcceptedControlJob, AcceptedOther DEF RunJob
    <3>. QED  BY <3>1, AcceptedFrame
  <2>. QED  BY <2>1, <2>2
<1>2. ASSUME NEW c \in Clients, ApiRequest(c) \/ ApiFinish(c) PROVE AcceptedInv'
  BY <1>2, AcceptedApi, AcceptedFrame
<1>3. CASE UNCHANGED vars
  BY <1>3, AcceptedFrame DEF vars, dbVars, history, NoNewSuccess, NoNewRecorder
<1>. QED  BY <1>1, <1>2, <1>3, AcceptedEnvironment DEF Next

LEMMA AcceptedInit == Init => AcceptedInv
BY DEF Init, AcceptedInv, SentMeansAccepted, SuccessStatuses, Idle

(* A recipient the dashboard counts as sent, delivered, read or replied    *)
(* had a message accepted by the provider; the Meta shortcut and the       *)
(* callbacks only ever act on a stored message id, which stems from one.   *)
THEOREM SentIsAccepted == Spec => []SentMeansAccepted
<1>1. Spec => []TypeInv
  BY InitTypeInv, TypeNext, PTL DEF Spec
<1>2. Spec => []AcceptedInv
  BY <1>1, AcceptedInit, AcceptedNext, PTL DEF Spec
<1>3. AcceptedInv => SentMeansAccepted
  BY DEF AcceptedInv
<1>. QED  BY <1>2, <1>3, PTL

-----------------------------------------------------------------------------
(* What a step of the engine may do to one variable: each invariant below  *)
(* follows from these lemmas without another look at the single actions.   *)

(* What may happen is fixed for a run, only the bounds are counted down.   *)
LEMMA ScenarioFixed ==
  ASSUME TypeInv, [Next]_vars
  PROVE  /\ scenario'.outcomes = scenario.outcomes
         /\ scenario'.ops = scenario.ops
         /\ scenario'.provider = scenario.provider
<1>. USE DEF TypeInv, TypeOK, ScenarioTypes
<1>1. ASSUME NEW w \in Workers, TakeJob(w) PROVE UNCHANGED scenario
  BY <1>1 DEF TakeJob, StartRead, BatchJob, FinalizeJob, DueWin, SendStart
<1>2. ASSUME NEW w \in Workers, RunJob(w) PROVE UNCHANGED scenario
  BY <1>2 DEF RunJob, StartWrite, StartQueue, DueEnqueue, BatchPick, BatchEnqueue,
     CompleteCheck, CompleteRefresh, CompleteWrite, CancelRecipient, Win, MetaSent,
     Claim, Gate, Permit, ProviderCall, Mark, ExceptRead, ExceptBlocked,
     ExceptCancelled, ExceptRetry, ExceptFinal, AccountPause
<1>3. ASSUME NEW c \in Clients, ApiRequest(c)
      PROVE  scenario' = [scenario EXCEPT !.calls = @ - 1]
  BY <1>3 DEF ApiRequest, Request, start_campaign, pause_campaign, resume_campaign,
     cancel_campaign, retry_failed, update_campaign, delete_campaign
<1>4. ASSUME NEW c \in Clients, ApiFinish(c) PROVE UNCHANGED scenario
  BY <1>4 DEF ApiFinish, StartCommit, PauseCommit, ResumeCommit, ResumeRequeue,
     CancelCommit, CancelOpenRecipients, CancelRecount, RetryRequeue, RetryCommit,
     EditCommit, DeleteCommit
<1>5. CASE Environment
  BY <1>5 DEF Environment, Crash, Fault, Expire, Reply, DeliveryEvent
<1>6. CASE UNCHANGED vars
  BY <1>6 DEF vars
<1>. QED  BY <1>1, <1>2, <1>3, <1>4, <1>5, <1>6 DEF Next

(* How a job gets to a step, for the steps the invariants speak of.        *)
Moved(w) ==
  wk'[w] # wk[w] =>
    /\ wk'[w].step \in RecipientSteps \ {"win", "cancel_recipient"}
         => wk'[w].r = wk[w].r
    /\ wk'[w].step = "cancel_recipient" => cstat \in TERMINAL_STATUSES
    /\ wk'[w].step \in {"meta_sent", "claim"} =>
         /\ wk[w].step = "win" /\ rstat[wk[w].r] \in Winnable
         /\ rstat'[wk[w].r] = "processing"
    /\ wk'[w].step = "meta_sent" => scenario.provider = "meta" /\ sid[wk[w].r]
    /\ wk'[w].step = "claim" => ~(scenario.provider = "meta" /\ sid[wk[w].r])
    /\ wk'[w].step = "gate" =>
         wk[w].step = "claim" /\ ~claims[wk[w].r] /\ claims'[wk[w].r]
    /\ wk'[w].step = "permit" => wk[w].step = "gate"
    /\ wk'[w].step = "provider" => wk[w].step = "permit"
    /\ wk'[w].step = "mark" => wk[w].step = "provider"
    /\ wk'[w].step = "except_read" =>
         wk[w].step \in {"gate", "provider"} \/ "fault" \in scenario.outcomes
    /\ wk'[w].step = "except_write" => wk[w].step = "except_read"
    /\ wk'[w].step = "complete_refresh" => AllClosed
    /\ wk'[w].step = "complete_write" =>
         /\ wk[w].step = "complete_refresh"
         /\ wk'[w].seen = finalize_status_from_counts(cstat, rstat)

(* A step moves at most one job, and moves it like this. *)
OneMoves(w) == Moved(w) /\ \A v \in Workers \ {w} : wk'[v] = wk[v]

LEMMA MovesGoto ==
  ASSUME TypeInv, NEW w \in Workers, NEW s, Goto(w, s)
  PROVE  /\ wk'[w].step = s /\ wk'[w].r = wk[w].r
         /\ \A v \in Workers \ {w} : wk'[v] = wk[v]
BY DEF TypeInv, TypeOK, WorkerStates, Goto

LEMMA MovesReturn ==
  ASSUME TypeInv, NEW w \in Workers, Return(w) \/ Leave(w)
  PROVE  OneMoves(w) /\ wk'[w].step \in {"idle", "complete_check"}
BY DEF TypeInv, TypeOK, Return, Leave, Idle, OneMoves, Moved, RecipientSteps

LEMMA MovesRaise ==
  ASSUME TypeInv, NEW w \in Workers, NEW cat, Raise(w, cat),
         wk[w].step \in {"gate", "provider"} \/ "fault" \in scenario.outcomes
  PROVE  OneMoves(w)
<1>1. /\ wk'[w].step = "except_read" /\ wk'[w].r = wk[w].r
      /\ \A v \in Workers \ {w} : wk'[v] = wk[v]
  BY DEF TypeInv, TypeOK, WorkerStates, Raise
<1>. QED  BY <1>1 DEF OneMoves, Moved

(* The steps nothing is required of. *)
LEMMA MovesFreely ==
  ASSUME TypeInv, NEW w \in Workers, NEW s, Goto(w, s),
         s \in {"start_write", "start_queue", "batch", "enqueue", "due_enqueue",
                "complete_check", "account_pause"}
  PROVE  OneMoves(w)
BY MovesGoto DEF OneMoves, Moved

LEMMA MovesNot ==
  ASSUME NEW w \in Workers, UNCHANGED wk
  PROVE  OneMoves(w)
BY DEF OneMoves, Moved

LEMMA MovesTakeJob ==
  ASSUME TypeInv, NEW w \in Workers, TakeJob(w)
  PROVE  OneMoves(w)
<1>1. CASE StartRead(w) \/ BatchJob(w) \/ FinalizeJob(w) \/ DueWin(w)
  BY <1>1, MovesFreely, MovesNot DEF StartRead, BatchJob, FinalizeJob, DueWin
<1>2. ASSUME NEW r \in Recipients, SendStart(w, r) PROVE OneMoves(w)
  <2>1. CASE UNCHANGED wk
    BY <2>1, MovesNot
  <2>2. CASE cstat \in TERMINAL_STATUSES
             /\ wk' = [wk EXCEPT ![w].r = r, ![w].step = "cancel_recipient"]
    <3>1. wk'[w].step = "cancel_recipient" /\ \A v \in Workers \ {w} : wk'[v] = wk[v]
      BY <2>2 DEF TypeInv, TypeOK, WorkerStates
    <3>. QED  BY <2>2, <3>1 DEF OneMoves, Moved
  <2>3. CASE wk' = [wk EXCEPT ![w].r = r, ![w].step = "win"]
    <3>1. wk'[w].step = "win" /\ \A v \in Workers \ {w} : wk'[v] = wk[v]
      BY <2>3 DEF TypeInv, TypeOK, WorkerStates
    <3>. QED  BY <3>1 DEF OneMoves, Moved
  <2>. QED  BY <1>2, <2>1, <2>2, <2>3 DEF SendStart
<1>. QED  BY <1>1, <1>2 DEF TakeJob

LEMMA MovesControlJob ==
  ASSUME TypeInv, NEW w \in Workers,
         \/ StartWrite(w) \/ StartQueue(w) \/ DueEnqueue(w)
         \/ BatchPick(w) \/ BatchEnqueue(w)
         \/ CompleteCheck(w) \/ CompleteRefresh(w) \/ CompleteWrite(w)
  PROVE  OneMoves(w)
<1>1. CASE StartWrite(w) \/ StartQueue(w)
  BY <1>1, MovesFreely DEF StartWrite, StartQueue
<1>2. CASE DueEnqueue(w) \/ BatchEnqueue(w) \/ CompleteWrite(w)
  BY <1>2, MovesReturn DEF DueEnqueue, BatchEnqueue, CompleteWrite
<1>3. CASE BatchPick(w)
  <2>1. CASE Return(w)
    BY <2>1, MovesReturn
  <2>2. ASSUME NEW ids,
               wk' = [wk EXCEPT ![w].ids = ids,
                                ![w].step = IF ids = {} THEN "complete_check"
                                            ELSE "enqueue"]
        PROVE  OneMoves(w)
    <3>1. /\ wk'[w].step \in {"complete_check", "enqueue"}
          /\ \A v \in Workers \ {w} : wk'[v] = wk[v]
      BY <2>2 DEF TypeInv, TypeOK, WorkerStates
    <3>. QED  BY <3>1 DEF OneMoves, Moved, RecipientSteps
  <2>. QED  BY <1>3, <2>1, <2>2 DEF BatchPick
<1>4. CASE CompleteCheck(w)
  <2>1. CASE Return(w)
    BY <2>1, MovesReturn
  <2>2. CASE Goto(w, "complete_refresh") /\ InStatus(rstat, RECIPIENT_OPEN) = {}
    <3>1. AllClosed
      BY <2>2 DEF AllClosed, InStatus, TypeInv, TypeOK
    <3>2. wk'[w].step = "complete_refresh" /\ \A v \in Workers \ {w} : wk'[v] = wk[v]
      BY <2>2, MovesGoto
    <3>. QED  BY <3>1, <3>2 DEF OneMoves, Moved, RecipientSteps
  <2>. QED  BY <1>4, <2>1, <2>2 DEF CompleteCheck
<1>5. CASE CompleteRefresh(w)
  <2>. DEFINE final == finalize_status_from_counts(cstat, rstat)
  <2>1. wk' = [wk EXCEPT ![w].step = "complete_write", ![w].seen = final]
    BY <1>5 DEF CompleteRefresh
  <2>. HIDE DEF final
  <2>2. /\ wk'[w].step = "complete_write" /\ wk'[w].seen = final
        /\ \A v \in Workers \ {w} : wk'[v] = wk[v]
    BY <2>1 DEF TypeInv, TypeOK, WorkerStates
  <2>3. wk[w].step = "complete_refresh"
    BY <1>5 DEF CompleteRefresh, AtStep
  <2>. QED  BY <2>2, <2>3 DEF OneMoves, Moved, RecipientSteps, final
<1>. QED  BY <1>1, <1>2, <1>3, <1>4, <1>5

LEMMA MovesSendJob ==
  ASSUME TypeInv, NEW w \in Workers,
         \/ CancelRecipient(w) \/ Win(w) \/ MetaSent(w) \/ Claim(w)
         \/ Gate(w) \/ Permit(w) \/ ProviderCall(w) \/ Mark(w)
  PROVE  OneMoves(w)
<1>1. CASE CancelRecipient(w) \/ MetaSent(w)
  BY <1>1, MovesReturn DEF CancelRecipient, MetaSent
<1>2. CASE Win(w)
  <2>. DEFINE r == wk[w].r
  <2>0. wk[w].step = "win" /\ r \in Recipients
    BY <1>2 DEF Win, AtStep, TypeInv, LocalsSet, RecipientSteps
  <2>1. CASE Return(w)
    BY <2>1, MovesReturn
  <2>2. CASE rstat[r] \in Winnable /\ ~Return(w)
    <3>. DEFINE s == IF scenario.provider = "meta" /\ sid[r] THEN "meta_sent" ELSE "claim"
    <3>1. wk' = [wk EXCEPT ![w].att = attempts[r] + 1, ![w].step = s]
      BY <1>2, <2>2 DEF Win
    <3>2. rstat'[r] = "processing"
      BY <1>2, <2>0, <2>2 DEF Win, TypeInv, TypeOK
    <3>3. \/ s = "meta_sent" /\ scenario.provider = "meta" /\ sid[r]
          \/ s = "claim" /\ ~(scenario.provider = "meta" /\ sid[r])
      <4>1. CASE scenario.provider = "meta" /\ sid[r]
        BY <4>1
      <4>2. CASE ~(scenario.provider = "meta" /\ sid[r])
        BY <4>2
      <4>. QED  BY <4>1, <4>2
    <3>. HIDE DEF s
    <3>4. /\ wk'[w].step = s /\ wk'[w].r = r
          /\ \A v \in Workers \ {w} : wk'[v] = wk[v]
      BY <3>1 DEF TypeInv, TypeOK, WorkerStates
    <3>. QED  BY <2>0, <2>2, <3>2, <3>3, <3>4 DEF OneMoves, Moved
  <2>. QED  BY <1>2, <2>1, <2>2 DEF Win
<1>3. CASE Claim(w)
  <2>. DEFINE r == wk[w].r
  <2>0. wk[w].step = "claim" /\ r \in Recipients
    BY <1>3 DEF Claim, AtStep, TypeInv, LocalsSet, RecipientSteps
  <2>1. CASE Return(w)
    BY <2>1, MovesReturn
  <2>2. CASE ~claims[r] /\ Goto(w, "gate")
    <3>1. claims'[r]
      BY <1>3, <2>0 DEF Claim, TypeInv, TypeOK
    <3>. QED  BY <2>0, <2>2, <3>1, MovesGoto DEF OneMoves, Moved
  <2>. QED  BY <1>3, <2>1, <2>2 DEF Claim
<1>4. CASE Gate(w)
  <2>0. wk[w].step = "gate"
    BY <1>4 DEF Gate, AtStep
  <2>1. Goto(w, "permit") \/ Goto(w, "complete_check") \/ Raise(w, "policy") \/ Return(w)
    BY <1>4 DEF Gate
  <2>2. CASE Goto(w, "permit")
    BY <2>0, <2>2, MovesGoto DEF OneMoves, Moved
  <2>. QED  BY <2>0, <2>1, <2>2, MovesFreely, MovesRaise, MovesReturn
<1>5. CASE Permit(w)
  <2>1. CASE Goto(w, "provider")
    BY <1>5, <2>1, MovesGoto DEF OneMoves, Moved, Permit, AtStep
  <2>. QED  BY <1>5, <2>1, MovesReturn DEF Permit
<1>6. CASE ProviderCall(w)
  <2>1. CASE Goto(w, "mark")
    BY <1>6, <2>1, MovesGoto DEF OneMoves, Moved, ProviderCall, AtStep
  <2>. QED  BY <1>6, <2>1, MovesRaise DEF ProviderCall, AtStep
<1>7. CASE Mark(w)
  BY <1>7, MovesFreely DEF Mark
<1>. QED  BY <1>1, <1>2, <1>3, <1>4, <1>5, <1>6, <1>7

LEMMA MovesExcept ==
  ASSUME TypeInv, NEW w \in Workers,
         \/ ExceptRead(w) \/ ExceptBlocked(w) \/ ExceptCancelled(w)
         \/ ExceptRetry(w) \/ ExceptFinal(w) \/ AccountPause(w)
  PROVE  OneMoves(w)
<1>1. CASE ExceptRead(w)
  <2>1. /\ wk[w].step = "except_read"
        /\ wk'[w].step = "except_write" /\ wk'[w].r = wk[w].r
        /\ \A v \in Workers \ {w} : wk'[v] = wk[v]
    BY <1>1 DEF ExceptRead, AtStep, TypeInv, TypeOK, WorkerStates
  <2>. QED  BY <2>1 DEF OneMoves, Moved
<1>2. CASE ExceptBlocked(w)
  BY <1>2, MovesFreely DEF ExceptBlocked
<1>3. CASE ExceptCancelled(w) \/ ExceptRetry(w) \/ ExceptFinal(w) \/ AccountPause(w)
  BY <1>3, MovesReturn DEF ExceptCancelled, ExceptRetry, ExceptFinal, AccountPause
<1>. QED  BY <1>1, <1>2, <1>3

(* Any step, seen by the jobs. *)
LEMMA MovesNext ==
  ASSUME TypeInv, [Next]_vars
  PROVE  /\ \A w \in Workers : Moved(w)
         /\ \A v, w \in Workers : wk'[v] # wk[v] /\ wk'[w] # wk[w] => v = w
<1>1. ASSUME NEW w \in Workers, OneMoves(w)
      PROVE  /\ \A v \in Workers : Moved(v)
             /\ \A u, v \in Workers : wk'[u] # wk[u] /\ wk'[v] # wk[v] => u = v
  BY <1>1 DEF OneMoves, Moved
<1>2. ASSUME NEW w \in Workers, TakeJob(w) \/ RunJob(w) PROVE OneMoves(w)
  BY <1>2, MovesTakeJob, MovesControlJob, MovesSendJob, MovesExcept DEF RunJob
<1>3. ASSUME NEW w \in Workers, Crash(w) \/ Fault(w) PROVE OneMoves(w)
  BY <1>3, MovesReturn, MovesRaise DEF Crash, Fault
<1>4. ASSUME UNCHANGED wk
      PROVE  /\ \A w \in Workers : Moved(w)
             /\ \A v, w \in Workers : wk'[v] # wk[v] /\ wk'[w] # wk[w] => v = w
  BY <1>4 DEF Moved
<1>5. ASSUME NEW c \in Clients, ApiRequest(c) \/ ApiFinish(c) PROVE UNCHANGED wk
  BY <1>5, ApiFrame
<1>6. ASSUME NEW r \in Recipients,
             Expire(r) \/ Reply(r) \/ \E s \in ProviderStatuses : DeliveryEvent(r, s)
      PROVE  UNCHANGED wk
  BY <1>6 DEF Expire, Reply, DeliveryEvent
<1>7. CASE UNCHANGED vars
  BY <1>4, <1>7 DEF vars
<1>. QED  BY <1>1, <1>2, <1>3, <1>4, <1>5, <1>6, <1>7 DEF Next, Environment

(* What a job's step may write into its recipient's status, by the step.   *)
WritesStatus(w, s) ==
  \/ wk[w].step = "cancel_recipient" /\ s = "cancelled"
  \/ wk[w].step = "meta_sent" /\ s = "sent"
  \/ wk[w].step = "gate" /\ s = "skipped"
  \/ wk[w].step = "permit" /\ s = "queued"
  \/ wk[w].step = "mark" /\ s = "sent"
  \/ wk[w].step = "except_write"
       /\ s \in {"queued", "retrying", "cancelled", "skipped", "failed"}

(* Who may change a recipient's status, from what and to what. *)
StatusBy(r) ==
  LET old == rstat[r]  new == rstat'[r] IN
  new # old =>
    \/ old = "pending" /\ new = "queued"
    \/ old = "processing" /\ new = "queued"
    \/ old = "failed" /\ new = "queued" /\ \E c \in Clients : api[c] = "retry_requeue"
    \/ old \in RECIPIENT_OPEN /\ new = "cancelled"
         /\ \E c \in Clients : api[c] = "cancel_recipients"
    \/ new = "gone" /\ \E c \in Clients : api[c] = "delete_write"
    \/ old \in Winnable /\ new = "processing"
    \/ \E w \in Workers :
         /\ wk[w].r = r /\ WritesStatus(w, new)
         /\ wk'[w].step \in {"idle", "complete_check", "account_pause"}
    \/ /\ "event" \in scenario.outcomes /\ sid[r]
       /\ new \notin RECIPIENT_OPEN \cup {"gone"}
    \/ /\ "event" \in scenario.outcomes /\ old \in SuccessStatuses
       /\ new = "replied"

LEMMA StatusSame ==
  ASSUME UNCHANGED rstat
  PROVE  \A r \in Recipients : StatusBy(r)
BY DEF StatusBy

(* An unconditional write of a job that then ends or goes on to the check. *)
LEMMA StatusWritten ==
  ASSUME TypeInv, NEW w \in Workers, NEW s, SetRecipient(wk[w].r, s),
         WritesStatus(w, s),
         wk'[w].step \in {"idle", "complete_check", "account_pause"}
  PROVE  \A r \in Recipients : StatusBy(r)
<1>. SUFFICES ASSUME NEW r \in Recipients, rstat'[r] # rstat[r] PROVE StatusBy(r)
  BY DEF StatusBy
<1>1. wk[w].r = r /\ rstat'[r] = s
  BY DEF SetRecipient, TypeInv, TypeOK
<1>. QED  BY <1>1 DEF StatusBy

LEMMA StatusTakeJob ==
  ASSUME NEW w \in Workers, TakeJob(w)
  PROVE  UNCHANGED rstat
BY DEF TakeJob, StartRead, BatchJob, FinalizeJob, DueWin, SendStart, dbVars

LEMMA StatusRunJob ==
  ASSUME TypeInv, NEW w \in Workers, RunJob(w)
  PROVE  \A r \in Recipients : StatusBy(r)
<1>1. CASE StartWrite(w) \/ DueEnqueue(w) \/ BatchPick(w) \/ BatchEnqueue(w)
           \/ CompleteCheck(w) \/ CompleteRefresh(w) \/ CompleteWrite(w)
           \/ Claim(w) \/ ProviderCall(w) \/ ExceptRead(w) \/ AccountPause(w)
  BY <1>1, StatusSame
  DEF StartWrite, DueEnqueue, BatchPick, BatchEnqueue, CompleteCheck, CompleteRefresh,
      CompleteWrite, Claim, ProviderCall, ExceptRead, AccountPause, dbVars
<1>2. CASE StartQueue(w)
  BY <1>2 DEF StartQueue, MoveAll, StatusBy
<1>3. CASE CancelRecipient(w)
  BY <1>3, StatusSame, StatusWritten, MovesReturn
  DEF CancelRecipient, AtStep, WritesStatus
<1>4. CASE Win(w)
  BY <1>4, StatusSame DEF Win, StatusBy, TypeInv, TypeOK
<1>5. CASE MetaSent(w)
  BY <1>5, StatusWritten, MovesReturn DEF MetaSent, AtStep, WritesStatus
<1>6. CASE Gate(w)
  BY <1>6, StatusSame, StatusWritten, MovesReturn, MovesGoto DEF Gate, AtStep, WritesStatus
<1>7. CASE Permit(w)
  BY <1>7, StatusSame, StatusWritten, MovesReturn DEF Permit, AtStep, WritesStatus
<1>8. CASE Mark(w)
  <2>1. wk'[w].step = "complete_check" /\ wk[w].step = "mark"
    BY <1>8, MovesGoto DEF Mark, AtStep
  <2>2. CASE rstat' = [rstat EXCEPT ![wk[w].r] = "sent"]
    BY <2>1, <2>2 DEF StatusBy, WritesStatus, TypeInv, TypeOK
  <2>. QED  BY <1>8, <2>2, StatusSame DEF Mark
<1>9. CASE ExceptBlocked(w)
  BY <1>9, StatusWritten, MovesGoto DEF ExceptBlocked, AtStep, WritesStatus
<1>10. CASE ExceptCancelled(w)
  BY <1>10, StatusWritten, MovesReturn DEF ExceptCancelled, AtStep, WritesStatus
<1>11. CASE ExceptRetry(w)
  BY <1>11, StatusWritten, MovesReturn DEF ExceptRetry, AtStep, WritesStatus
<1>12. CASE ExceptFinal(w)
  BY <1>12, StatusWritten, MovesReturn DEF ExceptFinal, FinalStatuses, AtStep, WritesStatus
<1>. QED
  BY <1>1, <1>2, <1>3, <1>4, <1>5, <1>6, <1>7, <1>8, <1>9, <1>10, <1>11, <1>12 DEF RunJob

LEMMA StatusApi ==
  ASSUME TypeInv, NEW c \in Clients, ApiRequest(c) \/ ApiFinish(c)
  PROVE  \A r \in Recipients : StatusBy(r)
<1>1. CASE ApiRequest(c)
  BY <1>1, StatusSame
  DEF ApiRequest, Request, start_campaign, pause_campaign, resume_campaign,
      cancel_campaign, retry_failed, update_campaign, delete_campaign, dbVars
<1>2. CASE StartCommit(c) \/ PauseCommit(c) \/ ResumeCommit(c) \/ CancelCommit(c)
           \/ CancelRecount(c) \/ RetryCommit(c) \/ EditCommit(c)
  BY <1>2, StatusSame
  DEF StartCommit, PauseCommit, ResumeCommit, CancelCommit, CancelRecount, RetryCommit,
      EditCommit
<1>3. CASE ResumeRequeue(c)
  BY <1>3 DEF ResumeRequeue, MoveAll, StatusBy
<1>4. CASE CancelOpenRecipients(c)
  BY <1>4 DEF CancelOpenRecipients, ApiGoto, MoveAll, StatusBy
<1>5. CASE RetryRequeue(c)
  BY <1>5 DEF RetryRequeue, ApiGoto, MoveAll, StatusBy
<1>6. CASE DeleteCommit(c)
  BY <1>6 DEF DeleteCommit, ApiGoto, StatusBy
<1>. QED  BY <1>1, <1>2, <1>3, <1>4, <1>5, <1>6 DEF ApiFinish

LEMMA StatusNext ==
  ASSUME TypeInv, [Next]_vars
  PROVE  \A r \in Recipients : StatusBy(r)
<1>1. ASSUME NEW r \in Recipients, NEW s \in ProviderStatuses, DeliveryEvent(r, s)
      PROVE  \A q \in Recipients : StatusBy(q)
  <2>1. MapProviderStatus(s) \notin RECIPIENT_OPEN \cup {"gone"}
    BY DEF ProviderStatuses, MapProviderStatus, RECIPIENT_OPEN
  <2>. QED  BY <1>1, <2>1 DEF DeliveryEvent, StatusBy, TypeInv, TypeOK
<1>2. ASSUME NEW r \in Recipients, Reply(r) PROVE \A q \in Recipients : StatusBy(q)
  BY <1>2 DEF Reply, StatusBy, SuccessStatuses, TypeInv, TypeOK
<1>3. ASSUME NEW w \in Workers, Crash(w) \/ Fault(w) PROVE UNCHANGED rstat
  BY <1>3 DEF Crash, Fault, dbVars
<1>4. ASSUME NEW r \in Recipients, Expire(r) PROVE UNCHANGED rstat
  BY <1>4 DEF Expire, dbVars
<1>5. CASE UNCHANGED vars
  BY <1>5, StatusSame DEF vars, dbVars
<1>. QED
  BY <1>1, <1>2, <1>3, <1>4, <1>5, StatusSame, StatusTakeJob, StatusRunJob, StatusApi
  DEF Next, Environment

(* A message id is stored by the mark, with the status. *)
SidBy(r) ==
  /\ sid[r] => sid'[r]
  /\ sid'[r] /\ ~sid[r] =>
       /\ rstat'[r] = "sent"
       /\ \E w \in Workers : wk[w].step = "mark" /\ wk[w].r = r

LEMMA SidNext ==
  ASSUME TypeInv, [Next]_vars
  PROVE  \A r \in Recipients : SidBy(r)
<1>1. ASSUME UNCHANGED sid PROVE \A r \in Recipients : SidBy(r)
  BY <1>1 DEF SidBy
<1>2. ASSUME NEW w \in Workers, Mark(w) PROVE \A r \in Recipients : SidBy(r)
  BY <1>2 DEF Mark, AtStep, SidBy, TypeInv, TypeOK
<1>3. ASSUME NEW w \in Workers, TakeJob(w) PROVE UNCHANGED sid
  BY <1>3 DEF TakeJob, StartRead, BatchJob, FinalizeJob, DueWin, SendStart, dbVars
<1>4. ASSUME NEW w \in Workers, RunJob(w), ~Mark(w) PROVE UNCHANGED sid
  BY <1>4 DEF RunJob, StartWrite, StartQueue, DueEnqueue, BatchPick, BatchEnqueue,
     CompleteCheck, CompleteRefresh, CompleteWrite, CancelRecipient, Win, MetaSent,
     Claim, Gate, Permit, ProviderCall, ExceptRead, ExceptBlocked,
     ExceptCancelled, ExceptRetry, ExceptFinal, AccountPause, dbVars
<1>5. ASSUME NEW c \in Clients, ApiRequest(c) \/ ApiFinish(c) PROVE UNCHANGED sid
  BY <1>5, AcceptedApi
<1>6. CASE Environment
  BY <1>1, <1>6 DEF Environment, Crash, Fault, Expire, Reply, DeliveryEvent, dbVars
<1>7. CASE UNCHANGED vars
  BY <1>1, <1>7 DEF vars, dbVars
<1>. QED  BY <1>1, <1>2, <1>3, <1>4, <1>5, <1>6, <1>7 DEF Next

(* A key only goes when no job works on its recipient, and is counted as   *)
(* run out; the provider accepts a message from the job that calls it.     *)
KeyBy(r) ==
  /\ expired'[r] >= expired[r] /\ sends'[r] >= sends[r]
  /\ claims[r] /\ ~claims'[r] =>
       /\ expired'[r] > 0
       /\ \A w \in Workers : wk[w].r # r /\ wk'[w].r # r
  /\ sends'[r] # sends[r] =>
       \E w \in Workers :
         wk[w].step = "provider" /\ wk[w].r = r /\ wk'[w].step = "mark"

LEMMA KeyNext ==
  ASSUME TypeInv, [Next]_vars
  PROVE  \A r \in Recipients : KeyBy(r)
<1>1. ASSUME UNCHANGED <<claims, sends, expired>> PROVE \A r \in Recipients : KeyBy(r)
  BY <1>1 DEF KeyBy, TypeInv, TypeOK
<1>2. ASSUME NEW w \in Workers, Claim(w) PROVE \A r \in Recipients : KeyBy(r)
  <2>1. UNCHANGED <<sends, expired>> /\ claims' = [claims EXCEPT ![wk[w].r] = TRUE]
    BY <1>2 DEF Claim, history
  <2>2. \A r \in Recipients : claims[r] => claims'[r]
    BY <2>1 DEF TypeInv, TypeOK
  <2>. QED  BY <2>1, <2>2 DEF KeyBy, TypeInv, TypeOK
<1>3. ASSUME NEW w \in Workers, ProviderCall(w) PROVE \A r \in Recipients : KeyBy(r)
  <2>1. wk[w].step = "provider" /\ UNCHANGED <<claims, expired>>
    BY <1>3 DEF ProviderCall, AtStep, redisVars
  <2>2. CASE UNCHANGED sends
    BY <1>1, <2>1, <2>2
  <2>3. CASE sends' = [sends EXCEPT ![wk[w].r] = @ + 1] /\ Goto(w, "mark")
    <3>1. wk'[w].step = "mark"
      BY <2>3, MovesGoto
    <3>2. \A r \in Recipients : sends'[r] >= sends[r] /\ (sends'[r] # sends[r] => wk[w].r = r)
      BY <2>3 DEF TypeInv, TypeOK
    <3>. QED  BY <2>1, <3>1, <3>2 DEF KeyBy, TypeInv, TypeOK
  <2>. QED  BY <1>3, <2>2, <2>3 DEF ProviderCall
<1>4. ASSUME NEW r \in Recipients, Expire(r) PROVE \A q \in Recipients : KeyBy(q)
  <2>1. /\ \A w \in Workers : wk[w].r # r
        /\ UNCHANGED <<sends, wk>>
        /\ expired'[r] = expired[r] + 1
        /\ \A q \in Recipients \ {r} : claims'[q] = claims[q] /\ expired'[q] = expired[q]
    BY <1>4 DEF Expire, TypeInv, TypeOK
  <2>2. \A q \in Recipients : expired[q] \in Nat /\ sends[q] \in Nat
    BY DEF TypeInv, TypeOK
  <2>. QED  BY <2>1, <2>2 DEF KeyBy
<1>5. ASSUME NEW w \in Workers, TakeJob(w) \/ RunJob(w), ~Claim(w), ~ProviderCall(w)
      PROVE  UNCHANGED <<claims, sends, expired>>
  BY <1>5, QuietTakeJob, QuietControlJob, QuietSendJob, QuietExcept DEF RunJob
<1>6. ASSUME NEW c \in Clients, ApiRequest(c) \/ ApiFinish(c)
      PROVE  UNCHANGED <<claims, sends, expired>>
  BY <1>6, ApiFrame
<1>7. ASSUME NEW w \in Workers, Crash(w) \/ Fault(w)
      PROVE  UNCHANGED <<claims, sends, expired>>
  BY <1>7 DEF Crash, Fault, redisVars, history
<1>8. ASSUME NEW r \in Recipients,
             Reply(r) \/ \E s \in ProviderStatuses : DeliveryEvent(r, s)
      PROVE  UNCHANGED <<claims, sends, expired>>
  BY <1>8 DEF Reply, DeliveryEvent, redisVars, history
<1>9. CASE UNCHANGED vars
  BY <1>1, <1>9 DEF vars, redisVars, history
<1>. QED
  BY <1>1, <1>2, <1>3, <1>4, <1>5, <1>6, <1>7, <1>8, <1>9 DEF Next, Environment

(* How a handler gets to a step. *)
ApiBy(c) ==
  api'[c] # api[c] =>
    \/ api'[c] = "idle"
    \/ api[c] = "idle" /\ \E op \in scenario.ops \cap AllApiOps :
         api'[c] \in OpSteps[op] \ {"cancel_recount"}
    \/ api[c] = "resume_write" /\ api'[c] = "resume_requeue"
    \/ api[c] = "cancel_write" /\ api'[c] = "cancel_recipients"
    \/ api[c] = "cancel_recipients" /\ api'[c] = "cancel_recount" /\ AllClosed'
    \/ api[c] = "retry_requeue" /\ api'[c] = "retry_write"

LEMMA ApiNext ==
  ASSUME TypeInv, [Next]_vars
  PROVE  /\ \A c \in Clients : ApiBy(c)
         /\ stopped' # stopped => \E c \in Clients : api[c] = "cancel_recount"
<1>1. ASSUME UNCHANGED <<api, stopped>>
      PROVE  /\ \A c \in Clients : ApiBy(c)
             /\ stopped' # stopped => \E c \in Clients : api[c] = "cancel_recount"
  BY <1>1 DEF ApiBy
<1>2. ASSUME NEW c \in Clients, ApiRequest(c)
      PROVE  (\A d \in Clients : ApiBy(d)) /\ UNCHANGED stopped
  <2>0. PICK op \in AllApiOps : \E step : Request(c, op, step)
                                          /\ step \in OpSteps[op] \ {"cancel_recount"}
    BY <1>2 DEF ApiRequest, start_campaign, pause_campaign, resume_campaign,
       cancel_campaign, retry_failed, update_campaign, delete_campaign, AllApiOps, OpSteps
  <2>1. PICK step : Request(c, op, step) /\ step \in OpSteps[op] \ {"cancel_recount"}
    BY <2>0
  <2>2. /\ op \in scenario.ops /\ api[c] = "idle" /\ api'[c] = step
        /\ \A d \in Clients \ {c} : api'[d] = api[d]
        /\ UNCHANGED stopped
    BY <2>1 DEF Request, history, TypeInv, TypeOK
  <2>. QED  BY <2>1, <2>2 DEF ApiBy
<1>3. ASSUME NEW c \in Clients, ApiFinish(c)
      PROVE  /\ \A d \in Clients : ApiBy(d)
             /\ stopped' # stopped => \E d \in Clients : api[d] = "cancel_recount"
  <2>1. ASSUME NEW from, NEW to, ApiGoto(c, from, to)
        PROVE  /\ api[c] = from /\ api'[c] = to
               /\ \A d \in Clients \ {c} : api'[d] = api[d]
    BY <2>1 DEF ApiGoto, TypeInv, TypeOK
  <2>2. CASE CancelOpenRecipients(c)
    <3>1. AllClosed'
      BY <2>2 DEF CancelOpenRecipients, MoveAll, AllClosed, RECIPIENT_OPEN
    <3>. QED  BY <2>1, <2>2, <3>1 DEF CancelOpenRecipients, ApiBy, history
  <2>3. CASE StartCommit(c) \/ PauseCommit(c) \/ ResumeCommit(c) \/ ResumeRequeue(c)
    BY <2>1, <2>3 DEF StartCommit, PauseCommit, ResumeCommit, ResumeRequeue, ApiBy, history
  <2>4. CASE CancelCommit(c) \/ CancelRecount(c)
    BY <2>1, <2>4 DEF CancelCommit, CancelRecount, ApiBy, history
  <2>5. CASE RetryRequeue(c) \/ RetryCommit(c) \/ EditCommit(c) \/ DeleteCommit(c)
    BY <2>1, <2>5 DEF RetryRequeue, RetryCommit, EditCommit, DeleteCommit, ApiBy, history
  <2>. QED  BY <1>3, <2>2, <2>3, <2>4, <2>5 DEF ApiFinish
<1>4. ASSUME NEW w \in Workers, TakeJob(w) PROVE UNCHANGED <<api, stopped>>
  BY <1>4 DEF TakeJob, StartRead, BatchJob, FinalizeJob, DueWin, SendStart, history
<1>5. ASSUME NEW w \in Workers, RunJob(w) PROVE UNCHANGED <<api, stopped>>
  BY <1>5 DEF RunJob, StartWrite, StartQueue, DueEnqueue, BatchPick, BatchEnqueue,
     CompleteCheck, CompleteRefresh, CompleteWrite, CancelRecipient, Win, MetaSent,
     Claim, Gate, Permit, ProviderCall, Mark, ExceptRead, ExceptBlocked,
     ExceptCancelled, ExceptRetry, ExceptFinal, AccountPause, history
<1>6. CASE Environment
  BY <1>1, <1>6 DEF Environment, Crash, Fault, Expire, Reply, DeliveryEvent, history
<1>7. CASE UNCHANGED vars
  BY <1>1, <1>7 DEF vars, history
<1>. QED  BY <1>1, <1>2, <1>3, <1>4, <1>5, <1>6, <1>7 DEF Next

(* Only the completion check and cancel end a campaign. *)
CampaignEndsBy ==
  cstat' # cstat /\ cstat' \in TERMINAL_STATUSES =>
    \/ \E w \in Workers : wk[w].step = "complete_write" /\ wk[w].seen = cstat'
    \/ \E c \in Clients : api[c] \in {"cancel_write", "cancel_recount"}

LEMMA CampaignNext ==
  ASSUME TypeInv, [Next]_vars
  PROVE  CampaignEndsBy
<1>. USE DEF CampaignEndsBy, TERMINAL_STATUSES, SetCampaign
<1>1. ASSUME NEW w \in Workers, TakeJob(w) PROVE CampaignEndsBy
  BY <1>1 DEF TakeJob, StartRead, BatchJob, FinalizeJob, DueWin, SendStart, dbVars
<1>2. ASSUME NEW w \in Workers, RunJob(w) PROVE CampaignEndsBy
  <2>1. CASE CompleteWrite(w)
    BY <2>1 DEF CompleteWrite, AtStep
  <2>2. CASE StartWrite(w) \/ AccountPause(w)
    BY <2>2 DEF StartWrite, AccountPause
  <2>. QED
    BY <1>2, <2>1, <2>2
    DEF RunJob, StartQueue, DueEnqueue, BatchPick, BatchEnqueue,
      CompleteCheck, CompleteRefresh, CancelRecipient, Win, MetaSent,
      Claim, Gate, Permit, ProviderCall, Mark, ExceptRead, ExceptBlocked,
      ExceptCancelled, ExceptRetry, ExceptFinal, dbVars
<1>3. ASSUME NEW c \in Clients, ApiRequest(c) PROVE UNCHANGED cstat
  BY <1>3 DEF ApiRequest, Request, start_campaign, pause_campaign, resume_campaign,
     cancel_campaign, retry_failed, update_campaign, delete_campaign, dbVars
<1>4. ASSUME NEW c \in Clients, ApiFinish(c) PROVE CampaignEndsBy
  BY <1>4 DEF ApiFinish, ApiGoto, StartCommit, PauseCommit, ResumeCommit, ResumeRequeue,
     CancelCommit, CancelOpenRecipients, CancelRecount, RetryRequeue, RetryCommit,
     EditCommit, DeleteCommit
<1>5. CASE Environment
  BY <1>5 DEF Environment, Crash, Fault, Expire, Reply, DeliveryEvent, dbVars
<1>6. CASE UNCHANGED vars
  BY <1>6 DEF vars, dbVars
<1>. QED  BY <1>1, <1>2, <1>3, <1>4, <1>5, <1>6 DEF Next

-----------------------------------------------------------------------------
(* Who may still write a recipient's status, and what it says meanwhile.   *)

(* A recipient of a job at one of its steps. *)
LEMMA HasRecipient ==
  ASSUME TypeInv, NEW w \in Workers, wk[w].step \in RecipientSteps
  PROVE  wk[w].r \in Recipients
BY DEF TypeInv, LocalsSet

LEMMA SentIsSpent ==
  ASSUME TypeInv, ClaimInv, AcceptedInv, NEW r \in Recipients, sid[r]
  PROVE  sends[r] > 0 /\ Spent(r)
BY DEF TypeInv, TypeOK, ClaimInv, AcceptedInv, Spent

LEMMA SpentStays ==
  ASSUME TypeInv, TypeInv', NEW r \in Recipients, KeyBy(r), Spent(r)
  PROVE  Spent(r)'
BY DEF TypeInv, TypeOK, KeyBy, Spent

(* A job owns the key because it did before, or because it won it just now *)
(* from nobody.                                                            *)
LEMMA OwnerBefore ==
  ASSUME TypeInv, [Next]_vars, FaultFree, OwnerInv, NEW w \in Workers, Owner(w)'
  PROVE  /\ wk'[w].r = wk[w].r /\ wk[w].r \in Recipients
         /\ \/ Owner(w)
            \/ /\ wk[w].step = "claim" /\ wk'[w].step = "gate"
               /\ ~claims[wk[w].r] /\ claims'[wk[w].r]
         /\ claims'[wk[w].r]
<1>1. Moved(w)
  BY MovesNext
<1>2. /\ wk'[w].r = wk[w].r
      /\ \/ Owner(w)
         \/ /\ wk[w].step = "claim" /\ wk'[w].step = "gate"
            /\ ~claims[wk[w].r] /\ claims'[wk[w].r]
  <2>1. CASE wk'[w] = wk[w]
    BY <2>1 DEF Owner
  <2>2. CASE wk'[w] # wk[w]
    BY <1>1, <2>2 DEF Moved, Owner, RecipientSteps, FaultFree
  <2>. QED  BY <2>1, <2>2
<1>3. wk[w].r \in Recipients
  BY <1>2, HasRecipient DEF Owner, RecipientSteps
<1>4. claims'[wk[w].r]
  BY <1>2, <1>3, KeyNext DEF KeyBy, OwnerInv
<1>. QED  BY <1>2, <1>3, <1>4

(* Likewise for the jobs that have not sent: one more just took up its     *)
(* recipient, and does not find the key taken.                             *)
LEMMA UnsentBefore ==
  ASSUME TypeInv, [Next]_vars, FaultFree, OwnerInv, NEW w \in Workers, Unsent(w)'
  PROVE  /\ wk'[w].r = wk[w].r /\ wk[w].r \in Recipients
         /\ wk'[w].step # "mark"
         /\ \/ Unsent(w)
            \/ /\ wk[w].step = "win" /\ wk'[w].step = "claim" /\ wk'[w] # wk[w]
               /\ ~claims'[wk[w].r] /\ rstat[wk[w].r] \in Winnable
               /\ rstat'[wk[w].r] = "processing"
               /\ ~(scenario.provider = "meta" /\ sid[wk[w].r])
<1>1. CASE Owner(w)'
  <2>1. wk'[w].step # "mark"
    BY <1>1 DEF Unsent, Owner
  <2>2. Unsent(w)
    <3>1. CASE wk[w].step = "mark"
      <4>1. wk'[w] # wk[w] /\ Moved(w)
        BY <2>1, <3>1, MovesNext
      <4>. QED  BY <1>1, <2>1, <3>1, <4>1 DEF Moved, Owner, FaultFree
    <3>. QED  BY <1>1, <3>1, OwnerBefore DEF Unsent
  <2>. QED  BY <1>1, <2>1, <2>2, OwnerBefore
<1>2. CASE ~Owner(w)'
  <2>1. wk'[w].step = "claim" /\ ~claims'[wk'[w].r]
    BY <1>2 DEF Unsent
  <2>2. CASE wk'[w] = wk[w]
    <3>1. wk[w].r \in Recipients
      BY <2>1, <2>2, HasRecipient DEF RecipientSteps
    <3>2. ~claims[wk[w].r]
      BY <2>1, <2>2, <3>1, KeyNext DEF KeyBy
    <3>. QED  BY <2>1, <2>2, <3>1, <3>2 DEF Unsent
  <2>3. CASE wk'[w] # wk[w]
    <3>1. wk'[w].r = wk[w].r /\ wk[w].step = "win"
      BY <2>1, <2>3, MovesNext DEF Moved, RecipientSteps
    <3>. QED  BY <2>1, <2>3, <3>1, HasRecipient, MovesNext DEF Moved, RecipientSteps
  <2>. QED  BY <2>2, <2>3
<1>. QED  BY <1>1, <1>2

(* Nobody at the steps that record or send works on the recipient of       *)
(* another job that has not sent.                                          *)
LEMMA UnsentAlone ==
  ASSUME FaultFree, OwnerInv, NEW w \in Workers, Unsent(w),
         NEW v \in Workers, Owner(v), wk[v].r = wk[w].r
  PROVE  v = w
BY DEF OwnerInv, Unsent

(* What is said of a recipient whose job has not sent stays so. *)
LEMMA UnsentStays ==
  ASSUME TypeInv, ClaimInv, AcceptedInv, OwnerInv, [Next]_vars, FaultFree,
         NEW w \in Workers, Unsent(w), Unsent(w)', wk'[w].r = wk[w].r,
         wk'[w].step # "mark"
  PROVE  /\ sends'[wk[w].r] <= expired'[wk[w].r]
         /\ scenario.provider = "meta" => ~sid'[wk[w].r]
         /\ rstat'[wk[w].r] \in SuccessStatuses => LateCallback(wk[w].r)'
<1>. DEFINE r == wk[w].r
<1>1. r \in Recipients
  BY HasRecipient DEF Unsent, Owner, RecipientSteps
<1>2. /\ sends[r] <= expired[r] /\ (scenario.provider = "meta" => ~sid[r])
      /\ rstat[r] \in SuccessStatuses => LateCallback(r)
  BY DEF OwnerInv
<1>3. KeyBy(r) /\ SidBy(r) /\ StatusBy(r)
  BY <1>1, KeyNext, SidNext, StatusNext
<1>4. /\ sends[r] \in Nat /\ expired[r] \in Nat /\ sends'[r] \in Nat /\ expired'[r] \in Nat
      /\ scenario.provider \in {"meta", "twilio"}
  BY <1>1, TypeNext DEF TypeInv, TypeOK, ScenarioTypes
<1>5. ASSUME NEW v \in Workers, wk[v].r = r, wk[v].step = "mark" PROVE FALSE
  <2>1. v = w
    BY <1>5, UnsentAlone DEF Owner
  <2>. QED  BY <1>5, <2>1 DEF Unsent, Owner
<1>6. sends'[r] = sends[r]
  <2>1. ASSUME NEW v \in Workers, wk[v].r = r, wk[v].step = "provider", wk'[v].step = "mark"
        PROVE  FALSE
    <3>1. v = w
      BY <2>1, UnsentAlone DEF Owner
    <3>. QED  BY <2>1, <3>1
  <2>. QED  BY <1>3, <2>1 DEF KeyBy
<1>7. sends'[r] <= expired'[r]
  BY <1>2, <1>3, <1>4, <1>6 DEF KeyBy
<1>8. scenario.provider = "meta" => ~sid'[r]
  BY <1>2, <1>3, <1>5 DEF SidBy
<1>9. LateCallback(r) => LateCallback(r)'
  BY <1>3, <1>4, ScenarioFixed DEF LateCallback, KeyBy
<1>10. ASSUME rstat'[r] \in SuccessStatuses, rstat[r] \notin SuccessStatuses
       PROVE  LateCallback(r)'
  <2>1. CASE \E v \in Workers : wk[v].r = r /\ WritesStatus(v, rstat'[r])
    <3>1. PICK v \in Workers : wk[v].r = r /\ WritesStatus(v, rstat'[r])
      BY <2>1
    <3>2. wk[v].step \in {"mark", "meta_sent"}
      BY <1>10, <3>1 DEF WritesStatus, SuccessStatuses
    <3>3. wk[v].step = "meta_sent"
      BY <1>5, <3>1, <3>2
    <3>. QED  BY <1>2, <3>1, <3>3 DEF OwnerInv
  <2>2. CASE "event" \in scenario.outcomes /\ sid[r]
    <3>1. sends[r] > 0
      BY <1>1, <2>2, SentIsSpent
    <3>2. scenario.provider = "twilio"
      BY <1>2, <1>4, <2>2
    <3>3. expired'[r] > 0
      BY <1>3, <1>2, <1>4, <3>1 DEF KeyBy
    <3>. QED  BY <2>2, <3>2, <3>3, ScenarioFixed DEF LateCallback
  <2>. QED  BY <1>3, <1>10, <2>1, <2>2 DEF StatusBy, SuccessStatuses
<1>. QED  BY <1>2, <1>7, <1>8, <1>9, <1>10

(* What is said of a recipient a job has just taken up. *)
LEMMA UnsentStarts ==
  ASSUME TypeInv, ClaimInv', [Next]_vars, NEW w \in Workers,
         wk[w].step = "win", wk'[w] # wk[w], wk[w].r \in Recipients,
         ~claims'[wk[w].r], rstat'[wk[w].r] = "processing",
         ~(scenario.provider = "meta" /\ sid[wk[w].r])
  PROVE  /\ sends'[wk[w].r] <= expired'[wk[w].r]
         /\ scenario.provider = "meta" => ~sid'[wk[w].r]
         /\ rstat'[wk[w].r] \notin SuccessStatuses
<1>. DEFINE r == wk[w].r
<1>1. sends'[r] <= expired'[r]
  <2>1. sends'[r] \in Nat /\ expired'[r] \in Nat
    BY TypeNext DEF TypeInv, TypeOK
  <2>2. sends'[r] <= expired'[r] + (IF claims'[r] THEN 1 ELSE 0)
    BY DEF ClaimInv
  <2>. QED  BY <2>1, <2>2
<1>2. sid'[r] => sid[r]
  BY SidNext DEF SidBy
<1>. QED  BY <1>1, <1>2 DEF SuccessStatuses

LEMMA OwnerNext ==
  TypeInv /\ ClaimInv /\ AcceptedInv /\ OwnerInv /\ [Next]_vars => OwnerInv'
<1>. SUFFICES ASSUME TypeInv, ClaimInv, AcceptedInv, OwnerInv, [Next]_vars, FaultFree'
              PROVE  OwnerInv'
  BY DEF OwnerInv
<1>1. FaultFree
  BY ScenarioFixed DEF FaultFree
<1>2. ASSUME NEW w \in Workers, Owner(w)' PROVE claims'[wk'[w].r]
  BY <1>1, <1>2, OwnerBefore
<1>3. ASSUME NEW v \in Workers, NEW w \in Workers, Owner(v)', Owner(w)', wk'[v].r = wk'[w].r
      PROVE  v = w
  <2>1. wk[v].r = wk[w].r
    BY <1>1, <1>3, OwnerBefore
  <2>2. CASE Owner(v) /\ Owner(w)
    BY <1>1, <2>1, <2>2 DEF OwnerInv
  <2>3. CASE ~Owner(v) /\ ~Owner(w)
    <3>1. wk'[v] # wk[v] /\ wk'[w] # wk[w]
      BY <1>3, <2>3 DEF Owner
    <3>. QED  BY <3>1, MovesNext
  <2>4. ASSUME NEW t \in Workers, NEW u \in Workers, Owner(t), ~Owner(u), Owner(u)',
               wk[t].r = wk[u].r
        PROVE  FALSE
    BY <1>1, <2>4, OwnerBefore DEF OwnerInv
  <2>. QED  BY <1>3, <2>1, <2>2, <2>3, <2>4
<1>4. ASSUME NEW w \in Workers, Unsent(w)'
      PROVE  /\ sends'[wk'[w].r] <= expired'[wk'[w].r]
             /\ scenario'.provider = "meta" => ~sid'[wk'[w].r]
             /\ rstat'[wk'[w].r] \in SuccessStatuses => LateCallback(wk[w].r)'
  <2>1. wk'[w].r = wk[w].r /\ wk[w].r \in Recipients /\ wk'[w].step # "mark"
    BY <1>1, <1>4, UnsentBefore
  <2>2. CASE Unsent(w)
    BY <1>1, <1>4, <2>1, <2>2, UnsentStays, ScenarioFixed
  <2>3. CASE ~Unsent(w)
    <3>1. /\ wk[w].step = "win" /\ wk'[w] # wk[w] /\ ~claims'[wk[w].r]
          /\ rstat'[wk[w].r] = "processing"
          /\ ~(scenario.provider = "meta" /\ sid[wk[w].r])
      BY <1>1, <1>4, <2>3, UnsentBefore
    <3>. QED  BY <2>1, <3>1, UnsentStarts, ClaimNext, ScenarioFixed
  <2>. QED  BY <2>2, <2>3
<1>5. ASSUME NEW w \in Workers, wk'[w].step = "meta_sent"
      PROVE  scenario'.provider = "meta" /\ sid'[wk'[w].r]
  <2>1. CASE wk'[w] = wk[w]
    <3>1. wk[w].r \in Recipients /\ scenario.provider = "meta" /\ sid[wk[w].r]
      BY <1>1, <1>5, <2>1, HasRecipient DEF OwnerInv, RecipientSteps
    <3>. QED  BY <2>1, <3>1, SidNext, ScenarioFixed DEF SidBy
  <2>2. CASE wk'[w] # wk[w]
    <3>1. wk'[w].r = wk[w].r /\ wk[w].step = "win" /\ scenario.provider = "meta" /\ sid[wk[w].r]
      BY <1>5, <2>2, MovesNext DEF Moved, RecipientSteps
    <3>2. wk[w].r \in Recipients
      BY <3>1, HasRecipient DEF RecipientSteps
    <3>. QED  BY <3>1, <3>2, SidNext, ScenarioFixed DEF SidBy
  <2>. QED  BY <2>1, <2>2
<1>. QED  BY <1>2, <1>3, <1>4, <1>5 DEF OwnerInv

LEMMA OwnerInit == Init => OwnerInv
BY DEF Init, OwnerInv, Owner, Unsent, Idle

-----------------------------------------------------------------------------
(* Cancel, and the completed campaign.                                     *)

(* Who may open a recipient that was not open. *)
LEMMA OpenedBy ==
  ASSUME TypeInv, [Next]_vars, NEW r \in Recipients,
         rstat'[r] \in RECIPIENT_OPEN, rstat[r] \notin RECIPIENT_OPEN
  PROVE  \/ rstat[r] = "failed" /\ \E c \in Clients : api[c] = "retry_requeue"
         \/ \E w \in Workers : wk[w].r = r /\ wk[w].step \in {"permit", "except_write"}
BY StatusNext DEF StatusBy, WritesStatus, RECIPIENT_OPEN, Winnable

LEMMA OwnerIsSpent ==
  ASSUME FaultFree, OwnerInv, NEW w \in Workers, Owner(w)
  PROVE  Spent(wk[w].r)
BY DEF OwnerInv, Spent

LEMMA SpentNext ==
  /\ TypeInv /\ ClaimInv /\ AcceptedInv /\ OwnerInv /\ SpentInv
  /\ [Next]_vars
  => SpentInv'
<1>. SUFFICES ASSUME TypeInv, ClaimInv, AcceptedInv, OwnerInv, SpentInv, [Next]_vars,
                     FaultFree'
              PROVE  SpentInv'
  BY DEF SpentInv
<1>1. FaultFree /\ TypeInv'
  BY ScenarioFixed, TypeNext DEF FaultFree
<1>2. \A r \in Recipients : Spent(r) => Spent(r)'
  BY <1>1, SpentStays, KeyNext
<1>3. ASSUME NEW r \in Recipients, rstat'[r] = "failed" PROVE Spent(r)'
  <2>1. CASE rstat[r] = "failed"
    BY <1>1, <1>2, <2>1 DEF SpentInv
  <2>2. CASE rstat[r] # "failed"
    <3>1. \/ sid[r]
          \/ \E w \in Workers : wk[w].r = r /\ wk[w].step = "except_write"
      BY <1>3, <2>2, StatusNext DEF StatusBy, WritesStatus
    <3>2. Spent(r)
      BY <1>1, <3>1, SentIsSpent, OwnerIsSpent DEF Owner
    <3>. QED  BY <1>2, <3>2
  <2>. QED  BY <2>1, <2>2
<1>4. ASSUME stopped \/ \E c \in Clients : api[c] = "cancel_recount",
             NEW r \in Recipients, rstat'[r] \in RECIPIENT_OPEN
      PROVE  Spent(r)'
  <2>1. CASE rstat[r] \in RECIPIENT_OPEN
    BY <1>1, <1>2, <1>4, <2>1 DEF SpentInv
  <2>2. CASE rstat[r] \notin RECIPIENT_OPEN
    <3>1. \/ rstat[r] = "failed"
          \/ \E w \in Workers : wk[w].r = r /\ wk[w].step \in {"permit", "except_write"}
      BY <1>4, <2>2, OpenedBy
    <3>2. Spent(r)
      BY <1>1, <3>1, OwnerIsSpent DEF Owner, SpentInv
    <3>. QED  BY <1>2, <3>2
  <2>. QED  BY <2>1, <2>2
<1>5. ASSUME stopped' \/ \E c \in Clients : api'[c] = "cancel_recount",
             ~(stopped \/ \E c \in Clients : api[c] = "cancel_recount")
      PROVE  AllClosed'
  <2>1. PICK c \in Clients : api'[c] = "cancel_recount" /\ api'[c] # api[c]
    BY <1>5, ApiNext
  <2>2. ApiBy(c)
    BY ApiNext
  <2>. QED  BY <2>1, <2>2 DEF ApiBy, OpSteps, AllApiOps
<1>6. AllClosed' => \A r \in Recipients : rstat'[r] \notin RECIPIENT_OPEN
  BY DEF AllClosed
<1>. QED  BY <1>3, <1>4, <1>5, <1>6 DEF SpentInv

LEMMA SpentInit == Init => SpentInv
BY DEF Init, SpentInv

(* A campaign counted as completed, with nobody open, has everybody sent.  *)
LEMMA FinalizeCompleted ==
  ASSUME TypeInv, AllClosed, \A r \in Recipients : rstat[r] # "gone",
         finalize_status_from_counts(cstat, rstat) = "completed",
         NEW r \in Recipients
  PROVE  rstat[r] \in SuccessStatuses
<1>. DEFINE total  == InStatus(rstat, RecipientStatuses \ {"gone"})
            sent   == InStatus(rstat, SuccessStatuses)
            ended  == InStatus(rstat, {"failed", "skipped", "cancelled"})
<1>1. (sent # {} /\ ended = {}) \/ (sent = {} /\ ended # total)
  BY DEF finalize_status_from_counts
<1>2. DOMAIN rstat = Recipients /\ \A q \in Recipients : rstat[q] \in RecipientStatuses
  BY DEF TypeInv, TypeOK
<1>3. \A q \in Recipients :
        \/ rstat[q] \in SuccessStatuses
        \/ rstat[q] \in {"failed", "skipped", "cancelled"}
  BY <1>2 DEF AllClosed, RecipientStatuses, RECIPIENT_OPEN, RECIPIENT_TERMINAL,
     SuccessStatuses
<1>4. sent = {} => ended = total
  <2>1. ASSUME sent = {} PROVE \A q \in Recipients : rstat[q] \in {"failed", "skipped", "cancelled"}
    BY <1>2, <1>3, <2>1 DEF InStatus
  <2>2. {"failed", "skipped", "cancelled"} \subseteq RecipientStatuses \ {"gone"}
    BY DEF RecipientStatuses, RECIPIENT_TERMINAL
  <2>. QED  BY <1>2, <2>1, <2>2 DEF InStatus
<1>. QED  BY <1>1, <1>2, <1>3, <1>4 DEF InStatus

(* The hypotheses of the last invariant. *)
Undisturbed == FaultFree /\ scenario.ops \subseteq PlainOps /\ ClosedInv

LEMMA PlainApi ==
  ASSUME Undisturbed, NEW c \in Clients
  PROVE  api[c] \in {"idle", "start_write", "pause_write", "resume_write",
                     "resume_requeue"}
BY DEF Undisturbed, ClosedInv, PlainOps, OpSteps

LEMMA PlainApiNext ==
  ASSUME TypeInv, Undisturbed, [Next]_vars, NEW c \in Clients
  PROVE  api'[c] \in {"idle"} \cup UNION {OpSteps[op] : op \in PlainOps}
<1>1. ApiBy(c)
  BY ApiNext
<1>2. scenario.ops \subseteq PlainOps /\ (api'[c] = api[c] => api'[c] \in {"idle"} \cup UNION {OpSteps[op] : op \in PlainOps})
  BY DEF Undisturbed, ClosedInv
<1>3. CASE api'[c] \in {"idle", "resume_requeue"}
  BY <1>3 DEF PlainOps, OpSteps
<1>4. CASE api'[c] # api[c] /\ \E op \in scenario.ops : api'[c] \in OpSteps[op]
  BY <1>2, <1>4
<1>. QED  BY <1>1, <1>2, <1>3, <1>4, PlainApi DEF ApiBy

(* Nobody is opened again: who may be written as open is open already. *)
LEMMA NobodyOpened ==
  ASSUME TypeInv, Undisturbed, [Next]_vars, NEW r \in Recipients,
         rstat[r] \notin RECIPIENT_OPEN
  PROVE  rstat'[r] \notin RECIPIENT_OPEN
<1>. SUFFICES ASSUME rstat'[r] \in RECIPIENT_OPEN PROVE FALSE
  OBVIOUS
<1>1. PICK w \in Workers : wk[w].r = r /\ wk[w].step \in {"permit", "except_write"}
  BY OpenedBy, PlainApi
<1>2. Unsent(w)
  BY <1>1 DEF Unsent, Owner
<1>. QED  BY <1>1, <1>2 DEF Undisturbed, ClosedInv

LEMMA StaysClosed ==
  ASSUME TypeInv, Undisturbed, [Next]_vars, AllClosed
  PROVE  AllClosed'
BY NobodyOpened DEF AllClosed

(* A recipient a job may still send to stays open. *)
LEMMA UnsentIsOpen ==
  ASSUME TypeInv, OwnerInv, Undisturbed, [Next]_vars,
         NEW w \in Workers, Unsent(w)'
  PROVE  rstat'[wk'[w].r] \in RECIPIENT_OPEN
<1>. DEFINE r == wk[w].r
<1>. USE DEF Undisturbed
<1>1. wk'[w].r = r /\ r \in Recipients
  BY UnsentBefore
<1>2. CASE ~Unsent(w)
  BY <1>1, <1>2, UnsentBefore DEF RECIPIENT_OPEN
<1>3. CASE Unsent(w)
  <2>1. rstat[r] \in RECIPIENT_OPEN
    BY <1>3 DEF ClosedInv
  <2>2. SUFFICES ASSUME rstat'[r] \notin RECIPIENT_OPEN PROVE FALSE
    BY <1>1
  <2>3. ~sid[r] /\ rstat[r] \notin SuccessStatuses
    BY <1>1, <2>1 DEF ClosedInv, RECIPIENT_OPEN, SuccessStatuses
  <2>4. \A c \in Clients : api[c] \notin {"cancel_recipients", "delete_write"}
    BY PlainApi
  <2>5. PICK v \in Workers :
          /\ wk[v].r = r /\ WritesStatus(v, rstat'[r])
          /\ wk'[v].step \in {"idle", "complete_check", "account_pause"}
    <3>1. StatusBy(r) /\ rstat'[r] # rstat[r]
      BY <1>1, <2>1, <2>2, StatusNext
    <3>. QED  BY <2>1, <2>2, <2>3, <2>4, <3>1 DEF StatusBy, RECIPIENT_OPEN
  <2>6. wk[v].step \in {"gate", "mark", "except_write"}
    <3>1. wk[v].step # "meta_sent" /\ wk[v].step # "cancel_recipient"
      BY <1>1, <2>1 DEF ClosedInv, AllClosed
    <3>. QED  BY <2>2, <2>5, <3>1 DEF WritesStatus, RECIPIENT_OPEN
  <2>7. v = w
    BY <1>3, <2>5, <2>6, UnsentAlone DEF Owner
  <2>. QED  BY <2>5, <2>7 DEF Unsent, Owner
<1>. QED  BY <1>2, <1>3

LEMMA ClosedNext ==
  /\ TypeInv /\ ClaimInv /\ AcceptedInv /\ OwnerInv /\ ClosedInv
  /\ [Next]_vars
  => ClosedInv'
<1>. SUFFICES ASSUME TypeInv, ClaimInv, AcceptedInv, OwnerInv, ClosedInv, [Next]_vars,
                     FaultFree', scenario'.ops \subseteq PlainOps
              PROVE  ClosedInv'
  BY DEF ClosedInv
<1>1. Undisturbed
  BY ScenarioFixed DEF Undisturbed, FaultFree
<1>2. ASSUME NEW r \in Recipients
      PROVE  rstat'[r] # "gone" /\ (sid'[r] => rstat'[r] \notin RECIPIENT_OPEN)
  <2>1. rstat[r] # "gone" /\ (sid[r] => rstat[r] \notin RECIPIENT_OPEN)
    BY <1>1 DEF Undisturbed, ClosedInv
  <2>2. rstat'[r] # "gone"
    BY <1>1, <2>1, PlainApi, StatusNext DEF StatusBy, WritesStatus
  <2>3. sid[r] => rstat'[r] \notin RECIPIENT_OPEN
    BY <1>1, <2>1, NobodyOpened
  <2>4. sid'[r] /\ ~sid[r] => rstat'[r] \notin RECIPIENT_OPEN
    BY SidNext DEF SidBy, RECIPIENT_OPEN
  <2>. QED  BY <2>2, <2>3, <2>4
<1>3. ASSUME NEW w \in Workers, wk'[w].step = "meta_sent" PROVE FALSE
  <2>1. wk[w].step # "meta_sent"
    BY <1>1 DEF Undisturbed, ClosedInv
  <2>2. wk[w].step = "win" /\ rstat[wk[w].r] \in Winnable /\ sid[wk[w].r]
    BY <1>3, <2>1, MovesNext DEF Moved
  <2>3. wk[w].r \in Recipients
    BY <2>2, HasRecipient DEF RecipientSteps
  <2>. QED  BY <1>1, <2>2, <2>3 DEF Undisturbed, ClosedInv, Winnable, RECIPIENT_OPEN
<1>4. ASSUME NEW w \in Workers,
             wk'[w].step \in {"complete_refresh", "complete_write", "cancel_recipient"}
      PROVE  AllClosed'
  <2>1. AllClosed
    <3>1. CASE wk'[w] = wk[w]
      BY <1>1, <1>4, <3>1 DEF Undisturbed, ClosedInv
    <3>2. CASE wk'[w] # wk[w]
      BY <1>1, <1>4, <3>2, MovesNext DEF Moved, Undisturbed, ClosedInv
    <3>. QED  BY <3>1, <3>2
  <2>. QED  BY <1>1, <2>1, StaysClosed
<1>5. ASSUME \A r \in Recipients : sends[r] > 0 PROVE \A r \in Recipients : sends'[r] > 0
  <2>1. \A r \in Recipients : sends[r] \in Nat /\ sends'[r] \in Nat /\ sends'[r] >= sends[r]
    BY KeyNext, TypeNext DEF KeyBy, TypeInv, TypeOK
  <2>. QED  BY <1>5, <2>1
<1>6. ASSUME NEW w \in Workers, wk'[w].step = "complete_write", wk'[w].seen = "completed"
      PROVE  \A r \in Recipients : sends'[r] > 0
  <2>1. CASE wk'[w] = wk[w]
    BY <1>1, <1>5, <1>6, <2>1 DEF Undisturbed, ClosedInv
  <2>2. CASE wk'[w] # wk[w]
    <3>1. /\ wk[w].step = "complete_refresh"
          /\ finalize_status_from_counts(cstat, rstat) = "completed"
      BY <1>6, <2>2, MovesNext DEF Moved
    <3>2. AllClosed /\ \A r \in Recipients : rstat[r] # "gone"
      BY <1>1, <3>1 DEF Undisturbed, ClosedInv
    <3>3. \A r \in Recipients : sends[r] > 0
      BY <3>1, <3>2, FinalizeCompleted DEF AcceptedInv, SentMeansAccepted
    <3>. QED  BY <1>5, <3>3
  <2>. QED  BY <2>1, <2>2
<1>7. CASE cstat' = cstat
  <2>1. cstat' \in TERMINAL_STATUSES => AllClosed'
    BY <1>1, <1>7, StaysClosed DEF Undisturbed, ClosedInv
  <2>2. cstat' = "completed" => \A r \in Recipients : sends'[r] > 0
    BY <1>1, <1>5, <1>7 DEF Undisturbed, ClosedInv
  <2>. QED
    BY <1>1, <1>2, <1>3, <1>4, <1>6, <2>1, <2>2, UnsentIsOpen, PlainApiNext DEF ClosedInv
<1>8. CASE cstat' # cstat
  <2>1. ASSUME cstat' \in TERMINAL_STATUSES
        PROVE  \E w \in Workers : wk[w].step = "complete_write" /\ wk[w].seen = cstat'
    BY <1>1, <1>8, <2>1, PlainApi, CampaignNext DEF CampaignEndsBy
  <2>2. cstat' \in TERMINAL_STATUSES => AllClosed'
    BY <1>1, <2>1, StaysClosed DEF Undisturbed, ClosedInv
  <2>3. cstat' = "completed" => \A r \in Recipients : sends'[r] > 0
    BY <1>1, <1>5, <2>1 DEF Undisturbed, ClosedInv, TERMINAL_STATUSES
  <2>. QED
    BY <1>1, <1>2, <1>3, <1>4, <1>6, <2>2, <2>3, UnsentIsOpen, PlainApiNext DEF ClosedInv
<1>. QED  BY <1>7, <1>8

LEMMA ClosedInit == Init => ClosedInv
BY DEF Init, ClosedInv, Unsent, Owner, Idle, TERMINAL_STATUSES

(* The inductive invariant holds in every reachable state: one job at most *)
(* owns a key, its recipient is not shown as sent before it sent, only     *)
(* spent recipients come back after a cancel, and a campaign found without *)
(* open recipients has none again.                                         *)
THEOREM EngineInvariant == Spec => []EngineInv
<1>1. Init => EngineInv
  BY InitTypeInv, ClaimInit, AcceptedInit, OwnerInit, SpentInit, ClosedInit
  DEF EngineInv, TypeInv
<1>2. EngineInv /\ [Next]_vars => EngineInv'
  BY TypeNext, ClaimNext, AcceptedNext, OwnerNext, SpentNext, ClosedNext
  DEF EngineInv, TypeInv
<1>. QED  BY <1>1, <1>2, PTL DEF Spec

(* Outside faults and late callbacks no step takes a recipient that has    *)
(* its message back into the pipeline: the job that writes "queued" or     *)
(* "retrying" without looking still owns the key and has not sent.         *)
THEOREM SuccessStays == Spec => SuccessNotReopened
<1>1. ASSUME EngineInv, [Next]_vars, NEW r \in Recipients,
             rstat[r] \in SuccessStatuses, rstat'[r] \in RECIPIENT_OPEN
      PROVE  "fault" \in scenario.outcomes \/ LateCallback(r)
  <2>. SUFFICES ASSUME FaultFree PROVE LateCallback(r)
    BY DEF FaultFree
  <2>1. PICK w \in Workers : wk[w].r = r /\ wk[w].step \in {"permit", "except_write"}
    BY <1>1, OpenedBy DEF EngineInv, TypeInv, SuccessStatuses, RECIPIENT_OPEN
  <2>2. Unsent(w)
    BY <2>1 DEF Unsent, Owner
  <2>. QED  BY <1>1, <2>1, <2>2 DEF EngineInv, OwnerInv
<1>2. EngineInv /\ [Next]_vars =>
        [\A r \in Recipients :
           rstat[r] \in SuccessStatuses /\ rstat'[r] \in RECIPIENT_OPEN
             => "fault" \in scenario.outcomes \/ LateCallback(r)]_vars
  BY <1>1
<1>. QED  BY <1>2, EngineInvariant, PTL DEF Spec, SuccessNotReopened

(* After a cancel has returned a send job takes up a recipient only if the *)
(* recipient's key is spent, whatever job was in flight and whatever it    *)
(* writes; a fault before the claim is the one exception.                  *)
THEOREM CancelStops == Spec => CancelStopsNewSends
<1>1. ASSUME EngineInv, [Next]_vars, stopped, NEW r \in Recipients,
             rstat[r] # "processing", rstat'[r] = "processing"
      PROVE  Spent(r) \/ "fault" \in scenario.outcomes
  <2>. SUFFICES ASSUME FaultFree PROVE Spent(r)
    BY DEF FaultFree
  <2>1. rstat[r] \in RECIPIENT_OPEN
    BY <1>1, StatusNext DEF EngineInv, TypeInv, StatusBy, WritesStatus, Winnable,
       RECIPIENT_OPEN
  <2>. QED  BY <1>1, <2>1 DEF EngineInv, SpentInv
<1>2. EngineInv /\ [Next]_vars =>
        [stopped => \A r \in Recipients :
           rstat[r] # "processing" /\ rstat'[r] = "processing"
             => Spent(r) \/ "fault" \in scenario.outcomes]_vars
  BY <1>1
<1>. QED  BY <1>2, EngineInvariant, PTL DEF Spec, CancelStopsNewSends

(* Without cancel, retry and faults a campaign reported as completed has   *)
(* left nobody out, although the open count, the second read and the write *)
(* of the completion check are three steps.                                *)
THEOREM CompletedIsSent == Spec => []CompletedMeansAllSent
<1>1. EngineInv => CompletedMeansAllSent
  BY DEF EngineInv, ClosedInv, CompletedMeansAllSent, FaultFree, PlainOps
<1>. QED  BY <1>1, EngineInvariant, PTL

=============================================================================
