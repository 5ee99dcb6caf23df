--------------------------- MODULE CampaignEngine ---------------------------
(***************************************************************************)
(* One bulk WhatsApp campaign: the API handlers that start, pause, resume, *)
(* cancel, retry, edit and delete it (app/routes/campaigns.py), the RQ     *)
(* jobs that send it (app/workers/campaign_tasks.py), the Redis            *)
(* idempotency claim that guards every send (app/services/idempotency.py)  *)
(* and the provider callbacks that move its recipients afterwards          *)
(* (app/services/status_callback.py, app/services/inbound_whatsapp.py).    *)
(*                                                                         *)
(* Granularity: one step per MongoDB or Redis operation whose effect       *)
(* another process can observe; a read is merged into the step after it    *)
(* only when no other process can change what was read to any effect.      *)
(***************************************************************************)
EXTENDS RecipientStatus

CONSTANTS
  Recipients,    \* the campaign's recipient documents
  Workers,       \* RQ worker processes
  Clients,       \* concurrent API requests
  MaxRetries,    \* max(WHATSAPP_MAX_RETRIES, CAMPAIGN_MAX_RETRIES)
  BatchSize,     \* CAMPAIGN_BATCH_SIZE
  MaxJobs,       \* bound: send jobs per recipient before a new batch runs
  Scenarios      \* what may happen, and how often: see ScenarioTypes

AllApiOps == {"start", "pause", "resume", "cancel", "retry", "edit", "delete"}

(* Error categories as the except handler distinguishes them: "policy" is  *)
(* a consent, window or template refusal, "blocked" an account rejection.  *)
Categories == {"retryable", "permanent", "policy", "blocked"}

(* "skip" and "review" are the AI gates that skip without an error,        *)
(* "denied" a refused send permit, "event" a later provider callback and   *)
(* "fault" an exception (Redis, Mongo, job timeout) in the middle of a job. *)
AllOutcomes == Categories \cup {"skip", "review", "denied", "event", "fault"}

(* A scenario: stored_provider(campaign), the number of recipients that    *)
(* passed the checks on creation, the API operations the clients use, what *)
(* gates, rate limits and the provider may answer; and as bounds: API      *)
(* calls, workers killed in the middle of a job, faults, and idempotency   *)
(* keys whose 24 h TTL runs out.                                           *)
ScenarioTypes ==
  [provider : {"twilio", "meta"}, pending : Nat,
   ops : SUBSET AllApiOps, outcomes : SUBSET AllOutcomes,
   calls : Nat, crashes : Nat, faults : Nat, expiries : Nat]

ASSUME ScenariosAssumption == Scenarios \subseteq ScenarioTypes
ASSUME BoundsAssumption ==
  MaxRetries \in Nat /\ BatchSize \in Nat \ {0} /\ MaxJobs \in Nat \ {0}

VARIABLES
  cstat,     \* campaigns.status
  rstat,     \* campaign_recipients.status
  attempts,  \* campaign_recipients.attempt_count
  sid,       \* the recipient document carries a provider message id
  claims,    \* Redis: the idempotency keys that exist, by recipient
  expired,   \* history: how often each key's TTL ran out
  sends,     \* history: how often the provider accepted a message
  sendq,     \* Redis queue: send_campaign_recipient jobs, by recipient
  ctlq,      \* Redis queue: start, batch and finalize jobs
  wk,        \* the worker processes
  api,       \* the API handlers, each by the step it is about to take
  stopped,   \* history: a cancel request has returned
  scenario   \* what may happen, and what is left of its bounds

dbVars    == <<cstat, rstat, attempts, sid>>
redisVars == <<claims, sendq, ctlq>>
history   == <<expired, sends, stopped>>
vars      == <<dbVars, redisVars, history, wk, api, scenario>>

WorkerSteps ==
  {"idle", "start_write", "start_queue", "batch", "enqueue", "due_enqueue",
   "cancel_recipient", "win", "meta_sent", "claim", "gate", "permit",
   "provider", "mark", "except_read", "except_write",
   "account_pause", "complete_check", "complete_refresh", "complete_write"}

ApiSteps ==
  {"idle", "start_write", "pause_write", "resume_write", "resume_requeue",
   "cancel_write", "cancel_recipients", "cancel_recount", "retry_requeue",
   "retry_write", "edit_write", "delete_write"}

NoRecipient == "none"

(* No recipient document is called like the placeholder of an idle job.    *)
ASSUME PlaceholderAssumption == NoRecipient \notin Recipients

(* The locals of a job: the recipient and its attempt number, the campaign *)
(* status it read last (or is about to write), the category of the error   *)
(* it caught and the ids a batch picked.                                   *)
Idle == [step |-> "idle", r |-> NoRecipient, att |-> 0, seen |-> "none",
         cat |-> "none", ids |-> {}]

WorkerStates ==
  [step : WorkerSteps, r : Recipients \cup {NoRecipient}, att : Int,
   seen : CampaignStatuses \cup {"none"}, cat : Categories \cup {"none"},
   ids : SUBSET Recipients]

JobKinds == {"start", "batch", "finalize"}

(* A campaign just created (create_campaign): a recipient without consent  *)
(* or with an invalid phone is stored as skipped, the others are pending.  *)
Init ==
  /\ cstat \in {"draft", "scheduled"}
  /\ scenario \in Scenarios
  /\ rstat \in [Recipients -> {"pending", "skipped"}]
  /\ Cardinality(InStatus(rstat, {"pending"})) = scenario.pending
  /\ attempts = [r \in Recipients |-> 0]
  /\ sid = [r \in Recipients |-> FALSE]
  /\ claims = [r \in Recipients |-> FALSE]
  /\ expired = [r \in Recipients |-> 0]
  /\ sends = [r \in Recipients |-> 0]
  /\ sendq = [r \in Recipients |-> 0]
  /\ ctlq = [k \in JobKinds |-> 0]
  /\ wk = [w \in Workers |-> Idle]
  /\ api = [c \in Clients |-> "idle"]
  /\ stopped = FALSE

-----------------------------------------------------------------------------
(* Building blocks. *)

(* update_one on a document that delete_campaign removed changes nothing.  *)
SetCampaign(s) == cstat' = IF cstat = "gone" THEN "gone" ELSE s

SetRecipient(r, s) ==
  rstat' = [rstat EXCEPT ![r] = IF @ = "gone" THEN "gone" ELSE s]

(* update_many: every recipient in a status of S moves to status s. *)
MoveAll(S, s) ==
  rstat' = [r \in Recipients |-> IF rstat[r] \in S THEN s ELSE rstat[r]]

(* find_one_and_update of the send job: the statuses it may win from. *)
Winnable == {"queued", "retrying", "pending"}

Goto(w, s)   == wk' = [wk EXCEPT ![w].step = s]
Return(w)    == wk' = [wk EXCEPT ![w] = Idle]

(* To the completion check outside any try block: no recipient is kept.    *)
Leave(w)     == wk' = [wk EXCEPT ![w] = [Idle EXCEPT !.step = "complete_check"]]

AtStep(w, s) == wk[w].step = s
Enqueue(k)   == ctlq' = [ctlq EXCEPT ![k] = @ + 1]
Dequeue(k)   == ctlq[k] > 0 /\ ctlq' = [ctlq EXCEPT ![k] = @ - 1]

(* Bound: no batch is started while some recipient has MaxJobs send jobs.  *)
QueueRoom == \A r \in Recipients : sendq[r] < MaxJobs

-----------------------------------------------------------------------------
(* start_campaign_job, process_due_scheduled_campaigns *)

StartRead(w) ==
  /\ AtStep(w, "idle") /\ QueueRoom
  /\ Dequeue("start")
  /\ IF cstat \in {"queued", "running", "draft", "scheduled"}
     THEN Goto(w, "start_write") ELSE UNCHANGED wk
  /\ UNCHANGED <<dbVars, claims, sendq, history, api, scenario>>

(* Unconditional: whatever happened since StartRead is overwritten. *)
StartWrite(w) ==
  /\ AtStep(w, "start_write")
  /\ SetCampaign("running")
  /\ Goto(w, "start_queue")
  /\ UNCHANGED <<rstat, attempts, sid, redisVars, history, api, scenario>>

StartQueue(w) ==
  /\ AtStep(w, "start_queue")
  /\ MoveAll({"pending"}, "queued")
  /\ Goto(w, "batch")
  /\ UNCHANGED <<cstat, attempts, sid, redisVars, history, api, scenario>>

(* The scheduler enqueues this job every tick; an idle worker may run it.  *)
DueWin(w) ==
  /\ AtStep(w, "idle")
  /\ cstat = "scheduled"
  /\ cstat' = "queued"
  /\ Goto(w, "due_enqueue")
  /\ UNCHANGED <<rstat, attempts, sid, redisVars, history, api, scenario>>

DueEnqueue(w) ==
  /\ AtStep(w, "due_enqueue")
  /\ Enqueue("start")
  /\ Return(w)
  /\ UNCHANGED <<dbVars, claims, sendq, history, api, scenario>>

-----------------------------------------------------------------------------
(* process_campaign_batch *)

BatchJob(w) ==
  /\ AtStep(w, "idle") /\ QueueRoom
  /\ Dequeue("batch")
  /\ Goto(w, "batch")
  /\ UNCHANGED <<dbVars, claims, sendq, history, api, scenario>>

(* The recipients a batch may pick: the queued ones and the retrying ones  *)
(* whose next_retry_at has passed (due), at most BatchSize of them.        *)
Picks(due) ==
  LET eligible == InStatus(rstat, {"queued"}) \cup due
  IN  {ids \in SUBSET eligible :
         IF Cardinality(eligible) <= BatchSize THEN ids = eligible
         ELSE Cardinality(ids) = BatchSize}

BatchPick(w) ==
  /\ AtStep(w, "batch")
  /\ \/ cstat # "running" /\ Return(w)
     \/ /\ cstat = "running"
        /\ \E due \in SUBSET InStatus(rstat, {"retrying"}) :
             \E ids \in Picks(due) :
               wk' = [wk EXCEPT ![w].ids = ids,
                                ![w].step = IF ids = {} THEN "complete_check"
                                            ELSE "enqueue"]
  /\ UNCHANGED <<dbVars, redisVars, history, api, scenario>>

(* Mutant: the batch does not chain the next one. *)
BatchEnqueueOnce(w) ==
  /\ AtStep(w, "enqueue")
  /\ sendq' = [r \in Recipients |->
                 IF r \in wk[w].ids THEN sendq[r] + 1 ELSE sendq[r]]
  /\ Enqueue("finalize")
  /\ Return(w)
  /\ UNCHANGED <<dbVars, claims, history, api, scenario>>

(* One send job per id, then the next batch or the final completion check. *)
BatchEnqueue(w) ==
  /\ AtStep(w, "enqueue")
  /\ sendq' = [r \in Recipients |->
                 IF r \in wk[w].ids THEN sendq[r] + 1 ELSE sendq[r]]
  /\ Enqueue(IF InStatus(rstat, Winnable) \subseteq wk[w].ids
             THEN "finalize" ELSE "batch")
  /\ Return(w)
  /\ UNCHANGED <<dbVars, claims, history, api, scenario>>

-----------------------------------------------------------------------------
(* _maybe_complete_campaign.  Inside send_campaign_recipient's try block   *)
(* wk[w].r still names the recipient, elsewhere it is NoRecipient.         *)

FinalizeJob(w) ==
  /\ AtStep(w, "idle")
  /\ Dequeue("finalize")
  /\ Goto(w, "complete_check")
  /\ UNCHANGED <<dbVars, claims, sendq, history, api, scenario>>

(* Mutant: recipients being processed do not count as open. *)
CompleteCheckQueuedOnly(w) ==
  /\ AtStep(w, "complete_check")
  /\ IF \/ cstat \in TERMINAL_STATUSES \cup {"paused", "gone"}
        \/ InStatus(rstat, {"pending", "queued"}) # {}
     THEN Return(w) ELSE Goto(w, "complete_refresh")
  /\ UNCHANGED <<dbVars, redisVars, history, api, scenario>>

CompleteCheck(w) ==
  /\ AtStep(w, "complete_check")
  /\ IF \/ cstat \in TERMINAL_STATUSES \cup {"paused", "gone"}
        \/ InStatus(rstat, RECIPIENT_OPEN) # {}
     THEN Return(w) ELSE Goto(w, "complete_refresh")
  /\ UNCHANGED <<dbVars, redisVars, history, api, scenario>>

(* _refresh_campaign_counters reads campaign and recipients once more. *)
CompleteRefresh(w) ==
  /\ AtStep(w, "complete_refresh")
  /\ wk' = [wk EXCEPT ![w].step = "complete_write",
                      ![w].seen = finalize_status_from_counts(cstat, rstat)]
  /\ UNCHANGED <<dbVars, redisVars, history, api, scenario>>

CompleteWrite(w) ==
  /\ AtStep(w, "complete_write")
  /\ SetCampaign(wk[w].seen)
  /\ Return(w)
  /\ UNCHANGED <<rstat, attempts, sid, redisVars, history, api, scenario>>

-----------------------------------------------------------------------------
(* send_campaign_recipient *)

SendStart(w, r) ==
  /\ AtStep(w, "idle")
  /\ sendq[r] > 0
  /\ sendq' = [sendq EXCEPT ![r] = @ - 1]
  /\ IF cstat \in {"paused", "gone"} THEN UNCHANGED wk
     ELSE wk' = [wk EXCEPT ![w].r = r,
                           ![w].step = IF cstat \in TERMINAL_STATUSES
                                       THEN "cancel_recipient" ELSE "win"]
  /\ UNCHANGED <<dbVars, claims, ctlq, history, api, scenario>>

CancelRecipient(w) ==
  /\ AtStep(w, "cancel_recipient")
  /\ IF rstat[wk[w].r] \in RECIPIENT_OPEN
     THEN SetRecipient(wk[w].r, "cancelled") ELSE UNCHANGED rstat
  /\ Return(w)
  /\ UNCHANGED <<cstat, attempts, sid, redisVars, history, api, scenario>>

(* Mutant: the update forgets its filter on the recipient's status. *)
WinAnyStatus(w) ==
  LET r == wk[w].r IN
  /\ AtStep(w, "win")
  /\ rstat' = [rstat EXCEPT ![r] = "processing"]
  /\ attempts' = [attempts EXCEPT ![r] = @ + 1]
  /\ wk' = [wk EXCEPT ![w].att = attempts[r] + 1,
                      ![w].step = IF scenario.provider = "meta" /\ sid[r]
                                  THEN "meta_sent" ELSE "claim"]
  /\ UNCHANGED <<cstat, sid, redisVars, history, api, scenario>>

(* Mutant: every second attempt on a Meta recipient is taken for sent. *)
WinMetaByAttempt(w) ==
  LET r == wk[w].r IN
  /\ AtStep(w, "win")
  /\ IF rstat[r] \in Winnable
     THEN /\ rstat' = [rstat EXCEPT ![r] = "processing"]
          /\ attempts' = [attempts EXCEPT ![r] = @ + 1]
          /\ wk' = [wk EXCEPT
               ![w].att = attempts[r] + 1,
               ![w].step = IF scenario.provider = "meta" /\ attempts[r] > 0
                           THEN "meta_sent" ELSE "claim"]
     ELSE Return(w) /\ UNCHANGED <<rstat, attempts>>
  /\ UNCHANGED <<cstat, sid, redisVars, history, api, scenario>>

(* The atomic find_one_and_update that takes a recipient, then the test    *)
(* for a Meta recipient that already carries a message id.                 *)
Win(w) ==
  LET r == wk[w].r IN
  /\ AtStep(w, "win")
  /\ IF rstat[r] \in Winnable
     THEN /\ rstat' = [rstat EXCEPT ![r] = "processing"]
          /\ attempts' = [attempts EXCEPT ![r] = @ + 1]
          /\ wk' = [wk EXCEPT
               ![w].att = attempts[r] + 1,
               ![w].step = IF scenario.provider = "meta" /\ sid[r]
                           THEN "meta_sent" ELSE "claim"]
     ELSE Return(w) /\ UNCHANGED <<rstat, attempts>>
  /\ UNCHANGED <<cstat, sid, redisVars, history, api, scenario>>

MetaSent(w) ==
  /\ AtStep(w, "meta_sent")
  /\ SetRecipient(wk[w].r, "sent")
  /\ Leave(w)
  /\ UNCHANGED <<cstat, attempts, sid, redisVars, history, api, scenario>>

(* Mutant: the key is set, but not with NX. *)
ClaimAlways(w) ==
  /\ AtStep(w, "claim")
  /\ Goto(w, "gate")
  /\ claims' = [claims EXCEPT ![wk[w].r] = TRUE]
  /\ UNCHANGED <<dbVars, sendq, ctlq, history, api, scenario>>

(* claim_idempotency: SET NX with a TTL.  A job that finds the key taken   *)
(* returns and leaves the recipient in "processing".                       *)
Claim(w) ==
  /\ AtStep(w, "claim")
  /\ IF claims[wk[w].r] THEN Return(w) ELSE Goto(w, "gate")
  /\ claims' = [claims EXCEPT ![wk[w].r] = TRUE]
  /\ UNCHANGED <<dbVars, sendq, ctlq, history, api, scenario>>

Raise(w, cat) == wk' = [wk EXCEPT ![w].step = "except_read", ![w].cat = cat]

(* The AI content path, consent and window gates.  Two of them skip the    *)
(* recipient in place, one ("review") without looking for completion.      *)
Gate(w) ==
  /\ AtStep(w, "gate")
  /\ \/ Goto(w, "permit") /\ UNCHANGED rstat
     \/ "policy" \in scenario.outcomes /\ Raise(w, "policy") /\ UNCHANGED rstat
     \/ "skip" \in scenario.outcomes /\ SetRecipient(wk[w].r, "skipped")
        /\ Goto(w, "complete_check")
     \/ "review" \in scenario.outcomes /\ SetRecipient(wk[w].r, "skipped")
        /\ Return(w)
  /\ UNCHANGED <<cstat, attempts, sid, redisVars, history, api, scenario>>

(* acquire_send_permit: granted, or the recipient goes back to "queued"    *)
(* and the same job is enqueued again three seconds later.                 *)
Permit(w) ==
  LET r == wk[w].r IN
  /\ AtStep(w, "permit")
  /\ \/ Goto(w, "provider") /\ UNCHANGED <<rstat, attempts, sendq>>
     \/ /\ "denied" \in scenario.outcomes
        /\ SetRecipient(r, "queued")
        /\ attempts' = [attempts EXCEPT ![r] = @ - 1]
        /\ sendq' = [sendq EXCEPT ![r] = @ + 1]
        /\ Return(w)
  /\ UNCHANGED <<cstat, sid, claims, ctlq, history, api, scenario>>

(* The HTTP call to Twilio or Meta: accepted, or an error of a category.   *)
ProviderCall(w) ==
  /\ AtStep(w, "provider")
  /\ \/ /\ sends' = [sends EXCEPT ![wk[w].r] = @ + 1]
        /\ Goto(w, "mark")
     \/ \E cat \in scenario.outcomes \cap Categories :
          Raise(w, cat) /\ UNCHANGED sends
  /\ UNCHANGED <<dbVars, redisVars, expired, stopped, api, scenario>>

(* insert_one of the message, then processing -> sent with its id.  The    *)
(* update is conditional: cancelled or requeued recipients are left alone. *)
Mark(w) ==
  LET r == wk[w].r IN
  /\ AtStep(w, "mark")
  /\ IF rstat[r] = "processing"
     THEN /\ rstat' = [rstat EXCEPT ![r] = "sent"]
          /\ sid' = [sid EXCEPT ![r] = TRUE]
     ELSE UNCHANGED <<rstat, sid>>
  /\ Goto(w, "complete_check")
  /\ UNCHANGED <<cstat, attempts, redisVars, history, api, scenario>>

-----------------------------------------------------------------------------
(* The except handler of send_campaign_recipient *)

ExceptRead(w) ==
  /\ AtStep(w, "except_read")
  /\ wk' = [wk EXCEPT ![w].step = "except_write", ![w].seen = cstat]
  /\ UNCHANGED <<dbVars, redisVars, history, api, scenario>>

IsBlocked(w)   == wk[w].cat = "blocked" /\ wk[w].seen = "running"
IsRetryable(w) == /\ wk[w].cat = "retryable" /\ wk[w].seen = "running"
                  /\ wk[w].att <= MaxRetries

(* Account rejected: the recipient goes back to "queued". *)
ExceptBlocked(w) ==
  LET r == wk[w].r IN
  /\ AtStep(w, "except_write") /\ IsBlocked(w)
  /\ SetRecipient(r, "queued")
  /\ attempts' = [attempts EXCEPT ![r] = @ - 1]
  /\ Goto(w, "account_pause")
  /\ UNCHANGED <<cstat, sid, redisVars, history, api, scenario>>

ExceptCancelled(w) ==
  /\ AtStep(w, "except_write") /\ wk[w].seen = "cancelled"
  /\ SetRecipient(wk[w].r, "cancelled")
  /\ Leave(w)
  /\ UNCHANGED <<cstat, attempts, sid, redisVars, history, api, scenario>>

(* Mutant: the key is released so that the retry may send. *)
ExceptRetryReleases(w) ==
  LET r == wk[w].r IN
  /\ AtStep(w, "except_write") /\ IsRetryable(w)
  /\ SetRecipient(r, "retrying")
  /\ sendq' = [sendq EXCEPT ![r] = IF rstat[r] = "gone" THEN @ ELSE @ + 1]
  /\ claims' = [claims EXCEPT ![r] = FALSE]
  /\ Leave(w)
  /\ UNCHANGED <<cstat, attempts, sid, ctlq, history, api, scenario>>

ExceptRetry(w) ==
  LET r == wk[w].r IN
  /\ AtStep(w, "except_write") /\ IsRetryable(w)
  /\ SetRecipient(r, "retrying")
  /\ sendq' = [sendq EXCEPT ![r] = IF rstat[r] = "gone" THEN @ ELSE @ + 1]
  /\ Leave(w)
  /\ UNCHANGED <<cstat, attempts, sid, claims, ctlq, history, api, scenario>>

FinalStatuses(cat) == IF cat = "policy" THEN {"skipped", "failed"} ELSE {"failed"}

(* Mutant: a failed recipient ends the job without a completion check. *)
ExceptFinalReturns(w) ==
  /\ AtStep(w, "except_write")
  /\ ~IsBlocked(w) /\ wk[w].seen # "cancelled" /\ ~IsRetryable(w)
  /\ \E s \in FinalStatuses(wk[w].cat) : SetRecipient(wk[w].r, s)
  /\ Return(w)
  /\ UNCHANGED <<cstat, attempts, sid, redisVars, history, api, scenario>>

ExceptFinal(w) ==
  /\ AtStep(w, "except_write")
  /\ ~IsBlocked(w) /\ wk[w].seen # "cancelled" /\ ~IsRetryable(w)
  /\ \E s \in FinalStatuses(wk[w].cat) : SetRecipient(wk[w].r, s)
  /\ Leave(w)
  /\ UNCHANGED <<cstat, attempts, sid, redisVars, history, api, scenario>>

(* _pause_campaign_for_account: a conditional update, running -> paused. *)
AccountPause(w) ==
  /\ AtStep(w, "account_pause")
  /\ IF cstat = "running" THEN SetCampaign("paused") ELSE UNCHANGED cstat
  /\ Return(w)
  /\ UNCHANGED <<rstat, attempts, sid, redisVars, history, api, scenario>>

-----------------------------------------------------------------------------
(* What can go wrong with a job. *)

(* The worker process dies (OOM, deploy, kill -9): RQ does not run the job *)
(* again, nothing it held is released.                                     *)
Crash(w) ==
  /\ ~AtStep(w, "idle")
  /\ scenario.crashes > 0
  /\ scenario' = [scenario EXCEPT !.crashes = @ - 1]
  /\ Return(w)
  /\ UNCHANGED <<dbVars, redisVars, history, api>>

InTry ==
  {"claim", "gate", "permit", "provider", "mark",
   "complete_check", "complete_refresh", "complete_write"}

(* An exception inside the try block that is no answer of the provider: a  *)
(* Redis or Mongo error, a lost response, RQ's job timeout.  It falls into *)
(* the handler's default category, "retryable".                            *)
Fault(w) ==
  /\ wk[w].r # NoRecipient /\ wk[w].step \in InTry
  /\ "fault" \in scenario.outcomes /\ scenario.faults > 0
  /\ scenario' = [scenario EXCEPT !.faults = @ - 1]
  /\ Raise(w, "retryable")
  /\ UNCHANGED <<dbVars, redisVars, history, api>>

(* The key's 24 h TTL runs out.  A job lives at most WORKER_JOB_TIMEOUT    *)
(* (300 s), so no job that could hold the key is still running.            *)
Expire(r) ==
  /\ claims[r]
  /\ \A w \in Workers : wk[w].r # r
  /\ scenario.expiries > 0
  /\ scenario' = [scenario EXCEPT !.expiries = @ - 1]
  /\ claims' = [claims EXCEPT ![r] = FALSE]
  /\ expired' = [expired EXCEPT ![r] = @ + 1]
  /\ UNCHANGED <<dbVars, sendq, ctlq, sends, stopped, wk, api>>

-----------------------------------------------------------------------------
(* Callbacks that find the recipient by its stored message id. *)

ProviderStatuses == {"sent", "delivered", "read", "failed", "undelivered", "canceled"}

(* _update_campaign_recipient; its own races are in StatusCallbacks. *)
DeliveryEvent(r, s) ==
  LET mapped == MapProviderStatus(s) IN
  /\ "event" \in scenario.outcomes
  /\ sid[r] /\ rstat[r] # "gone"
  /\ recipient_should_apply(rstat[r], mapped)
  /\ rstat' = [rstat EXCEPT ![r] = mapped]
  /\ UNCHANGED <<cstat, attempts, sid, redisVars, history, wk, api, scenario>>

(* _attribute_campaign_reply *)
Reply(r) ==
  /\ "event" \in scenario.outcomes
  /\ rstat[r] \in {"sent", "delivered", "read"}
  /\ rstat' = [rstat EXCEPT ![r] = "replied"]
  /\ UNCHANGED <<cstat, attempts, sid, redisVars, history, wk, api, scenario>>

-----------------------------------------------------------------------------
(* The API handlers: a check of the campaign document, then the writes.    *)
(* Nothing ties a write to the check before it.                            *)

Request(c, op, step) ==
  /\ api[c] = "idle" /\ op \in scenario.ops
  /\ scenario.calls > 0
  /\ scenario' = [scenario EXCEPT !.calls = @ - 1]
  /\ api' = [api EXCEPT ![c] = step]
  /\ UNCHANGED <<dbVars, redisVars, history, wk>>

ApiGoto(c, from, to) == api[c] = from /\ api' = [api EXCEPT ![c] = to]

start_campaign(c) ==
  /\ cstat \in {"draft", "scheduled", "queued"}
  /\ InStatus(rstat, {"pending", "queued"}) # {}
  /\ Request(c, "start", "start_write")

StartCommit(c) ==
  /\ ApiGoto(c, "start_write", "idle")
  /\ SetCampaign("queued")
  /\ Enqueue("start")
  /\ UNCHANGED <<rstat, attempts, sid, claims, sendq, history, wk, scenario>>

pause_campaign(c) ==
  /\ cstat = "running"
  /\ Request(c, "pause", "pause_write")

PauseCommit(c) ==
  /\ ApiGoto(c, "pause_write", "idle")
  /\ SetCampaign("paused")
  /\ UNCHANGED <<rstat, attempts, sid, redisVars, history, wk, scenario>>

resume_campaign(c) ==
  /\ cstat = "paused"
  /\ Request(c, "resume", "resume_write")

ResumeCommit(c) ==
  /\ ApiGoto(c, "resume_write", "resume_requeue")
  /\ SetCampaign("running")
  /\ UNCHANGED <<rstat, attempts, sid, redisVars, history, wk, scenario>>

ResumeRequeue(c) ==
  /\ ApiGoto(c, "resume_requeue", "idle")
  /\ MoveAll({"processing"}, "queued")
  /\ Enqueue("batch")
  /\ UNCHANGED <<cstat, attempts, sid, claims, sendq, history, wk, scenario>>

cancel_campaign(c) ==
  /\ cstat \notin TERMINAL_STATUSES \cup {"gone"}
  /\ Request(c, "cancel", "cancel_write")

CancelCommit(c) ==
  /\ ApiGoto(c, "cancel_write", "cancel_recipients")
  /\ SetCampaign("cancelled")
  /\ UNCHANGED <<rstat, attempts, sid, redisVars, history, wk, scenario>>

(* Mutant: cancel forgets the recipients that wait in the queue. *)
CancelUnqueuedRecipients(c) ==
  /\ ApiGoto(c, "cancel_recipients", "cancel_recount")
  /\ MoveAll(RECIPIENT_OPEN \ {"queued"}, "cancelled")
  /\ UNCHANGED <<cstat, attempts, sid, redisVars, history, wk, scenario>>

CancelOpenRecipients(c) ==
  /\ ApiGoto(c, "cancel_recipients", "cancel_recount")
  /\ MoveAll(RECIPIENT_OPEN, "cancelled")
  /\ UNCHANGED <<cstat, attempts, sid, redisVars, history, wk, scenario>>

(* The recount writes the status a second time. *)
CancelRecount(c) ==
  /\ ApiGoto(c, "cancel_recount", "idle")
  /\ SetCampaign("cancelled")
  /\ stopped' = TRUE
  /\ UNCHANGED <<rstat, attempts, sid, redisVars, expired, sends, wk, scenario>>

retry_failed(c) ==
  /\ cstat \notin {"cancelled", "gone"}
  /\ Request(c, "retry", "retry_requeue")

RetryRequeue(c) ==
  /\ MoveAll({"failed"}, "queued")
  /\ ApiGoto(c, "retry_requeue",
             IF InStatus(rstat, {"failed"}) = {} THEN "idle" ELSE "retry_write")
  /\ UNCHANGED <<cstat, attempts, sid, redisVars, history, wk, scenario>>

RetryCommit(c) ==
  /\ ApiGoto(c, "retry_write", "idle")
  /\ SetCampaign("running")
  /\ Enqueue("batch")
  /\ UNCHANGED <<rstat, attempts, sid, claims, sendq, history, wk, scenario>>

(* update_campaign with a new scheduled_at; the rest of the PATCH handler  *)
(* (contents, replacing the recipients) is not modelled.                   *)
update_campaign(c) ==
  /\ cstat \in EDITABLE_STATUSES
  /\ Request(c, "edit", "edit_write")

EditCommit(c) ==
  /\ ApiGoto(c, "edit_write", "idle")
  /\ \E s \in {"draft", "scheduled"} : SetCampaign(s)
  /\ UNCHANGED <<rstat, attempts, sid, redisVars, history, wk, scenario>>

delete_campaign(c) ==
  /\ cstat \notin {"queued", "running", "paused", "gone"}
  /\ Request(c, "delete", "delete_write")

DeleteCommit(c) ==
  /\ ApiGoto(c, "delete_write", "idle")
  /\ cstat' = "gone"
  /\ rstat' = [r \in Recipients |-> "gone"]
  /\ UNCHANGED <<attempts, sid, redisVars, history, wk, scenario>>

-----------------------------------------------------------------------------
(* The system *)

TakeJob(w) ==
  \/ StartRead(w) \/ BatchJob(w) \/ FinalizeJob(w) \/ DueWin(w)
  \/ \E r \in Recipients : SendStart(w, r)

RunJob(w) ==
  \/ StartWrite(w) \/ StartQueue(w) \/ DueEnqueue(w)
  \/ BatchPick(w) \/ BatchEnqueue(w)
  \/ CompleteCheck(w) \/ CompleteRefresh(w) \/ CompleteWrite(w)
  \/ CancelRecipient(w) \/ Win(w) \/ MetaSent(w) \/ Claim(w)
  \/ Gate(w) \/ Permit(w) \/ ProviderCall(w) \/ Mark(w)
  \/ ExceptRead(w) \/ ExceptBlocked(w) \/ ExceptCancelled(w)
  \/ ExceptRetry(w) \/ ExceptFinal(w) \/ AccountPause(w)

ApiRequest(c) ==
  \/ start_campaign(c) \/ pause_campaign(c) \/ resume_campaign(c)
  \/ cancel_campaign(c) \/ retry_failed(c) \/ update_campaign(c)
  \/ delete_campaign(c)

ApiFinish(c) ==
  \/ StartCommit(c) \/ PauseCommit(c) \/ ResumeCommit(c) \/ ResumeRequeue(c)
  \/ CancelCommit(c) \/ CancelOpenRecipients(c) \/ CancelRecount(c)
  \/ RetryRequeue(c) \/ RetryCommit(c) \/ EditCommit(c) \/ DeleteCommit(c)

Environment ==
  \/ \E w \in Workers : Crash(w) \/ Fault(w)
  \/ \E r \in Recipients :
       Expire(r) \/ Reply(r) \/ \E s \in ProviderStatuses : DeliveryEvent(r, s)

Next ==
  \/ \E w \in Workers : TakeJob(w) \/ RunJob(w)
  \/ \E c \in Clients : ApiRequest(c) \/ ApiFinish(c)
  \/ Environment

Spec == Init /\ [][Next]_vars

(* A live worker takes jobs and runs them; a handler that passed its check *)
(* finishes.  Nobody is obliged to call the API or to send a callback.     *)
Fairness ==
  /\ \A w \in Workers : WF_vars(TakeJob(w) \/ RunJob(w))
  /\ \A c \in Clients : WF_vars(ApiFinish(c))

FairSpec == Spec /\ Fairness

-----------------------------------------------------------------------------
(* Properties *)

(* Every variable holds a value of its type. *)
TypeOK ==
  /\ cstat \in CampaignStatuses
  /\ rstat \in [Recipients -> RecipientStatuses]
  /\ attempts \in [Recipients -> Int]
  /\ sid \in [Recipients -> BOOLEAN]
  /\ claims \in [Recipients -> BOOLEAN]
  /\ expired \in [Recipients -> Nat]
  /\ sends \in [Recipients -> Nat]
  /\ sendq \in [Recipients -> Nat]
  /\ ctlq \in [JobKinds -> Nat]
  /\ wk \in [Workers -> WorkerStates]
  /\ api \in [Clients -> ApiSteps]
  /\ stopped \in BOOLEAN
  /\ scenario \in ScenarioTypes

(* Nobody gets a campaign message twice while the idempotency key lives:   *)
(* whatever the interleaving of duplicate jobs, retries, pause, resume,    *)
(* retry-failed, crashes and faults, the provider accepts at most one      *)
(* message per recipient plus one for every time the key's TTL ran out.    *)
AtMostOncePerClaim ==
  \A r \in Recipients : sends[r] <= expired[r] + 1

(* A recipient shown as sent, delivered, read or replied really had a      *)
(* message accepted by the provider, also on the Meta shortcut that marks  *)
(* a recipient as sent without calling the provider.                       *)
SentMeansAccepted ==
  \A r \in Recipients : rstat[r] \in SuccessStatuses => sends[r] > 0

(* A campaign reported as completed left nobody out: the open count, the   *)
(* second read and the unconditional write of _maybe_complete_campaign are *)
(* three steps, and recipients and campaign may change between them.  With *)
(* cancel, "retry failed" or a fault it is not so (see the README).        *)
CompletedMeansAllSent ==
  /\ scenario.ops \subseteq {"start", "pause", "resume"}
  /\ "fault" \notin scenario.outcomes
  /\ cstat = "completed"
  => \A r \in Recipients : sends[r] > 0

(* A callback for an earlier message may still come while a Twilio         *)
(* recipient whose key has run out is being sent to anew.                  *)
LateCallback(r) ==
  /\ scenario.provider = "twilio" /\ "event" \in scenario.outcomes
  /\ expired[r] > 0

(* The engine never puts a recipient that has its message back into the    *)
(* pipeline, although most of its status writes are unconditional.  A      *)
(* fault between the mark and the end of the job does (see the README),    *)
(* and so may a late callback.                                             *)
SuccessNotReopened ==
  [][\A r \in Recipients :
       rstat[r] \in SuccessStatuses /\ rstat'[r] \in RECIPIENT_OPEN
         => "fault" \in scenario.outcomes \/ LateCallback(r)]_vars

(* The recipient's idempotency key exists, or existed and ran out.         *)
Spent(r) == claims[r] \/ expired[r] > 0

(* Once a cancel request has returned, no send job takes up a recipient it *)
(* could still send to: later "queued" writes by jobs that were in flight  *)
(* only revive recipients whose idempotency key is spent.  A fault before  *)
(* the claim gives a recipient back with its key unspent (see the README). *)
CancelStopsNewSends ==
  [][stopped => \A r \in Recipients :
       rstat[r] # "processing" /\ rstat'[r] = "processing"
         => Spent(r) \/ "fault" \in scenario.outcomes]_vars

(* A recipient nobody will take up again: it shows "processing", no job    *)
(* works on it, and its key is taken, so that a further job only returns.  *)
Stranded(r) ==
  /\ rstat[r] = "processing" /\ claims[r]
  /\ \A w \in Workers : wk[w].r # r

(* The key is not released when a job puts its recipient back (a retryable *)
(* error, a refused permit, an account block), nor when Resume or "Retry   *)
(* failed" queue it again: only then is a recipient stranded.              *)
GivenBack ==
  \/ scenario.outcomes \cap {"retryable", "denied", "blocked"} # {}
  \/ scenario.ops \cap {"resume", "retry"} # {}

AllClosed == \A r \in Recipients : rstat[r] \notin RECIPIENT_OPEN

(* Two ends after which nobody looks for completion: a required review,    *)
(* and a job that read the campaign as completed just before "Retry        *)
(* failed" set it to running again, and so cancels its own recipient.      *)
EndsUnseen ==
  "review" \in scenario.outcomes \/ "retry" \in scenario.ops

(* A campaign that runs ends (or is paused): the last recipient's job or   *)
(* the finalize job sees that nobody is open.  It runs for ever only with  *)
(* a recipient that was put back and stranded, or when the last one ended  *)
(* where nobody looks.                                                     *)
CampaignSettles ==
  cstat \in {"queued", "running"}
    ~> \/ cstat \notin {"queued", "running"}
       \/ GivenBack /\ \E r \in Recipients : Stranded(r)
       \/ EndsUnseen /\ AllClosed

(* A queued recipient of a running campaign does not wait for ever: it is  *)
(* sent to, or ends as failed or skipped, unless the campaign stops        *)
(* running first, or it was put back before and is stranded.               *)
QueuedGoesOn ==
  \A r \in Recipients :
    (cstat = "running" /\ rstat[r] = "queued")
      ~> \/ sends[r] > 0 \/ rstat[r] \notin RECIPIENT_OPEN \/ cstat # "running"
         \/ GivenBack /\ Stranded(r)

(* What Resume is said to do: a queued recipient of a running campaign is  *)
(* sent to, or ends as failed or skipped, unless the campaign stops.       *)
QueuedIsServed ==
  \A r \in Recipients :
    (cstat = "running" /\ rstat[r] = "queued")
      ~> (sends[r] > 0 \/ rstat[r] \notin RECIPIENT_OPEN \/ cstat # "running")

(* A cancelled campaign stays cancelled (delete may still remove it).      *)
(* The comment in _maybe_complete_campaign takes this for granted.         *)
CancelledIsTerminal ==
  [][cstat = "cancelled" => cstat' \in {"cancelled", "gone"}]_vars

(* A recipient whose accepted message failed is not shown as sent again    *)
(* before the provider accepted another message for it: "Retry failed"     *)
(* sends to the people who did not get it.                                 *)
FailedIsResent ==
  \A r \in Recipients :
    [](rstat[r] = "failed" /\ sends[r] = 1
         => [](rstat[r] = "sent" => sends[r] >= 2))

-----------------------------------------------------------------------------
(* The inductive invariant behind the safety properties *)

(* A job works on a recipient exactly at these steps ...                   *)
RecipientSteps ==
  {"cancel_recipient", "win", "meta_sent", "claim", "gate", "permit",
   "provider", "mark", "except_read", "except_write", "account_pause"}

(* ... and has won the key but not yet called the provider at these.       *)
PreSend(w) == wk[w].step \in {"gate", "permit", "provider"}

(* The locals a step relies on have been set. *)
LocalsSet ==
  \A w \in Workers :
    /\ wk[w].step \in RecipientSteps => wk[w].r \in Recipients
    /\ wk[w].step = "complete_write" => wk[w].seen \in CampaignStatuses

(* Whoever may still send owns the key, is the only one who does, and the  *)
(* key's current life has not been used for a message yet.                 *)
ClaimInv ==
  /\ \A w \in Workers :
       PreSend(w) => claims[wk[w].r] /\ sends[wk[w].r] <= expired[wk[w].r]
  /\ \A v, w \in Workers :
       PreSend(v) /\ PreSend(w) /\ wk[v].r = wk[w].r => v = w
  /\ \A r \in Recipients :
       sends[r] <= expired[r] + (IF claims[r] THEN 1 ELSE 0)

(* A stored message id, and a job about to record a message, both stem     *)
(* from a message the provider accepted.                                   *)
AcceptedInv ==
  /\ \A r \in Recipients : sid[r] => sends[r] > 0
  /\ \A w \in Workers :
       wk[w].step \in {"mark", "meta_sent"} => sends[wk[w].r] > 0
  /\ SentMeansAccepted

FaultFree == "fault" \notin scenario.outcomes

(* Between the claim and the end of the except handler a job owns the key. *)
Owner(w) ==
  wk[w].step \in {"gate", "permit", "provider", "mark", "except_read", "except_write"}

(* A job that has not sent, but may still write its recipient's status     *)
(* whatever it is: it owns the key, or will get it.                        *)
Unsent(w) ==
  \/ Owner(w) /\ wk[w].step # "mark"
  \/ wk[w].step = "claim" /\ ~claims[wk[w].r]

(* Without faults one job at most owns a recipient's key, and nobody shows *)
(* the recipient as sent while a job that has not sent works on it.        *)
OwnerInv ==
  FaultFree =>
    /\ \A w \in Workers : Owner(w) => claims[wk[w].r]
    /\ \A v, w \in Workers :
         Owner(v) /\ Owner(w) /\ wk[v].r = wk[w].r => v = w
    /\ \A w \in Workers : Unsent(w) =>
         /\ sends[wk[w].r] <= expired[wk[w].r]
         /\ scenario.provider = "meta" => ~sid[wk[w].r]
         /\ rstat[wk[w].r] \in SuccessStatuses => LateCallback(wk[w].r)
    /\ \A w \in Workers : wk[w].step = "meta_sent" =>
         scenario.provider = "meta" /\ sid[wk[w].r]

(* Without faults only spent recipients fail, and from the moment cancel   *)
(* has cancelled the open recipients only spent ones are opened again.     *)
SpentInv ==
  FaultFree =>
    /\ \A r \in Recipients : rstat[r] = "failed" => Spent(r)
    /\ stopped \/ (\E c \in Clients : api[c] = "cancel_recount") =>
         \A r \in Recipients : rstat[r] \in RECIPIENT_OPEN => Spent(r)

(* The operation a handler's step belongs to. *)
OpSteps ==
  [start  |-> {"start_write"}, pause |-> {"pause_write"},
   resume |-> {"resume_write", "resume_requeue"},
   cancel |-> {"cancel_write", "cancel_recipients", "cancel_recount"},
   retry  |-> {"retry_requeue", "retry_write"},
   edit   |-> {"edit_write"}, delete |-> {"delete_write"}]

PlainOps == {"start", "pause", "resume"}

(* Without faults, cancel, retry, edit and delete, a recipient a job may   *)
(* still send to counts as open, so that whoever found nobody open may     *)
(* take its time to say so: nobody is opened again.                        *)
ClosedInv ==
  FaultFree /\ scenario.ops \subseteq PlainOps =>
    /\ \A c \in Clients :
         api[c] \in {"idle"} \cup UNION {OpSteps[op] : op \in PlainOps}
    /\ \A r \in Recipients :
         rstat[r] # "gone" /\ (sid[r] => rstat[r] \notin RECIPIENT_OPEN)
    /\ \A w \in Workers :
         /\ wk[w].step # "meta_sent"
         /\ Unsent(w) => rstat[wk[w].r] \in RECIPIENT_OPEN
         /\ wk[w].step \in {"complete_refresh", "complete_write", "cancel_recipient"}
              => AllClosed
         /\ wk[w].step = "complete_write" /\ wk[w].seen = "completed"
              => \A r \in Recipients : sends[r] > 0
    /\ cstat \in TERMINAL_STATUSES => AllClosed
    /\ cstat = "completed" => \A r \in Recipients : sends[r] > 0

EngineInv ==
  /\ TypeOK /\ LocalsSet /\ ClaimInv /\ AcceptedInv
  /\ OwnerInv /\ SpentInv /\ ClosedInv

=============================================================================
