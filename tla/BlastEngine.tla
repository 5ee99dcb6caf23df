---------------------------- MODULE BlastEngine ----------------------------
(***************************************************************************)
(* One blast: create_blast and the handlers that pause, resume, retry,     *)
(* cancel and delete it (app/routes/campaigns.py) and the chain of         *)
(* send_blast_messages jobs that sends it (app/workers/tasks.py).  Unlike  *)
(* a campaign's, a blast's recipients have no idempotency key: one job     *)
(* sends to many recipients, one after the other, and the only guard is    *)
(* the update that takes a recipient from pending to processing.           *)
(*                                                                         *)
(* One step per MongoDB operation whose effect another process can see.    *)
(***************************************************************************)
EXTENDS Integers, FiniteSets

CONSTANTS
  Recipients,  \* the phone numbers of the request, without duplicates
  Workers,     \* RQ worker processes
  Clients,     \* concurrent API requests
  MaxRetries,  \* WHATSAPP_MAX_RETRIES
  BatchSize,   \* BLAST_BATCH_SIZE
  MaxJobs,     \* bound: blast jobs in the queue before a handler adds one
  Scenarios    \* what may happen, and how often: see ScenarioTypes

(* What one attempt may come to.  "denied" is a refused send permit,       *)
(* "blocked" a rejection of the account, "lost" an error the worker sees   *)
(* although the provider accepted the message.                             *)
Answers == {"accepted", "denied", "blocked", "permanent", "retryable", "lost"}

(* stored_provider(blast), the requests clients make ("crash": workers may *)
(* die), what an attempt may come to; and as bounds: requests and crashes, *)
(* exceptions after the provider accepted, reports on accepted messages.   *)
ScenarioTypes ==
  [provider : {"twilio", "meta"},
   ops : SUBSET {"pause", "resume", "retry", "cancel", "delete", "crash"},
   answers : SUBSET Answers,
   calls : Nat, faults : Nat, reports : Nat]

ASSUME BlastScenariosAssumption == Scenarios \subseteq ScenarioTypes
ASSUME BlastBoundsAssumption ==
  /\ MaxRetries \in Nat /\ BatchSize \in Nat \ {0} /\ MaxJobs \in Nat \ {0}
  /\ IsFiniteSet(Recipients) /\ IsFiniteSet(Workers)

Open     == {"pending", "processing", "retrying"}
Terminal == {"completed", "partially_completed", "failed", "cancelled"}
Sent     == {"sent", "delivered"}

BlastStatuses == {"none", "queued", "sending", "paused", "gone"} \cup Terminal
RecipientStatuses == Open \cup Sent \cup {"none", "failed", "cancelled"}

VARIABLES
  bstat,     \* blast_campaigns.status; "none": not created, "gone": deleted
  total,     \* blast_campaigns.total_recipients
  counts,    \* blast_campaigns.sent_count and failed_count
  rstat,     \* blast_recipients.status; "none": there is no such document
  attempts,  \* blast_recipients.attempt_count
  sid,       \* the recipient carries a provider message id
  due,       \* recipients whose next_retry_at has passed
  jobs,      \* Redis: send_blast_messages jobs, delayed ones included
  wk,        \* the worker processes
  api,       \* the API requests, each by the step it is about to take
  live,      \* history: accepted messages not reported failed, by recipient
  lost,      \* history: accepted messages whose recipient was never marked
  stopped,   \* history: a cancel request has returned
  scenario   \* what may happen, and what is left of its bounds

dbVars  == <<bstat, total, counts, rstat, attempts, sid, due>>
history == <<live, lost, stopped>>
vars    == <<dbVars, jobs, wk, api, history, scenario>>

WorkerSteps ==
  {"idle", "mark_sending", "pick", "open_count", "loop", "win", "meta_sent",
   "attempt", "mark", "put_back", "except", "account_pause",
   "cancel_open", "recount", "recount_write", "final_check", "final_write"}

ApiSteps ==
  {"idle", "create_rows", "pause_write", "resume_requeue", "resume_write",
   "retry_recipients", "retry_requeue", "retry_write", "cancel_write",
   "cancel_recipients", "delete_recipients"}

(* The locals of a job: the recipients of its batch it has yet to process, *)
(* the one in hand, the error it caught, the counts of an aggregate and    *)
(* what it does after the recount in progress.                             *)
NoRecipient == "none"
ASSUME BlastPlaceholderAssumption == NoRecipient \notin Recipients

Zero == [sent |-> 0, failed |-> 0]
Idle == [step |-> "idle", batch |-> {}, r |-> NoRecipient, cat |-> "none",
         found |-> Zero, after |-> "idle"]

Init ==
  /\ scenario \in Scenarios
  /\ bstat = "none" /\ total = 0 /\ counts = Zero
  /\ rstat = [r \in Recipients |-> "none"]
  /\ attempts = [r \in Recipients |-> 0]
  /\ sid = [r \in Recipients |-> FALSE] /\ due = {}
  /\ jobs = 0
  /\ wk = [w \in Workers |-> Idle]
  /\ api = [c \in Clients |-> [step |-> "idle", n |-> 0, paused |-> FALSE]]
  /\ live = [r \in Recipients |-> 0]
  /\ lost = [r \in Recipients |-> 0]
  /\ stopped = FALSE

-----------------------------------------------------------------------------
(* Building blocks *)

(* An update by _id of a document that was deleted changes nothing. *)
SetBlast(s) == bstat' = IF bstat = "gone" THEN "gone" ELSE s

Number(S) == Cardinality({r \in Recipients : rstat[r] \in S})

MoveAll(S, s) ==
  rstat' = [r \in Recipients |-> IF rstat[r] \in S THEN s ELSE rstat[r]]

SetRecipient(r, s) ==
  rstat' = [rstat EXCEPT ![r] = IF @ = "none" THEN "none" ELSE s]

AtStep(w, s) == wk[w].step = s
Goto(w, s)   == wk' = [wk EXCEPT ![w].step = s]
Return(w)    == wk' = [wk EXCEPT ![w] = Idle]

(* To the next recipient of the batch. *)
Proceed(w) ==
  wk' = [wk EXCEPT ![w] = [Idle EXCEPT !.step = "loop", !.batch = wk[w].batch]]

(* _recount_blast, and after it to step s. *)
RecountThen(w, s) ==
  wk' = [wk EXCEPT ![w].step = "recount", ![w].after = s]

-----------------------------------------------------------------------------
(* send_blast_messages *)

StartJob(w) ==
  /\ AtStep(w, "idle") /\ jobs > 0
  /\ jobs' = jobs - 1
  /\ Goto(w, CASE bstat = "cancelled" -> "cancel_open"
               [] bstat = "queued"    -> "mark_sending"
               [] bstat = "sending"   -> "pick"
               [] OTHER               -> "idle")
  /\ UNCHANGED <<dbVars, api, history, scenario>>

(* Unconditional: whatever the blast became since StartJob is overwritten. *)
MarkSending(w) ==
  /\ AtStep(w, "mark_sending")
  /\ SetBlast("sending")
  /\ Goto(w, "pick")
  /\ UNCHANGED <<total, counts, rstat, attempts, sid, due, jobs, api, history,
                 scenario>>

(* created_at has a resolution of milliseconds, so rows of one request are *)
(* sorted in any order.                                                    *)
Pick(w) ==
  LET found == {r \in Recipients : \/ rstat[r] = "pending"
                                   \/ rstat[r] = "retrying" /\ r \in due}
      n == Cardinality(found) IN
  /\ AtStep(w, "pick")
  /\ \E batch \in SUBSET found :
       /\ Cardinality(batch) = IF n < BatchSize THEN n ELSE BatchSize
       /\ wk' = [wk EXCEPT ![w].batch = batch,
                           ![w].step = IF batch = {} THEN "open_count"
                                       ELSE "loop"]
  /\ UNCHANGED <<dbVars, jobs, api, history, scenario>>

(* Mutant: a recipient that waits for its retry does not keep the chain. *)
OpenCountReady(w) ==
  /\ AtStep(w, "open_count")
  /\ IF Number({"pending", "processing"}) > 0
     THEN jobs' = jobs + 1 /\ Return(w)
     ELSE RecountThen(w, "final_check") /\ UNCHANGED jobs
  /\ UNCHANGED <<dbVars, api, history, scenario>>

(* The chain goes on while a recipient is open, processing ones included. *)
OpenCount(w) ==
  /\ AtStep(w, "open_count")
  /\ IF Number(Open) > 0
     THEN jobs' = jobs + 1 /\ Return(w)
     ELSE RecountThen(w, "final_check") /\ UNCHANGED jobs
  /\ UNCHANGED <<dbVars, api, history, scenario>>

(* Before each recipient the blast is read afresh. *)
Loop(w) ==
  /\ AtStep(w, "loop")
  /\ CASE wk[w].batch = {}    -> RecountThen(w, "open_count")
       [] bstat = "paused"    -> wk[w].batch # {} /\ Return(w)
       [] bstat = "cancelled" -> wk[w].batch # {} /\ Goto(w, "cancel_open")
       [] OTHER ->
            \E r \in wk[w].batch :
              wk' = [wk EXCEPT ![w].r = r, ![w].step = "win",
                               ![w].batch = @ \ {r}]
  /\ UNCHANGED <<dbVars, jobs, api, history, scenario>>

CancelOpen(w) ==
  /\ AtStep(w, "cancel_open")
  /\ MoveAll(Open, "cancelled")
  /\ RecountThen(w, "idle")
  /\ UNCHANGED <<bstat, total, counts, attempts, sid, due, jobs, api, history,
                 scenario>>

-----------------------------------------------------------------------------
(* _process_blast_recipient *)

(* Mutant: the update that takes a recipient does not look at its status. *)
WinAny(w) ==
  LET r == wk[w].r IN
  /\ AtStep(w, "win")
  /\ IF rstat[r] # "none"
     THEN /\ SetRecipient(r, "processing")
          /\ attempts' = [attempts EXCEPT ![r] = @ + 1]
          /\ due' = due \ {r}
          /\ Goto(w, IF scenario.provider = "meta" /\ sid[r]
                     THEN "meta_sent" ELSE "attempt")
     ELSE Proceed(w) /\ UNCHANGED <<rstat, attempts, due>>
  /\ UNCHANGED <<bstat, total, counts, sid, jobs, api, history, scenario>>

Win(w) ==
  LET r == wk[w].r IN
  /\ AtStep(w, "win")
  /\ IF rstat[r] \in {"pending", "retrying"}
     THEN /\ SetRecipient(r, "processing")
          /\ attempts' = [attempts EXCEPT ![r] = @ + 1]
          /\ due' = due \ {r}
          /\ Goto(w, IF scenario.provider = "meta" /\ sid[r]
                     THEN "meta_sent" ELSE "attempt")
     ELSE Proceed(w) /\ UNCHANGED <<rstat, attempts, due>>
  /\ UNCHANGED <<bstat, total, counts, sid, jobs, api, history, scenario>>

(* A Meta recipient that has a message id is marked without a send. *)
MetaSent(w) ==
  /\ AtStep(w, "meta_sent")
  /\ SetRecipient(wk[w].r, "sent")
  /\ Proceed(w)
  /\ UNCHANGED <<bstat, total, counts, attempts, sid, due, jobs, api, history,
                 scenario>>

(* Eligibility, permit, template and the provider's answer. *)
Attempt(w, answer) ==
  LET r == wk[w].r
      accepted == answer \in {"accepted", "lost"} IN
  /\ AtStep(w, "attempt") /\ answer \in scenario.answers
  /\ live' = [live EXCEPT ![r] = IF accepted THEN @ + 1 ELSE @]
  /\ lost' = [lost EXCEPT ![r] = IF answer = "lost" THEN @ + 1 ELSE @]
  /\ wk' = [wk EXCEPT
       ![w].step = CASE answer = "accepted"             -> "mark"
                     [] answer \in {"denied", "blocked"} -> "put_back"
                     [] OTHER                            -> "except",
       ![w].cat = IF answer = "lost" THEN "retryable" ELSE answer]
  /\ UNCHANGED <<dbVars, jobs, api, stopped, scenario>>

Mark(w) ==
  /\ AtStep(w, "mark")
  /\ SetRecipient(wk[w].r, "sent")
  /\ sid' = [sid EXCEPT ![wk[w].r] = TRUE]
  /\ Proceed(w)
  /\ UNCHANGED <<bstat, total, counts, attempts, due, jobs, api, history,
                 scenario>>

(* An exception while the recipient is marked or the permit is released    *)
(* (MongoDB, Redis, RQ's job timeout) counts as a failed send, and its     *)
(* text is not on any list of permanent errors.                            *)
Fault(w) ==
  LET r == wk[w].r IN
  /\ AtStep(w, "mark") /\ scenario.faults > 0
  /\ scenario' = [scenario EXCEPT !.faults = @ - 1]
  /\ lost' = [lost EXCEPT ![r] = @ + 1]
  /\ \/ UNCHANGED <<rstat, sid>>
     \/ SetRecipient(r, "sent") /\ sid' = [sid EXCEPT ![r] = TRUE]
  /\ wk' = [wk EXCEPT ![w].step = "except", ![w].cat = "retryable"]
  /\ UNCHANGED <<bstat, total, counts, attempts, due, jobs, api, live,
                 stopped>>

(* Mutant: the give-back is applied twice. *)
PutBackTwice(w) ==
  LET r == wk[w].r IN
  /\ AtStep(w, "put_back")
  /\ SetRecipient(r, "pending")
  /\ attempts' = [attempts EXCEPT ![r] = @ - 2]
  /\ IF wk[w].cat = "blocked" THEN Goto(w, "account_pause") ELSE Proceed(w)
  /\ UNCHANGED <<bstat, total, counts, sid, due, jobs, api, history, scenario>>

(* Back to pending, and the attempt does not count; by _id, whatever the   *)
(* recipient became meanwhile.                                             *)
PutBack(w) ==
  LET r == wk[w].r IN
  /\ AtStep(w, "put_back")
  /\ SetRecipient(r, "pending")
  /\ attempts' = [attempts EXCEPT ![r] = @ - 1]
  /\ IF wk[w].cat = "blocked" THEN Goto(w, "account_pause") ELSE Proceed(w)
  /\ UNCHANGED <<bstat, total, counts, sid, due, jobs, api, history, scenario>>

(* _pause_blast_for_account: conditional, unlike pause_blast. *)
AccountPause(w) ==
  /\ AtStep(w, "account_pause")
  /\ IF bstat = "sending"
     THEN bstat' = "paused" /\ RecountThen(w, "loop")
     ELSE UNCHANGED bstat /\ Proceed(w)
  /\ UNCHANGED <<total, counts, rstat, attempts, sid, due, jobs, api, history,
                 scenario>>

(* Mutant: a permanent failure leaves the recipient processing. *)
ExceptForgets(w) ==
  LET r == wk[w].r IN
  /\ AtStep(w, "except")
  /\ IF wk[w].cat = "retryable" THEN SetRecipient(r, "retrying")
                                ELSE UNCHANGED rstat
  /\ Proceed(w)
  /\ UNCHANGED <<bstat, total, counts, attempts, sid, due, jobs, api, history,
                 scenario>>

(* attempts is the number the job read when it took the recipient; nobody  *)
(* else changes it while the recipient is processing, save for retry after *)
(* a fault.                                                                *)
Except(w) ==
  LET r == wk[w].r IN
  /\ AtStep(w, "except")
  /\ SetRecipient(r, IF wk[w].cat = "retryable" /\ attempts[r] <= MaxRetries
                     THEN "retrying" ELSE "failed")
  /\ Proceed(w)
  /\ UNCHANGED <<bstat, total, counts, attempts, sid, due, jobs, api, history,
                 scenario>>

-----------------------------------------------------------------------------
(* _recount_blast, _finalize_blast *)

Recount(w) ==
  /\ AtStep(w, "recount")
  /\ wk' = [wk EXCEPT ![w].step = "recount_write",
                      ![w].found = [sent |-> Number(Sent),
                                    failed |-> Number({"failed"})]]
  /\ UNCHANGED <<dbVars, jobs, api, history, scenario>>

RecountWrite(w) ==
  /\ AtStep(w, "recount_write")
  /\ counts' = IF bstat = "gone" THEN counts ELSE wk[w].found
  /\ wk' = [wk EXCEPT ![w] = IF wk[w].after = "idle" THEN Idle
                             ELSE [Idle EXCEPT !.step = wk[w].after,
                                               !.batch = wk[w].batch]]
  /\ UNCHANGED <<bstat, total, rstat, attempts, sid, due, jobs, api, history,
                 scenario>>

FinalStatus(c) ==
  CASE c.sent > 0 /\ c.failed > 0                -> "partially_completed"
    [] c.sent = 0 /\ c.failed > 0                -> "failed"
    [] c.sent = 0 /\ c.failed = 0 /\ total = 0   -> "failed"
    [] OTHER                                     -> "completed"

(* The blast is read once more after its counters were written. *)
FinalCheck(w) ==
  /\ AtStep(w, "final_check")
  /\ IF bstat \in Terminal \cup {"gone"} THEN Return(w)
     ELSE wk' = [wk EXCEPT ![w].step = "final_write", ![w].found = counts]
  /\ UNCHANGED <<dbVars, jobs, api, history, scenario>>

(* By _id alone: over a pause, cancel or retry since FinalCheck.  The      *)
(* recount after it writes the counters only.                              *)
FinalWrite(w) ==
  /\ AtStep(w, "final_write")
  /\ SetBlast(FinalStatus(wk[w].found))
  /\ RecountThen(w, "idle")
  /\ UNCHANGED <<total, counts, rstat, attempts, sid, due, jobs, api, history,
                 scenario>>

-----------------------------------------------------------------------------
(* What goes wrong around it *)

Call(op) == /\ op \in scenario.ops /\ scenario.calls > 0
            /\ scenario' = [scenario EXCEPT !.calls = @ - 1]

(* The worker process dies; RQ does not run the job again. *)
Crash(w) ==
  /\ ~AtStep(w, "idle") /\ Call("crash")
  /\ lost' = IF AtStep(w, "mark") THEN [lost EXCEPT ![wk[w].r] = @ + 1]
                                  ELSE lost
  /\ Return(w)
  /\ UNCHANGED <<dbVars, jobs, api, live, stopped>>

(* The backoff of a retry is over: next_retry_at has passed. *)
BackoffEnds(r) ==
  /\ rstat[r] = "retrying" /\ r \notin due
  /\ due' = due \cup {r}
  /\ UNCHANGED <<bstat, total, counts, rstat, attempts, sid, jobs, wk, api,
                 history, scenario>>

(* A delivery report on a marked recipient (StatusCallbacks has the rule). *)
Report(r) ==
  /\ scenario.reports > 0 /\ sid[r] /\ rstat[r] = "sent" /\ live[r] > 0
  /\ scenario' = [scenario EXCEPT !.reports = @ - 1]
  /\ \/ SetRecipient(r, "delivered") /\ UNCHANGED live
     \/ SetRecipient(r, "failed") /\ live' = [live EXCEPT ![r] = @ - 1]
  /\ UNCHANGED <<bstat, total, counts, attempts, sid, due, jobs, wk, api, lost,
                 stopped>>

-----------------------------------------------------------------------------
(* API handlers: a check, then the writes *)

At(c, s)   == api[c].step = s
Ready(c)   == At(c, "idle")
To(c, s)   == api' = [api EXCEPT ![c].step = s]
ToIdle(c)  == api' = [api EXCEPT ![c] = [step |-> "idle", n |-> 0,
                                         paused |-> FALSE]]

(* The document comes first, then the rows of the eligible numbers; if     *)
(* there is none the document is deleted and no job is enqueued.           *)
create_blast(c) ==
  /\ Ready(c) /\ bstat = "none"
  /\ bstat' = "queued" /\ total' = Cardinality(Recipients)
  /\ To(c, "create_rows")
  /\ UNCHANGED <<counts, rstat, attempts, sid, due, jobs, wk, history,
                 scenario>>

CreateRows(c) ==
  /\ At(c, "create_rows")
  /\ \E eligible \in SUBSET Recipients :
       IF eligible = {}
       THEN bstat' = "gone" /\ UNCHANGED <<total, rstat, jobs>>
       ELSE /\ rstat' = [r \in Recipients |->
                           IF r \in eligible THEN "pending" ELSE "none"]
            /\ total' = Cardinality(eligible)
            /\ jobs' = jobs + 1
            /\ UNCHANGED bstat
  /\ ToIdle(c)
  /\ UNCHANGED <<counts, attempts, sid, due, wk, history, scenario>>

pause_blast(c) ==
  /\ Ready(c) /\ bstat = "sending"
  /\ Call("pause") /\ To(c, "pause_write")
  /\ UNCHANGED <<dbVars, jobs, wk, history>>

PauseWrite(c) ==
  /\ At(c, "pause_write")
  /\ SetBlast("paused") /\ ToIdle(c)
  /\ UNCHANGED <<total, counts, rstat, attempts, sid, due, jobs, wk, history,
                 scenario>>

(* _requeue_stuck_blast_recipients: processing for five minutes.  A job    *)
(* lives no longer than that, so no worker has the recipient in hand; one  *)
(* that died less than five minutes ago leaves it as it is.                *)
Stuck == {r \in Recipients : rstat[r] = "processing"
                             /\ \A w \in Workers : wk[w].r # r}

RequeueStuck ==
  \E S \in SUBSET Stuck :
    rstat' = [r \in Recipients |-> IF r \in S THEN "pending" ELSE rstat[r]]

resume_blast(c) ==
  /\ Ready(c) /\ bstat = "paused"
  /\ Call("resume") /\ To(c, "resume_requeue")
  /\ UNCHANGED <<dbVars, jobs, wk, history>>

ResumeRequeue(c) ==
  /\ At(c, "resume_requeue")
  /\ RequeueStuck /\ To(c, "resume_write")
  /\ UNCHANGED <<bstat, total, counts, attempts, sid, due, jobs, wk, history,
                 scenario>>

ResumeWrite(c) ==
  /\ At(c, "resume_write") /\ jobs < MaxJobs
  /\ SetBlast("sending") /\ jobs' = jobs + 1 /\ ToIdle(c)
  /\ UNCHANGED <<total, counts, rstat, attempts, sid, due, wk, history,
                 scenario>>

retry_failed_blast(c) ==
  /\ Ready(c) /\ bstat \notin {"none", "gone", "cancelled"}
  /\ Call("retry")
  /\ api' = [api EXCEPT ![c].step = "retry_recipients",
                        ![c].paused = (bstat = "paused")]
  /\ UNCHANGED <<dbVars, jobs, wk, history>>

RetryRecipients(c) ==
  /\ At(c, "retry_recipients")
  /\ api' = [api EXCEPT ![c].step = "retry_requeue",
                        ![c].n = Number({"failed"})]
  /\ MoveAll({"failed"}, "pending")
  /\ attempts' = [r \in Recipients |-> IF rstat[r] = "failed"
                                       THEN 0 ELSE attempts[r]]
  /\ UNCHANGED <<bstat, total, counts, sid, due, jobs, wk, history, scenario>>

RetryRequeue(c) ==
  /\ At(c, "retry_requeue")
  /\ RequeueStuck /\ To(c, "retry_write")
  /\ UNCHANGED <<bstat, total, counts, attempts, sid, due, jobs, wk, history,
                 scenario>>

(* The count of open recipients, the refusal, or the write and the job. *)
RetryWrite(c) ==
  /\ At(c, "retry_write") /\ jobs < MaxJobs
  /\ IF \/ api[c].n > 0
        \/ api[c].paused /\ Number({"pending", "retrying"}) > 0
     THEN SetBlast("sending") /\ jobs' = jobs + 1
     ELSE UNCHANGED <<bstat, jobs>>
  /\ ToIdle(c)
  /\ UNCHANGED <<total, counts, rstat, attempts, sid, due, wk, history,
                 scenario>>

cancel_blast(c) ==
  /\ Ready(c) /\ bstat \notin Terminal \cup {"none", "gone"}
  /\ Call("cancel") /\ To(c, "cancel_write")
  /\ UNCHANGED <<dbVars, jobs, wk, history>>

CancelWrite(c) ==
  /\ At(c, "cancel_write")
  /\ SetBlast("cancelled") /\ To(c, "cancel_recipients")
  /\ UNCHANGED <<total, counts, rstat, attempts, sid, due, jobs, wk, history,
                 scenario>>

(* Mutant: a recipient whose backoff or batch is pending is forgotten. *)
CancelRecipientsBusy(c) ==
  /\ At(c, "cancel_recipients")
  /\ MoveAll({"processing"}, "cancelled")
  /\ stopped' = TRUE /\ ToIdle(c)
  /\ UNCHANGED <<bstat, total, counts, attempts, sid, due, jobs, wk, live, lost,
                 scenario>>

CancelRecipients(c) ==
  /\ At(c, "cancel_recipients")
  /\ MoveAll(Open, "cancelled")
  /\ stopped' = TRUE /\ ToIdle(c)
  /\ UNCHANGED <<bstat, total, counts, attempts, sid, due, jobs, wk, live, lost,
                 scenario>>

delete_blast(c) ==
  /\ Ready(c) /\ bstat \notin {"none", "gone"}
  /\ Call("delete") /\ bstat' = "gone"
  /\ To(c, "delete_recipients")
  /\ UNCHANGED <<total, counts, rstat, attempts, sid, due, jobs, wk, history>>

DeleteRecipients(c) ==
  /\ At(c, "delete_recipients")
  /\ rstat' = [r \in Recipients |-> "none"]
  /\ ToIdle(c)
  /\ UNCHANGED <<bstat, total, counts, attempts, sid, due, jobs, wk, history,
                 scenario>>

-----------------------------------------------------------------------------
JobStep(w) ==
  \/ MarkSending(w) \/ Pick(w) \/ OpenCount(w) \/ Loop(w) \/ CancelOpen(w)
  \/ Win(w) \/ MetaSent(w) \/ (\E a \in Answers : Attempt(w, a)) \/ Mark(w)
  \/ PutBack(w) \/ AccountPause(w) \/ Except(w) \/ Recount(w)
  \/ RecountWrite(w) \/ FinalCheck(w) \/ FinalWrite(w)

(* The rest of a request whose check has passed. *)
Commit(c) ==
  \/ CreateRows(c) \/ PauseWrite(c) \/ ResumeRequeue(c) \/ ResumeWrite(c)
  \/ RetryRecipients(c) \/ RetryRequeue(c) \/ RetryWrite(c) \/ CancelWrite(c)
  \/ CancelRecipients(c) \/ DeleteRecipients(c)

Request(c) ==
  \/ create_blast(c) \/ pause_blast(c) \/ resume_blast(c)
  \/ retry_failed_blast(c) \/ cancel_blast(c) \/ delete_blast(c)

Next ==
  \/ \E w \in Workers : StartJob(w) \/ JobStep(w) \/ Fault(w) \/ Crash(w)
  \/ \E c \in Clients : Request(c) \/ Commit(c)
  \/ \E r \in Recipients : BackoffEnds(r) \/ Report(r)

Spec == Init /\ [][Next]_vars

(* Live workers take jobs and run them, asyncio resumes handlers and time  *)
(* passes.                                                                 *)
FairSpec ==
  /\ Spec
  /\ \A w \in Workers : WF_vars(StartJob(w) \/ JobStep(w))
  /\ \A c \in Clients : WF_vars(Commit(c))
  /\ \A r \in Recipients : WF_vars(BackoffEnds(r))

-----------------------------------------------------------------------------
(* Properties *)

AfterRecount == {"idle", "loop", "open_count", "final_check"}
JobType ==
  [step : WorkerSteps, batch : SUBSET Recipients,
   r : Recipients \cup {NoRecipient}, cat : Answers \cup {"none"},
   found : [sent : Nat, failed : Nat], after : AfterRecount]

VariablesOK ==
  /\ bstat \in BlastStatuses /\ total \in Nat
  /\ counts \in [sent : Nat, failed : Nat]
  /\ rstat \in [Recipients -> RecipientStatuses]
  /\ attempts \in [Recipients -> Int] /\ sid \in [Recipients -> BOOLEAN]
  /\ due \subseteq Recipients /\ jobs \in Nat
  /\ wk \in [Workers -> JobType]
  /\ api \in [Clients -> [step : ApiSteps, n : Nat, paused : BOOLEAN]]
  /\ live \in [Recipients -> Nat] /\ lost \in [Recipients -> Nat]
  /\ stopped \in BOOLEAN /\ scenario \in ScenarioTypes

(* Every variable holds a value of its type, and attempt_count, which a    *)
(* refused attempt decrements, does not go below zero.  With one exception *)
(* that the proof found: after a fault a recipient may be in the hands of  *)
(* two jobs, one of which fails it; "retry failed" then resets the count   *)
(* that the other job gives back.                                          *)
TypeOK == VariablesOK /\ \A r \in Recipients : attempts[r] < 0 => lost[r] > 0

(* retry_failed_blast: "Those who already received it are never sent to    *)
(* twice".  A number gets a second message only if the first was reported  *)
(* failed, or was accepted by the provider without the worker living to    *)
(* see or to write it down: a lost answer, a fault or a crash each excuse  *)
(* one more, and neither two chains of jobs nor any sequence of pause,     *)
(* resume, retry and requeue does.                                         *)
NobodyTwice == \A r \in Recipients : live[r] <= 1 + lost[r]

Promise == INSTANCE SendPromise WITH Targets <- Recipients

(* The blast implements what SendPromise promises each of its recipients. *)
KeepsPromise == Promise!PromiseSpec

(* A cancel request has written the blast, or has returned. *)
Cancelled == stopped \/ \E c \in Clients : At(c, "cancel_recipients")

PutsNothingBack == scenario.answers \subseteq {"accepted", "permanent"}

(* With resume there are two chains of jobs, and one of them may end while *)
(* a job of the other has recipient r in hand without r showing it: after  *)
(* a fault that came when r was marked as sent, or because a cancel closed *)
(* r although the attempt under way will open it again.                    *)
Disturbed(r) ==
  /\ "resume" \in scenario.ops
  /\ \/ lost[r] > 0 /\ sid[r]
     \/ Cancelled /\ (lost[r] > 0 \/ ~PutsNothingBack)

(* A blast that is shown as finished has no recipient left to serve,       *)
(* through any pauses, resumes, crashes and the cancel that races the      *)
(* last job.  Not with retry: its recipients may be requeued between the   *)
(* last job's count and its final write, and then wait in a finished blast *)
(* (nor, which the proof found, with what Disturbed says).                 *)
FinishedMeansServed ==
  bstat \in Terminal \ {"cancelled"} /\ "retry" \notin scenario.ops
    => \A r \in Recipients : rstat[r] \in Open => Disturbed(r)

(* After a cancel request has returned no job takes up another recipient,  *)
(* although the first job may have written "sending" over "cancelled": the *)
(* recipients are cancelled too.  That second line of defence fails if an  *)
(* attempt under way then puts its recipient back (a refused permit, a     *)
(* retry, an account rejection, a fault), or if a retry whose check came   *)
(* before the cancel requeues what failed: these are excluded here.        *)
NoneTakenUpAfterCancel ==
  [][stopped /\ PutsNothingBack /\ "retry" \notin scenario.ops
       => \A w \in Workers : AtStep(w, "win") /\ lost[wk[w].r] = 0
                              => wk'[w].step # "attempt"]_vars

(* Nothing in the scenario stops a chain or keeps it going for ever. *)
Calm == "crash" \notin scenario.ops /\ "denied" \notin scenario.answers

(* The chain of jobs does not break: a blast that is queued or sending     *)
(* ends, or someone pauses, cancels or deletes it.                         *)
BlastEnds ==
  Calm /\ bstat \in {"queued", "sending"}
    ~> bstat \in Terminal \cup {"paused", "gone"}
=============================================================================
