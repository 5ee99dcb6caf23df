# A verification of the AI WhatsApp agent's backend

The backend (FastAPI, MongoDB, Redis with RQ) sends WhatsApp campaigns, blasts
and chat messages through Twilio or Meta, receives their delivery reports and
customers' answers, and lets an AI agent answer. This directory holds TLA+
models of its core, TLC configurations that check them on small instances, and
proofs checked by TLAPS. All definitions are translated from the Python source;
`PROJECT.json` ("map") names the lines each of them stands for.

## The system

| component | code | state | operations | here |
|---|---|---|---|---|
| Campaign engine | `app/workers/campaign_tasks.py`, `app/routes/campaigns.py`, `app/services/campaign_service.py` | `campaigns`, `campaign_recipients`, RQ jobs | create, start, schedule, batch, send, retry, complete, pause, resume, cancel, retry failed, edit, delete | `CampaignEngine` |
| AI campaigns | `app/services/ai_campaign.py`, `campaign_tasks.py` 1036-1308 | generated content and review state per recipient | generate, preview, approve, reject, regenerate, send gate | `AiCampaign` |
| Idempotency | `app/services/idempotency.py` | Redis `idem:*`, TTL 24 h | claim | in every sender |
| Send permits | `app/services/throughput.py` | Redis `wa:tps:*`, `wa:tpm:*`, `wa:concurrent` | acquire, release | `SendPermits` |
| Status callbacks | `app/services/status_callback.py`, `delivery_status.py` | status fields of messages and recipients, blast counters | apply a report (Twilio, Meta) | `StatusCallbacks` |
| Blasts | `app/workers/tasks.py` 1231-1758, `app/routes/campaigns.py` 1661-1964 | `blast_campaigns`, `blast_recipients` | create, send loop, pause, resume, cancel, retry, requeue, delete | `BlastEngine` |
| Outbound messages | `app/workers/tasks.py` 78-470, `message_service.py`, `routes/messages.py` | `messages`, Redis keys | create once, send, retry | `OutboundMessage` |
| Reconciliation | `app/services/reconciliation.py` | stale `messages` | ask the provider, repair or fail | `OutboundMessage` |
| Inbound | `app/services/inbound_whatsapp.py`, webhooks | `webhook_events`, leads, messages | claim the event, store, opt in or out, enqueue a reply | `Conversation` |
| AI replies | `app/workers/tasks.py` 615-1230, `agent_router.py` | idempotency keys, messages | check, claim, generate, send, hold | `Conversation` |
| Reply recovery | `app/services/reply_recovery.py` | `leads.missed_reply` | scan, catch up, hand back | `Conversation` |
| Scheduler | `scheduler.py` | Redis lock | due campaigns, reconciliation, recovery, ingest ticks | `SchedulerLock` |
| Queues | `worker.py`, `app/workers/queue.py` | RQ queues high, default, bulk | enqueue, run | jobs taken in any order |
| Billing | `routes/billing.py`, `stripe_service.py`, `app/billing/` | subscription fields of users, Stripe events | checkout, webhook, customer creation | `Billing` |
| Quotas, entitlements | `ai_quota.py`, `entitlements.py`, `ai_provider.py` | Redis counters | check, record | `AiUsage` |
| Meta onboarding | `meta_onboarding.py`, `meta_credentials.py` | Redis session and lock, credentials | start, complete, disconnect, send | `MetaAccount` |
| Knowledge base | `services/kb/*`, `kb_tasks.py` | sources, chunks, Redis lock | add, resync, ingest slices, drop unseen, delete | `KnowledgeBase` |
| Leads and consent | `lead_*.py`, `whatsapp_consent.py`, `consent_ops.py`, `routes/blacklist.py` | leads, blacklist | import, bulk, consent, blacklist, score | `LeadConsent` |
| Templates | `meta_templates.py`, `routes/templates.py` | templates | sync, submit, refresh | not modelled |
| The rest | notifications, WebSocket, admin, settings, media, observability | | best-effort side effects and CRUD | not modelled |

How they interact: API handlers (asyncio, one process or several) and RQ jobs
(one job per worker process at a time) share MongoDB documents and Redis keys.
There are no transactions: most handlers read a document, decide, and update it
by `_id`. A few updates are conditional and carry the correctness: the
`find_one_and_update` that takes a recipient, the scheduled -> queued update, the
processing -> sent update and `SET NX` for the idempotency key. Providers call
back over webhooks, in any order and more than once.

What is hard: duplicate jobs for one recipient; writes by `_id` after a stale
read; a key that is claimed and never released; completion that is noticed by
whichever job happens to be last; workers that die between two commands;
reports that overlap. `PROJECT.json` lists these hazards line by line.

What makes each part correct: a campaign sends at most once per recipient and
key, shows only what is true, ends, and stops when told to; permits never exceed
a limit; a status never goes back and no report is forgotten; a blast and a chat
message reach nobody twice unless the system could not know of the first time;
no message is left hanging; an inbound message is stored and answered once and
nobody waits in silence; a scheduler tick has one owner; an account is entitled
to what Stripe says it pays for; a tenant sends as itself; a text that needs a
person's approval has it; knowledge shown as ready is complete; who has said stop
stays opted out; and the AI does not cost more than it may.

## Modules

| module | models | built on |
|---|---|---|
| `RecipientStatus` | status vocabulary and rules of campaigns: `recipient_should_apply`, `finalize_status_from_counts`, the mapping of provider statuses | |
| `CampaignEngine` | one campaign: API handlers, worker jobs, Redis claim, callbacks | `RecipientStatus` |
| `SendPermits` | `throughput.py`, one step per Redis command | |
| `DeliveryStatus` | rules of `delivery_status.py` | |
| `StatusCallbacks` | the reports of one message against message, recipient, counters and the worker that sent it | `DeliveryStatus`, `RecipientStatus` |
| `SendPromise` | abstract: a target gets a second message only if the first was withdrawn or could not be known of | |
| `BlastEngine` | one blast; implements `SendPromise` | |
| `OutboundMessage` | chat messages from the request to the provider's report, and their reconciliation | `DeliveryStatus` |
| `SchedulerLock` | the scheduler processes and their lock | |
| `Outbox` | the two composed: schedulers run the reconciliation; implements `SendPromise` | `OutboundMessage`, `SchedulerLock` |
| `Conversation` | one chat: inbound messages, AI replies, recovery, the team | |
| `Billing`, `AiCampaign`, `MetaAccount`, `KnowledgeBase`, `LeadConsent`, `AiUsage` | the parts around the messages | |
| `Services` | those six side by side | all six |
| `MC...` | scenarios and settings for TLC | |
| `CampaignEngineProofs`, `StatusCallbacksProofs`, `SendPermitsProofs`, `OutboxProofs`, `BlastEngineProofs`, `ConversationProofs` | theorems about the runs' properties | |
| `PlanProofs` | theorems about `Billing`, `AiUsage` and `KnowledgeBase`, each by itself | |
| `ServicesProofs` | theorems about `MetaAccount`, `AiCampaign` and `LeadConsent`, and about `Services`, the whole | `PlanProofs` |

In all of them a step is one MongoDB or Redis operation whose effect another
process can see, or several of which only one is. Handlers and jobs are records
with the step they are about to take and the locals they still need. A
`scenario` (in `Services` one "case" per part) is chosen once: it says what may
happen in a behaviour, which answers the outside world may give and how often
processes die. Variables called history are read by no action of the code; they
remember what the properties speak about. Definitions whose comment begins with
"Mutant" are not part of a model: each is a plausible bug, and `PROJECT.json`
names the property that it breaks.

### CampaignEngine

`cstat`, `rstat`, `attempts` and `sid` are the fields of the two collections
(`"gone"`: the document was deleted), `claims` the Redis keys, `sendq` and `ctlq`
the RQ queues as counters of jobs, `wk` the jobs in progress with their locals,
`api` the requests in progress. `expired`, `sends` and `stopped` are history:
nothing in the code reads them. `scenario` says what may happen in a behaviour
and how often; it is chosen once.

A step is one MongoDB or Redis operation whose effect another process can see.
So `start_campaign_job` is `StartRead`, `StartWrite`, `StartQueue` and then the
batch; a send job is `SendStart`, `Win`, `Claim`, `Gate`, `Permit`,
`ProviderCall`, `Mark` and the completion check in three steps, or from
`ExceptRead` through one of the four branches of the except handler. API handlers
are the check (`pause_campaign`) and the writes (`PauseCommit`) apart, because
the check is not part of the update's filter. RQ runs jobs of several queues and
delayed jobs, so jobs are taken in any order; the delays of `enqueue_in` and
`next_retry_at` are left to that order and to the free choice of due retries in
`BatchPick`.

Left out: the contents of messages, leads and templates, events published to the
browser, the counters on the campaign document (`CompleteRefresh` only keeps
what the final status is computed from), the parts of PATCH that replace the
recipients. A completion check also runs `_refresh_campaign_counters` first;
only its result matters here.

### SendPermits

`acquire_send_permit` is `Begin` (the clock is read once), for each of second,
minute and tenant's minute `Count` (the INCR) and, if it counted to 1, `SetTTL`
(the EXPIRE), then `TakeSlot`, `Arm` (the EXPIRE of the first holder) or
`UndoSlot`; `Release` is `release_send_permit`. The clock may tick at any moment,
and a tick deletes the rate keys whose time to live is over: a worker that read
the clock before and counts afterwards makes the key anew. `granted` (history)
counts the permits by the keys they were counted under, `lapses` how often a key
was made anew. The workers' clocks and Redis's are taken as one.

### StatusCallbacks

One message, one recipient. The worker's side is `InsertMessage`,
`MarkRecipient` and, for a blast, `_recount_blast` in two steps. A handler reads
the message and the recipient and writes each from what it read; Twilio's
handler goes through them one after the other, Meta's reads both first
(`StepAfter`). `truth` and `emitted` are the provider: it reports every status it
passed, in any order and any number of times.

### BlastEngine and SendPromise

`send_blast_messages` is `StartJob`, `MarkSending`, `Pick` (the batch),
`Loop` (the blast is read afresh before each recipient), `Win` (the conditional
update to processing), `Attempt`, `Mark` or `PutBack` or `Except`, and
`_recount_blast` and `_finalize_blast` in two steps each. The requests are the
check and its writes apart, as in `CampaignEngine`. There is no idempotency key:
that one recipient is in one job's hands is all that prevents a second message.
`live` counts a recipient's accepted messages that were not reported failed,
`lost` those that the worker could not take note of (the answer was lost, an
exception came after it, the worker died).

`SendPromise` has only `live` and `lost`: a message may be accepted if
`live <= lost`, a note may get lost, a message may be reported failed.

### OutboundMessage, SchedulerLock, Outbox

`send_message` claims the Idempotency-Key (`Look`, `ClaimKey`, `LookAgain`),
inserts the message (`Insert`), enqueues the job and stores the result.
`send_outbound_message` claims the "outbound" key on its first attempt only
(`ClaimSend`); the later attempts are jobs of their own (`Schedule`).
Reconciliation is `Scan`, then per message `NextStale`, `Fetch` (Twilio only),
`WriteStale` and `RepairRecipient`.

`SchedulerLock` follows `_refresh_lock` in its Redis commands, so that a lock may
expire between GET and EXPIRE or GET and DELETE. `lapsed` (history) has the
processes that outlived the lock's time to live without noticing. In `Outbox` a
tick runs a reconciliation, and a scheduler that dies takes it along.

### Conversation

`chat` is the `messages` collection of one lead, oldest first; `lead` its
controls. A webhook handler claims the event (`ClaimEvent`), checks the blacklist,
finds or makes the lead, stores the message and then applies a consent keyword
(with a confirmation of an opt-out) or enqueues a reply. A reply job looks at the
lead (is it eligible, paused or taken over, are quota and conversations left:
`Decline`), claims its key and asks whether the trigger is answered: a catch-up
by anything of ours since, a late original job by a catch-up (`TakeUp`). It makes
the answer, stores it (`InsertReply`), looks at the lead again (`Confirm`) and
sends. `scan_missed_replies` looks at a chat, and marks it, enqueues a catch-up
or hands it back. A welcome or an opt-out confirmation (`Notice`) is an answer
for `_answered_after`, not for the scan. `faded` are the messages that Twilio's
listings no longer have (lookback, 500 newest) before one found them. Time moves
in the coarse steps that recovery distinguishes (`Ages`). `excused`, `grace` and
`dropped` are history: a message whose second answer the code cannot prevent, a worker that
had looked at the lead before it was taken over, a message whose webhook died
with the event claimed.

### Services and its six parts

They share no document, queue or key. `Services` follows one part (`part`) at a
time; the other parts rest in a case in which nothing happens.

- `Billing`: a Stripe event is claimed, its handler reads the account, writes it
  and marks the event; a claim whose insert fails is answered "busy"
  (`ClaimInsertFails`); a checkout verifies or creates the customer, then makes a
  session. Its lock keeps nobody out (`LookAtLock`): the database client is not
  `tz_aware`, so `_lock_stale` cannot subtract the lock's time and takes it for
  stale. `tangled` (history) says that two handlers overlapped, `turned` which
  events were answered "busy".
- `AiCampaign`: an AI campaign from `start_ai_campaign_job` to the last send.
  Texts are numbers, fresh for each answer of the AI; `seen` has the pairs of
  recipient and text that a person approved.
- `MetaAccount`: several tenants want to connect, change or give up a number; a
  token remembers for whom and which number it was issued.
- `KnowledgeBase`: versions of pages, documents with the hash of what they were
  built from, chunks, jobs under the source's lock, `_finish` and its deletion of
  what a run did not see.
- `LeadConsent`: one phone number; every write of `apply_consent_change`, of the
  blacklist routes, an import and the score's recalculation is a step.
- `AiUsage`: ask, call with retries and a fallback model, record.

## Runs

| run | checks | what it shows |
|---|---|---|
| `campaign_safety` | `TypeOK`, `EngineInv`, `AtMostOncePerClaim`, `SentMeansAccepted`, `CompletedMeansAllSent`, `SuccessNotReopened`, `CancelStopsNewSends` | six scenarios, all interleavings |
| `campaign_live` | `CampaignSettles`, `QueuedGoesOn` | under fairness a campaign ends and nobody waits, but for those left stranded |
| `send_permits` | `TypeOK`, `ConcurrencyLimit`, `RateLimits`, `CountedSlotExpires` | the limits hold between any two commands |
| `status_callbacks` | `TypeOK`, `ForwardsOneByOne`, `NoReportForgotten`, `CountersMatch`, `NeverUndercounted` | both providers, both parents, reports in any order |
| `blast` | `TypeOK`, `NobodyTwice`, `FinishedMeansServed`, `KeepsPromise`, `NoneTakenUpAfterCancel`, `BlastEnds` | nine scenarios: two chains of jobs, every answer, deaths, faults, reports, retries |
| `outbox` | `TypeOK`, `OneMessagePerKey`, `SingleActive`, `KeepsPromise`, `NotTakenBack`, `NoMessageHangs`, `TicksGoOn` | one key, one message; no second send; nothing hangs; somebody ticks |
| `conversation` | `TypeOK`, `OnceOnly`, `NobodyTalkedOver`, `NoneLeftWaiting`, `NoInboundLost` | fourteen scenarios of one chat |
| `services` | `TypeOK`, `ServicesInv`, `DecisionsStay`, `AllEnds` | the six parts, each in several cases |
| `campaign_resume` | `QueuedIsServed` (violated) | finding 1 |
| `campaign_overwrite` | `CancelledIsTerminal` (violated) | finding 2 |
| `campaign_meta_retry` | `FailedIsResent` (violated) | finding 3 |
| `status_overlap` | `NeverBackwards` (violated) | finding 4 |

Run one with `tlc -config MCCampaignSafety.cfg MCCampaignEngine` and so on. All
but `outbox` switch the deadlock check off: a campaign that is over, a clock at
its bound, a message without further reports, a chat in which nobody speaks is a
system that rests. In `outbox` the schedulers tick for ever.

`ServicesInv`, `DecisionsStay` and `AllEnds` are conjunctions of named properties,
one or more per part: `OneCustomer`, `EntitledToWhatIsPaid`, `GivenByHandStays`,
`EventsApplied` (Billing); `ReviewedFirst`, `ApprovedStays`, `GenerationEnds`
(AiCampaign); `SentAsItself`, `SessionUsedOnce`, `ConnectedHasItsToken`,
`OnboardingAnswered` (MetaAccount); `ReadyIsIndexed`, `DeletedIsForgotten`,
`KnowledgeWithinPlan`, `SyncEnds` (KnowledgeBase); `OptOutStands`,
`EntryIsTheLast`, `BlockedHasNoScore` (LeadConsent); `SpendsWithinLimits`,
`CallsBounded` (AiUsage). Each has a mutant of its own.

### Bounds, and why they are enough

- `campaign_safety`: two recipients (the smallest number for which one is left
  out while the other completes the campaign, and for which a batch does not
  see everyone), two workers (every race here is between two jobs, or a job and
  a request), one client with two or three requests in sequence; the races of two
  clients' unconditional writes appear already between a client and a job.
  `BatchSize` 2, at most one waiting send job per recipient when a batch starts
  (`MaxJobs`), so a recipient has duplicate jobs through retries, denials and
  resumes. One retry; one crash, one fault and one expired key in `Failures`.
  The scenarios split what can happen: `Races` (three requests, slots denied,
  against pause, resume, cancel), `Endings` and `CancelledEndings` (every final
  status, without and with cancel), `Failures`, `Callbacks` (Meta, delivery events
  against a start and one more request of any kind), `Requests` (three requests:
  retried, cancelled, edited, deleted). What a longer mixture could add is
  covered by the proofs: all seven properties of this run are theorems for every
  set of scenarios (`CampaignEngineProofs`).
- `campaign_live`: `BatchSize` 1, so that two recipients need chained batches.
  Eight scenarios: every final answer, with start and pause; a retryable error, a
  refused permit or a required review beside a permanent refusal; pause and
  resume; an account block and resume; "Retry failed".
- `send_permits`: three workers for one slot, two permits a second and a minute,
  one a minute for a tenant; seconds 0 to 2, of which two share a minute; three
  permits asked for; one worker dies while it sends or between a rate key's INCR
  and EXPIRE, and `wa:concurrent` runs out once. Rate keys live two seconds (for 2
  and 70), as long as a minute here, so that one runs out under a worker that
  counts late; one second more would need six permits to tell anything new.
- `status_callbacks`: five reports one after the other (a path to "read" takes
  three, so two are duplicates or late), three when they overlap.
- `blast`: two recipients, two workers, one client with up to three requests,
  one retry, batches of two, two jobs waiting when a handler adds one: a resume
  or a retry starts a second chain. One fault, one report, one death at a time.
- `outbox`: two clients with one key (three requests), one worker, one retry, two
  messages, two schedulers of which one runs where the lock is not the question;
  two deaths, so that a request and its worker or two workers die; two troubles
  (stop, death, slow tick), enough for both schedulers to lose the lock.
- `conversation`: two inbound messages, two webhook handlers (one of which is the
  recovery's replay), two workers, two scanners; each scenario lets one thing
  overlap, fail or die. In `Welcomed` and `Confirmed` the welcome of a new
  customer, or the confirmation of a STOP that the team takes back, comes between
  the message and its catch-up. Recovery's attempts are one or two.
- `services`: two of everything that may overlap (webhook deliveries, checkouts,
  generation workers, tenants, numbers, sessions, readers, requests on a phone
  number, AI callers), three acts of people, five Stripe events, two pages of a
  source. One death, failure or slow process per case.

### Fairness

- Campaign and blast: weak fairness of every worker (a live RQ worker takes a job
  when there is one and runs it) and of every request that passed its check (an
  asyncio handler is resumed); in a blast also that a backoff ends. Nothing is
  assumed of clients, callbacks, crashes, faults or expiries. The scheduler's
  tick is part of `TakeJob`: the scheduler enqueues the due-campaign job every
  tick, and the RQ worker runs it.
- `outbox`: also that messages age, that a lock whose owner is dead expires, and
  that a scheduler process goes on (its loop catches every exception and a
  supervisor restarts it; a restart has another owner name).
- `conversation`: webhook handlers, jobs, scans and the clock go on, Twilio lists
  what it has, and an outbound message nobody looks after is failed by the
  reconciliation, as `outbox` shows (`FailStale`, after 60 minutes).
- `services`: the requests and jobs of each part go on, Stripe delivers its events
  and repeats those that were not answered with 200, the scheduler starts what is
  due. People need not do anything. A part at rest enables none of these.

### What the properties leave open

What the code does not guarantee is excluded in the property, by name, so that a
reader sees it; these exclusions are as much a result as the properties.

Campaigns, permits and reports:

- `CompletedMeansAllSent` is stated for start, pause and resume without faults.
  With cancel or "retry failed" between the open count and the final write of
  `_maybe_complete_campaign` a completed campaign may have unserved recipients,
  and a fault may do the same.
- `SuccessNotReopened` excepts faults: an exception after the recipient was
  marked sets it to retrying; the idempotency key then prevents a second message.
  It also excepts a late callback (`LateCallback`): on Twilio, once the key has run
  out and the recipient is being sent to anew, a report of the first message may
  show it as delivered while the second job is about to write "queued".
- `CancelStopsNewSends`: after a cancel, jobs in flight may still write "queued"
  over "cancelled"; what is shown is that this sends nothing. The job that wrote it
  had claimed the recipient's key (`Spent`); if that runs out, or a fault comes
  before the claim, a cancelled campaign may take the recipient up again.
- A send job claims the recipient's key and does not release it. After a
  retryable error, a refused permit or an account block, and after Resume or
  "Retry failed" put a recipient back whose key still lives, the next job wins
  the recipient, finds the key taken and returns: the recipient stays in
  "processing" and the campaign in "running" until the key's 24 h are over and
  somebody resumes. `CampaignSettles` and `QueuedGoesOn` except such recipients by
  name (`GivenBack`, `Stranded`); finding 1 is the case the repository denies.
- Nobody looks for completion after a recipient that ended at the manual-review
  gate, or that was cancelled by a job which had read the campaign as completed
  just before "Retry failed" set it to running again: if it was the last one, the
  campaign runs for ever (`EndsUnseen`, only with nobody open any more).
- `RateLimits` holds as long as a rate key lives. A worker that reads the clock
  and is held up until the key has run out (2 s, 70 s) makes it anew, and the
  limit is there once more for the same second or minute: the bound is the limit
  times one more than the whole times to live since the window began.
- `ConcurrencyLimit` holds up to the first expiry of `wa:concurrent` (120 s,
  set by the first holder only). `CountedSlotExpires` needs that no worker dies
  between INCR and EXPIRE.
- `ForwardsOneByOne`, `NoReportForgotten` and `CountersMatch` are for reports
  handled one after the other; overlapping ones violate the first (finding 4).
  `failed_count` has two writers and no property.
- A report that comes before the worker stored the message id is dropped by the
  code; `NoReportForgotten` speaks of the later ones.

Blasts:

- A blast cancelled while its first job is about to write "sending" is
  overwritten; its recipients are cancelled, but an attempt under way that puts
  its recipient back goes on sending (`NoneTakenUpAfterCancel`).
- `NoneTakenUpAfterCancel` therefore speaks of answers that put nothing back
  (`PutsNothingBack`), of recipients without a fault behind an accepted message,
  and not of retries: one whose check came before the cancel requeues after it.
- "Retry failed" that races `_finalize_blast` leaves pending recipients in a
  "completed" blast (`FinishedMeansServed`); a second retry is refused with 400.
  With resume there are two chains of jobs, and one may finish the blast while a
  job of the other has a recipient in hand that does not look open: one that was
  marked sent just before a fault, or that a cancel closed while its attempt was
  going to put it back (`Disturbed`).
- An exception after the provider accepted (MongoDB, Redis, RQ's timeout) counts
  as retryable and sends again: excused by `lost`, in a chat message too.
- After a fault behind an accepted message a report may mark the recipient failed
  while its worker still has it. "Retry failed" then sets `attempt_count` to 0
  under workers that may each take one off again: it may become negative, and the
  recipient get an attempt more than `MaxRetries` (`TypeOK` allows it after a
  fault only).
- Blasts and the campaign audience look at `db.blacklist` and pass the result
  instead of `lead.blacklisted`: a lead blocked by PATCH alone still gets blasts.

Chat messages and reconciliation:

- A permit refused on attempt 0 enqueues attempt 0 again, which finds its own key
  claimed and returns: the message waits until the reconciliation fails it.
- A `send_message` request that dies or is refused (400) after it claimed the
  Idempotency-Key leaves it without an answer: retries get 409 for 24 h.
- The reconciliation writes Twilio's status by `_id` over a newer one
  (`NotTakenBack` excludes messages it has in hand), fails a message that Twilio
  has but did not answer for, and fails a campaign's recipient even if its write
  of the message did not match; "retry failed" may then send again.
- GET-then-EXPIRE may renew, and GET-then-DELETE delete, another scheduler's
  lock, and a tick longer than the TTL overlaps another's (`SingleActive`: only
  if one has lapsed).

Conversations:

- An original job and a catch-up that both pass the answered check before either
  stores its answer both answer (`excused`); so does a retry after a lost answer.
- A reply put off by a refused permit is sent by `send_outbound_message`, which
  looks at consent but not at a takeover or an AI pause (`NobodyTalkedOver`).
- A webhook process that dies between claiming the event and storing loses the
  message, a STOP included (`dropped`).
- A welcome or an opt-out confirmation that comes after a customer's message is
  an answer for `_answered_after` (`tasks.py:715-729`), not for the scan: the scan
  enqueues catch-ups that return, until its attempts are used up and it asks for
  a person. The customer is not answered by the AI; `NoneLeftWaiting` says that
  somebody is asked.
- A message that no listing found within its lookback (120 minutes, 24 hours
  after a restart), or behind 500 newer ones, is never replayed
  (`NoInboundLost` excepts it as `faded`).
- A catch-up's key is claimed for 24 h: later catch-ups for the same message
  return at once. A holding message that is sent clears the `needs_human` that
  the failure had set. A scan's hand-back writes by `_id` over a takeover made
  since it read the lead. Opt-in does not clear the `ai_paused` of an opt-out.

Billing:

- "Busy" is answered with 200, so Stripe stops delivering; if the busy handler
  then fails or is dead, the event is lost (`turned`). So it is if there was no
  handler: `_claim_webhook_event` takes any failure of its insert for a duplicate
  (`billing.py:305`), finds no record to take up and says "busy".
- The customer lock keeps nobody out (`_lock_stale` finds every lock stale). That
  one customer is made is up to Stripe's idempotency key.
- Events out of order overwrite newer state, overlapping handlers write what they
  read (`InTurn` in `EntitledToWhatIsPaid`), also over an admin's override.
- Two checkouts give two sessions that can both be paid.
- An invoice that cannot be paid sets `past_due` whatever the subscription was: an
  "unpaid" or "incomplete" one has its plan back until the next event (`Runs`).

AI campaigns:

- A campaign paused while texts are written does not go on after Resume: nothing
  takes the generation up, and its batch job waits for ever (`halted`).
- A batch that dies after it claimed a version leaves the recipient passed by for
  24 h while the chain repeats each second; so does a regenerate that spans two
  rejects.
- The scheduler starts a scheduled AI campaign without the approval check of
  `start_campaign`; the send gate stops unapproved texts under `full_review`
  only. Approve-all makes texts written later approved as well (`given`).
- Where the plain template is sent, the batch stores no text, so that a message
  written by an earlier version or a regenerate stays in `generated_message`
  (`Stored`); the send takes it if the customer's window has opened since.
- A regenerated text has no version key of its own: a batch that was waiting for
  the AI writes over it, approved or not (`redone`).
- `process_campaign_batch` limits before it filters: 25 recipients that are not
  ready, at the head of the list, starve those behind them.

Meta numbers:

- An httpx failure while the number is bound, an invalid `business_id`, or a death
  between the two writes leaves new credentials with the old number (`crossed`);
  sends are then refused. Overlapping onboardings of one tenant may restore an
  old snapshot over newer credentials; a request longer than the lock's 90 s, or
  one that cannot mark its session as consumed because Redis fails
  (`ConsumeFails`), lets its session be used twice (`overtaken`).
- A late 401 of the old token marks a newly connected account "error". A number
  changed by hand does not change the credentials: sends are refused until they
  match.

Knowledge:

- `embedded_hash` is written before the chunks are replaced: a failure in between
  leaves a document without chunks that later runs take for unchanged (`torn`).
  A deletion cut short does the same to a source.
- A job that finds the lock taken returns; a source reset between `_finish` and
  the lock's deletion, or whose worker died, stays queued (`stranded`), and
  resync refuses it with 409. A delete or resync under a running job, or a delete
  before a new source's texts are all inserted, mixes old and new (`mixed`).
- The plan's chunk limit may be passed by one document per reader at work.

Leads:

- An import reads the leads of a batch before it writes them: a STOP in between is
  overwritten (`stale`). An imported "opted_out" makes no entry in
  `db.blacklist`; "pending" in a file replaces "opted_in". A lead made for a
  number that is still listed can be written to in the chat. Overlapping changes
  may leave entry and flag disagreeing (`mingled`), or an old score (`oldscore`).

AI usage:

- Of the quota's limits only one on tokens is modelled; those on requests per
  minute and on the month's cost may refuse a call besides.
- Failed, empty and second truncated answers cost tokens but are not counted; a
  Redis error lets the call through (`blind`); checks come before the counting,
  so a limit may be passed by what the other processes are doing.

## Findings

1. `campaign_resume`: a recipient put back by an account block is not sent to
   after Resume, because its idempotency key is spent
   (`campaign_tasks.py:288-289` against 381-383). A retryable error (864-893), a
   refused send permit (524-536) and "Retry failed" have the same effect on the
   job that comes next.
2. `campaign_overwrite`: cancelled is not terminal (`campaign_tasks.py:136`
   against 185-195).
3. `campaign_meta_retry`: "Retry failed" on Meta marks the recipient sent
   without sending (`tests/test_send_pause_and_retry.py:3` against 354-369).
4. `status_overlap`: overlapping reports move a status backwards
   (`delivery_status.py:63` and `campaign_service.py:116` against
   `status_callback.py:187` and 423): of two handlers that read "sent", one writes
   "read" and the other "delivered" over it.

## Proofs

`CampaignEngineProofs` proves, for any recipients, workers, clients, batch size,
retry limit and scenarios:

- `TypeCorrect`: `Spec => []TypeOK`;
- `EngineInvariant`: `Spec => []EngineInv`;
- `AtMostOnce`: `Spec => []AtMostOncePerClaim`;
- `SentIsAccepted`: `Spec => []SentMeansAccepted`;
- `SuccessStays`: `Spec => SuccessNotReopened`;
- `CancelStops`: `Spec => CancelStopsNewSends`;
- `CompletedIsSent`: `Spec => []CompletedMeansAllSent`.

None of the properties is inductive: that a recipient had one message says
nothing about a job that is about to send another. `EngineInv` adds that the
locals a step relies on are set, that a job between claim and provider call owns
the key, is the only such job for its recipient and finds the key's present life
unused (`ClaimInv`), and that a stored message id and a job about to mark both
come from an accepted message (`AcceptedInv`). Three more parts are for what no
fault disturbs: from the claim to the end of the except handler a job is the only
owner of its recipient's key, and no recipient is shown as sent while one that
has not sent works on it (`OwnerInv`); only spent recipients fail, or come back
after a cancel (`SpentInv`); and when somebody found nobody open nobody is opened
again, since whoever may still send has its recipient shown as open
(`ClosedInv`). `EngineInv` is an invariant of `campaign_safety`, which found its
errors before the proof did: TLC gave the traces that `LateCallback`, `Spent` and
the exception for faults stand for. The proof has one step per action; most
actions leave `claims` and `sends` alone and share a frame lemma. It assumes only
what the modules ASSUME: that the scenarios have their type, that the bounds are
natural numbers and that no recipient is called like the placeholder. `Expire`
may not fire while a job works on the recipient: a job lives at most
`WORKER_JOB_TIMEOUT` (300 s), a key 24 h.

`StatusCallbacksProofs` proves, for any number of handlers and any settings:

- `TypeCorrect`: `Spec => []TypeOK`;
- `OneByOne`: `Spec => ForwardsOneByOne`;
- `NoneForgotten`: `Spec => []NoReportForgotten`;
- `NeverTooLow`: `Spec => []NeverUndercounted`;
- `CountersAreRight`: `Spec => []CountersMatch`.

The rules are first shown to fit together: a status that is applied covers the
old one, one that is refused is covered by it, and covering is transitive, for
`should_apply_status` and for `recipient_should_apply` on the statuses a report
can give. The invariant (`CallbackInv`) says which documents exist given the
worker's step, that without overlap at most one handler is active and its
snapshots are current (`Fresh`), and what the report in hand has reached
(`Reached`). For the counters: a status the recipient has, or a handler saw it
have, is counted or about to be by the handler that wrote it (`CountedInv`, with
overlap too); the statuses met are those on the provider's path (`TrailInv`); and
without overlap each counter says how the recipient stands, or stood before the
handler that is about to count (`MatchInv`).

`SendPermitsProofs` proves, for any workers, tenants and limits:

- `TypeCorrect`: `Spec => []TypeOK`;
- `LimitKept`: `Spec => []ConcurrencyLimit`;
- `SlotExpires`: `Spec => []CountedSlotExpires`, if nobody dies between INCR and
  EXPIRE;
- `RatesKept`: `Spec => []RateLimits`.

That the limit holds is not inductive: `SlotInv` says that the counter is at
least the number of workers that have counted themselves, those about to give a
refused slot back included, so whoever sees a count within the limit is one of at
most `MaxConcurrent`. For the rates `RateInv` says of each key that the
permits given and the workers past its check have each a place of their own in
one of its lives: a full limit for every life it had before, and what is counted
in the present one (`Within`), that each life lasts a whole time to live, the
first one not beginning before the window (`OnTime`), and that only the maker of a
key is about to set its TTL (`ArmedInv`). The proofs count with the library's facts
about finite sets.

`OutboxProofs` proves, for any clients, workers, schedulers, messages, retries
and scenarios:

- `TypeCorrect`: `Spec => []TypeOK`, for both halves of the composition together;
- `OneOwner`: `Spec => []SingleActive`, from `OwnerInv`: who is in a tick, or about
  to renew, has the lock or has lapsed;
- `Implements`: `Spec => KeepsPromise`, that is `Promise!PromiseSpec`: every step
  of `Outbox` is one of `SendPromise` or leaves `live` and `lost` alone;
- `OneMessage`: `Spec => []OneMessagePerKey`, from `InsertedInv` (whatever somebody
  has in hand was inserted) and `KeyedInv`: the key, once claimed, lets at most one
  request insert, and not after a message is there;
- `DeliveredIsKept`: `Spec => NotTakenBack`.

For the refinement `SendInv` says, of each message, that at most one worker past
the claim or one queued retry has it (`OneAttempt`), that then the "outbound" key
is taken for good (`KeyTaken`), and that whoever may still send finds every
accepted message accounted for (`Accounted`). A first attempt's job may be there
any number of times: it cannot claim the key again.

`BlastEngineProofs` proves, for any recipients, workers, clients, retry limit and
scenarios:

- `TypeCorrect`: `Spec => []TypeOK`;
- `NoSecondMessage`: `Spec => []NobodyTwice`;
- `Implements`: `Spec => KeepsPromise`, the same abstract promise as that of the
  chat's messages;
- `FinishedIsServed`: `Spec => []FinishedMeansServed`;
- `CancelHolds`: `Spec => NoneTakenUpAfterCancel`.

The code of a blast has no claim that is taken for good: a recipient is protected
by its status, which retries, Resume and a requeue of stuck recipients set back.
So the invariant counts what may still lead to a message. `WithinBudget` says
that the accepted messages, the workers that may still post (`Draws`) and a
recipient that waits for a worker (`Waiting`) are together at most one more than
the messages the system was told nothing of (`lost`). `HasMessage` says that what
is marked sent, or noted and about to be, is among the accepted ones; `Alone`
that two workers hold one recipient only after a fault that came behind an
accepted message; `MadeOnce` and `MetaSkips` that rows are made once and that a
row with Meta's message id is not posted again. It was checked with TLC on
scenarios with two faults, retries and reports before it was proved.

How a blast ends needs another invariant, `EndInv`. Nothing is left to serve not
only in a finished blast but from the moment a job finds no recipient to pick, up
to its final write (`ServedInv`); without resume there is one chain of jobs, so
nobody else is at work then (`ChainInv`); before the rows are there no job runs
(`EarlyInv`); a cancelled blast or recipient has a cancel behind it
(`CancelInv`); and after a cancel either nobody is open, except for a fault, or
the rows came after it and the first job will see the cancel (`StoppedInv`).

`ConversationProofs` proves, for any requests, workers, scans, number of messages
and scenarios of a chat:

- `TypeCorrect`: `Spec => []TypeOK`;
- `AnsweredOnce`: `Spec => []OnceOnly`;
- `TeamHasTheWord`: `Spec => NobodyTalkedOver`.

The types need to know what refers to what (`ShapeInv`): requests, jobs and scans
to messages that are stored, jobs in hand or handed over to a reply that is in
the chat, and a reply to a message before it. That a message is answered once
rests on two arguments. Every reply has at most one attempt: a worker that has
it, a first job that may still claim its key, or one retry, and while there is
one it is "queued" (`OneAttempt`), so a reply that is settled stays settled. And
every message has at most one reply that is under way or sent (`AnswerInv`): who
makes one found none, because the check before (`answered_after`) sees those of
a catch-up, and the claimed key stands for that of the original job
(`KeyInv`); what was accepted is that one, until it is marked or its worker dies.
`WelcomeInv` says the same of the welcome and its key. The invariant was checked
with TLC on all scenarios and on two wider ones before it was proved.

`PlanProofs` and `ServicesProofs` prove all of `Services` that needs no fairness,
for any members, numbers, pages, cases and bounds of the six parts:

- `TypesKept`: `Spec => []TypeOK`;
- `ServicesSafe`: `Spec => []ServicesInv`;
- `DecisionsKept`: `Spec => DecisionsStay`.

A step of `Services` is a step of one part or leaves the part alone (`PartsStep`),
so each part is proved about by itself, as `<Part>Init /\ [][<Part>Next]_vars`, and
`EachPart` puts the theorems together. That the part is one whose turn it is
(`part`) is not used. What each part's theorem rests on:

- `BillingKept` (`BillInv`: `OneCustomer`, `EntitledToWhatIsPaid`) and `HandKept`
  (`GivenByHandStays`). What an untangled handler read is so when it writes
  (`PlansOK`); the customer that a checkout or the account relies on was made or
  was there before, and one of Stripe's other mode is gone before a new one is
  asked for (`CustomersOK`); and the account always
  fits the last event that carries the subscription (`LatestOK`), with the
  invoices that may move its status meanwhile. That one customer is made is not a
  matter of the lock, which keeps nobody out, but of Stripe's idempotency key.
- `UsageKept` (`UsageInv`: `SpendsWithinLimits`, `CallsBounded`). The limits are
  read before a call and counted after it. `TokensLeft` and `ChatsLeft` count the
  workers that cannot add any more, and the conversations about to be counted, so
  the bound is what every worker may still add; `CallsOK` bounds the calls of one
  text by the attempts of both models. The proof counts with the library's facts
  about finite sets.
- `KnowledgeKept` (`KbAll`: `ReadyIsIndexed`, `DeletedIsForgotten`,
  `KnowledgeWithinPlan`). For a source that was not mixed: at most one reader
  holds it (`One`), a reader's hashes and chunks agree but for the page in hand
  (`Sound`), and of a source that is gone nobody has anything left to write
  (`Forgotten`). `Plan` adds to the chunks those that readers are about to add,
  one document each, which is the bound. `RunsKnown` and `Plain` say what refers
  to what, whatever interleaves.
- `MetaKept` (`MetaAll`: `SentAsItself`, `SessionUsedOnce`,
  `ConnectedHasItsToken`) and `SentByOwnToken`. Every place a token is kept in,
  the credential, a request's token and its snapshot, a send's, holds one that was
  issued for the number beside it (`CredInv`, `OldInv`, `TokenInv`, `SendInv`); the
  lock of a session has one holder, who uses it up before the lock can end
  (`UsedInv`); and credential and document agree, except for a request between
  its two writes, whose snapshot then agrees (`SettledInv`).
- `AiKept` and `NothingUnreviewed` (`AiInv`: `ReviewedFirst`). A document marked
  approved, now or when a send read it, has a text that was seen (`DocsInv`,
  `GateInv`), and no batch thinks that all are approved unless they are
  (`GivenInv`).
- `ApprovalsKept` (`AiVersions`: `ApprovedStays`). All versions of a text were
  claimed; what a batch has read is an earlier version, or the present one without
  a text; and of all batches and previews one at most waits for the next version,
  whose key is claimed (`VersionsOf`). So a batch that is about to write finds no
  text there.
- `LeadsKept` (`LeadInv`: `EntryIsTheLast`, `BlockedHasNoScore`) and `OptOutStays`
  (`OptOutStands`, whose invariant says nothing of the requests in progress). A
  request's remaining steps are a tail of its program (`TailShape`); a wish that
  is not on the blacklist yet has somebody before the step that enters it
  (`Listing`), a blocked lead's score somebody before the step that clears it
  (`Scoring`).

These invariants were checked by TLC on the cases of `services`, and failed
attempts to prove their steps corrected model and properties:

- `Billing`: a failed invoice after a status of "unpaid" or "incomplete" sets
  `past_due`, which gives the plan back (`routes/billing.py:599`), and a paid one
  turns "incomplete" to active (596). `EntitledToWhatIsPaid` had said otherwise;
  its `Runs` now names both, and a case of `services` reaches them.
- `KnowledgeBase`: the source of a file can be deleted, or read, before its texts
  are inserted (`_create_source` inserts it first): documents then outlive their
  source (`Storing`, `mixed`).
- `AiCampaign`: `regenerate_recipient_ai` claims no version. A batch that waits for
  the AI's text may write over one that was regenerated and approved since
  (`redone`, which `ApprovedStays` excepts). A batch's recipients come in order
  and with the documents as the list read them (`Foremost`).

Proofs use the assumptions that the modules state (`ASSUME`): bounds are natural
numbers, scenarios have their type, sets that are counted are finite,
placeholders are not members, a story in which Stripe knows no customer begins
with a checkout. TLC evaluates them in every run. Not proved, only model-checked,
because it is out of the prover's reach: everything under fairness
(`CampaignSettles`, `QueuedGoesOn`, `BlastEnds`, `NoMessageHangs`, `TicksGoOn`,
`NoneLeftWaiting`, `NoInboundLost`, `AllEnds`), and that the runs' bounds reach the
interesting cases, which is what the mutants show. All invariants and all action
properties of the passing runs are theorems.

## Not modelled

- Templates: mapping of provider lists onto documents. One divergence was seen
  while reading: `get_approved_template` (`routes/templates.py:341-344`) says that
  a transient Twilio error never blocks a template already approved, but
  `get_content_template_info` answers "unknown" when the approval cannot be
  fetched (`twilio_service.py:189-214`), and that is stored over "approved".
- The rate limiter and the auth helpers: the limiter has the INCR-and-EXPIRE shape
  of `SendPermits`, the rest checks one request.
- Prompts, model answers, moderation rules, extraction, embedding, ranking: data
  no protocol depends on; their outcomes are choices in the models.
- Notifications, WebSocket, admin, settings, profile, media, observability,
  database set-up: best-effort side effects, CRUD and wiring.
- Within the modelled parts: the counters of a campaign (a cache, recomputed by
  `$set` after each job, so that an older count may stay); PATCH of a campaign's
  recipients; retry of a failed chat message by hand; media-only inbound
  messages; Meta's single-tenant set-up and its
  migration; the invoice list and the portal; RQ's priorities and a Redis that
  is down while a job is enqueued.

Some code steps are one step in the models because no other process can come
between them to any effect, or because the second reads what the first wrote:
find and insert of a lead with its duplicate-key retry, the two reads of
`_handle_invoice`, the reads of a score's recalculation, a scan's hand-back and
its `missed_reply`, verify and exchange of an onboarding, the refresh job's find
and update, one chunk per page, an import's row as a find-and-write per lead.
Keys with a TTL of 24 h do not expire in `Outbox` and `Conversation`, whose time
ends before; those of a campaign do (`Expire`).

## If the code changes

The lines in `PROJECT.json` lead from a changed function to its definition. Change
the definition, run the module's run, then `tlapm` on the proof module that
extends it. A new outcome of a send is a new member of `Answers`, a new request a
new action and a member of the scenarios' `ops`.
