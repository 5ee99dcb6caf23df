--------------------------- MODULE OutboundMessage ---------------------------
(***************************************************************************)
(* The messages of the live chat: send_message (app/routes/messages.py)    *)
(* with its Idempotency-Key, the send_outbound_message job with its        *)
(* retries (app/workers/tasks.py), the provider's reports on the message,  *)
(* and reconcile_stale_messages (app/services/reconciliation.py), which    *)
(* ends messages nobody looks after any more.                              *)
(*                                                                         *)
(* All requests carry the same Idempotency-Key, or none.  A message of a   *)
(* campaign is there from the start: reconciliation ends it as well.       *)
(***************************************************************************)
EXTENDS DeliveryStatus, FiniteSets

CONSTANTS
  Clients,      \* requests in progress at the same time
  Reconcilers,  \* processes that may run reconcile_stale_messages
  Workers,      \* RQ worker processes
  MaxMessages,  \* bound: message documents
  MaxRetries,   \* WHATSAPP_MAX_RETRIES
  Scenarios     \* what may happen: see ScenarioTypes

ASSUME OutboundBoundsAssumption == MaxMessages \in Nat /\ MaxRetries \in Nat

Messages == 1..MaxMessages

(* What one attempt may come to: a refused permit; a policy failure; the   *)
(* provider's answer (Twilio may still be "sending"); an error although    *)
(* the provider accepted.                                                  *)
Answers == {"denied", "ineligible", "sent", "sending", "retryable",
            "permanent", "lost"}

(* The conversation's provider; keyed: the requests carry a key; campaign: *)
(* message 1 was sent by a campaign; and as bounds: requests, exceptions   *)
(* after the provider's answer, processes that die; the reconcilers there  *)
(* are, and how often one of them stops, dies or is slow.                  *)
ScenarioTypes ==
  [provider : {"twilio", "meta"}, keyed : BOOLEAN, campaign : BOOLEAN, answers : SUBSET Answers,
   requests : Nat, faults : Nat, crashes : Nat, running : SUBSET Reconcilers,
   trouble : Nat]

ASSUME OutboundScenariosAssumption == Scenarios \subseteq ScenarioTypes

Unsent      == {"queued", "sending", "accepted"}
MsgStatuses == CanonicalStatuses \cup {"none"}

VARIABLES
  msg,       \* messages: status, and that of the campaign's recipient
  old,       \* messages created more than MESSAGE_STALE_AFTER_MINUTES ago
  reqkey,    \* Redis: the request's key, free or claimed
  result,    \* Redis: the answer stored for the key; 0: none
  outkey,    \* Redis: messages whose "outbound" key is claimed
  jobs,      \* Redis: number of jobs by message and attempt
  api,       \* the requests: next step, message, answer
  wk,        \* the workers: next step, message, attempt, caught error
  rec,       \* the reconciliations: messages to do, the one in hand, answer
  truth,     \* external: how far the message is whose id the document has
  live,      \* history: accepted messages that did not fail afterwards
  lost,      \* history: accepted messages nobody took note of
  scenario   \* what may happen, and what is left of its bounds

docs   == <<msg, old>>
keys   == <<reqkey, result, outkey>>
ghosts == <<truth, live, lost>>
messageVars == <<docs, keys, jobs, api, wk, rec, ghosts, scenario>>

ApiSteps == {"idle", "look", "claim", "look_again", "policy", "insert",
             "enqueue", "store"}
WorkerSteps == {"idle", "claim", "gate", "start", "call", "store", "except",
                "schedule"}
RecSteps == {"idle", "scan", "next", "fetch", "write", "repair"}

NoRequest == [step |-> "idle", m |-> 0, answer |-> 0]
NoJob     == [step |-> "idle", m |-> 0, a |-> 0, cat |-> "sent"]
NoRec     == [step |-> "idle", todo |-> {}, m |-> 0, s |-> "none"]

MessageInit ==
  /\ scenario \in Scenarios
  /\ msg = [m \in Messages |->
       IF scenario.campaign /\ m = 1
       THEN [status |-> "sending", rcp |-> "sent"]
       ELSE [status |-> "none", rcp |-> "none"]]
  /\ old = {} /\ reqkey = "free" /\ result = 0 /\ outkey = {}
  /\ jobs = [m \in Messages |-> [a \in 0..MaxRetries |-> 0]]
  /\ api = [c \in Clients |-> NoRequest]
  /\ wk = [w \in Workers |-> NoJob]
  /\ rec = [s \in Reconcilers |-> NoRec]
  /\ truth = [m \in Messages |-> IF scenario.campaign /\ m = 1 THEN "sending"
                                 ELSE "none"]
  /\ live = [m \in Messages |-> 0]
  /\ lost = [m \in Messages |-> 0]

SetStatus(m, s) == msg' = [msg EXCEPT ![m].status = s]
Spend(what)     == /\ scenario[what] > 0
                   /\ scenario' = [scenario EXCEPT ![what] = @ - 1]

-----------------------------------------------------------------------------
(* send_message *)

InApi(c, step)  == api[c].step = step
ApiTo(c, step)  == api' = [api EXCEPT ![c].step = step]
Answer(c, m)    == api' = [api EXCEPT ![c] = [NoRequest EXCEPT !.answer = m]]
apiRest         == <<old, outkey, wk, rec, ghosts>>

send_message(c) ==
  /\ InApi(c, "idle") /\ Spend("requests")
  /\ api' = [api EXCEPT ![c] = [NoRequest EXCEPT
                !.step = IF scenario.keyed THEN "look" ELSE "policy"]]
  /\ UNCHANGED <<msg, reqkey, result, jobs, apiRest>>

(* get_idempotency_result: a stored answer is given again. *)
Look(c) ==
  /\ InApi(c, "look")
  /\ IF result # 0 THEN Answer(c, result) ELSE ApiTo(c, "claim")
  /\ UNCHANGED <<msg, reqkey, result, jobs, apiRest, scenario>>

(* Mutant: the key is looked at, not claimed. *)
ClaimKeyNever(c) ==
  /\ InApi(c, "claim") /\ ApiTo(c, "policy")
  /\ UNCHANGED <<msg, reqkey, result, jobs, apiRest, scenario>>

ClaimKey(c) ==
  /\ InApi(c, "claim")
  /\ reqkey' = "claimed"
  /\ ApiTo(c, IF reqkey = "free" THEN "policy" ELSE "look_again")
  /\ UNCHANGED <<msg, result, jobs, apiRest, scenario>>

(* The other request has answered meanwhile, or this one is refused (409). *)
LookAgain(c) ==
  /\ InApi(c, "look_again") /\ Answer(c, result)
  /\ UNCHANGED <<msg, reqkey, result, jobs, apiRest, scenario>>

(* Template, eligibility and media checks: 400 leaves the key claimed. *)
Policy(c) ==
  /\ InApi(c, "policy")
  /\ \/ ApiTo(c, "insert")
     \/ "ineligible" \in scenario.answers /\ Answer(c, 0)
  /\ UNCHANGED <<msg, reqkey, result, jobs, apiRest, scenario>>

Insert(c) ==
  /\ InApi(c, "insert")
  /\ \E m \in Messages :
       /\ msg[m].status = "none" /\ \A n \in 1..(m - 1) : msg[n].status # "none"
       /\ SetStatus(m, "queued")
       /\ api' = [api EXCEPT ![c].step = "enqueue", ![c].m = m]
  /\ UNCHANGED <<reqkey, result, jobs, apiRest, scenario>>

EnqueueSend(c) ==
  /\ InApi(c, "enqueue")
  /\ jobs' = [jobs EXCEPT ![api[c].m][0] = @ + 1]
  /\ IF scenario.keyed THEN ApiTo(c, "store") ELSE Answer(c, api[c].m)
  /\ UNCHANGED <<msg, reqkey, result, apiRest, scenario>>

StoreResult(c) ==
  /\ InApi(c, "store")
  /\ result' = api[c].m /\ Answer(c, api[c].m)
  /\ UNCHANGED <<msg, reqkey, jobs, apiRest, scenario>>

(* The web process is restarted in the middle of the request. *)
ApiCrash(c) ==
  /\ ~InApi(c, "idle") /\ Spend("crashes")
  /\ Answer(c, 0)
  /\ UNCHANGED <<msg, reqkey, result, jobs, apiRest>>

Handle(c) == \/ Look(c) \/ ClaimKey(c) \/ LookAgain(c) \/ Policy(c)
             \/ Insert(c) \/ EnqueueSend(c) \/ StoreResult(c)

-----------------------------------------------------------------------------
(* send_outbound_message *)

InJob(w, step) == wk[w].step = step
JobTo(w, step) == wk' = [wk EXCEPT ![w].step = step]
JobEnds(w)     == wk' = [wk EXCEPT ![w] = NoJob]
workerRest     == <<old, reqkey, result, api, rec>>

Ended == {"sent", "delivered", "read", "failed", "canceled"}

StartSend(w) ==
  /\ InJob(w, "idle")
  /\ \E m \in Messages, a \in 0..MaxRetries :
       /\ jobs[m][a] > 0
       /\ jobs' = [jobs EXCEPT ![m][a] = @ - 1]
       /\ wk' = [wk EXCEPT ![w] =
            IF msg[m].status \in Ended THEN NoJob
            ELSE [step |-> IF a = 0 THEN "claim" ELSE "gate",
                  m |-> m, a |-> a, cat |-> "sent"]]
  /\ UNCHANGED <<msg, outkey, ghosts, workerRest, scenario>>

(* Only a first attempt claims the key, and nothing ever releases it. *)
ClaimSend(w) ==
  /\ InJob(w, "claim")
  /\ outkey' = outkey \cup {wk[w].m}
  /\ IF wk[w].m \in outkey THEN JobEnds(w) ELSE JobTo(w, "gate")
  /\ UNCHANGED <<msg, jobs, ghosts, workerRest, scenario>>

(* Mutant: the job goes on after it has put itself off. *)
GateGoesOn(w) ==
  /\ InJob(w, "gate")
  /\ JobTo(w, "start")
  /\ \/ UNCHANGED jobs
     \/ /\ "denied" \in scenario.answers
        /\ jobs' = [jobs EXCEPT ![wk[w].m][wk[w].a] = @ + 1]
  /\ UNCHANGED <<msg, outkey, ghosts, workerRest, scenario>>

(* The lead, its provider and its eligibility, and the permit.  A refused  *)
(* permit enqueues the same attempt again: a first attempt then finds its  *)
(* own key claimed.                                                        *)
Gate(w) ==
  LET m == wk[w].m IN
  /\ InJob(w, "gate")
  /\ \/ JobTo(w, "start") /\ UNCHANGED <<msg, jobs>>
     \/ /\ "ineligible" \in scenario.answers
        /\ SetStatus(m, "failed") /\ JobEnds(w) /\ UNCHANGED jobs
     \/ /\ "denied" \in scenario.answers
        /\ jobs' = [jobs EXCEPT ![m][wk[w].a] = @ + 1]
        /\ JobEnds(w) /\ UNCHANGED msg
  /\ UNCHANGED <<outkey, ghosts, workerRest, scenario>>

(* By _id: over whatever the message has become since StartSend. *)
MarkSending(w) ==
  /\ InJob(w, "start")
  /\ SetStatus(wk[w].m, "sending") /\ JobTo(w, "call")
  /\ UNCHANGED <<outkey, jobs, ghosts, workerRest, scenario>>

Caught(w, step, cat) ==
  wk' = [wk EXCEPT ![w] = [step |-> step, m |-> @.m, a |-> @.a, cat |-> cat]]

ProviderCall(w, answer) ==
  LET m == wk[w].m
      accepted == answer \in {"sent", "sending", "lost"} IN
  /\ InJob(w, "call") /\ answer \in scenario.answers \ {"denied", "ineligible"}
  /\ answer = "sending" => scenario.provider = "twilio"
  /\ live' = [live EXCEPT ![m] = IF accepted THEN @ + 1 ELSE @]
  /\ lost' = [lost EXCEPT ![m] = IF answer = "lost" THEN @ + 1 ELSE @]
  /\ IF answer \in {"sent", "sending"} THEN Caught(w, "store", answer)
     ELSE Caught(w, "except", IF answer = "lost" THEN "retryable" ELSE answer)
  /\ UNCHANGED <<msg, outkey, jobs, truth, workerRest, scenario>>

(* Status and message id, in one write by _id. *)
WriteSent(w) == /\ SetStatus(wk[w].m, wk[w].cat)
                /\ truth' = [truth EXCEPT ![wk[w].m] = "sending"]

StoreSent(w) ==
  /\ InJob(w, "store")
  /\ WriteSent(w) /\ JobEnds(w)
  /\ UNCHANGED <<outkey, jobs, live, lost, workerRest, scenario>>

(* An exception of MongoDB or Redis, or RQ's job timeout, before or after  *)
(* the write: it counts as a failed send.                                  *)
SendFault(w) ==
  LET m == wk[w].m IN
  /\ InJob(w, "store") /\ Spend("faults")
  /\ WriteSent(w) \/ UNCHANGED <<msg, truth>>
  /\ lost' = [lost EXCEPT ![m] = @ + 1]
  /\ Caught(w, "except", "retryable")
  /\ UNCHANGED <<outkey, jobs, live, workerRest>>

Except(w) ==
  LET m == wk[w].m IN
  /\ InJob(w, "except")
  /\ IF wk[w].cat = "retryable" /\ wk[w].a < MaxRetries
     THEN SetStatus(m, "queued") /\ JobTo(w, "schedule")
     ELSE SetStatus(m, "failed") /\ JobEnds(w)
  /\ UNCHANGED <<outkey, jobs, ghosts, workerRest, scenario>>

(* _schedule_message_retry *)
Schedule(w) ==
  /\ InJob(w, "schedule")
  /\ jobs' = [jobs EXCEPT ![wk[w].m][wk[w].a + 1] = @ + 1]
  /\ JobEnds(w)
  /\ UNCHANGED <<msg, outkey, ghosts, workerRest, scenario>>

(* The worker process dies; RQ does not run the job again. *)
WorkerCrash(w) ==
  /\ ~InJob(w, "idle") /\ Spend("crashes")
  /\ lost' = IF InJob(w, "store") THEN [lost EXCEPT ![wk[w].m] = @ + 1] ELSE lost
  /\ JobEnds(w)
  /\ UNCHANGED <<msg, outkey, jobs, truth, live, workerRest>>

JobStep(w) ==
  \/ StartSend(w) \/ ClaimSend(w) \/ Gate(w) \/ MarkSending(w)
  \/ (\E answer \in Answers : ProviderCall(w, answer))
  \/ StoreSent(w) \/ Except(w) \/ Schedule(w)

-----------------------------------------------------------------------------
(* The provider: the message moves on, and it reports how it stands.  What *)
(* reports in any order and overlapping do is in StatusCallbacks.          *)

NextTruth(s) ==
  CASE s = "sending"   -> {"sent", "failed"}
    [] s = "sent"      -> {"delivered", "undelivered"}
    [] s = "delivered" -> {"read"}
    [] OTHER           -> {}

Advance(m) ==
  /\ \E s \in NextTruth(truth[m]) : truth' = [truth EXCEPT ![m] = s]
  /\ UNCHANGED <<docs, keys, jobs, api, wk, rec, live, lost, scenario>>

(* A report finds the message by its id, or nothing. *)
Report(m) ==
  /\ truth[m] # "none" /\ should_apply_status(msg[m].status, truth[m])
  /\ SetStatus(m, truth[m])
  /\ UNCHANGED <<old, keys, jobs, api, wk, rec, ghosts, scenario>>

Age(m) ==
  /\ msg[m].status # "none" /\ m \notin old
  /\ old' = old \cup {m}
  /\ UNCHANGED <<msg, keys, jobs, api, wk, rec, ghosts, scenario>>

-----------------------------------------------------------------------------
(* reconcile_stale_messages *)

InRec(s, step) == rec[s].step = step
recRest        == <<old, keys, jobs, api, wk, ghosts, scenario>>
RecTo(s, step, todo, m, got) ==
  rec' = [rec EXCEPT ![s] = [step |-> step, todo |-> todo, m |-> m, s |-> got]]

(* Mutant: a message that is being sent is somebody's. *)
ScanQueued(s) ==
  /\ InRec(s, "scan")
  /\ RecTo(s, "next", {m \in old : msg[m].status = "queued"}, 0, "none")
  /\ UNCHANGED <<msg, recRest>>

(* The batch holds them all: every message inspected leaves Unsent, so the *)
(* limit of a batch only defers the rest to the next tick.                 *)
Scan(s) ==
  /\ InRec(s, "scan")
  /\ RecTo(s, "next", {m \in old : msg[m].status \in Unsent}, 0, "none")
  /\ UNCHANGED <<msg, recRest>>

(* The next document of the cursor, with the message id it carries.        *)
(* Twilio is asked about a twilio_sid only.                                *)
NextStale(s) ==
  /\ InRec(s, "next")
  /\ IF rec[s].todo = {} THEN rec' = [rec EXCEPT ![s] = NoRec]
     ELSE \E m \in rec[s].todo :
            RecTo(s, IF truth[m] # "none" /\ scenario.provider = "twilio"
                     THEN "fetch" ELSE "write", rec[s].todo \ {m}, m, "none")
  /\ UNCHANGED <<msg, recRest>>

(* fetch_message_status; "none" if it fails. *)
Fetch(s) ==
  /\ InRec(s, "fetch")
  /\ \E answer \in {truth[rec[s].m], "none"} :
       RecTo(s, "write", rec[s].todo, rec[s].m, answer)
  /\ UNCHANGED <<msg, recRest>>

Confirmed == {"delivered", "read", "sent", "failed", "undelivered"}

(* Mutant: the second write has no filter on the status either. *)
WriteStaleAlways(s) ==
  LET m == rec[s].m
      got == rec[s].s IN
  /\ InRec(s, "write")
  /\ IF got \in Confirmed
     THEN /\ SetStatus(m, IF got = "undelivered" THEN "failed" ELSE got)
          /\ rec' = [rec EXCEPT ![s].step = "next"]
     ELSE /\ SetStatus(m, "failed")
          /\ rec' = [rec EXCEPT ![s].step = "repair"]
  /\ UNCHANGED recRest

(* What Twilio says is written by _id alone; without an answer the message *)
(* fails, if it is still unsent.                                           *)
WriteStale(s) ==
  LET m == rec[s].m
      got == rec[s].s IN
  /\ InRec(s, "write")
  /\ IF got \in Confirmed
     THEN /\ SetStatus(m, IF got = "undelivered" THEN "failed" ELSE got)
          /\ rec' = [rec EXCEPT ![s].step = "next"]
     ELSE /\ IF msg[m].status \in Unsent THEN SetStatus(m, "failed")
                                         ELSE UNCHANGED msg
          /\ rec' = [rec EXCEPT ![s].step = "repair"]
  /\ UNCHANGED recRest

(* Mutant: the reason is written in place of the status. *)
RepairWithReason(s) ==
  LET m == rec[s].m IN
  /\ InRec(s, "repair")
  /\ msg' = [msg EXCEPT ![m].rcp = IF @ = "sent" THEN "stale_timeout" ELSE @]
  /\ rec' = [rec EXCEPT ![s].step = "next"]
  /\ UNCHANGED recRest

(* The campaign recipient fails with it, whether the write matched or not. *)
RepairRecipient(s) ==
  LET m == rec[s].m IN
  /\ InRec(s, "repair")
  /\ msg' = [msg EXCEPT ![m].rcp =
               IF @ \in {"processing", "queued", "sent"} THEN "failed" ELSE @]
  /\ rec' = [rec EXCEPT ![s].step = "next"]
  /\ UNCHANGED recRest

Reconcile(s) ==
  Scan(s) \/ NextStale(s) \/ Fetch(s) \/ WriteStale(s) \/ RepairRecipient(s)

-----------------------------------------------------------------------------
MessageTypeOK ==
  /\ msg \in [Messages -> [status : MsgStatuses,
                           rcp : {"none", "sent", "failed"}]]
  /\ old \subseteq Messages /\ outkey \subseteq Messages
  /\ reqkey \in {"free", "claimed"} /\ result \in 0..MaxMessages
  /\ jobs \in [Messages -> [0..MaxRetries -> Nat]]
  /\ api \in [Clients -> [step : ApiSteps, m : 0..MaxMessages,
                          answer : 0..MaxMessages]]
  /\ wk \in [Workers -> [step : WorkerSteps, m : 0..MaxMessages,
                         a : 0..MaxRetries, cat : Answers]]
  /\ rec \in [Reconcilers -> [step : RecSteps, todo : SUBSET Messages,
                              m : 0..MaxMessages, s : MsgStatuses]]
  /\ truth \in [Messages -> MsgStatuses]
  /\ live \in [Messages -> Nat] /\ lost \in [Messages -> Nat]
  /\ scenario \in ScenarioTypes

(* What the requests have made: message 1 may be a campaign's. *)
Requested(m) == msg[m].status # "none" /\ ~(scenario.campaign /\ m = 1)

(* One Idempotency-Key makes one message, whatever requests with it        *)
(* overlap, are repeated or die half-way.                                  *)
OneMessagePerKey ==
  scenario.keyed => Cardinality({m \in Messages : Requested(m)}) <= 1

(* What reached the customer is not shown as less: not by a reconciliation *)
(* that found the message stale before the report came, nor by a retry     *)
(* scheduled before; only by a failure the provider reports.  Excluded are *)
(* jobs under way, and a status Twilio gave a reconciliation just before   *)
(* the message moved on, which is written over what was reported since.    *)
Busy(m) == \/ \E w \in Workers : wk[w].m = m
           \/ \E s \in Reconcilers : rec[s].m = m /\ rec[s].s \in Confirmed

DeliveredStays ==
  \A m \in Messages : ~Busy(m) /\ msg[m].status \in {"delivered", "read"} =>
    \/ msg'[m].status \in {"delivered", "read"}
    \/ msg'[m].status = truth[m] /\ is_failure_status(truth[m])

=============================================================================
