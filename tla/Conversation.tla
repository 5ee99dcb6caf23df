----------------------------- MODULE Conversation -----------------------------
(***************************************************************************)
(* One chat between a customer and a tenant: inbound messages              *)
(* (app/services/inbound_whatsapp.py behind the two webhooks), the welcome *)
(* and generate_and_send_ai_reply jobs (app/workers/tasks.py), the team's  *)
(* controls (app/routes/leads.py), consent (app/services/consent_ops.py)   *)
(* and missed-reply recovery (app/services/reply_recovery.py).             *)
(*                                                                         *)
(* An AI reply that is handed over to send_outbound_message is followed    *)
(* here only as far as the chat shows it; OutboundMessage has the details. *)
(***************************************************************************)
EXTENDS Integers, Sequences, Bags, BagsExt

CONSTANTS
  Handlers,     \* webhook requests in progress at the same time
  Replayer,     \* of these, the one reconcile_twilio_inbound makes
  Workers,      \* RQ worker processes
  Scanners,     \* scan_missed_replies jobs in progress at the same time
  MaxInbound,   \* bound: messages of the customer
  Scenarios     \* what may happen: see ScenarioTypes

ASSUME ConversationBoundsAssumption ==
  MaxInbound \in Nat \ {0} /\ Replayer \in Handlers

Inbound == 1..MaxInbound

(* What the customer writes; "foreign" is a message that belongs to no     *)
(* tenant, to the tenant's own number, or has no valid number.             *)
Kinds == {"chat", "stop", "start", "foreign"}

(* What may go otherwise than well.  The AI: an exception or empty reply;  *)
(* a reply or message that moderation blocks; down or over quota.  The     *)
(* send: permit refused, retryable or permanent error, an error although   *)
(* the provider accepted.                                                  *)
Troubles == {"fail", "blocked", "down", "denied", "retryable", "permanent",
             "lost"}
TeamOps == {"pause_ai", "resume_ai", "take_over", "hand_back", "reply",
            "opt_out", "opt_in", "clear_needs_human", "add_blacklist",
            "remove_blacklist"}

(* arrived: the first message is stored already, and its jobs are queued;  *)
(* attempts: RECOVERY_MAX_ATTEMPTS; handback: AI_AUTO_HANDBACK_HOURS is    *)
(* not 0; the workers and scans there are; and as bounds: deliveries to    *)
(* the webhook, crashes, calls of the team, and steps of time.             *)
ScenarioTypes ==
  [twilio : BOOLEAN, kinds : Seq(Kinds), arrived : BOOLEAN,
   troubles : SUBSET Troubles, handback : BOOLEAN, ops : SUBSET TeamOps,
   workers : SUBSET Workers, scanners : SUBSET Scanners,
   attempts : Nat, deliveries : Nat, crashes : Nat, calls : Nat, time : Nat]

ASSUME ConversationScenariosAssumption ==
  /\ Scenarios \subseteq ScenarioTypes
  /\ \A s \in Scenarios : Len(s.kinds) <= MaxInbound

Jobs == [kind : {"ai", "catch"}, m : Inbound]
          \cup [kind : {"send", "resend"}, m : Nat \ {0}]
          \cup [kind : {"welcome"}, m : {0}]

VARIABLES
  chat,       \* db.messages of the chat, in the order of created_at
  lead,       \* the lead's document
  blacklist,  \* db.blacklist has the customer's number
  events,     \* db.webhook_events: messages whose delivery was claimed
  queue,      \* Redis: bag of waiting jobs
  claims,     \* Redis: idempotency keys of jobs
  holding,    \* Redis: ai:fallback_sent of the chat
  written,    \* external: number of messages the customer has written
  age,        \* external: how long ago each of them arrived
  missing,    \* what reconcile_twilio_inbound has still to replay
  faded,      \* external: what its listings no longer have
  hd,         \* the webhook requests: next step and message
  wk,         \* the workers: next step, job, document, what it decided
  sc,         \* the scans: next step, trigger, lead as read
  answers,    \* history: real AI replies the provider accepted, by trigger;
              \*   by 0 the welcomes
  excused,    \* history: triggers with a reply nobody took note of, or
              \*   whose jobs overlapped between check and insert
  dropped,    \* history: messages claimed and then ignored, or whose
              \*   handler died between the claim and the insert
  grace,      \* history: workers past their last check when AI was stopped
  scenario    \* what may happen, and what is left of its bounds

vars == <<chat, lead, blacklist, events, queue, claims, holding, written, age,
          missing, faded, hd, wk, sc, answers, excused, dropped, grace, scenario>>

Ages == {"fresh", "waiting", "handback", "late"}
HandlerSteps == {"idle", "claim", "screen", "lead", "insert", "window",
                 "consent", "blacklist", "confirm", "enqueue"}
WorkerSteps == {"idle", "generate", "fallback", "confirm", "call", "store",
                "flags", "except", "welcome"}
ScanSteps == {"idle", "write", "enqueue", "clear"}

(* Ours are the AI's replies, the team's, and the system's own: welcomes    *)
(* and opt-out confirmations.                                              *)
Doc == [from : {"customer", "ai", "team", "system"}, trigger : 0..MaxInbound,
        catchup : BOOLEAN, fallback : BOOLEAN,
        status : {"received", "queued", "sent", "failed", "canceled"}]

Missed == [m : 0..MaxInbound, tries : Nat, recent : BOOLEAN]
NotMissed == [m |-> 0, tries |-> 0, recent |-> FALSE]

Lead == [exists : BOOLEAN, paused : BOOLEAN, takeover : BOOLEAN,
         consent : {"unknown", "in", "out"}, blocked : BOOLEAN,
         needs : BOOLEAN, window : 0..MaxInbound, missed : Missed,
         welcome : {"none", "sending", "sent", "failed"}]

NoLead == [exists |-> FALSE, paused |-> FALSE, takeover |-> FALSE,
           consent |-> "unknown", blocked |-> FALSE, needs |-> FALSE,
           window |-> 0, missed |-> NotMissed, welcome |-> "none"]

NoRequest == [step |-> "idle", m |-> 0, new |-> FALSE]
NoJob == [step |-> "idle", job |-> [kind |-> "welcome", m |-> 0], doc |-> 0]
NoScan == [step |-> "idle", m |-> 0, prev |-> NotMissed, suppressed |-> FALSE]

Received(m) == [from |-> "customer", trigger |-> m, catchup |-> FALSE,
                fallback |-> FALSE, status |-> "received"]
Notice == [from |-> "system", trigger |-> 0, catchup |-> FALSE,
           fallback |-> FALSE, status |-> "sent"]

Init ==
  /\ scenario \in Scenarios
  /\ chat = IF scenario.arrived THEN <<Received(1)>> ELSE <<>>
  /\ lead = IF scenario.arrived THEN [NoLead EXCEPT !.exists = TRUE, !.window = 1]
            ELSE NoLead
  /\ blacklist = FALSE /\ claims = {} /\ holding = FALSE
  /\ events = IF scenario.arrived THEN {1} ELSE {}
  /\ written = IF scenario.arrived THEN 1 ELSE 0
  /\ queue = SetToBag(IF scenario.arrived THEN {[kind |-> "ai", m |-> 1]} ELSE {})
  /\ age = [m \in Inbound |-> "fresh"]
  /\ missing = {} /\ faded = {} /\ hd = [h \in Handlers |-> NoRequest]
  /\ wk = [w \in Workers |-> NoJob]
  /\ sc = [s \in Scanners |-> NoScan]
  /\ answers = [m \in 0..MaxInbound |-> 0] /\ excused = {} /\ dropped = {}
  /\ grace = {}

Spend(what) == /\ scenario[what] > 0
               /\ scenario' = [scenario EXCEPT ![what] = @ - 1]
May(trouble) == trouble \in scenario.troubles
Put(j)       == BagAdd(queue, j)
Holds(d, m)  == chat[d].from = "customer" /\ chat[d].trigger = m
Stored(m)    == \E d \in DOMAIN chat : Holds(d, m)

-----------------------------------------------------------------------------
(* What the code asks of the lead and of the chat *)

(* lead_service.ai_suppressed *)
ai_suppressed(l) == l.paused \/ l.takeover

(* get_whatsapp_send_eligibility for a text: neither blacklisted nor opted *)
(* out, and the window open.  Age "late" begins before it closes.          *)
consent_blocked(l) == l.blocked \/ l.consent = "out"
MaySend(l)    == l.exists /\ ~consent_blocked(l) /\ l.window # 0
MayRefuse(l)  == MaySend(l) => age[l.window] = "late"

(* Neither failed messages nor holding messages count; for recovery the     *)
(* system's own do not either, for _answered_after they do.                *)
Counts(d) == chat[d].status \notin {"failed", "canceled"} /\ ~chat[d].fallback
Real(d)   == Counts(d) /\ chat[d].from # "system"

(* find_unanswered: the customer's message the chat ends with, or 0. *)
Ends(d) == /\ Real(d) /\ chat[d].from = "customer"
           /\ \A e \in DOMAIN chat : Real(e) => e <= d

Unanswered == IF \E d \in DOMAIN chat : Ends(d)
              THEN chat[CHOOSE d \in DOMAIN chat : Ends(d)].trigger ELSE 0

(* _answered_after: a message of ours that counts since the trigger; for a *)
(* late original job only a catch-up reply to the same trigger.            *)
answered_after(m, catchup) ==
  LET since == CHOOSE d \in DOMAIN chat : Holds(d, m) IN
  \E d \in since + 1..Len(chat) :
    /\ chat[d].from # "customer" /\ Counts(d)
    /\ catchup \/ (chat[d].catchup /\ chat[d].trigger = m)

-----------------------------------------------------------------------------
(* The webhooks: process_inbound_message, then the enqueues of its caller *)

InReq(h, step) == hd[h].step = step
ReqTo(h, step) == hd' = [hd EXCEPT ![h].step = step]
ReqEnds(h)     == hd' = [hd EXCEPT ![h] = NoRequest]
Kind(h)        == scenario.kinds[hd[h].m]
jobVars  == <<claims, holding, wk, sc, answers, excused>>
reqRest  == <<jobVars, written, age, missing, faded, dropped>>

Write ==
  /\ written < Len(scenario.kinds) /\ written' = written + 1
  /\ UNCHANGED <<chat, lead, blacklist, events, queue, jobVars, age, missing,
                 faded, hd, dropped, scenario>>

Receive(h, m) == InReq(h, "idle") /\ hd' = [hd EXCEPT ![h] =
                   [NoRequest EXCEPT !.step = "claim", !.m = m]]

(* The provider delivers a message, perhaps again, or while we are down    *)
(* not at all.                                                             *)
Deliver(h) ==
  /\ h # Replayer /\ Spend("deliveries")
  /\ \E m \in 1..written : Receive(h, m)
  /\ UNCHANGED <<chat, lead, blacklist, events, queue, reqRest>>

(* Mutant: only what customers we know have written. *)
ListMissingKnown ==
  /\ scenario.twilio /\ InReq(Replayer, "idle") /\ missing = {}
  /\ missing' = {m \in 1..written : ~Stored(m) /\ m \notin faded /\ lead.exists}
  /\ missing' # {}
  /\ UNCHANGED <<chat, lead, blacklist, events, queue, jobVars, written, age,
                 faded, hd, dropped, scenario>>

(* reconcile_twilio_inbound lists what Twilio has and the chat has not, and *)
(* sends one after the other to our own webhook.                           *)
ListMissing ==
  /\ scenario.twilio /\ InReq(Replayer, "idle") /\ missing = {}
  /\ missing' = {m \in 1..written : ~Stored(m) /\ m \notin faded}
  /\ missing' # {}
  /\ UNCHANGED <<chat, lead, blacklist, events, queue, jobVars, written, age,
                 faded, hd, dropped, scenario>>

(* A listing goes back for TWILIO_INBOUND_LOOKBACK_MINUTES (after a restart *)
(* for TWILIO_INBOUND_STARTUP_LOOKBACK_HOURS) and has the newest 500        *)
(* messages only: what no listing found until then is not found any more.  *)
Fade(m) ==
  /\ scenario.twilio /\ m \in 1..written
  /\ ~Stored(m) /\ m \notin missing \cup faded
  /\ faded' = faded \cup {m}
  /\ UNCHANGED <<chat, lead, blacklist, events, queue, jobVars, written, age,
                 missing, hd, dropped, scenario>>

Replay ==
  /\ \E m \in missing : Receive(Replayer, m) /\ missing' = missing \ {m}
  /\ UNCHANGED <<chat, lead, blacklist, events, queue, jobVars, written, age,
                 faded, dropped, scenario>>

(* _claim_webhook_event: the unique index decides. *)
ClaimEvent(h) ==
  /\ InReq(h, "claim")
  /\ events' = events \cup {hd[h].m}
  /\ IF hd[h].m \in events THEN ReqEnds(h) ELSE ReqTo(h, "screen")
  /\ UNCHANGED <<chat, lead, blacklist, queue, reqRest, scenario>>

(* Tenant, own number, blacklist; and whether the customer is a new one. *)
Screen(h) ==
  /\ InReq(h, "screen")
  /\ IF Kind(h) = "foreign" \/ (blacklist /\ Kind(h) # "start")
     THEN ReqEnds(h) /\ dropped' = dropped \cup {hd[h].m}
     ELSE /\ hd' = [hd EXCEPT ![h].step = "lead", ![h].new = ~lead.exists]
          /\ UNCHANGED dropped
  /\ UNCHANGED <<chat, lead, blacklist, events, queue, jobVars, written, age,
                 missing, faded, scenario>>

(* find_or_create_by_phone: of two requests one creates the lead. *)
FindLead(h) ==
  /\ InReq(h, "lead") /\ ReqTo(h, "insert")
  /\ lead' = [lead EXCEPT !.exists = TRUE]
  /\ UNCHANGED <<chat, blacklist, events, queue, reqRest, scenario>>

InsertInbound(h) ==
  /\ InReq(h, "insert")
  /\ IF Stored(hd[h].m) THEN ReqEnds(h) /\ UNCHANGED chat
     ELSE chat' = Append(chat, Received(hd[h].m)) /\ ReqTo(h, "window")
  /\ UNCHANGED <<lead, blacklist, events, queue, reqRest, scenario>>

(* Mutant: the window is that of the last document of the chat. *)
WindowByPosition(h) ==
  /\ InReq(h, "window")
  /\ lead' = [lead EXCEPT !.window = Len(chat)]
  /\ ReqTo(h, IF Kind(h) = "chat" THEN "enqueue" ELSE "consent")
  /\ UNCHANGED <<chat, blacklist, events, queue, reqRest, scenario>>

(* inbound_window_fields *)
Window(h) ==
  /\ InReq(h, "window")
  /\ lead' = [lead EXCEPT !.window = hd[h].m]
  /\ ReqTo(h, IF Kind(h) = "chat" THEN "enqueue" ELSE "consent")
  /\ UNCHANGED <<chat, blacklist, events, queue, reqRest, scenario>>

(* apply_consent_change: the lead first, then the blacklist. *)
OptOut(l) == [l EXCEPT !.consent = "out", !.blocked = TRUE, !.paused = TRUE]
OptIn(l)  == [l EXCEPT !.consent = "in", !.blocked = FALSE]

Consent(h) ==
  /\ InReq(h, "consent")
  /\ lead' = IF Kind(h) = "stop" THEN OptOut(lead) ELSE OptIn(lead)
  /\ ReqTo(h, "blacklist")
  /\ UNCHANGED <<chat, blacklist, events, queue, reqRest, scenario>>

ConsentBlacklist(h) ==
  /\ InReq(h, "blacklist")
  /\ blacklist' = (Kind(h) = "stop")
  /\ ReqTo(h, IF Kind(h) = "stop" THEN "confirm" ELSE "enqueue")
  /\ UNCHANGED <<chat, lead, events, queue, reqRest, scenario>>

(* Twilio's customers get a confirmation, if it is configured, was not sent *)
(* before and the provider takes it.                                       *)
ConfirmOptOut(h) ==
  /\ InReq(h, "confirm") /\ ReqEnds(h)
  /\ chat' = chat \/ (scenario.twilio /\ chat' = Append(chat, Notice))
  /\ UNCHANGED <<lead, blacklist, events, queue, reqRest, scenario>>

(* The jobs, by the webhook.  Only Twilio's welcomes, and only a lead that *)
(* this request found missing; the AI answers if it is not stopped.        *)
Enqueue(h) ==
  LET welcome == IF hd[h].new /\ scenario.twilio THEN {[kind |-> "welcome", m |-> 0]} ELSE {}
      ai      == IF ~ai_suppressed(lead) /\ ~consent_blocked(lead)
                 THEN {[kind |-> "ai", m |-> hd[h].m]} ELSE {} IN
  /\ InReq(h, "enqueue") /\ ReqEnds(h)
  /\ queue' = queue (+) SetToBag(welcome \cup ai)
  /\ UNCHANGED <<chat, lead, blacklist, events, reqRest, scenario>>

(* The web process dies, or the request ends with an exception. *)
RequestCrash(h) ==
  /\ ~InReq(h, "idle") /\ Spend("crashes") /\ ReqEnds(h)
  /\ dropped' = IF hd[h].step \in {"screen", "lead", "insert"}
                THEN dropped \cup {hd[h].m} ELSE dropped
  /\ UNCHANGED <<chat, lead, blacklist, events, queue, jobVars, written, age,
                 missing, faded>>

RequestStep(h) ==
  \/ ClaimEvent(h) \/ Screen(h) \/ FindLead(h) \/ InsertInbound(h) \/ Window(h)
  \/ Consent(h) \/ ConsentBlacklist(h) \/ ConfirmOptOut(h) \/ Enqueue(h)

-----------------------------------------------------------------------------
(* The jobs of the workers *)

InJob(w, step)  == wk[w].step = step
JobTo(w, step)  == wk' = [wk EXCEPT ![w].step = step]
JobEnds(w)      == wk' = [wk EXCEPT ![w] = NoJob]
NeedsHuman      == lead' = [lead EXCEPT !.needs = TRUE]
SetStatus(d, s) == chat' = [chat EXCEPT ![d].status = s]
envVars == <<blacklist, events, written, age, missing, faded, hd, sc, dropped>>
jobRest == <<envVars, scenario>>
IsCatchUp(w) == wk[w].job.kind = "catch"
Handed(j)    == j.kind \in {"send", "resend"}

Take(w, j) == /\ w \in scenario.workers /\ InJob(w, "idle")
              /\ queue' = BagRemove(queue, j)
Begin(w, j, step) ==
  wk' = [wk EXCEPT ![w] = [step |-> step, job |-> j, doc |-> IF Handed(j) THEN j.m ELSE 0]]

(* Another job for the same trigger is between its check and its insert. *)
Overlaps(w, m) == \E v \in Workers \ {w} :
                    wk[v].job.m = m /\ wk[v].step \in {"generate", "fallback"}

AnswerOf(w, j) == /\ j.kind \in {"ai", "catch"} /\ Take(w, j)
                  /\ UNCHANGED <<chat, holding, answers, jobRest>>

(* generate_and_send_ai_reply: the lead may not be written to, or the      *)
(* quota or the plan's conversations are used up.                          *)
Decline(w, j) ==
  /\ AnswerOf(w, j)
  /\ \/ (MayRefuse(lead) \/ ai_suppressed(lead)) /\ UNCHANGED lead
     \/ May("down") /\ MaySend(lead) /\ ~ai_suppressed(lead) /\ NeedsHuman
  /\ UNCHANGED <<claims, wk, excused>>

(* Mutant: a catch-up does not look for answers. *)
TakeUpUnchecked(w, j) ==
  /\ AnswerOf(w, j) /\ MaySend(lead) /\ ~ai_suppressed(lead)
  /\ claims' = claims \cup {j} /\ UNCHANGED <<lead, excused>>
  /\ IF j \in claims \/ (j.kind = "ai" /\ answered_after(j.m, FALSE))
     THEN UNCHANGED wk ELSE Begin(w, j, "generate")

(* The key: one by trigger for the original job, one for all its catch-ups.*)
(* "Never answer the same message twice": a catch-up ends if anything, an  *)
(* original job if a catch-up answered meanwhile.                          *)
TakeUp(w, j) ==
  LET ends == j \in claims \/ answered_after(j.m, j.kind = "catch") IN
  /\ AnswerOf(w, j) /\ MaySend(lead) /\ ~ai_suppressed(lead)
  /\ claims' = claims \cup {j} /\ UNCHANGED lead
  /\ IF ends THEN UNCHANGED wk ELSE Begin(w, j, "generate")
  /\ excused' = IF ~ends /\ Overlaps(w, j.m) THEN excused \cup {j.m} ELSE excused

(* The AI fails: a person is asked for, and the first time in a chat the   *)
(* customer gets a holding message.  Or moderation blocks what one wrote,  *)
(* or only has a person look at it.                                        *)
GenerateFails(w) ==
  /\ InJob(w, "generate") /\ UNCHANGED <<chat, queue, claims, answers, excused, jobRest>>
  /\ \/ /\ May("fail") /\ ai_suppressed(lead) /\ JobEnds(w)
        /\ UNCHANGED <<lead, holding>>
     \/ /\ May("fail") /\ ~ai_suppressed(lead) /\ NeedsHuman
        /\ holding' = TRUE
        /\ IF holding THEN JobEnds(w) ELSE JobTo(w, "fallback")
     \/ May("blocked") /\ NeedsHuman /\ JobEnds(w) /\ UNCHANGED holding
     \/ May("blocked") /\ ~lead.needs /\ NeedsHuman /\ UNCHANGED <<wk, holding>>

(* Routing, retrieval and the reply; then the lead is read again, and the  *)
(* reply is stored.                                                        *)
InsertReply(w) ==
  /\ wk[w].step \in {"generate", "fallback"}
  /\ \/ /\ MaySend(lead) /\ ~ai_suppressed(lead)
        /\ chat' = Append(chat, [from |-> "ai", trigger |-> wk[w].job.m,
             catchup |-> IsCatchUp(w), fallback |-> InJob(w, "fallback"),
             status |-> "queued"])
        /\ wk' = [wk EXCEPT ![w].step = "confirm", ![w].doc = Len(chat')]
     \/ (MayRefuse(lead) \/ ai_suppressed(lead)) /\ JobEnds(w) /\ UNCHANGED chat
  /\ UNCHANGED <<lead, queue, claims, holding, answers, excused, jobRest>>

(* Mutant: the lead read before the insert still holds. *)
ConfirmNever(w) ==
  /\ InJob(w, "confirm") /\ JobTo(w, "call")
  /\ UNCHANGED <<chat, lead, queue, claims, holding, answers, excused, jobRest>>

(* Once more: the team may have taken over while the reply was made.  Then *)
(* the permit; refused, send_outbound_message is left to send the reply.   *)
Confirm(w) ==
  /\ InJob(w, "confirm")
  /\ \/ /\ MaySend(lead) /\ ~ai_suppressed(lead)
        /\ \/ JobTo(w, "call") /\ UNCHANGED queue
           \/ /\ May("denied") /\ JobEnds(w)
              /\ queue' = Put([kind |-> "send", m |-> wk[w].doc])
        /\ UNCHANGED chat
     \/ /\ MayRefuse(lead) \/ ai_suppressed(lead)
        /\ SetStatus(wk[w].doc, "canceled") /\ JobEnds(w) /\ UNCHANGED queue
  /\ UNCHANGED <<lead, claims, holding, answers, excused, jobRest>>

(* send_outbound_message looks at the customer's consent, not at the       *)
(* team's controls.  A refused permit puts the same attempt off, which for *)
(* a first one then finds its key claimed, see OutboundMessage.            *)
Outbound(w, j) ==
  /\ Handed(j) /\ w \in scenario.workers /\ InJob(w, "idle")
  /\ chat[j.m].status = "queued" /\ j \notin claims
  /\ claims' = IF j.kind = "send" THEN claims \cup {j} ELSE claims
  /\ \/ /\ MaySend(lead) /\ Begin(w, j, "call") /\ UNCHANGED chat
        /\ queue' = BagRemove(queue, j)
     \/ /\ MayRefuse(lead) /\ SetStatus(j.m, "failed") /\ UNCHANGED wk
        /\ queue' = BagRemove(queue, j)
     \/ May("denied") /\ UNCHANGED <<chat, wk, queue>>
  /\ UNCHANGED <<lead, holding, answers, excused, jobRest>>

OutboundEnds(w, j) ==
  /\ Handed(j) /\ Take(w, j)
  /\ chat[j.m].status # "queued" \/ j \in claims
  /\ UNCHANGED <<chat, lead, claims, holding, wk, answers, excused, jobRest>>

ProviderCall(w, answer) ==
  LET d == wk[w].doc
      m == chat[d].trigger IN
  /\ InJob(w, "call") /\ (answer = "sent" \/ May(answer))
  /\ answers' = [answers EXCEPT ![m] =
        IF answer \in {"sent", "lost"} /\ ~chat[d].fallback THEN @ + 1 ELSE @]
  /\ excused' = IF answer = "lost" THEN excused \cup {m} ELSE excused
  /\ IF answer = "permanent"
     THEN SetStatus(d, "failed") /\ JobEnds(w)
     ELSE /\ JobTo(w, IF answer = "sent" THEN "store" ELSE "except")
          /\ UNCHANGED chat
  /\ UNCHANGED <<lead, queue, claims, holding, jobRest>>

StoreSent(w) ==
  /\ InJob(w, "store") /\ SetStatus(wk[w].doc, "sent")
  /\ IF Handed(wk[w].job) THEN JobEnds(w) ELSE JobTo(w, "flags")
  /\ UNCHANGED <<lead, queue, claims, holding, answers, excused, jobRest>>

(* A reply that hands over to the team asks for a person, any other one    *)
(* takes the request back; and a real one ends the waiting.                *)
Flags(w) ==
  LET real == ~chat[wk[w].doc].fallback IN
  /\ InJob(w, "flags") /\ JobEnds(w)
  /\ \E handoff \in BOOLEAN :
       lead' = [lead EXCEPT !.needs = handoff,
                            !.missed = IF real THEN NotMissed ELSE @]
  /\ holding' = (holding /\ ~real)
  /\ UNCHANGED <<chat, queue, claims, answers, excused, jobRest>>

(* A retryable error: send_outbound_message goes on, or is scheduled again *)
(* until its attempts are used up.                                         *)
Except(w) ==
  LET d == wk[w].doc
      last == wk[w].job.kind = "resend"
      next == IF Handed(wk[w].job) THEN "resend" ELSE "send" IN
  /\ InJob(w, "except") /\ JobEnds(w)
  /\ SetStatus(d, IF last THEN "failed" ELSE "queued")
  /\ queue' = IF last THEN queue ELSE Put([kind |-> next, m |-> d])
  /\ UNCHANGED <<lead, claims, holding, answers, excused, jobRest>>

(* send_welcome_and_terms: the key, the status; then the messages (one here *)
(* for the welcome and the terms).                                         *)
StartWelcome(w, j) ==
  /\ j.kind = "welcome" /\ Take(w, j)
  /\ IF lead.welcome = "sent" \/ j \in claims THEN UNCHANGED <<lead, claims, wk>>
     ELSE /\ claims' = claims \cup {j} /\ Begin(w, j, "welcome")
          /\ lead' = [lead EXCEPT !.welcome = "sending"]
  /\ UNCHANGED <<chat, holding, answers, excused, jobRest>>

SendWelcome(w) ==
  /\ InJob(w, "welcome") /\ JobEnds(w)
  /\ \E result \in {"sent", "failed"} :
       /\ lead' = [lead EXCEPT !.welcome = result]
       /\ IF result = "sent"
          THEN /\ answers' = [answers EXCEPT ![0] = @ + 1]
               /\ chat' = Append(chat, Notice)
          ELSE UNCHANGED <<answers, chat>>
  /\ UNCHANGED <<queue, claims, holding, excused, jobRest>>

(* The worker process dies; RQ does not run the job again. *)
WorkerCrash(w) ==
  /\ ~InJob(w, "idle") /\ Spend("crashes") /\ JobEnds(w)
  /\ excused' = IF InJob(w, "store")
                THEN excused \cup {chat[wk[w].doc].trigger} ELSE excused
  /\ UNCHANGED <<chat, lead, queue, claims, holding, answers, envVars>>

JobStep(w) ==
  \/ \E j \in BagToSet(queue) :
       \/ Decline(w, j) \/ TakeUp(w, j) \/ Outbound(w, j)
       \/ OutboundEnds(w, j) \/ StartWelcome(w, j)
  \/ GenerateFails(w) \/ InsertReply(w) \/ Confirm(w)
  \/ (\E answer \in {"sent", "lost", "retryable", "permanent"} : ProviderCall(w, answer))
  \/ StoreSent(w) \/ Flags(w) \/ Except(w) \/ SendWelcome(w)

(* reconcile_stale_messages, an hour later: nobody works on the message    *)
(* any more.                                                               *)
FailStale ==
  /\ \E d \in DOMAIN chat :
       /\ chat[d].status = "queued"
       /\ \A w \in Workers : wk[w].doc # d
       /\ \A k \in {"send", "resend"} : ~BagIn([kind |-> k, m |-> d], queue)
       /\ SetStatus(d, "failed")
  /\ UNCHANGED <<lead, queue, jobVars, envVars, scenario>>

-----------------------------------------------------------------------------
(* The team: routes/leads.py, routes/blacklist.py, routes/messages.py *)

Controls(op) ==
  CASE op = "pause_ai"  -> [lead EXCEPT !.paused = TRUE]
    [] op = "resume_ai" -> [lead EXCEPT !.paused = FALSE]
    [] op = "take_over" -> [lead EXCEPT !.paused = TRUE, !.needs = TRUE, !.takeover = TRUE]
    [] op = "hand_back" -> [lead EXCEPT !.paused = FALSE, !.needs = FALSE, !.takeover = FALSE]
    [] op = "clear_needs_human" -> [lead EXCEPT !.needs = FALSE]
    [] op \in {"opt_out", "add_blacklist"} -> OptOut(lead)
    [] op = "opt_in"    -> OptIn(lead)
    [] op = "remove_blacklist" -> [lead EXCEPT !.blocked = FALSE]
    [] OTHER -> lead

Blacklisted(op) ==
  CASE op \in {"opt_out", "add_blacklist"} -> TRUE
    [] op \in {"opt_in", "remove_blacklist"} -> FALSE
    [] OTHER -> blacklist

(* One request each; the consent requests write the blacklist with it.     *)
TeamCall(op) ==
  /\ op \in scenario.ops /\ lead.exists /\ Spend("calls")
  /\ lead' = Controls(op) /\ blacklist' = Blacklisted(op)
  /\ chat' = IF op = "reply" /\ MaySend(lead)
             THEN Append(chat, [from |-> "team", trigger |-> 0, catchup |-> FALSE,
                                fallback |-> FALSE, status |-> "sent"])
             ELSE chat
  /\ UNCHANGED <<events, queue, claims, holding, written, age, missing, faded, hd, wk,
                 sc, answers, excused, dropped>>

-----------------------------------------------------------------------------
(* scan_missed_replies *)

InScan(s, step) == sc[s].step = step
ScanEnds(s)     == sc' = [sc EXCEPT ![s] = NoScan]
scanRest == <<chat, blacklist, events, claims, holding, written, missing, faded, hd,
              wk, answers, excused, dropped>>

(* A chat that is waiting long enough, and its lead, as read now. *)
Scan(s) ==
  LET m == Unanswered
      found == /\ m # 0 /\ age[m] # "fresh"
               /\ lead.exists /\ ~consent_blocked(lead) IN
  /\ s \in scenario.scanners /\ InScan(s, "idle")
  /\ found \/ lead.missed # NotMissed
  /\ sc' = [sc EXCEPT ![s] =
       IF found THEN [step |-> "write", m |-> m, prev |-> lead.missed,
                      suppressed |-> ai_suppressed(lead)]
                ELSE [NoScan EXCEPT !.step = "clear"]]
  /\ UNCHANGED <<lead, queue, age, scanRest, scenario>>

(* The waiting state, from the lead as it was read. *)
State(s) == IF sc[s].prev.m = sc[s].m THEN sc[s].prev
            ELSE [NotMissed EXCEPT !.m = sc[s].m]

(* AI_AUTO_HANDBACK_HOURS without an answer: the AI takes over. *)
Freed(s) == IF sc[s].suppressed THEN [lead EXCEPT !.paused = FALSE, !.takeover = FALSE]
            ELSE lead

(* Mutant: past the window, the chat is marked as waiting only. *)
ScanWaitSilent(s) ==
  LET late == age[sc[s].m] = "late"
      stays == sc[s].suppressed /\ ~(scenario.handback /\ age[sc[s].m] = "handback") IN
  /\ InScan(s, "write") /\ ScanEnds(s)
  /\ \/ (late \/ stays) /\ lead' = [lead EXCEPT !.missed = State(s)]
     \/ ~late /\ ~stays /\ May("down") /\ lead' = [Freed(s) EXCEPT !.missed = State(s)]
     \/ ~late /\ ~stays /\ State(s).recent /\ lead' = Freed(s)
     \/ /\ ~late /\ ~stays /\ ~State(s).recent /\ State(s).tries >= scenario.attempts
        /\ lead' = [Freed(s) EXCEPT !.missed = State(s)]
  /\ UNCHANGED <<queue, age, scanRest, scenario>>

(* Past the window, or after all attempts: a person has to answer.  Paused  *)
(* or taken over, or the AI is down, or a catch-up is on its way: wait.    *)
(* The writes are by _id: over a lead that may have changed meanwhile.     *)
ScanWait(s) ==
  LET late == age[sc[s].m] = "late"
      stays == sc[s].suppressed /\ ~(scenario.handback /\ age[sc[s].m] = "handback") IN
  /\ InScan(s, "write") /\ ScanEnds(s)
  /\ \/ late /\ lead' = [lead EXCEPT !.missed = State(s), !.needs = TRUE]
     \/ ~late /\ stays /\ lead' = [lead EXCEPT !.missed = State(s)]
     \/ ~late /\ ~stays /\ May("down") /\ lead' = [Freed(s) EXCEPT !.missed = State(s)]
     \/ ~late /\ ~stays /\ State(s).recent /\ lead' = Freed(s)
     \/ /\ ~late /\ ~stays /\ ~State(s).recent /\ State(s).tries >= scenario.attempts
        /\ lead' = [Freed(s) EXCEPT !.missed = State(s), !.needs = TRUE]
  /\ UNCHANGED <<queue, age, scanRest, scenario>>

ScanRetry(s) ==
  /\ InScan(s, "write") /\ age[sc[s].m] # "late"
  /\ sc[s].suppressed => scenario.handback /\ age[sc[s].m] = "handback"
  /\ ~State(s).recent /\ State(s).tries < scenario.attempts
  /\ lead' = [Freed(s) EXCEPT !.missed = [State(s) EXCEPT !.tries = @ + 1, !.recent = TRUE]]
  /\ sc' = [sc EXCEPT ![s].step = "enqueue"]
  /\ UNCHANGED <<queue, age, scanRest, scenario>>

EnqueueCatchUp(s) ==
  /\ InScan(s, "enqueue") /\ ScanEnds(s)
  /\ queue' = Put([kind |-> "catch", m |-> sc[s].m])
  /\ UNCHANGED <<lead, age, scanRest, scenario>>

(* What was not found waiting is no longer waiting. *)
ScanClear(s) ==
  /\ InScan(s, "clear") /\ ScanEnds(s)
  /\ lead' = [lead EXCEPT !.missed = NotMissed]
  /\ UNCHANGED <<queue, age, scanRest, scenario>>

ScanCrash(s) ==
  /\ ~InScan(s, "idle") /\ Spend("crashes") /\ ScanEnds(s)
  /\ UNCHANGED <<lead, queue, age, scanRest>>

ScanStep(s) == \/ Scan(s) \/ ScanWait(s) \/ ScanRetry(s)
               \/ EnqueueCatchUp(s) \/ ScanClear(s)

-----------------------------------------------------------------------------
(* Time: the customer's last message gets older (how old the others are    *)
(* nobody asks); five minutes pass after a try.                            *)

NextAge(a) == CASE a = "fresh" -> "waiting"
                [] a = "waiting" -> IF scenario.handback THEN "handback" ELSE "late"
                [] OTHER -> "late"

Older(m) ==
  /\ Spend("time")
  /\ Stored(m) /\ age[m] # "late" /\ \A n \in Inbound : Stored(n) => n <= m
  /\ age' = [age EXCEPT ![m] = NextAge(@)]
  /\ UNCHANGED <<lead, queue, sc, scanRest>>

CoolDown ==
  /\ lead.missed.recent
  /\ lead' = [lead EXCEPT !.missed.recent = FALSE]
  /\ UNCHANGED <<queue, age, sc, scanRest, scenario>>

-----------------------------------------------------------------------------
(* Who may not be written to by an AI job, or at all by a job that sends   *)
(* what was stored before; and the jobs that have looked already.          *)
Stopped(w, l) == consent_blocked(l) \/ (wk[w].job.kind \in {"ai", "catch"} /\ ai_suppressed(l))

Past(w) == wk[w].step = "call"

(* History: a worker past its last look at the lead has leave to send if   *)
(* since then, or when it looked, the customer could be written to.        *)
Watch == grace' = {w \in Workers : Past(w)' /\ (w \in grace \/ ~Stopped(w, lead))}

-----------------------------------------------------------------------------
Step ==
  \/ Write \/ ListMissing \/ Replay
  \/ \E h \in Handlers : Deliver(h) \/ RequestStep(h) \/ RequestCrash(h)
  \/ \E w \in Workers : JobStep(w) \/ WorkerCrash(w)
  \/ \E op \in TeamOps : TeamCall(op)
  \/ \E s \in Scanners : ScanStep(s) \/ ScanCrash(s)
  \/ \E m \in Inbound : Older(m) \/ Fade(m)
  \/ FailStale \/ CoolDown

Next == Step /\ Watch

Spec == Init /\ [][Next]_vars

(* Requests, jobs and the periodic jobs run on, and time passes; whether   *)
(* the webhook is reached at all, and what people do, is up to them.       *)
FairSpec ==
  /\ Spec
  /\ \A h \in Handlers : WF_vars(RequestStep(h) /\ Watch)
  /\ \A w \in Workers : WF_vars(JobStep(w) /\ Watch)
  /\ \A s \in Scanners : WF_vars(ScanStep(s) /\ Watch)
  /\ \A m \in Inbound : WF_vars(Older(m) /\ Watch)
  /\ WF_vars(ListMissing /\ Watch) /\ WF_vars(Replay /\ Watch)
  /\ WF_vars(FailStale /\ Watch) /\ WF_vars(CoolDown /\ Watch)

-----------------------------------------------------------------------------
(* Properties *)

(* Every variable holds a value of its type. *)
TypeOK ==
  /\ chat \in Seq(Doc)
  /\ lead \in Lead /\ blacklist \in BOOLEAN
  /\ events \subseteq Inbound /\ claims \subseteq Jobs /\ holding \in BOOLEAN
  /\ IsABag(queue) /\ BagToSet(queue) \subseteq Jobs
  /\ written \in 0..MaxInbound /\ age \in [Inbound -> Ages]
  /\ missing \subseteq Inbound /\ faded \subseteq Inbound
  /\ hd \in [Handlers -> [step : HandlerSteps, m : 0..MaxInbound, new : BOOLEAN]]
  /\ wk \in [Workers -> [step : WorkerSteps, job : Jobs, doc : Nat]]
  /\ sc \in [Scanners -> [step : ScanSteps, m : 0..MaxInbound, prev : Missed,
                          suppressed : BOOLEAN]]
  /\ answers \in [0..MaxInbound -> Nat] /\ excused \subseteq Inbound
  /\ dropped \subseteq Inbound /\ grace \subseteq Workers
  /\ scenario \in ScenarioTypes

(* However often a message is delivered, replayed and taken up by recovery,*)
(* it is stored once and answered by the AI once, and a new customer is    *)
(* welcomed once.  A second answer needs one that nobody took note of, or  *)
(* an original job and a catch-up job both between their check and their   *)
(* insert.                                                                 *)
OnceOnly ==
  /\ \A m \in Inbound :
       /\ \A d, e \in DOMAIN chat : Holds(d, m) /\ Holds(e, m) => d = e
       /\ answers[m] > 1 => m \in excused
  /\ answers[0] <= 1

(* Once the team has taken a chat over, or the customer has opted out, no  *)
(* job sends but one that had looked at the lead before.  An AI reply that *)
(* was stored and handed over to send_outbound_message respects the        *)
(* opt-out only.                                                           *)
NobodyTalkedOver ==
  [][\A w \in Workers : wk[w].step = "call" /\ wk'[w].step \in {"store", "except"} =>
       w \in grace \/ ~Stopped(w, lead)]_vars

(* A customer who may be answered does not wait in silence: once all calm  *)
(* down, the last message is not theirs, or a person is asked to answer,   *)
(* whatever failed, was down, was put off or died meanwhile.  So too where *)
(* a welcome or an opt-out confirmation came after the message: recovery   *)
(* finds it waiting, its catch-up jobs take it for answered and end, and   *)
(* when the attempts are used up a person is asked.                        *)
Silent == /\ lead.exists /\ Unanswered # 0
          /\ ~lead.needs /\ ~consent_blocked(lead)

NoneLeftWaiting == scenario.scanners # {} => <>[]~Silent

(* A message Twilio has is in the chat in the end, although the webhook    *)
(* was not reached or its process died before it had claimed the event;    *)
(* not if it died with the claim and before the insert, nor if no listing  *)
(* found the message while listings still had it.                          *)
NoInboundLost ==
  \A m \in Inbound :
    scenario.twilio /\ m <= written /\ scenario.kinds[m] # "foreign"
      ~> Stored(m) \/ m \in dropped \cup faded

=============================================================================
