----------------------------- MODULE AiCampaign -----------------------------
(***************************************************************************)
(* An AI Agent campaign: its content path and generation                   *)
(* (app/services/ai_campaign.py), the generation batches and the send-time *)
(* gate (app/workers/campaign_tasks.py), and the review by people          *)
(* (app/routes/campaigns.py).  Claims, permits and provider errors of a    *)
(* send are in CampaignEngine: here an attempt reaches the provider.       *)
(***************************************************************************)
EXTENDS Integers, FiniteSets

CONSTANTS
  Contacts,   \* the campaign's recipients, in the order they were created
  Gens,       \* workers that run generation batches
  BatchSize,  \* CAMPAIGN_BATCH_SIZE
  AiCases     \* what may happen: see AiCaseTypes

Scopes   == {"open_window_only", "all_eligible_recipients", "template_only"}
Reviews  == {"sample_review", "full_review", "no_manual_review"}
Fallbacks == {"use_static_template", "skip", "require_manual_review"}
Answers  == {"good", "unsure", "bad", "blocked", "quota"}
Wishes == {"approve_all", "approve", "reject", "regenerate", "preview",
             "preview_again", "pause", "resume", "cancel"}

(* The campaign's settings (need: require_approval_before_start; declared: *)
(* its template has variables); the AI's answers there may be; who starts  *)
(* outside the 24 h window, or has opted out already; whether the scheduler*)
(* starts it, or Start is pressed twice; what people ask for, and as bounds*)
(* how often; worker deaths and leads' changes.                            *)
AiCaseTypes ==
  [scope : Scopes, review : Reviews, need : BOOLEAN, personalise : BOOLEAN,
   declared : BOOLEAN, knowledge : {"none", "text", "empty"}, enabled : BOOLEAN,
   on_ai_failure : Fallbacks, on_moderation_block : Fallbacks,
   on_quota_exceeded : Fallbacks, answers : SUBSET Answers,
   closed : SUBSET Contacts, gone : SUBSET Contacts, scheduled : BOOLEAN, twice : BOOLEAN,
   people : SUBSET Wishes, acts : Nat, deaths : Nat, turns : Nat]

ASSUME AiCasesAssumption ==
  /\ Contacts \subseteq Nat /\ IsFiniteSet(Contacts) /\ BatchSize \in Nat \ {0}
  /\ AiCases \subseteq AiCaseTypes

VARIABLES
  camp,    \* the campaign: status, ai_generation_status, whether approved_at is set
  rec,     \* its recipients' documents
  lead,    \* their leads: consent, window open
  keys,    \* claimed generation keys: <<recipient, version>>
  chain,   \* generation jobs waiting: "start" and "batch", counted
  gw,      \* the generation workers
  sends,   \* process_campaign_batch waits to run
  jobs,    \* send jobs waiting: recipients
  tx,      \* send attempts: next step and the document as read
  used,    \* recipients whose send key is claimed
  desk,    \* a preview or regeneration in progress: the recipient as read
  texts,   \* how many texts the AI has written
  sent,    \* history: what each recipient was sent
  seen,    \* history: <<recipient, text>> that a person approved
  given,   \* history: approve-all was pressed
  redone,  \* history: contacts whose text a person had written again
  halted,  \* history: paused, cancelled, a worker or request died, or a version
           \*   was written back
  acase    \* what may happen, and what is left of its bounds

aiVars == <<camp, rec, lead, keys, chain, gw, sends, jobs, tx, used, desk,
            texts, sent, seen, given, redone, halted, acase>>

(* generated_message and generated_template_variables: none; variables but *)
(* no text; the template's own wording; or the n-th text of the AI.        *)
NoText  == 0
Fixed   == -1
Wording == -2
ContentSources == {"none", "template", "ai_template_variables", "ai_freeform"}

NewRec   == [status |-> "pending", gen |-> "pending", src |-> "none",
             text |-> NoText, ok |-> FALSE, ver |-> 0]
NoResult == [ok |-> FALSE, review |-> FALSE, cat |-> "", src |-> "none", text |-> NoText]
NoWork   == [step |-> "idle", todo |-> {}, approved |-> FALSE, res |-> NoResult]
NoTx     == [step |-> "idle", read |-> NewRec]
NoDesk   == [op |-> "none", r |-> 0, read |-> NewRec, res |-> NoResult]
NotSent  == [src |-> "none", text |-> NoText]

AiInit ==
  /\ acase \in AiCases
  /\ camp = [status |-> IF acase.scheduled THEN "scheduled" ELSE "draft",
             gen |-> "none", approved |-> FALSE]
  /\ rec = [r \in Contacts |->
       IF r \in acase.gone THEN [NewRec EXCEPT !.status = "skipped"] ELSE NewRec]
  /\ lead = [r \in Contacts |-> [consent |-> r \notin acase.gone, open |-> r \notin acase.closed]]
  /\ keys = {} /\ chain = [start |-> 0, batch |-> 0] /\ gw = [g \in Gens |-> NoWork]
  /\ sends = FALSE /\ jobs = {} /\ tx = [r \in Contacts |-> NoTx] /\ used = {}
  /\ desk = NoDesk /\ texts = 0 /\ sent = [r \in Contacts |-> NotSent]
  /\ seen = {} /\ given = FALSE /\ redone = {} /\ halted = FALSE

Spend(what) == acase[what] > 0 /\ acase' = [acase EXCEPT ![what] = @ - 1]
Terminal == {"completed", "cancelled"}
OpenRecs == {"pending", "queued", "processing", "retrying"}
FirstFew(S) == {r \in S : Cardinality({q \in S : q < r}) < BatchSize}

-----------------------------------------------------------------------------
(* Which content a lead may get *)

(* _apply_ai_campaign_fields: the scope decides about template and         *)
(* free-form text.                                                         *)
has_template      == acase.scope # "open_window_only"
allow_freeform    == acase.scope # "template_only"
needs_approval    == acase.need /\ acase.review # "no_manual_review"

eligibility(l, with_template) ==
  CASE ~l.consent -> "consent_blocked"
    [] ~l.open /\ ~with_template -> "window_closed"
    [] OTHER -> "ok"

select_content_path(l) ==
  LET out(reason) == [path |-> "ineligible", reason |-> reason]
      by(path)    == [path |-> path, reason |-> "ok"]
  IN CASE eligibility(l, TRUE) # "ok" -> out("consent_blocked")
       [] acase.scope = "open_window_only" /\ ~l.open -> out("skipped_closed_window")
       [] ~l.open /\ ~has_template -> out("closed_window_missing_template")
       [] l.open /\ allow_freeform -> by("ai_freeform")
       [] acase.personalise -> by("ai_template_variables")
       [] OTHER -> by("template")

(* GenerationResult *)
Fail(cat)      == [NoResult EXCEPT !.cat = cat, !.review = TRUE]
Made(src, t)   == [NoResult EXCEPT !.ok = TRUE, !.src = src, !.text = t]
Unsure(src, t) == [Made(src, t) EXCEPT !.review = TRUE]

(* _run_freeform, a second time after a topic failure. *)
FreeformResults ==
  {CASE a = "good"   -> Made("ai_freeform", texts + 1)
     [] a = "unsure" -> Unsure("ai_freeform", texts + 1)
     [] OTHER        -> Fail(a) : a \in acase.answers}

(* The template's variables: what the AI leaves out is filled from the     *)
(* lead and the campaign, if that passes the checks.                       *)
VariableResults ==
  LET made == Made("ai_template_variables", texts + 1) IN
  IF ~acase.declared THEN {Made("template", Fixed)}
  ELSE UNION {CASE a = "good"   -> {made}
                [] a = "unsure" -> {Unsure("ai_template_variables", texts + 1)}
                [] OTHER        -> {made, Fail(a)} : a \in acase.answers}

(* With the knowledge base selected no text is made from nothing, and a    *)
(* template is filled without the AI, its wording kept for the reader.     *)
generate_campaign_content(l) ==
  LET p == select_content_path(l) IN
  CASE p.path = "ineligible" -> {[NoResult EXCEPT !.cat = p.reason]}
    [] p.path = "template"   -> {Made("template", Wording)}
    [] acase.knowledge = "empty" /\ p.path = "ai_freeform" -> {Fail("bad")}
    [] acase.knowledge # "none" /\ p.path = "ai_template_variables" ->
         {Made(IF acase.declared THEN "ai_template_variables" ELSE "template", Wording)}
    [] ~acase.enabled -> {Fail("bad")}
    [] p.path = "ai_freeform" -> FreeformResults
    [] OTHER -> VariableResults

(* Mutant: the approval of the text before stays. *)
ApplyKeepsApproval(r, read, res, inc) ==
  [r EXCEPT !.gen = IF res.review THEN "needs_review" ELSE IF res.ok THEN "ready" ELSE "failed",
            !.src = res.src, !.text = res.text,
            !.ver = IF inc THEN read.ver + 1 ELSE IF read.ver = 0 THEN 1 ELSE read.ver]

apply_generation_to_recipient(r, read, res, inc) ==
  [r EXCEPT !.gen = IF res.review THEN "needs_review" ELSE IF res.ok THEN "ready" ELSE "failed",
            !.src = res.src, !.text = res.text, !.ok = FALSE,
            !.ver = IF inc THEN read.ver + 1 ELSE IF read.ver = 0 THEN 1 ELSE read.ver]

Counted(res) == IF res.text > texts THEN res.text ELSE texts

-----------------------------------------------------------------------------
(* Starting *)

peopleVars == <<desk, seen, given>>
sendVars   == <<sends, jobs, tx, used, sent>>
genVars    == <<keys, gw, texts, redone>>

Eligible == {r \in Contacts : rec[r].status \in {"pending", "queued"}
                                /\ select_content_path(lead[r]).path # "ineligible"}

start_campaign ==
  /\ camp.status = "draft" \/ (camp.status = "queued" /\ acase.twice)
  /\ Eligible # {}
  /\ needs_approval /\ acase.review = "full_review" =>
       \A r \in Eligible : rec[r].ok /\ rec[r].gen = "ready"
  /\ needs_approval /\ acase.review = "sample_review" => camp.approved
  /\ camp' = [camp EXCEPT !.status = "queued", !.gen = "pending"]
  /\ chain' = [chain EXCEPT !.start = @ + 1]
  /\ acase' = [acase EXCEPT !.twice = @ /\ camp.status = "draft"]
  /\ UNCHANGED <<rec, lead, genVars, sendVars, peopleVars, halted>>

(* The scheduler asks for no approval. *)
process_due_scheduled_campaigns ==
  /\ camp.status = "scheduled"
  /\ camp' = [camp EXCEPT !.status = "queued"] /\ chain' = [chain EXCEPT !.start = @ + 1]
  /\ UNCHANGED <<rec, lead, genVars, sendVars, peopleVars, halted, acase>>

start_ai_campaign_job(g) ==
  /\ gw[g] = NoWork /\ chain.start > 0 /\ chain' = [chain EXCEPT !.start = @ - 1]
  /\ IF camp.status \in {"queued", "running", "draft", "scheduled"}
     THEN /\ camp' = [camp EXCEPT !.status = "running", !.gen = "generating"]
          /\ rec' = [r \in Contacts |->
               IF rec[r].status = "pending" THEN [rec[r] EXCEPT !.status = "queued"] ELSE rec[r]]
          /\ gw' = [gw EXCEPT ![g].step = "list"]
     ELSE UNCHANGED <<camp, rec, gw>>
  /\ UNCHANGED <<lead, keys, texts, redone, sendVars, peopleVars, halted, acase>>

-----------------------------------------------------------------------------
(* process_ai_generation_batch *)

GwAt(g, step) == gw[g].step = step

TakeBatch(g) ==
  /\ gw[g] = NoWork /\ chain.batch > 0 /\ chain' = [chain EXCEPT !.batch = @ - 1]
  /\ gw' = [gw EXCEPT ![g].step = "list"]
  /\ UNCHANGED <<camp, rec, lead, keys, texts, redone, sendVars, peopleVars, halted, acase>>

Undecided == {r \in Contacts :
  /\ rec[r].status \in {"queued", "pending"}
  /\ \/ rec[r].gen \in {"pending", "failed"}
     \/ rec[r].gen = "ready" /\ rec[r].text = NoText /\ rec[r].src # "template"}

(* Nothing left to write: the campaign goes on to sending. *)
ListBatch(g) ==
  /\ GwAt(g, "list")
  /\ IF camp.status # "running" THEN gw' = [gw EXCEPT ![g] = NoWork] /\ UNCHANGED <<camp, sends>>
     ELSE IF Undecided = {}
     THEN /\ gw' = [gw EXCEPT ![g] = NoWork]
          /\ camp' = [camp EXCEPT !.gen = "ready"] /\ sends' = TRUE
     ELSE /\ gw' = [gw EXCEPT ![g] = [NoWork EXCEPT !.step = "next", !.approved = camp.approved,
               !.todo = {[who |-> r, read |-> rec[r]] : r \in FirstFew(Undecided)}]]
          /\ UNCHANGED <<camp, sends>>
  /\ UNCHANGED <<rec, lead, keys, chain, texts, redone, jobs, tx, used, sent, peopleVars,
                 halted, acase>>

(* A batch takes the recipients it has read one after the other.           *)
Foremost(todo) == {it \in todo : \A other \in todo : it.who <= other.who}

(* Mutant: the version's key is not claimed. *)
GenerateUnclaimed(g) ==
  /\ GwAt(g, "next") /\ camp.status = "running"
  /\ \E it \in Foremost(gw[g].todo) : \E res \in generate_campaign_content(lead[it.who]) :
       /\ gw' = [gw EXCEPT ![g].step = "write", ![g].res = res] /\ texts' = Counted(res)
  /\ UNCHANGED <<camp, rec, lead, keys, chain, redone, sendVars, peopleVars, halted, acase>>

(* One recipient: claim the key of the version to come, let the AI write.  *)
Generate(g) ==
  /\ GwAt(g, "next") /\ camp.status = "running"
  /\ \E it \in Foremost(gw[g].todo) :
       LET key == <<it.who, it.read.ver + 1>> IN
       IF key \in keys
       THEN gw' = [gw EXCEPT ![g].todo = @ \ {it}] /\ UNCHANGED <<keys, texts>>
       ELSE /\ keys' = keys \cup {key}
            /\ \E res \in generate_campaign_content(lead[it.who]) :
                 /\ gw' = [gw EXCEPT ![g].step = "write", ![g].res = res]
                 /\ texts' = Counted(res)
  /\ UNCHANGED <<camp, rec, lead, chain, redone, sendVars, peopleVars, halted, acase>>

(* Paused or cancelled meanwhile: the job ends, and with it the chain. *)
StopBatch(g) ==
  /\ GwAt(g, "next") /\ gw[g].todo # {} /\ camp.status # "running"
  /\ gw' = [gw EXCEPT ![g] = NoWork]
  /\ UNCHANGED <<camp, rec, lead, keys, chain, texts, redone, sendVars, peopleVars, halted, acase>>

OnFailure(cat) ==
  CASE cat = "blocked" -> acase.on_moderation_block
    [] cat = "quota"   -> acase.on_quota_exceeded
    [] OTHER           -> acase.on_ai_failure

(* generated_message: the AI's text, or the template's wording. *)
HasMessage(r) == r.text = Wording \/ (r.text > 0 /\ r.src # "ai_template_variables")

(* What the batch stores: r is the document now, f the result put into it; *)
(* of a plain template not even its wording, so that a message somebody    *)
(* had written meanwhile stays under it.                                   *)
Stored(r, f, res, auto) ==
  LET plain  == res.src = "template" /\ ~acase.personalise
      action == OnFailure(res.cat) IN
  CASE plain -> [f EXCEPT !.text = IF HasMessage(r) THEN r.text ELSE Fixed, !.ok = auto]
    [] res.ok /\ ~plain -> IF auto THEN [f EXCEPT !.ok = TRUE, !.gen = "ready"] ELSE f
    [] ~res.ok /\ ~res.review -> [r EXCEPT !.status = "skipped", !.gen = "skipped"]
    [] action = "use_static_template" /\ has_template ->
         [f EXCEPT !.src = "template", !.gen = "ready", !.text = Fixed, !.ok = auto]
    [] action = "skip" -> [f EXCEPT !.status = "skipped"]
    [] OTHER -> [f EXCEPT !.gen = "needs_review"]

StoreResult(g) ==
  /\ GwAt(g, "write")
  /\ \E it \in Foremost(gw[g].todo) :
       LET r == rec[it.who]
           f == apply_generation_to_recipient(r, it.read, gw[g].res, TRUE) IN
       /\ rec' = [rec EXCEPT ![it.who] = Stored(r, f, gw[g].res,
                    acase.review = "no_manual_review" \/ gw[g].approved)]
       /\ gw' = [gw EXCEPT ![g].step = "next", ![g].todo = @ \ {it}, ![g].res = NoResult]
  /\ UNCHANGED <<camp, lead, keys, chain, texts, redone, sendVars, peopleVars, halted, acase>>

(* Mutant: the next batch is not enqueued. *)
ChainLost(g) ==
  /\ GwAt(g, "next") /\ gw[g].todo = {} /\ gw' = [gw EXCEPT ![g] = NoWork]
  /\ UNCHANGED <<camp, rec, lead, keys, chain, texts, redone, sendVars, peopleVars, halted, acase>>

ChainBatch(g) ==
  /\ GwAt(g, "next") /\ gw[g].todo = {} /\ gw' = [gw EXCEPT ![g] = NoWork]
  /\ chain' = [chain EXCEPT !.batch = @ + 1]
  /\ UNCHANGED <<camp, rec, lead, keys, texts, redone, sendVars, peopleVars, halted, acase>>

GenDies(g) ==
  /\ gw[g] # NoWork /\ Spend("deaths") /\ gw' = [gw EXCEPT ![g] = NoWork] /\ halted' = TRUE
  /\ UNCHANGED <<camp, rec, lead, keys, chain, texts, redone, sendVars, peopleVars>>

GenStep(g) ==
  \/ start_ai_campaign_job(g) \/ TakeBatch(g) \/ ListBatch(g) \/ Generate(g)
  \/ StopBatch(g) \/ StoreResult(g) \/ ChainBatch(g)

-----------------------------------------------------------------------------
(* Sending *)

Completes(recs) == camp.status = "running" /\ \A r \in Contacts : recs[r].status \notin OpenRecs
Status(recs) == [camp EXCEPT !.status = IF Completes(recs) THEN "completed" ELSE @]

Sendable(r) == rec[r].gen = "ready" /\ (acase.review = "full_review" => rec[r].ok)

(* The first few are looked at, and of these the sendable ones sent; when  *)
(* there is none, the chain ends unless contents are still being written.  *)
process_campaign_batch ==
  LET due == FirstFew({r \in Contacts : rec[r].status \in {"queued", "retrying"}})
      ids == {r \in due : Sendable(r)}
      more == {r \in Contacts \ ids : rec[r].status \in {"queued", "retrying", "pending"}}
  IN
  /\ sends /\ jobs' = IF camp.status = "running" THEN jobs \cup ids ELSE jobs
  /\ sends' = (camp.status = "running" /\ IF ids = {} THEN camp.gen = "generating" ELSE more # {})
  /\ camp' = IF ids = {} /\ camp.gen # "generating" THEN Status(rec) ELSE camp
  /\ UNCHANGED <<rec, lead, chain, genVars, tx, used, sent, peopleVars, halted, acase>>

(* send_campaign_recipient: claim the recipient and, once for all, its key.*)
ClaimSend(r) ==
  LET now == rec[r].status IN
  /\ r \in jobs /\ jobs' = jobs \ {r} /\ tx[r] = NoTx
  /\ CASE camp.status \in Terminal ->
            /\ rec' = [rec EXCEPT ![r].status = IF now \in OpenRecs THEN "cancelled" ELSE @]
            /\ UNCHANGED <<tx, used>>
       [] camp.status \notin Terminal \cup {"paused"} /\ now \in {"queued", "retrying", "pending"} ->
            /\ rec' = [rec EXCEPT ![r].status = "processing"] /\ used' = used \cup {r}
            /\ tx' = IF r \in used THEN tx
                     ELSE [tx EXCEPT ![r] = [step |-> "gate", read |-> rec[r]]]
       [] OTHER -> UNCHANGED <<rec, tx, used>>
  /\ UNCHANGED <<camp, lead, chain, genVars, sends, sent, peopleVars, halted, acase>>

SendEnds(r, status) ==
  /\ rec' = [rec EXCEPT ![r].status = status] /\ tx' = [tx EXCEPT ![r] = NoTx]
  /\ camp' = Status(rec') /\ UNCHANGED sent

(* Path and approval.  A free-form text whose window has closed gives way  *)
(* to the template: the scope decides about on_window_closed_before_send,  *)
(* too, and no other value of it gets here (_apply_ai_campaign_fields).    *)
Gate(r) ==
  LET p == select_content_path(lead[r]) IN
  /\ tx[r].step = "gate"
  /\ CASE p.path = "ineligible" -> SendEnds(r, "skipped")
       [] acase.review = "full_review" /\ ~tx[r].read.ok -> SendEnds(r, "failed")
       [] OTHER -> tx' = [tx EXCEPT ![r].step = "deliver"] /\ UNCHANGED <<rec, camp, sent>>
  /\ UNCHANGED <<lead, chain, genVars, sends, jobs, used, peopleVars, halted, acase>>

(* The path is looked up again: a text for an open window, the template    *)
(* with what was written for its variables, or nothing that could be sent. *)
DeliverContent(r) ==
  LET p == select_content_path(lead[r]).path
      read == tx[r].read
      Send(src, text) == /\ sent' = [sent EXCEPT ![r] = [src |-> src, text |-> text]]
                         /\ tx' = [tx EXCEPT ![r] = NoTx]
                         /\ rec' = [rec EXCEPT ![r].status = IF @ = "processing" THEN "sent" ELSE @]
                         /\ camp' = Status(rec')
  IN
  /\ tx[r].step = "deliver"
  /\ CASE p = "ineligible" -> SendEnds(r, "skipped")
       [] p = "ai_freeform" /\ HasMessage(read) -> Send("ai_freeform", read.text)
       [] p = "ai_freeform" /\ ~HasMessage(read) ->
            SendEnds(r, IF camp.status = "cancelled" THEN "cancelled"
                        ELSE IF camp.status = "running" THEN "retrying" ELSE "failed")
       [] OTHER -> Send("template", IF read.src = "ai_template_variables" THEN read.text ELSE Fixed)
  /\ UNCHANGED <<lead, chain, genVars, sends, jobs, used, peopleVars, halted, acase>>

SendStep(r) == ClaimSend(r) \/ Gate(r) \/ DeliverContent(r)

-----------------------------------------------------------------------------
(* People *)

Asks(request) == request \in acase.people /\ Spend("acts")

approve_ai_content ==
  LET whose == {r \in Contacts : /\ rec[r].gen \in {"ready", "needs_review"}
                                 /\ rec[r].status \in {"pending", "queued"}} IN
  /\ Asks("approve_all")
  /\ rec' = [r \in Contacts |->
       IF r \in whose THEN [rec[r] EXCEPT !.ok = TRUE, !.gen = "ready"] ELSE rec[r]]
  /\ camp' = [camp EXCEPT !.approved = TRUE, !.gen = "ready"] /\ given' = TRUE
  /\ seen' = seen \cup {<<r, rec[r].text>> : r \in whose}
  /\ UNCHANGED <<lead, chain, genVars, sendVars, desk, halted>>

approve_recipient_ai(r) ==
  /\ Asks("approve") /\ rec' = [rec EXCEPT ![r].ok = TRUE, ![r].gen = "ready"]
  /\ seen' = seen \cup {<<r, rec[r].text>>}
  /\ UNCHANGED <<camp, lead, chain, genVars, sendVars, desk, given, halted>>

reject_recipient_ai(r) ==
  /\ Asks("reject")
  /\ rec' = [rec EXCEPT ![r].ok = FALSE, ![r].gen = "failed", ![r].text = NoText]
  /\ UNCHANGED <<camp, lead, chain, genVars, sendVars, peopleVars, halted>>

regenerate_recipient_ai(r) ==
  /\ desk = NoDesk /\ Asks("regenerate")
  /\ \E res \in generate_campaign_content(lead[r]) :
       /\ desk' = [op |-> "regenerate", r |-> r, read |-> rec[r], res |-> res]
       /\ texts' = Counted(res)
  /\ redone' = redone \cup {r}
  /\ UNCHANGED <<camp, rec, lead, keys, chain, gw, sendVars, seen, given, halted>>

(* A preview claims the version's key: without "regenerate" it leaves what *)
(* is claimed or written already.                                          *)
campaign_ai_preview(r, again) ==
  LET ver == IF again THEN rec[r].ver + 1 ELSE IF rec[r].ver = 0 THEN 1 ELSE rec[r].ver
      kept == ~again /\ rec[r].gen \in {"ready", "needs_review"} /\ rec[r].text # NoText
  IN
  /\ desk = NoDesk /\ Asks(IF again THEN "preview_again" ELSE "preview")
  /\ camp.status \in {"draft", "scheduled", "queued"} /\ rec[r].status \in {"pending", "queued"}
  /\ keys' = IF kept THEN keys ELSE keys \cup {<<r, ver>>}
  /\ IF kept \/ (~again /\ <<r, ver>> \in keys)
     THEN camp' = [camp EXCEPT !.gen = "needs_review"] /\ UNCHANGED <<desk, texts>>
     ELSE /\ \E res \in generate_campaign_content(lead[r]) :
               /\ desk' = [op |-> IF again THEN "preview_again" ELSE "preview", r |-> r,
                           read |-> rec[r], res |-> res]
               /\ texts' = Counted(res)
          /\ UNCHANGED camp
  /\ UNCHANGED <<rec, lead, chain, gw, redone, sendVars, seen, given, halted>>

(* Written over what others wrote meanwhile, the version may go back, and  *)
(* its next key be claimed already: the batches then pass the contact by.  *)
StoreDesk ==
  /\ desk # NoDesk /\ desk' = NoDesk
  /\ rec' = [rec EXCEPT ![desk.r] =
       apply_generation_to_recipient(@, desk.read, desk.res, desk.op # "preview")]
  /\ camp' = IF desk.op = "regenerate" THEN camp ELSE [camp EXCEPT !.gen = "needs_review"]
  /\ halted' = (halted \/ rec'[desk.r].ver < rec[desk.r].ver)
  /\ UNCHANGED <<lead, chain, genVars, sendVars, seen, given, acase>>

DeskDies ==
  /\ desk # NoDesk /\ Spend("deaths") /\ desk' = NoDesk /\ halted' = TRUE
  /\ UNCHANGED <<camp, rec, lead, chain, genVars, sendVars, seen, given>>

pause_campaign ==
  /\ camp.status = "running" /\ Asks("pause") /\ camp' = [camp EXCEPT !.status = "paused"]
  /\ halted' = TRUE /\ UNCHANGED <<rec, lead, chain, genVars, sendVars, peopleVars>>

(* Sending goes on; a chain of generation that has stopped does not. *)
resume_campaign ==
  /\ camp.status = "paused" /\ Asks("resume") /\ camp' = [camp EXCEPT !.status = "running"]
  /\ rec' = [r \in Contacts |->
       IF rec[r].status = "processing" THEN [rec[r] EXCEPT !.status = "queued"] ELSE rec[r]]
  /\ sends' = TRUE
  /\ UNCHANGED <<lead, chain, genVars, jobs, tx, used, sent, peopleVars, halted>>

cancel_campaign ==
  /\ camp.status \notin Terminal /\ Asks("cancel") /\ camp' = [camp EXCEPT !.status = "cancelled"]
  /\ rec' = [r \in Contacts |->
       IF rec[r].status \in OpenRecs THEN [rec[r] EXCEPT !.status = "cancelled"] ELSE rec[r]]
  /\ halted' = TRUE /\ UNCHANGED <<lead, chain, genVars, sendVars, peopleVars>>

(* A lead opts out, writes, or has not written for a day. *)
LeadTurns(r) ==
  /\ Spend("turns") /\ \/ lead' = [lead EXCEPT ![r].open = ~@]
                       \/ lead' = [lead EXCEPT ![r].consent = FALSE]
  /\ UNCHANGED <<camp, rec, chain, genVars, sendVars, peopleVars, halted>>

-----------------------------------------------------------------------------
AiNext ==
  \/ start_campaign \/ process_due_scheduled_campaigns
  \/ \E g \in Gens : GenStep(g) \/ GenDies(g)
  \/ process_campaign_batch \/ StoreDesk \/ DeskDies
  \/ \E r \in Contacts : SendStep(r)
  \/ approve_ai_content \/ pause_campaign \/ resume_campaign \/ cancel_campaign
  \/ \E r \in Contacts :
       \/ approve_recipient_ai(r) \/ reject_recipient_ai(r) \/ regenerate_recipient_ai(r)
       \/ campaign_ai_preview(r, FALSE) \/ campaign_ai_preview(r, TRUE) \/ LeadTurns(r)

(* Workers and the scheduler run on, and a request is answered. *)
AiFairness ==
  /\ \A g \in Gens : WF_aiVars(GenStep(g))
  /\ WF_aiVars(StoreDesk \/ process_due_scheduled_campaigns)

-----------------------------------------------------------------------------
(* Properties *)

Results == [ok : BOOLEAN, review : BOOLEAN,
            cat : Answers \cup {"", "consent_blocked", "skipped_closed_window",
                                "closed_window_missing_template"},
            src : ContentSources, text : Int]
Recs == [status : OpenRecs \cup {"sent", "skipped", "failed", "cancelled"},
         gen : {"pending", "failed", "ready", "needs_review", "skipped"},
         src : ContentSources, text : Int, ok : BOOLEAN, ver : Nat]

AiTypeOK ==
  /\ camp.status \in {"draft", "scheduled", "queued", "running", "paused"} \cup Terminal
  /\ camp.gen \in {"none", "pending", "generating", "needs_review", "ready"}
  /\ rec \in [Contacts -> Recs]
  /\ keys \subseteq Contacts \X Nat /\ chain \in [start : Nat, batch : Nat]
  /\ \A g \in Gens : gw[g].step \in {"idle", "list", "next", "write"} /\ gw[g].res \in Results
  /\ jobs \cup used \subseteq Contacts /\ sends \in BOOLEAN
  /\ \A r \in Contacts : tx[r].step \in {"idle", "gate", "deliver"} /\ tx[r].read \in Recs
  /\ sent \in [Contacts -> [src : ContentSources, text : Int]] /\ seen \subseteq Contacts \X Int

(* Under full review, unless everything was approved at once, no contact   *)
(* gets a text of the AI that no person has approved for this contact,     *)
(* whatever is written again, rejected or previewed while messages are     *)
(* under way.                                                              *)
ReviewedFirst ==
  acase.review = "full_review" /\ ~given =>
    \A r \in Contacts : sent[r].text > 0 => <<r, sent[r].text>> \in seen

(* No batch writes over a text that a person has approved, even when Start *)
(* was pressed twice and two chains of batches work on the same recipients.*)
(* Not of contacts whose text a person had written again: that claims no   *)
(* version, and a batch that waits for the AI's text may come after it.    *)
ApprovedStays ==
  [][\A g \in Gens : GwAt(g, "write") /\ gw'[g].step = "next" =>
       \A r \in Contacts \ redone :
         rec[r].ok /\ rec[r].text > 0 => rec'[r].text = rec[r].text]_aiVars

(* A generation that has begun comes to its end: there is a moment when    *)
(* nobody waits for a text.  Not if the campaign is paused (no resume      *)
(* takes the chain up again), the worker dies or a version is written back.*)
GenerationEnds ==
  []<>(camp.gen = "generating" /\ camp.status = "running" => Undecided = {} \/ halted)
=============================================================================
