--------------------------- MODULE StatusCallbacks ---------------------------
(***************************************************************************)
(* app/services/status_callback.py: what the delivery reports of one       *)
(* outbound message do to the message document, to the campaign or blast   *)
(* recipient it was sent for and to the blast's counters, while the worker *)
(* that sent it still writes those documents.                              *)
(*                                                                         *)
(* The provider reports each status of the message any number of times and *)
(* in any order.  A report is handled in an asyncio handler whose reads    *)
(* and writes are separate awaits: handlers interleave with each other.    *)
(***************************************************************************)
EXTENDS DeliveryStatus, RecipientStatus

CONSTANTS
  Handlers,  \* webhook requests in progress at the same time
  Settings   \* the messages to look at: see SettingTypes

(* The provider (each reads the documents in an order of its own), what    *)
(* the recipient belongs to, whether handlers overlap; and as bounds: the  *)
(* reports received and the handlers that die with the web process.        *)
SettingTypes ==
  [provider : {"twilio", "meta"}, parent : {"campaign", "blast"},
   overlap : BOOLEAN, callbacks : Nat, crashes : Nat]

ASSUME SettingsAssumption == Settings \subseteq SettingTypes

(* "absent": the document, or its message id, is not there yet. *)
DocStatuses == CanonicalStatuses \cup RecipientStatuses \cup {"absent"}

SenderSteps == {"insert", "mark", "recount", "store", "done"}

HandlerSteps ==
  {"idle", "read_message", "write_message", "read_recipient",
   "write_recipient", "count"}

Counters == {"delivered", "read", "undelivered", "failed"}

VARIABLES
  setting,  \* which of Settings: it never changes
  truth,    \* external: how far the provider got with the message
  emitted,  \* external: the statuses it reports, again and again
  sender,   \* the worker: what it does next after the provider accepted
  found,    \* the worker's recount: recipients it counted as failed
  msg,      \* messages.status
  rcp,      \* status of the recipient once it carries the message id
  counts,   \* blast_campaigns.<status>_count
  hs,       \* the handlers, with the snapshots of the documents they read
  handled,  \* history: statuses of the reports handled to the end
  budget    \* what is left of the bounds

docs     == <<msg, rcp, counts>>
worker   == <<sender, found>>
external == <<setting, truth, emitted>>
vars     == <<external, worker, docs, hs, handled, budget>>

IdleHandler == [step |-> "idle", s |-> "queued", early |-> FALSE,
                msg |-> "absent", rcp |-> "absent"]

Init ==
  /\ setting \in Settings
  /\ truth = "queued"
  /\ emitted = IF setting.provider = "twilio" THEN {"queued"} ELSE {}
  /\ sender = "insert" /\ found = 0
  /\ msg = "absent" /\ rcp = "absent"
  /\ counts = [c \in Counters |-> 0]
  /\ hs = [h \in Handlers |-> IdleHandler]
  /\ handled = {}
  /\ budget = [callbacks |-> setting.callbacks, crashes |-> setting.crashes]

-----------------------------------------------------------------------------
(* The provider *)

(* The statuses it reports. *)
ReportStatuses == {"queued", "sent", "delivered", "read", "failed", "undelivered"}

NextStatuses(s) ==
  CASE s = "queued"    -> {"sent", "failed"}
    [] s = "sent"      -> {"delivered", "failed"}
                          \cup IF setting.provider = "twilio"
                               THEN {"undelivered"} ELSE {}
    [] s = "delivered" -> {"read"}
    [] OTHER           -> {}

Advance ==
  /\ truth' \in NextStatuses(truth)
  /\ emitted' = emitted \cup {truth'}
  /\ UNCHANGED <<setting, worker, docs, hs, handled, budget>>

-----------------------------------------------------------------------------
(* The worker that sent the message *)

InsertMessage ==
  /\ sender = "insert" /\ sender' = "mark"
  /\ msg' = "sent"
  /\ UNCHANGED <<external, found, rcp, counts, hs, handled, budget>>

(* Status and message id are written together. *)
MarkRecipient ==
  /\ sender = "mark"
  /\ rcp' = "sent"
  /\ sender' = IF setting.parent = "blast" THEN "recount" ELSE "done"
  /\ UNCHANGED <<external, found, msg, counts, hs, handled, budget>>

(* _recount_blast: an aggregate, then a $set of what it found. *)
RecountRead ==
  /\ sender = "recount" /\ sender' = "store"
  /\ found' = IF rcp = "failed" THEN 1 ELSE 0
  /\ UNCHANGED <<external, docs, hs, handled, budget>>

RecountWrite ==
  /\ sender = "store" /\ sender' = "done"
  /\ counts' = [counts EXCEPT !["failed"] = found]
  /\ UNCHANGED <<external, found, msg, rcp, hs, handled, budget>>

-----------------------------------------------------------------------------
(* apply_twilio_status_callback, apply_meta_status_update *)

At(h, step) == hs[h].step = step

(* The steps in order; Meta reads every document before it writes one. *)
StepAfter(step) ==
  CASE step = "read_message"   ->
         IF setting.provider = "twilio" THEN "write_message" ELSE "read_recipient"
    [] step = "write_message"  ->
         IF setting.provider = "twilio" THEN "read_recipient" ELSE "write_recipient"
    [] step = "read_recipient" ->
         IF setting.provider = "twilio" THEN "write_recipient" ELSE "write_message"

(* The handler is through: its report counts as handled if the documents   *)
(* were complete when it came in.                                          *)
Finish(h) ==
  /\ hs' = [hs EXCEPT ![h] = IdleHandler]
  /\ handled' = IF hs[h].early THEN handled ELSE handled \cup {hs[h].s}

(* A handler at its start, early if the recipient is not marked yet. *)
Received(s) == [IdleHandler EXCEPT !.step = "read_message", !.s = s,
                                   !.early = (rcp = "absent")]

Receive(h, s) ==
  /\ At(h, "idle") /\ s \in emitted
  /\ setting.overlap \/ \A g \in Handlers : At(g, "idle")
  /\ budget.callbacks > 0
  /\ budget' = [budget EXCEPT !.callbacks = @ - 1]
  /\ hs' = [hs EXCEPT ![h] = Received(s)]
  /\ UNCHANGED <<external, worker, docs, handled>>

ReadMessage(h) ==
  /\ At(h, "read_message")
  /\ hs' = [hs EXCEPT ![h].msg = msg, ![h].step = StepAfter("read_message")]
  /\ UNCHANGED <<external, worker, docs, handled, budget>>

(* build_status_update looks at the snapshot, update_one has no filter on  *)
(* the status.                                                             *)
WriteMessage(h) ==
  /\ At(h, "write_message")
  /\ msg' = IF hs[h].msg # "absent" /\ should_apply_status(hs[h].msg, hs[h].s)
            THEN hs[h].s ELSE msg
  /\ hs' = [hs EXCEPT ![h].step = StepAfter("write_message")]
  /\ UNCHANGED <<external, worker, rcp, counts, handled, budget>>

ReadRecipient(h) ==
  /\ At(h, "read_recipient")
  /\ hs' = [hs EXCEPT ![h].rcp = rcp, ![h].step = StepAfter("read_recipient")]
  /\ UNCHANGED <<external, worker, docs, handled, budget>>

(* What the report makes of a recipient with status cur. *)
Incoming(s) == IF setting.parent = "campaign" THEN MapProviderStatus(s) ELSE s

Applies(cur, s) ==
  /\ cur # "absent"
  /\ IF setting.parent = "campaign" THEN recipient_should_apply(cur, Incoming(s))
     ELSE should_apply_status(cur, s)

(* Mutant: every report is written. *)
WriteRecipientAlways(h) ==
  /\ At(h, "write_recipient")
  /\ IF hs[h].rcp # "absent"
     THEN /\ rcp' = Incoming(hs[h].s)
          /\ hs' = [hs EXCEPT ![h].step = "count"]
          /\ UNCHANGED handled
     ELSE Finish(h) /\ UNCHANGED rcp
  /\ UNCHANGED <<external, worker, msg, counts, budget>>

WriteRecipient(h) ==
  /\ At(h, "write_recipient")
  /\ IF Applies(hs[h].rcp, hs[h].s)
     THEN /\ rcp' = Incoming(hs[h].s)
          /\ hs' = [hs EXCEPT ![h].step = "count"]
          /\ UNCHANGED handled
     ELSE Finish(h) /\ UNCHANGED rcp
  /\ UNCHANGED <<external, worker, msg, counts, budget>>

(* Mutant: "read" only counts as read. *)
MetricIncOwn(old, new) ==
  {c \in Counters :
     CASE c = "failed"      -> is_failure_status(new) /\ ~is_failure_status(old)
       [] OTHER             -> new = c /\ old # c}

(* The blast counters a change from old to new increments; sent_count is   *)
(* left out, which no report changes once the recipient is marked.         *)
MetricInc(old, new) ==
  {c \in Counters :
     CASE c = "failed"      -> is_failure_status(new) /\ ~is_failure_status(old)
       [] c = "delivered"   -> new \in {"delivered", "read"}
                               /\ old \notin {"delivered", "read"}
       [] OTHER             -> new = c /\ old # c}

(* Mutant: the old status is read again, after the write. *)
CountChangeFresh(h) ==
  /\ At(h, "count")
  /\ counts' = IF setting.parent = "campaign" THEN counts
               ELSE [c \in Counters |->
                       IF c \in MetricInc(rcp, hs[h].s) THEN counts[c] + 1
                       ELSE counts[c]]
  /\ Finish(h)
  /\ UNCHANGED <<external, worker, msg, rcp, budget>>

(* $inc of the counters, from the old status in the snapshot.  A campaign  *)
(* recounts instead: its counters are not modelled here.                   *)
CountChange(h) ==
  /\ At(h, "count")
  /\ counts' = IF setting.parent = "campaign" THEN counts
               ELSE [c \in Counters |->
                       IF c \in MetricInc(hs[h].rcp, hs[h].s) THEN counts[c] + 1
                       ELSE counts[c]]
  /\ Finish(h)
  /\ UNCHANGED <<external, worker, msg, rcp, budget>>

(* The web process is restarted in the middle of the request. *)
Crash(h) ==
  /\ ~At(h, "idle")
  /\ budget.crashes > 0
  /\ budget' = [budget EXCEPT !.crashes = @ - 1]
  /\ hs' = [hs EXCEPT ![h] = IdleHandler]
  /\ UNCHANGED <<external, worker, docs, handled>>

Handle(h) ==
  \/ ReadMessage(h) \/ WriteMessage(h)
  \/ ReadRecipient(h) \/ WriteRecipient(h) \/ CountChange(h)

Next ==
  \/ Advance
  \/ InsertMessage \/ MarkRecipient \/ RecountRead \/ RecountWrite
  \/ \E h \in Handlers :
       Handle(h) \/ Crash(h) \/ \E s \in ReportStatuses : Receive(h, s)

Spec == Init /\ [][Next]_vars

-----------------------------------------------------------------------------
(* Properties *)

(* Every variable holds a value of its type; in particular the recipient   *)
(* of a campaign never gets a status outside the campaign's vocabulary.    *)
TypeOK ==
  /\ setting \in Settings
  /\ truth \in ReportStatuses /\ emitted \subseteq ReportStatuses
  /\ sender \in SenderSteps /\ found \in Nat
  /\ msg \in CanonicalStatuses \cup {"absent"}
  /\ rcp \in {"absent"} \cup
       (IF setting.parent = "campaign" THEN RecipientStatuses ELSE CanonicalStatuses)
  /\ counts \in [Counters -> Nat]
  /\ hs \in [Handlers -> [step : HandlerSteps, s : ReportStatuses,
                          early : BOOLEAN, msg : DocStatuses, rcp : DocStatuses]]
  /\ handled \subseteq ReportStatuses
  /\ budget \in [callbacks : Nat, crashes : Nat]

Quiet == sender = "done" /\ \A h \in Handlers : At(h, "idle")

(* cur is not behind status s: as far on the success path, or a failure.   *)
Covers(cur, s) ==
  \/ cur \in FailureStatuses
  \/ ~is_failure_status(s) /\ SuccessRank(cur) >= SuccessRank(s)

(* A status on the success path only moves forwards or to a failure, and   *)
(* a failure stays one, for the message and for its recipient.             *)
Forwards ==
  /\ msg # "absent" => Covers(msg', msg)
  /\ rcp # "absent" => Covers(rcp', rcp)

NeverBackwards == [][Forwards]_vars

(* It holds as long as one report is handled after the other, in whatever  *)
(* order they come, and although the worker writes at the same time.       *)
ForwardsOneByOne == [][~setting.overlap => Forwards]_vars

(* No report is forgotten: in whatever order and however often reports     *)
(* come in, and if handlers die over others, once they are handled one     *)
(* after the other message and recipient show the furthest of them.        *)
NoReportForgotten ==
  Quiet /\ ~setting.overlap =>
    \A s \in handled : Covers(msg, s) /\ Covers(rcp, s)

CountedBlast == Quiet /\ setting.parent = "blast" /\ setting.crashes = 0

(* The counters only callbacks write say how the blast's recipient stands. *)
CountersMatch ==
  CountedBlast /\ ~setting.overlap =>
    /\ counts["delivered"] = IF rcp \in {"delivered", "read"} THEN 1 ELSE 0
    /\ counts["read"] = IF rcp = "read" THEN 1 ELSE 0
    /\ counts["undelivered"] = IF rcp = "undelivered" THEN 1 ELSE 0

(* They are never too low, not even when handlers overlap. *)
NeverUndercounted ==
  CountedBlast =>
    /\ rcp \in {"delivered", "read"} => counts["delivered"] >= 1
    /\ rcp \in {"read", "undelivered"} => counts[rcp] >= 1

=============================================================================
