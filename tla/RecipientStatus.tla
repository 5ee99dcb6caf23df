--------------------------- MODULE RecipientStatus ---------------------------
(***************************************************************************)
(* The status vocabularies of campaigns and campaign recipients and the    *)
(* pure functions on them: app/models/campaign.py and                      *)
(* app/services/campaign_service.py.  No state; every engine module uses   *)
(* these operators.                                                        *)
(***************************************************************************)
EXTENDS Integers, FiniteSets

(* Campaign statuses ("gone" is a document that delete_campaign removed). *)
CampaignStatuses ==
  {"draft", "scheduled", "queued", "running", "paused", "completed",
   "partially_completed", "failed", "cancelled", "gone"}

EDITABLE_STATUSES == {"draft", "scheduled"}

TERMINAL_STATUSES == {"completed", "partially_completed", "failed", "cancelled"}

(* Recipient statuses: still to be sent, and final. *)
RECIPIENT_OPEN == {"pending", "queued", "processing", "retrying"}

RECIPIENT_TERMINAL ==
  {"sent", "delivered", "read", "failed", "skipped", "cancelled", "replied"}

RecipientStatuses == RECIPIENT_OPEN \cup RECIPIENT_TERMINAL \cup {"gone"}

(* The statuses the dashboard counts as "sent" (recount_campaign_fields). *)
SuccessStatuses == {"sent", "delivered", "read", "replied"}

(* _RECIPIENT_RANK *)
Rank(s) ==
  CASE s = "pending"    -> 0
    [] s = "queued"     -> 10
    [] s = "processing" -> 20
    [] s = "retrying"   -> 25
    [] s = "sent"       -> 40
    [] s = "delivered"  -> 50
    [] s = "read"       -> 60
    [] s = "replied"    -> 70
    [] OTHER            -> 100

(* May a delivery event move a recipient from status cur to incoming?  The *)
(* early returns of the function are the first conjuncts.                  *)
recipient_should_apply(cur, incoming) ==
  /\ cur # incoming
  /\ ~(cur = "replied" /\ incoming \in {"sent", "delivered", "read"})
  /\ ~(cur = "read" /\ incoming \in {"sent", "delivered", "queued", "processing"})
  /\ ~(cur = "delivered" /\ incoming \in {"sent", "queued", "processing"})
  /\ ~(/\ cur \in {"failed", "skipped", "cancelled"}
       /\ incoming \in {"sent", "delivered", "read"})
  /\ \/ incoming = "failed" /\ cur \in SuccessStatuses
     \/ incoming = "replied" /\ cur \notin {"cancelled", "skipped"}
     \/ incoming # "replied"
        /\ (Rank(incoming) >= Rank(cur)
            \/ incoming \in {"failed", "skipped", "cancelled"})

(* Mutant: a provider status is stored as it came. *)
MapNothing(incoming) == incoming

(* How a provider status is spelt on a campaign recipient. *)
MapProviderStatus(incoming) ==
  CASE incoming \in {"accepted", "sending", "queued"} -> "sent"
    [] incoming = "undelivered" -> "failed"
    [] incoming = "canceled"    -> "cancelled"
    [] OTHER                    -> incoming

(* The counters recount_campaign_fields derives, as sets of recipients:    *)
(* finalize_status_from_counts only asks which of them are empty.          *)
InStatus(rstat, S) == {r \in DOMAIN rstat : rstat[r] \in S}

(* The status a campaign ends in, from its own status and its recipients. *)
finalize_status_from_counts(status, rstat) ==
  LET total     == InStatus(rstat, RecipientStatuses \ {"gone"})
      sent      == InStatus(rstat, SuccessStatuses)
      failed    == InStatus(rstat, {"failed"})
      cancelled == InStatus(rstat, {"cancelled"})
      ended     == InStatus(rstat, {"failed", "skipped", "cancelled"})
  IN  IF status = "cancelled" THEN "cancelled"
      ELSE IF total = {} THEN "failed"
      ELSE IF cancelled # {} /\ sent = {} /\ failed = {} THEN "cancelled"
      ELSE IF sent = {} /\ ended = total THEN "failed"
      ELSE IF sent # {} /\ ended # {} THEN "partially_completed"
      ELSE "completed"

==============================================================================
