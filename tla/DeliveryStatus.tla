--------------------------- MODULE DeliveryStatus ---------------------------
(***************************************************************************)
(* app/services/delivery_status.py: the provider's delivery statuses and   *)
(* the rule by which one replaces another on a message document or a blast *)
(* recipient.  No state.                                                   *)
(***************************************************************************)
EXTENDS Integers

SuccessPath == {"queued", "accepted", "sending", "sent", "delivered", "read"}
FailureStatuses == {"failed", "undelivered", "canceled"}
CanonicalStatuses == SuccessPath \cup FailureStatuses

(* _SUCCESS_RANK *)
SuccessRank(s) ==
  CASE s = "queued"    -> 10
    [] s = "accepted"  -> 20
    [] s = "sending"   -> 30
    [] s = "sent"      -> 40
    [] s = "delivered" -> 50
    [] s = "read"      -> 60
    [] OTHER           -> 0

(* Two spellings are aliases; a value that is not canonical becomes "none". *)
normalize_status(raw) ==
  CASE raw = "cancelled"           -> "canceled"
    [] raw = "receiving"           -> "accepted"
    [] raw \in CanonicalStatuses   -> raw
    [] OTHER                       -> "none"

is_failure_status(s) == s \in FailureStatuses

(* Mutant: the success path is not ordered. *)
should_apply_newest(current, incoming) ==
  LET cur == normalize_status(current) IN
  /\ cur # incoming
  /\ is_failure_status(incoming) \/ ~is_failure_status(cur)

(* May the canonical status incoming replace current? *)
should_apply_status(current, incoming) ==
  LET cur == normalize_status(current) IN
  /\ cur # incoming
  /\ \/ cur = "none"
     \/ is_failure_status(incoming)
     \/ ~is_failure_status(cur) /\ SuccessRank(incoming) > SuccessRank(cur)

=============================================================================
