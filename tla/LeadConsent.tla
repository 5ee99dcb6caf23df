------------------------------ MODULE LeadConsent ------------------------------
(***************************************************************************)
(* What is known of one phone number: its lead with consent, blacklist     *)
(* flag and score, and the entry in db.blacklist.  Changed step by step by *)
(* inbound messages (app/services/inbound_whatsapp.py), the team's calls   *)
(* (app/routes/leads.py, app/routes/blacklist.py, app/services/lead_bulk   *)
(* .py), CSV imports (app/services/lead_import.py), and shared helpers     *)
(* (app/services/lead_service.py, consent_ops.py, lead_scoring.py).        *)
(***************************************************************************)
EXTENDS Integers, Sequences, FiniteSets

CONSTANTS
  LeadCalls,  \* requests in progress at the same time
  LeadCases   \* what may happen: see LeadCaseTypes

Consents == {"unknown", "pending", "opted_in", "opted_out"}
Kinds == {"message", "stop", "start", "create", "opt_in", "opt_out", "blacklist",
          "unblacklist", "block", "unblock", "import", "delete"}

(* Whether the number is on the blacklist at first, the requests there may *)
(* be, the consents in the imported files; bounds: requests, ones that die.*)
LeadCaseTypes == [listed : BOOLEAN, kinds : SUBSET Kinds, rows : SUBSET Consents,
                  acts : Nat, deaths : Nat]

ASSUME LeadCasesAssumption == LeadCases \subseteq LeadCaseTypes

VARIABLES
  contact,   \* the lead, id 0 if there is none
  listed,    \* db.blacklist has an entry
  calls,     \* the requests: kind, steps to do, the lead as read
  made,      \* leads made so far
  wish,      \* history: what the lead's person, or the team for it, last said
  stale,     \* history: an import wrote a consent by an older read
  last,      \* history: the last call that changed the entry
  mingled,   \* history: two such calls overlapped, or one died
  oldscore,  \* history: the score was written by what was not so any more, or
             \*   not at all: by a request that died, or add_blacklist's end
  lcase      \* what may happen, and what is left of its bounds

leadVars == <<contact, listed, calls, made, wish, stale, last, mingled, oldscore, lcase>>

NoContact == [id |-> 0, status |-> "unknown", black |-> FALSE, score |-> FALSE, said |-> {}]
NoRequest == [kind |-> "none", todo |-> <<>>, id |-> 0, status |-> "unknown",
              black |-> FALSE, row |-> "unknown"]

LeadInit ==
  /\ lcase \in LeadCases
  /\ contact = NoContact /\ listed = lcase.listed /\ calls = [c \in LeadCalls |-> NoRequest]
  /\ made = 0 /\ wish = "none" /\ last = "none"
  /\ stale = FALSE /\ mingled = FALSE /\ oldscore = FALSE

-----------------------------------------------------------------------------
(* The requests, each by the steps it makes in the database *)

(* apply_consent_change opts out and lists, or opts in and unlists; a      *)
(* score is recalculated by what is read first.                            *)
Program(kind) ==
  CASE kind = "message" -> <<"gate", "find", "insert", "message", "read_score", "write_score">>
    [] kind = "stop"    -> <<"gate", "find", "insert", "message", "out", "list",
                             "read_score", "write_score">>
    [] kind = "start"   -> <<"find", "insert", "message", "in", "unlist",
                             "read_score", "write_score", "read_score", "write_score">>
    [] kind = "create"  -> <<"find", "insert", "read_score", "write_score">>
    [] kind = "opt_in"  -> <<"find", "in", "unlist", "read_score", "write_score">>
    [] kind = "opt_out" -> <<"find", "out", "list", "read_score", "write_score">>
    [] kind = "blacklist"   -> <<"list", "find", "out", "list", "read_score", "write_score",
                                 "recheck", "sweep">>
    [] kind = "unblacklist" -> <<"unlist", "clear", "find", "read_score", "write_score">>
    [] kind \in {"block", "unblock"} -> <<"patch", "read_score", "write_score">>
    [] kind = "import"  -> <<"find", "row", "read_score", "write_score">>
    [] kind = "delete"  -> <<"delete">>

Consenting == {"stop", "start", "opt_in", "opt_out", "blacklist", "unblacklist"}

Active(c)     == calls[c].todo # <<>>
Doing(c, s)   == Active(c) /\ Head(calls[c].todo) = s
Mine(c)       == contact.id # 0 /\ contact.id = calls[c].id
Does(c, rest) == calls' = [calls EXCEPT ![c] = IF rest = <<>> THEN NoRequest ELSE [@ EXCEPT !.todo = rest]]
Continues(c)  == Does(c, Tail(calls[c].todo))
SkipsTwo(c)   == Does(c, Tail(Tail(calls[c].todo)))
Leaves(c)     == Does(c, <<>>)
leadHistory   == <<wish, stale, last, mingled, oldscore>>

(* A PATCH and a deletion name a lead that the team has seen. *)
Begin(c, kind) ==
  /\ kind \in lcase.kinds /\ ~Active(c) /\ lcase.acts > 0
  /\ kind \in {"block", "unblock", "delete"} => contact.id # 0
  /\ \E row \in IF kind = "import" THEN lcase.rows ELSE {"unknown"} :
       calls' = [calls EXCEPT ![c] = [NoRequest EXCEPT !.kind = kind, !.todo = Program(kind),
                                                       !.id = contact.id, !.row = row]]
  /\ lcase' = [lcase EXCEPT !.acts = @ - 1]
  /\ mingled' = \/ mingled
                \/ kind \in Consenting /\ \E d \in LeadCalls : Active(d) /\ calls[d].kind \in Consenting
  /\ UNCHANGED <<contact, listed, made, wish, stale, last, oldscore>>

(* A request that dies, or whose next access to the database fails. *)
LeadCallDies(c) ==
  /\ Active(c) /\ lcase.deaths > 0 /\ lcase' = [lcase EXCEPT !.deaths = @ - 1]
  /\ Leaves(c) /\ oldscore' = TRUE
  /\ mingled' = (mingled \/ calls[c].kind \in Consenting)
  /\ UNCHANGED <<contact, listed, made, wish, stale, last>>

-----------------------------------------------------------------------------
(* The lead *)

(* process_inbound_message: a blacklisted number is not heard. *)
HearNumber(c) ==
  /\ Doing(c, "gate") /\ IF listed THEN Leaves(c) ELSE Continues(c)
  /\ UNCHANGED <<contact, listed, made, leadHistory, lcase>>

(* By the phone number: an inbound message and a new lead make one if      *)
(* there is none, the team's calls have nothing to do without one, and a   *)
(* file is read before its rows are written.                               *)
Find(c) ==
  LET seen == [calls[c] EXCEPT !.id = contact.id, !.status = contact.status, !.black = contact.black]
      rest == CASE calls[c].kind \in {"message", "stop", "start"} /\ contact.id # 0 ->
                     Tail(Tail(seen.todo))
                [] calls[c].kind = "create" /\ contact.id # 0 -> <<>>
                [] calls[c].kind = "blacklist" /\ contact.id = 0 -> <<"recheck", "sweep">>
                [] calls[c].kind \in {"opt_in", "opt_out", "unblacklist"} /\ contact.id = 0 -> <<>>
                [] OTHER -> Tail(seen.todo)
  IN /\ Doing(c, "find")
     /\ calls' = [calls EXCEPT ![c] = IF rest = <<>> THEN NoRequest ELSE [seen EXCEPT !.todo = rest]]
     /\ UNCHANGED <<contact, listed, made, leadHistory, lcase>>

(* The unique index on the phone number refuses a second lead: the other   *)
(* request's is taken.                                                     *)
find_or_create_by_phone(c) ==
  /\ Doing(c, "insert")
  /\ IF contact.id = 0
     THEN /\ contact' = [NoContact EXCEPT !.id = made + 1] /\ made' = made + 1
          /\ calls' = [calls EXCEPT ![c].todo = Tail(@), ![c].id = made + 1]
     ELSE /\ UNCHANGED <<contact, made>>
          /\ IF calls[c].kind = "create" THEN Leaves(c)
             ELSE calls' = [calls EXCEPT ![c].todo = Tail(@), ![c].id = contact.id]
  /\ UNCHANGED <<listed, leadHistory, lcase>>

StoreMessage(c) ==
  /\ Doing(c, "message") /\ Continues(c)
  /\ contact' = IF Mine(c) THEN [contact EXCEPT !.said = @ \cup {calls[c].kind}] ELSE contact
  /\ UNCHANGED <<listed, made, leadHistory, lcase>>

update_lead(c) ==
  /\ Doing(c, "patch") /\ Continues(c)
  /\ contact' = IF Mine(c) THEN [contact EXCEPT !.black = calls[c].kind = "block"] ELSE contact
  /\ UNCHANGED <<listed, made, leadHistory, lcase>>

(* The entry in db.blacklist stays. *)
delete_lead(c) ==
  /\ Doing(c, "delete") /\ Leaves(c)
  /\ IF Mine(c) THEN contact' = NoContact /\ wish' = "none" ELSE UNCHANGED <<contact, wish>>
  /\ UNCHANGED <<listed, made, stale, last, mingled, oldscore, lcase>>

-----------------------------------------------------------------------------
(* Consent and blacklist *)

consent_update_fields(status) ==
  [contact EXCEPT !.status = status, !.black = status = "opted_out"]

(* apply_consent_change: without a lead nothing is done; add_blacklist     *)
(* goes on after that.                                                     *)
apply_consent_change(c, step, status, said) ==
  /\ Doing(c, step)
  /\ IF Mine(c)
     THEN Continues(c) /\ contact' = consent_update_fields(status) /\ wish' = said /\ stale' = FALSE
     ELSE /\ UNCHANGED <<contact, wish, stale>>
          /\ CASE calls[c].kind = "blacklist" -> Does(c, <<"recheck", "sweep">>)
               [] calls[c].kind \in {"stop", "start"} -> SkipsTwo(c)
               [] OTHER -> Leaves(c)
  /\ UNCHANGED <<listed, made, last, mingled, oldscore, lcase>>

OptOutLead(c) == apply_consent_change(c, "out", "opted_out", "out")
OptInLead(c)  == apply_consent_change(c, "in", "opted_in", "in")

ListPhone(c) ==
  /\ Doing(c, "list") /\ Continues(c) /\ listed' = TRUE /\ last' = "list"
  /\ UNCHANGED <<contact, made, wish, stale, mingled, oldscore, lcase>>

UnlistPhone(c) ==
  /\ Doing(c, "unlist") /\ Continues(c) /\ listed' = FALSE /\ last' = "unlist"
  /\ UNCHANGED <<contact, made, wish, stale, mingled, oldscore, lcase>>

(* Mutant: to take a number off the blacklist is to ask for messages. *)
ClearAll(c) ==
  /\ Doing(c, "clear") /\ Continues(c)
  /\ contact' = IF contact.id = 0 THEN contact ELSE [contact EXCEPT !.black = FALSE, !.status = "unknown"]
  /\ UNCHANGED <<listed, made, leadHistory, lcase>>

(* remove_blacklist: the consent stays as it is. *)
remove_blacklist(c) ==
  /\ Doing(c, "clear") /\ Continues(c)
  /\ contact' = IF contact.id = 0 THEN contact ELSE [contact EXCEPT !.black = FALSE]
  /\ UNCHANGED <<listed, made, leadHistory, lcase>>

(* add_blacklist, at its end: only a lead made since it looked again, and  *)
(* whose score it does not recalculate.                                    *)
LookAgain(c) ==
  /\ Doing(c, "recheck") /\ IF contact.id # 0 THEN Leaves(c) ELSE Continues(c)
  /\ UNCHANGED <<contact, listed, made, leadHistory, lcase>>

add_blacklist(c) ==
  /\ Doing(c, "sweep") /\ Leaves(c)
  /\ contact' = IF contact.id = 0 THEN contact ELSE [contact EXCEPT !.black = TRUE]
  /\ oldscore' = (oldscore \/ contact.id # 0)
  /\ UNCHANGED <<listed, made, wish, stale, last, mingled, lcase>>

-----------------------------------------------------------------------------
(* Import *)

(* Mutant: an import that carries another consent replaces an opt-out. *)
KeepsIfEmpty(as_read, row) == row = "unknown" /\ as_read.status # "unknown"

(* A consent that an imported row does not replace, by the lead as read. *)
KeepsConsent(as_read, row) ==
  \/ as_read.status = "opted_out" /\ row # "opted_out"
  \/ as_read.black /\ row = "opted_in"
  \/ row = "unknown" /\ as_read.status # "unknown"

_consent_fields_from_row(l, row) ==
  [l EXCEPT !.status = row,
            !.black = CASE row = "opted_in" -> FALSE [] row = "opted_out" -> TRUE [] OTHER -> @]

(* By what was read before the batch: no lead then, a new one, and the     *)
(* unique index ends the file if there is one by now; else an update of    *)
(* that lead.  No entry is made in db.blacklist.                           *)
import_leads_csv(c) ==
  LET row == calls[c].row
      out == row = "opted_out" IN
  /\ Doing(c, "row")
  /\ IF calls[c].id = 0
     THEN /\ Leaves(c) /\ UNCHANGED stale
          /\ IF contact.id # 0 THEN UNCHANGED <<contact, made, wish>>
             ELSE /\ made' = made + 1 /\ wish' = IF out THEN "out" ELSE "none"
                  /\ contact' = _consent_fields_from_row([NoContact EXCEPT !.id = made + 1], row)
     ELSE /\ Continues(c) /\ UNCHANGED made
          /\ IF ~Mine(c) \/ KeepsConsent(calls[c], row) THEN UNCHANGED <<contact, wish, stale>>
             ELSE /\ contact' = _consent_fields_from_row(contact, row)
                  /\ wish' = IF out THEN "out" ELSE wish
                  /\ stale' = (~out /\ (stale \/ contact.status # calls[c].status))
  /\ UNCHANGED <<listed, last, mingled, oldscore, lcase>>

-----------------------------------------------------------------------------
(* Score *)

(* Mutant: the number, not the lead, is looked up on the blacklist. *)
ScoreUnlessListed == ~listed /\ contact.said # {} /\ "stop" \notin contact.said

(* calculate_lead_score: nothing for who is blocked, has said nothing, or  *)
(* has ever said stop.                                                     *)
calculate_lead_score == ~contact.black /\ ~listed /\ contact.said # {} /\ "stop" \notin contact.said

ReadForScore(c) ==
  /\ Doing(c, "read_score")
  /\ IF Mine(c)
     THEN calls' = [calls EXCEPT ![c].todo = Tail(@), ![c].black = calculate_lead_score]
     ELSE SkipsTwo(c)
  /\ UNCHANGED <<contact, listed, made, leadHistory, lcase>>

recalculate_lead_score(c) ==
  /\ Doing(c, "write_score") /\ Continues(c)
  /\ IF Mine(c) THEN /\ contact' = [contact EXCEPT !.score = calls[c].black]
                     /\ oldscore' = (calls[c].black # calculate_lead_score)
     ELSE UNCHANGED <<contact, oldscore>>
  /\ UNCHANGED <<listed, made, wish, stale, last, mingled, lcase>>

-----------------------------------------------------------------------------
LeadStep(c) ==
  \/ HearNumber(c) \/ Find(c) \/ find_or_create_by_phone(c) \/ StoreMessage(c)
  \/ update_lead(c) \/ delete_lead(c) \/ OptOutLead(c) \/ OptInLead(c)
  \/ ListPhone(c) \/ UnlistPhone(c) \/ remove_blacklist(c) \/ LookAgain(c) \/ add_blacklist(c)
  \/ import_leads_csv(c) \/ ReadForScore(c) \/ recalculate_lead_score(c)

LeadNext == \E c \in LeadCalls :
  LeadStep(c) \/ LeadCallDies(c) \/ \E kind \in Kinds : Begin(c, kind)

-----------------------------------------------------------------------------
(* Properties *)

Contact == [id : Nat, status : Consents, black : BOOLEAN, score : BOOLEAN,
            said : SUBSET {"message", "stop", "start"}]

LeadTypeOK ==
  /\ contact \in Contact /\ contact.id <= made /\ made \in Nat /\ listed \in BOOLEAN
  /\ \A c \in LeadCalls :
       /\ calls[c].kind \in Kinds \cup {"none"} /\ calls[c].id \in 0..made
       /\ calls[c].status \in Consents /\ calls[c].black \in BOOLEAN /\ calls[c].row \in Consents
       /\ Active(c) <=> calls[c].kind # "none"
  /\ wish \in {"none", "out", "in"} /\ last \in {"none", "list", "unlist"}
  /\ stale \in BOOLEAN /\ mingled \in BOOLEAN /\ oldscore \in BOOLEAN
  /\ lcase \in LeadCaseTypes

(* Who has said stop is opted out, whatever imports, edits, blacklist      *)
(* changes and messages come after or in between, until an opt-in or a     *)
(* deletion; unless an import wrote by what it had read before.            *)
OptOutStands == wish = "out" /\ ~stale => contact.status = "opted_out"

AtRest == \A c \in LeadCalls : ~Active(c)

(* When nothing is in progress, the last change of the blacklist is what   *)
(* db.blacklist says; an opted-out lead that is not on it was taken off it,*)
(* or was imported as such.                                                *)
EntryIsTheLast == AtRest /\ ~mingled =>
  /\ last = "list" => listed
  /\ last = "unlist" => ~listed
  /\ "import" \notin lcase.kinds /\ wish = "out" /\ last # "unlist" => listed

(* When nothing is in progress, who is blocked has no score that would     *)
(* make a person or a campaign turn to them.                               *)
BlockedHasNoScore == AtRest /\ ~oldscore /\ contact.black => ~contact.score
=============================================================================
