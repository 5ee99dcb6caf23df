------------------------------- MODULE Services -------------------------------
(***************************************************************************)
(* The parts of the system around the messages: an account's plan, its     *)
(* number at Meta, its knowledge, the contents the AI writes for a         *)
(* campaign, what the AI may cost, and what is known of a phone number.    *)
(* They share no document, queue or key, so one is followed at a time,     *)
(* while the others rest.                                                  *)
(***************************************************************************)
EXTENDS Billing, AiCampaign, MetaAccount, KnowledgeBase, LeadConsent, AiUsage

VARIABLE part  \* the part that is followed

vars == <<billingVars, aiVars, metaVars, kbVars, leadVars, usageVars, part>>

Init ==
  /\ BillingInit /\ AiInit /\ MetaInit /\ KbInit /\ LeadInit /\ UsageInit
  /\ part \in {"billing", "campaign", "meta", "knowledge", "leads", "usage"}
  /\ part # "billing"   => bcase = CHOOSE c \in BillingCases : c.story = <<>> /\ c.buyers = {}
  /\ part # "campaign"  => acase = CHOOSE c \in AiCases : ~c.scheduled
  /\ part # "meta"      => mcase = CHOOSE c \in MetaCases : \A t \in Tenants : c.linked[t] = None
  /\ part # "knowledge" => kcase = CHOOSE c \in KbCases : TRUE
  /\ part # "leads"     => lcase = CHOOSE c \in LeadCases : c.acts = 0
  /\ part # "usage"     => ucase = CHOOSE c \in UsageCases : c.acts = 0

Next ==
  /\ \/ part = "billing"   /\ BillingNext
        /\ UNCHANGED <<aiVars, metaVars, kbVars, leadVars, usageVars>>
     \/ part = "campaign"  /\ AiNext
        /\ UNCHANGED <<billingVars, metaVars, kbVars, leadVars, usageVars>>
     \/ part = "meta"      /\ MetaNext
        /\ UNCHANGED <<billingVars, aiVars, kbVars, leadVars, usageVars>>
     \/ part = "knowledge" /\ KbNext
        /\ UNCHANGED <<billingVars, aiVars, metaVars, leadVars, usageVars>>
     \/ part = "leads"     /\ LeadNext
        /\ UNCHANGED <<billingVars, aiVars, metaVars, kbVars, usageVars>>
     \/ part = "usage"     /\ UsageNext
        /\ UNCHANGED <<billingVars, aiVars, metaVars, kbVars, leadVars>>
  /\ UNCHANGED part

(* What is fair is not enabled in a part at rest. *)
Spec == /\ Init /\ [][Next]_vars
        /\ BillingFairness /\ AiFairness /\ MetaFairness /\ KbFairness

-----------------------------------------------------------------------------
(* Properties *)

(* Every variable of every part holds a value of its type. *)
TypeOK == BillingTypeOK /\ AiTypeOK /\ MetaTypeOK /\ KbTypeOK
          /\ LeadTypeOK /\ UsageTypeOK

(* What the parts promise at every moment: an account has one customer and *)
(* what it has paid for; it sends as itself; nobody gets a text that was   *)
(* not approved where a person has to; knowledge that is "ready" is the    *)
(* sources' own, no more and no less; who has said stop stays opted out,   *)
(* listed and without a score; and the AI costs what it may.               *)
ServicesInv ==
  /\ OneCustomer /\ EntitledToWhatIsPaid
  /\ SentAsItself /\ SessionUsedOnce /\ ConnectedHasItsToken
  /\ ReviewedFirst
  /\ ReadyIsIndexed /\ DeletedIsForgotten /\ KnowledgeWithinPlan
  /\ OptOutStands /\ EntryIsTheLast /\ BlockedHasNoScore
  /\ SpendsWithinLimits /\ CallsBounded

(* No step undoes what a person decided: a plan given by hand, a text that *)
(* was approved.                                                           *)
DecisionsStay == GivenByHandStays /\ ApprovedStays

(* What was begun comes to an end: Stripe's events, a campaign's texts, a  *)
(* request to connect a number, the reading of a source.                   *)
AllEnds == EventsApplied /\ GenerationEnds /\ OnboardingAnswered /\ SyncEnds
=============================================================================
