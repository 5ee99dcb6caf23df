------------------------------- MODULE Billing -------------------------------
(***************************************************************************)
(* One account's plan: Stripe Checkout and its customer                    *)
(* (app/services/stripe_service.py), the Stripe webhook                    *)
(* (app/routes/billing.py), the admin's override (app/routes/admin.py) and *)
(* what the plan entitles to (app/services/entitlements.py).               *)
(***************************************************************************)
EXTENDS Integers, Sequences, FiniteSets

CONSTANTS
  Hooks,        \* deliveries of Stripe's webhook in progress at the same time
  Buyers,       \* POST /billing/checkout requests
  MaxEvents,    \* bound: events of Stripe
  BillingCases  \* what may happen: see BillingCaseTypes

PaidPlans == {"starter", "business"}
Plans     == PaidPlans \cup {"free", "enterprise"}
StripeStatuses == {"incomplete", "trialing", "active", "past_due", "unpaid", "canceled"}
Statuses  == StripeStatuses \cup {"none", "manual_override"}

(* The webhook's kinds of events; "stranger" is one whose user is not      *)
(* found, "conflict" one of another customer's, "unmapped" has an unknown  *)
(* price; the plan and status are those of the subscription in the event.  *)
EventKinds == {"checkout", "subscription", "deleted", "paid", "failed",
               "finalized", "action_required", "other", "stranger",
               "conflict", "unmapped"}
Events == [kind : EventKinds, plan : PaidPlans, status : StripeStatuses]
Hopeless == {"conflict", "unmapped"}

(* story: the events Stripe emits, in this order, the first of which is a  *)
(* checkout where Stripe knows no customer; customer: the one the          *)
(* account has, "old" being of Stripe's other mode; the requests there are; *)
(* slow: one may take longer than STRIPE_WEBHOOK_CLAIM_TTL_SECONDS; and as *)
(* bounds: deliveries while another one of the same event is in progress,  *)
(* requests that die, and the admin's calls.                               *)
BillingCaseTypes ==
  [story : Seq(Events), customer : {"", "old", "live"}, buyers : SUBSET Buyers,
   hooks : SUBSET Hooks, stripe_fails : BOOLEAN, db_fails : BOOLEAN,
   slow : BOOLEAN, again : Nat, deaths : Nat, admin : Seq(Plans)]

ASSUME BillingCasesAssumption ==
  /\ MaxEvents \in Nat /\ BillingCases \subseteq BillingCaseTypes
  /\ \A c \in BillingCases :
       /\ Len(c.story) <= MaxEvents
       /\ c.story # <<>> /\ c.customer # "live" => c.story[1].kind = "checkout"

VARIABLES
  account,    \* the user's document
  lock,       \* stripe_customer_create_lock: a buyer, or none
  emitted,    \* external: events Stripe has emitted
  acked,      \* external: events Stripe had a 200 for
  customers,  \* external: Stripe customers made for this account in this mode
  hooked,     \* db.stripe_webhook_events: status, and whether it is stale
  hk,         \* the deliveries: next step, event, account as read
  by,         \* the checkouts: next step, customer, tries left
  log,        \* history: events in the order they were applied
  turned,     \* history: events a delivery of which was answered "busy"
              \*   and 200, with a handler at work on it or without
  tangled,    \* history: deliveries overlapped between read and write, or
              \*   an admin gave a plan
  bcase       \* what may happen, and what is left of its bounds

billingVars == <<account, lock, emitted, acked, customers, hooked, hk, by, log,
                 turned, tangled, bcase>>

Account == [plan : Plans, status : Statuses, sub : BOOLEAN,
            customer : {"", "old", "live"},
            pay : {"none", "paid", "failed", "finalized", "action_required"}]
NoDelivery == [step |-> "idle", e |-> 0, plan |-> "free", status |-> "none"]
NoCheckout == [step |-> "idle", cus |-> "", tries |-> 0]

BillingInit ==
  /\ bcase \in BillingCases
  /\ account = [plan |-> "free", status |-> "none", sub |-> FALSE,
                customer |-> bcase.customer, pay |-> "none"]
  /\ lock = {} /\ emitted = 0 /\ acked = {} /\ customers = 0
  /\ hooked = [e \in 1..Len(bcase.story) |-> "none"]
  /\ hk = [h \in Hooks |-> NoDelivery] /\ by = [b \in Buyers |-> NoCheckout]
  /\ log = <<>> /\ turned = {} /\ tangled = FALSE

Use(what) == bcase[what] > 0 /\ bcase' = [bcase EXCEPT ![what] = @ - 1]

-----------------------------------------------------------------------------
(* What a plan entitles to *)

ACTIVE_SUBSCRIPTION_STATUSES == {"trialing", "active", "past_due"}

effective_plan_key(u) ==
  IF u.plan = "enterprise" \/ u.status \in ACTIVE_SUBSCRIPTION_STATUSES \cup {"manual_override"}
  THEN u.plan ELSE "free"

is_manual_plan(u) == u.status = "manual_override" \/ u.plan = "enterprise"

-----------------------------------------------------------------------------
(* Checkout: the customer, then the session *)

BuyerAt(b, step) == by[b].step = step
BuyerTo(b, step) == by' = [by EXCEPT ![b].step = step]
BuyerEnds(b)     == by' = [by EXCEPT ![b] = [NoCheckout EXCEPT !.step = "done"]]
hookVars == <<emitted, acked, hooked, hk, log, turned, tangled>>

(* Who has a subscription already is sent to the portal. *)
create_checkout(b) ==
  /\ b \in bcase.buyers /\ BuyerAt(b, "idle")
  /\ by' = [by EXCEPT ![b] =
       IF account.sub /\ account.status \in ACTIVE_SUBSCRIPTION_STATUSES \cup {"unpaid"}
       THEN [NoCheckout EXCEPT !.step = "done"]
       ELSE [step |-> IF account.customer = "" THEN "lock" ELSE "verify",
             cus |-> account.customer, tries |-> 3]]
  /\ UNCHANGED <<account, lock, customers, hookVars, bcase>>

(* _customer_exists_in_active_mode: what Stripe does not know is forgotten,*)
(* whatever is stored by now.                                              *)
Verify(b) ==
  /\ BuyerAt(b, "verify")
  /\ IF by[b].cus = "live" THEN BuyerTo(b, "session") /\ UNCHANGED account
     ELSE BuyerTo(b, "lock") /\ account' = [account EXCEPT !.customer = ""]
  /\ UNCHANGED <<lock, customers, hookVars, bcase>>

(* Nobody waits for another request's lock: the database gives back times  *)
(* without a zone, which _lock_stale cannot subtract, and whatever it      *)
(* cannot subtract is stale.  After three tries only a customer that has   *)
(* been stored meanwhile helps.                                            *)
LookAtLock(b) ==
  /\ BuyerAt(b, "lock")
  /\ by' = [by EXCEPT ![b] =
       IF @.tries = 0
       THEN [NoCheckout EXCEPT !.step = IF account.customer = "live" THEN "session" ELSE "done"]
       ELSE IF account.customer # "" THEN [@ EXCEPT !.step = "verify", !.cus = account.customer]
       ELSE [@ EXCEPT !.step = "grab"]]
  /\ account' = IF by[b].tries = 0 /\ account.customer = "old"
                THEN [account EXCEPT !.customer = ""] ELSE account
  /\ UNCHANGED <<lock, customers, hookVars, bcase>>

(* The update asks whether there is a customer, not whether there is a     *)
(* lock: two requests may both have it.                                    *)
Grab(b) ==
  /\ BuyerAt(b, "grab")
  /\ IF account.customer = "" THEN lock' = {b} /\ BuyerTo(b, "create")
     ELSE UNCHANGED lock /\ by' = [by EXCEPT ![b].step = "lock", ![b].tries = @ - 1]
  /\ UNCHANGED <<account, customers, hookVars, bcase>>

(* Mutant: without an idempotency key. *)
CreateAnother(b) ==
  /\ BuyerAt(b, "create") /\ BuyerTo(b, "store") /\ customers' = customers + 1
  /\ UNCHANGED <<account, lock, hookVars, bcase>>

(* The idempotency key is the account's: Stripe makes one customer. *)
CreateCustomer(b) ==
  /\ BuyerAt(b, "create")
  /\ \/ BuyerTo(b, "store") /\ customers' = 1
     \/ bcase.stripe_fails /\ BuyerTo(b, "failed") /\ UNCHANGED customers
  /\ UNCHANGED <<account, lock, hookVars, bcase>>

StoreCustomer(b) ==
  /\ BuyerAt(b, "store") /\ BuyerTo(b, "session")
  /\ account' = [account EXCEPT !.customer = "live"] /\ lock' = {}
  /\ UNCHANGED <<customers, hookVars, bcase>>

(* The error path gives up its own lock, and takes a customer that another *)
(* request has stored.                                                     *)
CreateFailed(b) ==
  /\ BuyerAt(b, "failed") /\ lock' = lock \ {b}
  /\ IF account.customer = "" THEN BuyerEnds(b) ELSE BuyerTo(b, "session")
  /\ UNCHANGED <<account, customers, hookVars, bcase>>

OpenSession(b) ==
  /\ BuyerAt(b, "session")
  /\ by' = [by EXCEPT ![b] = [NoCheckout EXCEPT !.step = "paid"]]
  /\ UNCHANGED <<account, lock, customers, hookVars, bcase>>

(* A request dies; its lock stays, and keeps nobody out. *)
BuyerDies(b) ==
  /\ by[b].step \in {"create", "store"} /\ Use("deaths") /\ BuyerEnds(b)
  /\ UNCHANGED <<account, lock, customers, hookVars>>

CheckoutStep(b) ==
  \/ create_checkout(b) \/ Verify(b) \/ LookAtLock(b) \/ Grab(b)
  \/ CreateCustomer(b) \/ StoreCustomer(b) \/ CreateFailed(b) \/ OpenSession(b)

-----------------------------------------------------------------------------
(* The webhook *)

At(h, step)  == hk[h].step = step
To(h, step)  == hk' = [hk EXCEPT ![h].step = step]
Event(h)     == bcase.story[hk[h].e]
checkoutVars == <<lock, customers, by>>

(* 200: Stripe has done its part.  500, or no answer: it delivers again.   *)
Answer200(h) == hk' = [hk EXCEPT ![h] = NoDelivery] /\ acked' = acked \cup {hk[h].e}
Answer500(h) == hk' = [hk EXCEPT ![h] = NoDelivery] /\ UNCHANGED acked

(* A subscription begins with a session that was paid for. *)
Emit ==
  /\ emitted < Len(bcase.story) /\ emitted' = emitted + 1
  /\ bcase.story[1].kind = "checkout" => \E b \in Buyers : BuyerAt(b, "paid")
  /\ UNCHANGED <<account, acked, hooked, hk, log, turned, tangled, checkoutVars, bcase>>

Starts(h, e) == /\ h \in bcase.hooks /\ At(h, "idle") /\ e \in 1..emitted \ acked
                /\ hk' = [hk EXCEPT ![h] = [NoDelivery EXCEPT !.step = "look", !.e = e]]
                /\ UNCHANGED <<account, emitted, acked, hooked, log, turned, tangled,
                               checkoutVars>>
InProgress(e) == \E h \in Hooks : hk[h].e = e

DeliverEvent(h, e)      == Starts(h, e) /\ ~InProgress(e) /\ UNCHANGED bcase
DeliverEventAgain(h, e) == Starts(h, e) /\ InProgress(e) /\ Use("again")

(* _claim_webhook_event: processed, or processing and not stale. *)
ClaimLook(h) ==
  LET s == hooked[hk[h].e] IN
  /\ At(h, "look")
  /\ turned' = IF s = "processing" THEN turned \cup {hk[h].e} ELSE turned
  /\ IF s \in {"processing", "processed"} THEN Answer200(h) ELSE To(h, "claim") /\ UNCHANGED acked
  /\ UNCHANGED <<account, emitted, hooked, log, tangled, checkoutVars, bcase>>

(* Mutant: a failed event is not taken up again. *)
ClaimNew(h) ==
  LET s == hooked[hk[h].e] IN
  /\ At(h, "claim")
  /\ IF s \in {"none", "stale"}
     THEN /\ To(h, "read") /\ hooked' = [hooked EXCEPT ![hk[h].e] = "processing"]
          /\ UNCHANGED <<turned, acked>>
     ELSE /\ turned' = IF s = "processing" THEN turned \cup {hk[h].e} ELSE turned
          /\ Answer200(h) /\ UNCHANGED hooked
  /\ UNCHANGED <<account, emitted, log, tangled, checkoutVars, bcase>>

(* Insert, or take up a failed or stale one; else someone else was faster. *)
Claim(h) ==
  LET s == hooked[hk[h].e] IN
  /\ At(h, "claim")
  /\ IF s \in {"none", "failed", "stale"}
     THEN /\ To(h, "read") /\ hooked' = [hooked EXCEPT ![hk[h].e] = "processing"]
          /\ UNCHANGED <<turned, acked>>
     ELSE /\ turned' = IF s = "processing" THEN turned \cup {hk[h].e} ELSE turned
          /\ Answer200(h) /\ UNCHANGED hooked
  /\ UNCHANGED <<account, emitted, log, tangled, checkoutVars, bcase>>

(* Any exception of the insert passes for a duplicate, whether it was      *)
(* stored or not: no failed or stale record is there to take up, so the    *)
(* answer is "busy", and Stripe has its 200.                               *)
ClaimInsertFails(h) ==
  /\ At(h, "claim") /\ hooked[hk[h].e] = "none" /\ bcase.db_fails
  /\ hooked' \in {hooked, [hooked EXCEPT ![hk[h].e] = "processing"]}
  /\ Answer200(h) /\ turned' = turned \cup {hk[h].e}
  /\ bcase' = [bcase EXCEPT !.db_fails = FALSE]
  /\ UNCHANGED <<account, emitted, log, tangled, checkoutVars>>

(* _resolve_user_id and the price; then the account is read. *)
ReadAccount(h) ==
  /\ At(h, "read")
  /\ hk' = [hk EXCEPT ![h].plan = account.plan, ![h].status = account.status,
       ![h].step = CASE Event(h).kind \in Hopeless -> "fail"
                     [] Event(h).kind \in {"other", "stranger"} -> "mark"
                     [] OTHER -> "write"]
  /\ tangled' = (tangled \/ \E g \in Hooks \ {h} : At(g, "write"))
  /\ UNCHANGED <<account, emitted, acked, hooked, log, turned, checkoutVars, bcase>>

(* Mutant: an invoice that could not be paid clears the plan. *)
FieldsUnpaid(e, read) ==
  CASE e.kind \in {"checkout", "subscription"} ->
         [account EXCEPT !.plan = e.plan, !.status = e.status, !.sub = TRUE]
    [] e.kind = "deleted" ->
         [account EXCEPT !.plan = "free", !.status = "canceled", !.sub = TRUE]
    [] e.kind = "failed" -> [account EXCEPT !.plan = "", !.status = "past_due"]
    [] OTHER -> account

(* _apply_subscription, _handle_checkout_completed and _handle_invoice: a  *)
(* paid invoice ends only what was waiting for it.                         *)
Fields(e, read) ==
  CASE e.kind \in {"checkout", "subscription"} ->
         [account EXCEPT !.plan = IF e.status = "canceled" THEN "free" ELSE e.plan,
                         !.status = e.status, !.sub = TRUE, !.customer = "live"]
    [] e.kind = "deleted" ->
         [account EXCEPT !.plan = "free", !.status = "canceled", !.sub = TRUE]
    [] e.kind = "paid" ->
         [account EXCEPT !.pay = "paid",
            !.status = CASE read.status \in {"none", "incomplete", "past_due"} -> "active"
                         [] read.status = "trialing" -> "trialing"
                         [] OTHER -> @]
    [] e.kind = "failed" -> [account EXCEPT !.pay = "failed", !.status = "past_due"]
    [] e.kind \in {"finalized", "action_required"} -> [account EXCEPT !.pay = e.kind]

(* Mutant: the write does not spare a plan given by hand. *)
WriteAll(h) ==
  /\ At(h, "write") /\ To(h, "mark")
  /\ account' = Fields(Event(h), hk[h]) /\ log' = Append(log, hk[h].e)
  /\ UNCHANGED <<emitted, acked, hooked, turned, tangled, checkoutVars, bcase>>

(* _keep_manual_plan: by the account as it was read. *)
WriteAccount(h) ==
  LET new == Fields(Event(h), hk[h]) IN
  /\ At(h, "write") /\ To(h, "mark")
  /\ account' = IF is_manual_plan(hk[h])
                THEN [new EXCEPT !.plan = account.plan, !.status = account.status] ELSE new
  /\ log' = Append(log, hk[h].e)
  /\ UNCHANGED <<emitted, acked, hooked, turned, tangled, checkoutVars, bcase>>

_mark_webhook_processed(h) ==
  /\ At(h, "mark") /\ hooked' = [hooked EXCEPT ![hk[h].e] = "processed"]
  /\ Answer200(h)
  /\ UNCHANGED <<account, emitted, log, turned, tangled, checkoutVars, bcase>>

(* An exception of the handler. *)
Fault(h) ==
  /\ bcase.db_fails /\ hk[h].step \in {"read", "write", "mark"} /\ To(h, "fail")
  /\ bcase' = [bcase EXCEPT !.db_fails = FALSE]
  /\ UNCHANGED <<account, emitted, acked, hooked, log, turned, tangled, checkoutVars>>

_mark_webhook_failed(h) ==
  /\ At(h, "fail") /\ hooked' = [hooked EXCEPT ![hk[h].e] = "failed"]
  /\ Answer500(h)
  /\ UNCHANGED <<account, emitted, log, turned, tangled, checkoutVars, bcase>>

HookDies(h) ==
  /\ ~At(h, "idle") /\ Use("deaths") /\ Answer500(h)
  /\ UNCHANGED <<account, emitted, hooked, log, turned, tangled, checkoutVars>>

ClaimExpires(e) ==
  /\ hooked[e] = "processing" /\ (bcase.slow \/ ~InProgress(e))
  /\ hooked' = [hooked EXCEPT ![e] = "stale"]
  /\ UNCHANGED <<account, emitted, acked, hk, log, turned, tangled, checkoutVars, bcase>>

HookStep(h) ==
  \/ ClaimLook(h) \/ Claim(h) \/ ReadAccount(h) \/ WriteAccount(h)
  \/ _mark_webhook_processed(h) \/ _mark_webhook_failed(h)

(* update_plan: a paid plan needs the override; "free" clears it; for      *)
(* "enterprise" the status stays.                                          *)
update_plan ==
  /\ bcase.admin # <<>> /\ bcase' = [bcase EXCEPT !.admin = Tail(@)]
  /\ account' = [account EXCEPT !.plan = Head(bcase.admin),
       !.status = CASE Head(bcase.admin) \in PaidPlans -> "manual_override"
                    [] Head(bcase.admin) = "free" -> "none"
                    [] OTHER -> @]
  /\ tangled' = TRUE
  /\ UNCHANGED <<emitted, acked, hooked, hk, log, turned, checkoutVars>>

-----------------------------------------------------------------------------
BillingNext ==
  \/ \E b \in Buyers : CheckoutStep(b) \/ BuyerDies(b)
  \/ Emit \/ update_plan
  \/ \E h \in Hooks : HookStep(h) \/ HookDies(h) \/ ClaimInsertFails(h) \/ Fault(h)
  \/ \E h \in Hooks, e \in DOMAIN hooked : DeliverEvent(h, e) \/ DeliverEventAgain(h, e)
  \/ \E e \in DOMAIN hooked : ClaimExpires(e)

(* Requests run on; Stripe emits, and delivers again what was not          *)
(* acknowledged: here only what may succeed.                               *)
BillingFairness ==
  /\ WF_billingVars(\/ Emit \/ \E b \in Buyers : CheckoutStep(b)
                    \/ \E h \in Hooks : HookStep(h))
  /\ SF_billingVars(\E h \in Hooks, e \in DOMAIN hooked :
                      bcase.story[e].kind \notin Hopeless /\ DeliverEvent(h, e))

-----------------------------------------------------------------------------
(* Properties *)

BillingTypeOK ==
  /\ account \in Account /\ lock \subseteq Buyers /\ emitted \in 0..Len(bcase.story)
  /\ acked \subseteq DOMAIN hooked /\ customers \in Nat
  /\ \A e \in DOMAIN hooked : hooked[e] \in {"none", "processing", "stale", "failed", "processed"}
  /\ hk \in [Hooks -> [step : {"idle", "look", "claim", "read", "write", "mark", "fail"},
                       e : 0..Len(bcase.story), plan : Plans, status : Statuses]]
  /\ by \in [Buyers -> [step : {"idle", "verify", "lock", "grab", "create", "store",
                                "failed", "session", "paid", "done"},
                        cus : {"", "old", "live"}, tries : 0..3]]
  /\ log \in Seq(DOMAIN hooked) /\ turned \subseteq DOMAIN hooked
  /\ tangled \in BOOLEAN /\ bcase \in BillingCaseTypes

(* However many checkouts run, fail or die, and although the lock keeps no *)
(* second request out, the account has one customer in Stripe's books.     *)
OneCustomer == customers <= 1 /\ (account.customer = "live" => customers = 1 \/ bcase.customer = "live")

(* Once the events of a subscription have been applied one after the       *)
(* other, the account is entitled to the plan of the last one that carries *)
(* the subscription, and has none when it is gone; an invoice that could   *)
(* not be paid takes nothing away yet: it gives back a plan that had been  *)
(* taken away, as a paid one does to one that was still incomplete.        *)
Carries(e) == bcase.story[e].kind \in {"checkout", "subscription", "deleted"}
Applied == {log[i] : i \in DOMAIN log}
InTurn  == ~tangled /\ \A i, j \in DOMAIN log : i < j => log[i] < log[j]
Latest  == CHOOSE e \in Applied : Carries(e) /\ \A f \in Applied : Carries(f) => f <= e

Gone(e) == bcase.story[e].kind = "deleted" \/ bcase.story[e].status = "canceled"
Runs(e) == \/ bcase.story[e].status \in ACTIVE_SUBSCRIPTION_STATUSES
           \/ \E f \in Applied : f > e /\ bcase.story[f].kind \in
                {"failed"} \cup IF bcase.story[e].status = "incomplete" THEN {"paid"} ELSE {}

EntitledToWhatIsPaid ==
  InTurn /\ (\E e \in Applied : Carries(e)) =>
    effective_plan_key(account) =
      IF ~Gone(Latest) /\ Runs(Latest) THEN bcase.story[Latest].plan ELSE "free"

(* No event of Stripe changes a plan that was given by hand, unless its    *)
(* handler had read the account before.                                    *)
GivenByHandStays ==
  [][\A h \in Hooks :
       At(h, "write") /\ hk'[h].step = "mark" /\ is_manual_plan(account)
         /\ is_manual_plan(hk[h]) =>
       account'.plan = account.plan /\ account'.status = account.status]_billingVars

(* Every event is applied in the end, although handlers fail and die.  Not *)
(* one of which a delivery was answered "busy", for Stripe then has its    *)
(* 200: because a handler was still at work on it, which then fails or     *)
(* dies, or because the claim's insert failed, and nobody ever was.        *)
Processed == {e \in DOMAIN hooked : hooked[e] = "processed"}

EventsApplied ==
  []<>(\A e \in 1..emitted :
         bcase.story[e].kind \in Hopeless \/ e \in Processed \cup Applied \cup turned)
=============================================================================
