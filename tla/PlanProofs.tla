------------------------------ MODULE PlanProofs ------------------------------
(***************************************************************************)
(* Theorems about what an account pays for and what it gets: its plan      *)
(* (Billing), the calls it may make of the AI (AiUsage) and the knowledge  *)
(* it may keep (KnowledgeBase), each by itself, for any members, bounds    *)
(* and cases.  ServicesProofs puts them together with the other parts.     *)
(***************************************************************************)
EXTENDS Billing, AiUsage, KnowledgeBase, FiniteSetTheorems, TLAPS

-----------------------------------------------------------------------------
(* Billing: the customer, the events and the plan *)

Marks == {"none", "processing", "stale", "failed", "processed"}
Delivery == [step : {"idle", "look", "claim", "read", "write", "mark", "fail"},
             e : 0..Len(bcase.story), plan : Plans, status : Statuses]
Checkout == [step : {"idle", "verify", "lock", "grab", "create", "store",
                     "failed", "session", "paid", "done"},
             cus : {"", "old", "live"}, tries : 0..3]

(* The account's customer in this mode is made, or was there before.       *)
HasLive == customers = 1 \/ bcase.customer = "live"

CustomersOK ==
  /\ customers \in {0, 1} /\ (account.customer = "live" => HasLive)
  /\ emitted > 0 => HasLive
  /\ bcase.story # <<>> /\ bcase.customer # "live" => bcase.story[1].kind = "checkout"
  /\ \A b \in Buyers :
       /\ by[b].cus = "live" \/ by[b].step \in {"session", "paid"} => HasLive
       /\ by[b].step = "store" => customers = 1
       /\ by[b].step \in {"create", "store", "failed"} => account.customer # "old"
       /\ by[b].step = "grab" => by[b].tries >= 1

Applies(kind) == kind \in EventKinds \ (Hopeless \cup {"other", "stranger"})

HooksOK == \A h \in Hooks : /\ hk[h].step # "idle" => hk[h].e \in 1..emitted
                            /\ hk[h].step = "write" => Applies(Event(h).kind)

(* What a handler has read is so still, while nobody else is between read  *)
(* and write.                                                              *)
PlansOK == ~tangled =>
  /\ account.plan # "enterprise" /\ account.status # "manual_override"
  /\ \A h \in Hooks : At(h, "write") =>
       /\ hk[h].plan = account.plan /\ hk[h].status = account.status
       /\ \A g \in Hooks : At(g, "write") => g = h

(* The last event that carries the subscription, and what it leaves.       *)
IsLatest(e) == e \in Applied /\ Carries(e) /\ \A f \in Applied : Carries(f) => f <= e
HookFits(e) ==
  IF Gone(e) THEN account.plan = "free"
  ELSE /\ account.plan = bcase.story[e].plan
       /\ IF Runs(e) THEN account.status \in ACTIVE_SUBSCRIPTION_STATUSES
          ELSE account.status = bcase.story[e].status

LatestOK == InTurn /\ (\E e \in Applied : Carries(e)) => \E e \in Applied : IsLatest(e) /\ HookFits(e)

BillShapes == BillingTypeOK /\ hooked \in [1..Len(bcase.story) -> Marks]

BillInv == BillShapes /\ CustomersOK /\ HooksOK /\ PlansOK /\ LatestOK

-----------------------------------------------------------------------------
(* Types *)

(* What the invariant says of the types, spelt out.                        *)
LEMMA BillTypes ==
  ASSUME BillInv
  PROVE  /\ hk \in [Hooks -> Delivery] /\ by \in [Buyers -> Checkout] /\ account \in Account
         /\ bcase \in BillingCaseTypes /\ bcase.story \in Seq(Events) /\ Len(bcase.story) \in Nat
         /\ DOMAIN bcase.story = 1..Len(bcase.story)
         /\ \A i \in 1..Len(bcase.story) : bcase.story[i] \in Events
         /\ hooked \in [1..Len(bcase.story) -> Marks] /\ DOMAIN hooked = 1..Len(bcase.story)
         /\ log \in Seq(1..Len(bcase.story)) /\ DOMAIN log = 1..Len(log) /\ Len(log) \in Nat
         /\ emitted \in 0..Len(bcase.story) /\ customers \in {0, 1}
         /\ lock \subseteq Buyers /\ acked \subseteq DOMAIN hooked /\ turned \subseteq DOMAIN hooked
         /\ tangled \in BOOLEAN
<1>1. /\ BillingTypeOK /\ hooked \in [1..Len(bcase.story) -> Marks] /\ customers \in {0, 1}
      /\ bcase \in BillingCaseTypes
  BY DEF BillInv, BillShapes, CustomersOK, BillingTypeOK
<1>2. bcase.story \in Seq(Events)
  BY <1>1 DEF BillingCaseTypes
<1>3. /\ Len(bcase.story) \in Nat /\ DOMAIN bcase.story = 1..Len(bcase.story)
      /\ \A i \in 1..Len(bcase.story) : bcase.story[i] \in Events
  BY <1>2
<1>4. hk \in [Hooks -> Delivery] /\ by \in [Buyers -> Checkout]
  BY <1>1 DEF BillingTypeOK, Delivery, Checkout
<1>5. DOMAIN hooked = 1..Len(bcase.story)
  BY <1>1
<1>6. log \in Seq(1..Len(bcase.story))
  BY <1>1, <1>5 DEF BillingTypeOK
<1>7. DOMAIN log = 1..Len(log) /\ Len(log) \in Nat
  BY <1>6
<1>8. /\ account \in Account /\ emitted \in 0..Len(bcase.story) /\ lock \subseteq Buyers
      /\ acked \subseteq DOMAIN hooked /\ turned \subseteq DOMAIN hooked /\ tangled \in BOOLEAN
  BY <1>1 DEF BillingTypeOK
<1> QED BY <1>1, <1>2, <1>3, <1>4, <1>5, <1>6, <1>7, <1>8

(* Bounds are used up; the story, the customer and who takes part stay.    *)
SameStory == /\ bcase' \in BillingCaseTypes /\ bcase'.story = bcase.story
             /\ bcase'.customer = bcase.customer

(* A step that uses up a bound leaves the rest of the case alone.          *)
LEMMA Used ==
  ASSUME bcase \in BillingCaseTypes,
         \/ bcase' = bcase \/ Use("again") \/ Use("deaths")
         \/ bcase' = [bcase EXCEPT !.db_fails = FALSE]
         \/ bcase.admin # <<>> /\ bcase' = [bcase EXCEPT !.admin = Tail(@)]
  PROVE  SameStory
<1>1. CASE bcase' = bcase \/ Use("again") \/ Use("deaths") \/ bcase' = [bcase EXCEPT !.db_fails = FALSE]
  <2>1. CASE bcase' = bcase
    BY <2>1 DEF SameStory
  <2>2. CASE Use("again")
    <3>1. bcase.again \in Nat
      BY DEF BillingCaseTypes
    <3>2. bcase.again > 0 /\ bcase' = [bcase EXCEPT !.again = bcase.again - 1]
      BY <2>2 DEF Use
    <3>3. bcase.again - 1 \in Nat
      BY <3>1, <3>2
    <3> QED BY <3>2, <3>3 DEF BillingCaseTypes, SameStory
  <2>3. CASE Use("deaths")
    <3>1. bcase.deaths \in Nat
      BY DEF BillingCaseTypes
    <3>2. bcase.deaths > 0 /\ bcase' = [bcase EXCEPT !.deaths = bcase.deaths - 1]
      BY <2>3 DEF Use
    <3>3. bcase.deaths - 1 \in Nat
      BY <3>1, <3>2
    <3> QED BY <3>2, <3>3 DEF BillingCaseTypes, SameStory
  <2>4. CASE bcase' = [bcase EXCEPT !.db_fails = FALSE]
    BY <2>4 DEF BillingCaseTypes, SameStory
  <2> QED BY <1>1, <2>1, <2>2, <2>3, <2>4
<1>2. CASE bcase.admin # <<>> /\ bcase' = [bcase EXCEPT !.admin = Tail(@)]
  <2>1. bcase.admin \in Seq(Plans)
    BY DEF BillingCaseTypes
  <2>2. Tail(bcase.admin) \in Seq(Plans)
    BY <1>2, <2>1
  <2> QED BY <1>2, <2>2 DEF BillingCaseTypes, SameStory
<1> QED BY <1>1, <1>2

(* What depends on the plan and status only.                               *)
LEMMA PlansKept ==
  ASSUME BillInv, SameStory, UNCHANGED <<hk, log, emitted, tangled>>,
         account'.plan = account.plan, account'.status = account.status
  PROVE  HooksOK' /\ PlansOK' /\ LatestOK'
<1>1. Applied' = Applied /\ InTurn' = InTurn
  BY DEF Applied, InTurn
<1>2. \A e : /\ (Carries(e))' = Carries(e) /\ (Gone(e))' = Gone(e) /\ (Runs(e))' = Runs(e)
  BY <1>1 DEF SameStory, Carries, Gone, Runs
<1>3. \A e : (IsLatest(e))' = IsLatest(e) /\ (HookFits(e))' = HookFits(e)
  BY <1>1, <1>2 DEF IsLatest, HookFits, SameStory
<1>4. LatestOK'
  BY <1>1, <1>2, <1>3 DEF BillInv, LatestOK
<1>5. HooksOK' /\ PlansOK'
  BY DEF BillInv, HooksOK, PlansOK, At, Event, SameStory
<1> QED BY <1>4, <1>5

-----------------------------------------------------------------------------
(* Checkouts *)

LEMMA OneOrNone == \A n : n \in {0, 1} => n \in Nat
  OBVIOUS

(* A checkout that has not begun.                                          *)
LEMMA NoCheckoutOK == NoCheckout \in Checkout /\ NoCheckout.step = "idle" /\ NoCheckout.cus = ""
  /\ NoCheckout.tries = 0
  BY DEF NoCheckout, Checkout

BuyerIs(b, u) == by' = [by EXCEPT ![b] = u]

LEMMA BuyerStep ==
  ASSUME BillInv, NEW b \in Buyers, NEW u \in Checkout, BuyerIs(b, u),
         SameStory, UNCHANGED hookVars, lock' \subseteq Buyers,
         customers' \in {customers, 1},
         account' \in {account, [account EXCEPT !.customer = ""], [account EXCEPT !.customer = "live"]},
         account'.customer = "live" => HasLive',
         u.cus = "live" \/ u.step \in {"session", "paid"} => HasLive',
         u.step = "store" => customers' = 1,
         u.step \in {"create", "store", "failed"} => account'.customer # "old",
         u.step = "grab" => u.tries >= 1
  PROVE  BillInv'
<1>1. /\ account' \in Account /\ account'.plan = account.plan /\ account'.status = account.status
      /\ account.customer # "old" => account'.customer # "old"
  BY BillTypes DEF Account
<1>2. \A d \in Buyers : by'[d] = IF d = b THEN u ELSE by[d]
  BY BillTypes DEF BuyerIs
<1>3. by' \in [Buyers -> Checkout]
  BY BillTypes DEF BuyerIs
<1>4. BillShapes'
  <2>1. BillingTypeOK
    BY DEF BillInv, BillShapes
  <2>2. /\ bcase'.story = bcase.story /\ bcase' \in BillingCaseTypes
        /\ hooked' = hooked /\ hk' = hk /\ emitted' = emitted /\ acked' = acked /\ log' = log
        /\ turned' = turned /\ tangled' = tangled
    BY DEF SameStory, hookVars
  <2>3. customers' \in Nat /\ lock' \subseteq Buyers
    <3>1. customers \in {0, 1}
      BY BillTypes
    <3>2. customers' \in {0, 1}
      BY <3>1
    <3>3. customers' \in Nat
      BY <3>2, OneOrNone, Zenon
    <3> QED BY <3>3, Zenon
  <2>4. BillingTypeOK'
    BY <1>1, <1>3, <2>1, <2>2, <2>3 DEF BillingTypeOK, Checkout
  <2>5. hooked' \in [1..Len(bcase'.story) -> Marks]
    BY <2>2, BillTypes
  <2> QED BY <2>4, <2>5 DEF BillShapes
<1>5. HasLive => HasLive'
  BY BillTypes DEF HasLive, SameStory
<1>6. CustomersOK'
  <2>1. customers' \in {0, 1}
    BY BillTypes
  <2>2. ASSUME NEW d \in Buyers
        PROVE  /\ by'[d].cus = "live" \/ by'[d].step \in {"session", "paid"} => HasLive'
               /\ by'[d].step = "store" => customers' = 1
               /\ by'[d].step \in {"create", "store", "failed"} => account'.customer # "old"
               /\ by'[d].step = "grab" => by'[d].tries >= 1
    <3>1. CASE d = b
      BY <1>2, <3>1
    <3>2. CASE d # b
      BY <1>1, <1>2, <1>5, <3>2 DEF BillInv, CustomersOK
    <3> QED BY <3>1, <3>2
  <2> QED BY <1>5, <2>1, <2>2 DEF BillInv, CustomersOK, SameStory, hookVars
<1>7. HooksOK' /\ PlansOK' /\ LatestOK'
  BY <1>1, PlansKept DEF hookVars
<1> QED BY <1>4, <1>6, <1>7 DEF BillInv

(* What is known of a buyer's checkout before its step.                    *)
LEMMA BuyerKept ==
  ASSUME BillInv, NEW b \in Buyers, bcase' = bcase
  PROVE  /\ SameStory /\ by[b] \in Checkout /\ bcase \in BillingCaseTypes
         /\ account.customer \in {"", "old", "live"} /\ account \in Account
         /\ account.customer = "live" => HasLive
         /\ by[b].cus = "live" \/ by[b].step \in {"session", "paid"} => HasLive
         /\ by[b].step = "store" => customers = 1
         /\ by[b].step \in {"create", "store", "failed"} => account.customer # "old"
         /\ by[b].step = "grab" => by[b].tries >= 1
         /\ HasLive /\ customers' = customers => HasLive'
<1>1. SameStory
  BY BillTypes, Used
<1> QED BY <1>1, BillTypes DEF BillInv, CustomersOK, HasLive, Account

CheckoutSteps == {"idle", "verify", "lock", "grab", "create", "store",
                  "failed", "session", "paid", "done"}
EndsAt(b, s) == by' = [by EXCEPT ![b] = [NoCheckout EXCEPT !.step = s]]

Stepped(v, s) == [v EXCEPT !.step = s]

(* What a checkout's next record is: the step changed, an attempt counted, *)
(* or a new one.                                                           *)
LEMMA SteppedOK ==
  ASSUME NEW v \in Checkout, NEW s \in CheckoutSteps
  PROVE  /\ Stepped(v, s) \in Checkout /\ Stepped(v, s).step = s
         /\ Stepped(v, s).cus = v.cus /\ Stepped(v, s).tries = v.tries
  BY DEF Checkout, CheckoutSteps, Stepped

Retried(v, n) == [v EXCEPT !.tries = n]
Known(v, c)   == [v EXCEPT !.cus = c]

LEMMA RetriedOK ==
  ASSUME NEW v \in Checkout
  PROVE  /\ \A n \in 0..3 : /\ Retried(v, n) \in Checkout /\ Retried(v, n).step = v.step
                            /\ Retried(v, n).cus = v.cus
         /\ \A c \in {"", "old", "live"} : /\ Known(v, c) \in Checkout
                                          /\ Known(v, c).step = v.step /\ Known(v, c).cus = c
  BY DEF Checkout, Retried, Known

LEMMA NewCheckout ==
  ASSUME NEW s \in CheckoutSteps, NEW c \in {"", "old", "live"}, NEW n \in 0..3
  PROVE  [step |-> s, cus |-> c, tries |-> n] \in Checkout
  BY DEF Checkout, CheckoutSteps

(* A move of the model is such a record.                                   *)
LEMMA Moves ==
  ASSUME NEW b \in Buyers, by[b] \in Checkout, NEW s \in CheckoutSteps, BuyerTo(b, s)
  PROVE  \E u \in Checkout : /\ BuyerIs(b, u) /\ u.step = s
                             /\ u.cus = by[b].cus /\ u.tries = by[b].tries
<1> DEFINE u == [by[b] EXCEPT !.step = s]
<1>1. u \in Checkout /\ u.step = s /\ u.cus = by[b].cus /\ u.tries = by[b].tries
  BY DEF Checkout, CheckoutSteps
<1>2. BuyerIs(b, u)
  BY DEF BuyerTo, BuyerIs
<1> HIDE DEF u
<1> QED BY <1>1, <1>2

LEMMA CheckoutEnds ==
  ASSUME NEW b \in Buyers, NEW s \in CheckoutSteps, EndsAt(b, s)
  PROVE  \E u \in Checkout : BuyerIs(b, u) /\ u.step = s /\ u.cus = ""
<1> DEFINE u == [NoCheckout EXCEPT !.step = s]
<1>1. u \in Checkout /\ u.step = s /\ u.cus = ""
  <2>1. u = Stepped(NoCheckout, s)
    BY DEF Stepped
  <2> HIDE DEF u
  <2> QED BY <2>1, SteppedOK, NoCheckoutOK
<1>2. BuyerIs(b, u)
  BY DEF EndsAt, BuyerIs
<1> HIDE DEF u
<1> QED BY <1>1, <1>2

(* Each step of a checkout keeps the invariant: what it needs of the lock, *)
(* the attempts left and the customer it has found.                        *)
LEMMA CreateCheckoutKeeps ==
  ASSUME BillInv, NEW b \in Buyers, create_checkout(b)
  PROVE  BillInv'
<1>1. bcase' = bcase /\ customers' = customers /\ account' = account /\ lock' = lock
        /\ UNCHANGED hookVars
  BY DEF create_checkout
<1>2. PICK u \in Checkout : /\ BuyerIs(b, u)
                            /\ \/ u.step = "done" /\ u.cus = ""
                               \/ u.step \in {"lock", "verify"} /\ u.cus = account.customer
  <2>1. CASE account.sub /\ account.status \in ACTIVE_SUBSCRIPTION_STATUSES \cup {"unpaid"}
    <3>1. EndsAt(b, "done")
      BY <2>1 DEF create_checkout, EndsAt
    <3>2. "done" \in CheckoutSteps
      BY DEF CheckoutSteps
    <3>3. PICK u \in Checkout : BuyerIs(b, u) /\ u.step = "done" /\ u.cus = ""
      BY <3>1, <3>2, CheckoutEnds, Zenon
    <3> QED BY <3>3
  <2>2. CASE ~(account.sub /\ account.status \in ACTIVE_SUBSCRIPTION_STATUSES \cup {"unpaid"})
    <3>1. account.customer \in {"", "old", "live"}
      BY <1>1, BuyerKept
    <3>2. PICK s \in {"lock", "verify"} :
            by' = [by EXCEPT ![b] = [step |-> s, cus |-> account.customer, tries |-> 3]]
      BY <2>2 DEF create_checkout
    <3> DEFINE u == [step |-> s, cus |-> account.customer, tries |-> 3]
    <3>3. u \in Checkout /\ u.step = s /\ u.cus = account.customer
      <4>1. s \in CheckoutSteps /\ 3 \in 0..3
        BY DEF CheckoutSteps
      <4>2. u \in Checkout
        BY <3>1, <4>1, NewCheckout
      <4> QED BY <4>2
    <3>4. BuyerIs(b, u)
      BY <3>2 DEF BuyerIs
    <3> HIDE DEF u
    <3> QED BY <3>3, <3>4
  <2> QED BY <2>1, <2>2
<1> QED BY <1>1, <1>2, BuyerKept, BuyerStep, BillTypes

LEMMA VerifyKeeps ==
  ASSUME BillInv, NEW b \in Buyers, Verify(b)
  PROVE  BillInv'
<1>1. bcase' = bcase /\ customers' = customers /\ lock' = lock /\ UNCHANGED hookVars
  BY DEF Verify
<1>2. CASE by[b].cus = "live"
  <2>1. PICK u \in Checkout : /\ BuyerIs(b, u) /\ u.step = "session"
                            /\ u.cus = by[b].cus /\ u.tries = by[b].tries
    <3>1. BuyerTo(b, "session")
      BY <1>1, <1>2 DEF Verify
    <3>2. by[b] \in Checkout /\ "session" \in CheckoutSteps
      BY <1>1, BuyerKept DEF CheckoutSteps
    <3> QED BY <3>1, <3>2, Moves, Zenon
  <2>2. account' = account
    BY <1>2 DEF Verify
  <2> QED BY <1>1, <1>2, <2>1, <2>2, BuyerKept, BuyerStep, BillTypes
<1>3. CASE by[b].cus # "live"
  <2>1. PICK u \in Checkout : /\ BuyerIs(b, u) /\ u.step = "lock"
                            /\ u.cus = by[b].cus /\ u.tries = by[b].tries
    <3>1. BuyerTo(b, "lock")
      BY <1>1, <1>3 DEF Verify
    <3>2. by[b] \in Checkout /\ "lock" \in CheckoutSteps
      BY <1>1, BuyerKept DEF CheckoutSteps
    <3> QED BY <3>1, <3>2, Moves, Zenon
  <2>2. account' = [account EXCEPT !.customer = ""] /\ account'.customer = ""
    BY <1>1, <1>3, BuyerKept DEF Verify, Account
  <2> QED BY <1>1, <1>3, <2>1, <2>2, BuyerKept, BuyerStep, BillTypes
<1> QED BY <1>2, <1>3

LEMMA GrabKeeps ==
  ASSUME BillInv, NEW b \in Buyers, Grab(b)
  PROVE  BillInv'
<1>1. bcase' = bcase /\ customers' = customers /\ account' = account /\ UNCHANGED hookVars
  BY DEF Grab
<1>2. CASE account.customer = ""
  <2>1. PICK u \in Checkout : /\ BuyerIs(b, u) /\ u.step = "create"
                            /\ u.cus = by[b].cus /\ u.tries = by[b].tries
    <3>1. BuyerTo(b, "create")
      BY <1>1, <1>2 DEF Grab
    <3>2. by[b] \in Checkout /\ "create" \in CheckoutSteps
      BY <1>1, BuyerKept DEF CheckoutSteps
    <3> QED BY <3>1, <3>2, Moves, Zenon
  <2>2. lock' \subseteq Buyers
    BY <1>2 DEF Grab
  <2> QED BY <1>1, <1>2, <2>1, <2>2, BuyerKept, BuyerStep
<1>3. CASE account.customer # ""
  <2>1. PICK v \in Checkout : /\ v = Stepped(by[b], "lock") /\ v.step = "lock"
                              /\ v.cus = by[b].cus /\ v.tries = by[b].tries
    <3>1. by[b] \in Checkout /\ "lock" \in CheckoutSteps
      BY <1>1, BuyerKept DEF CheckoutSteps
    <3> QED BY <3>1, SteppedOK
  <2>2. v.tries - 1 \in 0..3
    <3>1. by[b].tries >= 1 /\ by[b].tries \in 0..3
      BY <1>1, BuyerKept DEF Grab, BuyerAt, Checkout
    <3> QED BY <2>1, <3>1
  <2>3. PICK u \in Checkout : /\ u = Retried(v, v.tries - 1)
                              /\ u.step = "lock" /\ u.cus = by[b].cus
    <3>1. /\ Retried(v, v.tries - 1) \in Checkout /\ Retried(v, v.tries - 1).step = v.step
          /\ Retried(v, v.tries - 1).cus = v.cus
      BY <2>2, RetriedOK
    <3> QED BY <2>1, <3>1
  <2>4. lock' = lock
    BY <1>3 DEF Grab
  <2>5. by' = [by EXCEPT ![b].step = "lock", ![b].tries = @ - 1]
    BY <1>3 DEF Grab
  <2>6. BuyerIs(b, u)
    BY <2>1, <2>3, <2>5, BillTypes DEF Stepped, Retried, Checkout, BuyerIs
  <2> QED BY <1>1, <1>3, <2>3, <2>4, <2>6, BuyerKept, BuyerStep, BillTypes
<1> QED BY <1>2, <1>3

LEMMA LookAtLockKeeps ==
  ASSUME BillInv, NEW b \in Buyers, LookAtLock(b)
  PROVE  BillInv'
<1>1. bcase' = bcase /\ customers' = customers /\ lock' = lock /\ UNCHANGED hookVars
  BY DEF LookAtLock
<1>2. CASE by[b].tries = 0
  <2>1. /\ account' \in {account, [account EXCEPT !.customer = ""]}
        /\ account'.customer \in {"", account.customer}
    BY <1>1, BuyerKept DEF LookAtLock, Account
  <2>2. by' = [by EXCEPT ![b] = [NoCheckout EXCEPT !.step =
                 IF account.customer = "live" THEN "session" ELSE "done"]]
    BY <1>2 DEF LookAtLock
  <2>3. PICK u \in Checkout : BuyerIs(b, u) /\ u.cus = ""
          /\ u.step = IF account.customer = "live" THEN "session" ELSE "done"
    <3>1. CASE account.customer = "live"
      <4>1. EndsAt(b, "session")
        BY <2>2, <3>1 DEF EndsAt
      <4>2. "session" \in CheckoutSteps
        BY DEF CheckoutSteps
      <4>3. PICK u \in Checkout : BuyerIs(b, u) /\ u.step = "session" /\ u.cus = ""
        BY <4>1, <4>2, CheckoutEnds, Zenon
      <4> QED BY <3>1, <4>3
    <3>2. CASE account.customer # "live"
      <4>1. EndsAt(b, "done")
        BY <2>2, <3>2 DEF EndsAt
      <4>2. "done" \in CheckoutSteps
        BY DEF CheckoutSteps
      <4>3. PICK u \in Checkout : BuyerIs(b, u) /\ u.step = "done" /\ u.cus = ""
        BY <4>1, <4>2, CheckoutEnds, Zenon
      <4> QED BY <3>2, <4>3
    <3> QED BY <3>1, <3>2
  <2> QED BY <1>1, <2>1, <2>3, BuyerKept, BuyerStep, BillTypes
<1>3. CASE by[b].tries # 0
  <2>1. account' = account
    BY <1>3 DEF LookAtLock
  <2>2. PICK u \in Checkout : /\ BuyerIs(b, u)
                              /\ u.step \in {"verify", "lock", "grab"}
                              /\ u.cus \in {account.customer, by[b].cus}
                              /\ u.step = "grab" => u.tries >= 1
    <3>1. CASE account.customer # ""
      <4>1. PICK v \in Checkout : v = Stepped(by[b], "verify") /\ v.step = "verify"
        <5>1. by[b] \in Checkout /\ "verify" \in CheckoutSteps
          BY <1>1, BuyerKept DEF CheckoutSteps
        <5> QED BY <5>1, SteppedOK
      <4>2. PICK u \in Checkout : u = Known(v, account.customer)
                                   /\ u.step = "verify" /\ u.cus = account.customer
        <5>1. account.customer \in {"", "old", "live"}
          BY <1>1, BuyerKept
        <5>2. /\ Known(v, account.customer) \in Checkout
              /\ Known(v, account.customer).step = v.step
              /\ Known(v, account.customer).cus = account.customer
          BY <5>1, RetriedOK
        <5> QED BY <4>1, <5>2
      <4>3. by' = [by EXCEPT ![b] = [@ EXCEPT !.step = "verify", !.cus = account.customer]]
        BY <1>3, <3>1 DEF LookAtLock
      <4>4. BuyerIs(b, u)
        BY <4>1, <4>2, <4>3 DEF Stepped, Known, BuyerIs
      <4> QED BY <4>2, <4>4
    <3>2. CASE account.customer = ""
      <4>1. by' = [by EXCEPT ![b] = [by[b] EXCEPT !.step = "grab"]]
        BY <1>3, <3>2 DEF LookAtLock
      <4>2. PICK u \in Checkout : u = Stepped(by[b], "grab") /\ u.step = "grab"
                                   /\ u.cus = by[b].cus /\ u.tries = by[b].tries
        <5>1. by[b] \in Checkout /\ "grab" \in CheckoutSteps
          BY <1>1, BuyerKept DEF CheckoutSteps
        <5> QED BY <5>1, SteppedOK
      <4>3. u.tries >= 1
        <5>1. by[b].tries \in 0..3
          BY <1>1, BuyerKept DEF Checkout
        <5> QED BY <1>3, <4>2, <5>1
      <4>4. BuyerIs(b, u)
        BY <4>1, <4>2 DEF Stepped, BuyerIs
      <4> QED BY <4>2, <4>3, <4>4
    <3> QED BY <3>1, <3>2
  <2> QED BY <1>1, <2>1, <2>2, BuyerKept, BuyerStep, BillTypes
<1> QED BY <1>2, <1>3

LEMMA CreateCustomerKeeps ==
  ASSUME BillInv, NEW b \in Buyers, CreateCustomer(b)
  PROVE  BillInv'
<1>1. /\ bcase' = bcase /\ account' = account /\ lock' = lock /\ UNCHANGED hookVars
      /\ by[b].step = "create"
  BY DEF CreateCustomer, BuyerAt
<1>2. CASE BuyerTo(b, "store") /\ customers' = 1
  <2>1. PICK u \in Checkout : /\ BuyerIs(b, u) /\ u.step = "store"
                            /\ u.cus = by[b].cus /\ u.tries = by[b].tries
    <3>1. BuyerTo(b, "store")
      BY <1>1, <1>2
    <3>2. by[b] \in Checkout /\ "store" \in CheckoutSteps
      BY <1>1, BuyerKept DEF CheckoutSteps
    <3> QED BY <3>1, <3>2, Moves, Zenon
  <2>2. HasLive'
    BY <1>2 DEF HasLive
  <2> QED BY <1>1, <1>2, <2>1, <2>2, BuyerKept, BuyerStep, BillTypes
<1>3. CASE BuyerTo(b, "failed") /\ customers' = customers
  <2>1. PICK u \in Checkout : /\ BuyerIs(b, u) /\ u.step = "failed"
                            /\ u.cus = by[b].cus /\ u.tries = by[b].tries
    <3>1. BuyerTo(b, "failed")
      BY <1>1, <1>3
    <3>2. by[b] \in Checkout /\ "failed" \in CheckoutSteps
      BY <1>1, BuyerKept DEF CheckoutSteps
    <3> QED BY <3>1, <3>2, Moves, Zenon
  <2> QED BY <1>1, <1>3, <2>1, BuyerKept, BuyerStep, BillTypes
<1> QED BY <1>2, <1>3 DEF CreateCustomer

LEMMA StoreCustomerKeeps ==
  ASSUME BillInv, NEW b \in Buyers, StoreCustomer(b)
  PROVE  BillInv'
<1>1. /\ bcase' = bcase /\ customers' = customers /\ lock' \subseteq Buyers /\ UNCHANGED hookVars
      /\ by[b].step = "store"
  BY DEF StoreCustomer, BuyerAt
<1>2. account' = [account EXCEPT !.customer = "live"] /\ account'.customer = "live"
  BY <1>1, BuyerKept DEF StoreCustomer, Account
<1>3. PICK u \in Checkout : /\ BuyerIs(b, u) /\ u.step = "session"
                          /\ u.cus = by[b].cus /\ u.tries = by[b].tries
  <2>1. BuyerTo(b, "session")
    BY <1>1 DEF StoreCustomer
  <2>2. by[b] \in Checkout /\ "session" \in CheckoutSteps
    BY <1>1, BuyerKept DEF CheckoutSteps
  <2> QED BY <2>1, <2>2, Moves, Zenon
<1>4. HasLive'
  BY <1>1, BuyerKept DEF HasLive
<1> QED BY <1>1, <1>2, <1>3, <1>4, BuyerKept, BuyerStep

LEMMA CreateFailedKeeps ==
  ASSUME BillInv, NEW b \in Buyers, CreateFailed(b)
  PROVE  BillInv'
<1>1. /\ bcase' = bcase /\ account' = account /\ customers' = customers /\ UNCHANGED hookVars
      /\ by[b].step = "failed" /\ lock' \subseteq Buyers
  BY BillTypes DEF CreateFailed, BuyerAt
<1>2. CASE account.customer = ""
  <2>1. PICK u \in Checkout : BuyerIs(b, u) /\ u.step = "done" /\ u.cus = ""
    <3>1. EndsAt(b, "done")
      BY <1>2 DEF CreateFailed, BuyerEnds, EndsAt
    <3>2. "done" \in CheckoutSteps
      BY DEF CheckoutSteps
    <3> QED BY <3>1, <3>2, CheckoutEnds, Zenon
  <2> QED BY <1>1, <1>2, <2>1, BuyerKept, BuyerStep
<1>3. CASE account.customer # ""
  <2>1. PICK u \in Checkout : /\ BuyerIs(b, u) /\ u.step = "session"
                            /\ u.cus = by[b].cus /\ u.tries = by[b].tries
    <3>1. BuyerTo(b, "session")
      BY <1>1, <1>3 DEF CreateFailed
    <3>2. by[b] \in Checkout /\ "session" \in CheckoutSteps
      BY <1>1, BuyerKept DEF CheckoutSteps
    <3> QED BY <3>1, <3>2, Moves, Zenon
  <2>2. HasLive'
    BY <1>1, <1>3, BuyerKept
  <2> QED BY <1>1, <2>1, <2>2, BuyerKept, BuyerStep
<1> QED BY <1>2, <1>3

LEMMA OpenSessionKeeps ==
  ASSUME BillInv, NEW b \in Buyers, OpenSession(b)
  PROVE  BillInv'
<1>1. /\ bcase' = bcase /\ account' = account /\ customers' = customers /\ UNCHANGED hookVars
      /\ by[b].step = "session" /\ lock' = lock
  BY DEF OpenSession, BuyerAt
<1>2. PICK u \in Checkout : BuyerIs(b, u) /\ u.step = "paid" /\ u.cus = ""
  <2>1. EndsAt(b, "paid")
    BY DEF OpenSession, EndsAt
  <2>2. "paid" \in CheckoutSteps
    BY DEF CheckoutSteps
  <2> QED BY <2>1, <2>2, CheckoutEnds, Zenon
<1> QED BY <1>1, <1>2, BuyerKept, BuyerStep, BillTypes

LEMMA BuyerDiesKeeps ==
  ASSUME BillInv, NEW b \in Buyers, BuyerDies(b)
  PROVE  BillInv'
<1>1. /\ account' = account /\ customers' = customers /\ UNCHANGED hookVars /\ lock' = lock
      /\ Use("deaths") /\ BuyerEnds(b)
  BY DEF BuyerDies
<1>2. SameStory /\ (account.customer = "live" => HasLive) /\ HasLive' = HasLive
  BY <1>1, Used, BillTypes DEF BillInv, CustomersOK, SameStory, HasLive
<1>3. PICK u \in Checkout : BuyerIs(b, u) /\ u.step = "done" /\ u.cus = ""
  <2>1. EndsAt(b, "done")
    BY <1>1 DEF BuyerEnds, EndsAt
  <2>2. "done" \in CheckoutSteps
    BY DEF CheckoutSteps
  <2> QED BY <2>1, <2>2, CheckoutEnds, Zenon
<1> QED BY <1>1, <1>2, <1>3, BuyerStep, BillTypes

LEMMA CheckoutsKeep ==
  ASSUME BillInv, NEW b \in Buyers, CheckoutStep(b) \/ BuyerDies(b)
  PROVE  BillInv'
  BY CreateCheckoutKeeps, VerifyKeeps, LookAtLockKeeps, GrabKeeps, CreateCustomerKeeps,
     StoreCustomerKeeps, CreateFailedKeeps, OpenSessionKeeps, BuyerDiesKeeps DEF CheckoutStep

-----------------------------------------------------------------------------
(* The webhook *)

HookIs(h, d) == hk' = [hk EXCEPT ![h] = d]
DeliverySteps == {"idle", "look", "claim", "read", "write", "mark", "fail"}
HookStepped(d, s) == [d EXCEPT !.step = s]

(* What a delivery's next record is.                                       *)
LEMMA HookSteppedOK ==
  ASSUME NEW d \in Delivery, NEW s \in DeliverySteps
  PROVE  /\ HookStepped(d, s) \in Delivery /\ HookStepped(d, s).step = s
         /\ HookStepped(d, s).e = d.e
  BY DEF Delivery, DeliverySteps, HookStepped

LEMMA NoDeliveryOK ==
  ASSUME BillInv
  PROVE  NoDelivery \in Delivery /\ NoDelivery.step = "idle"
<1>1. 0 \in 0..Len(bcase.story)
  BY BillTypes
<1> QED BY <1>1 DEF NoDelivery, Delivery, Plans, PaidPlans, Statuses, StripeStatuses

(* What is known of a delivery that is being handled.                      *)
LEMMA HookTypes ==
  ASSUME BillInv, NEW h \in Hooks, hk[h].step # "idle"
  PROVE  /\ hk[h] \in Delivery /\ hk[h].e \in 1..emitted
         /\ hk[h].e \in DOMAIN hooked /\ hk[h].e \in 1..Len(bcase.story)
<1>1. hk[h] \in Delivery
  BY BillTypes
<1>2. hk[h].e \in 1..emitted
  BY DEF BillInv, HooksOK
<1>3. hk[h].e \in 1..Len(bcase.story)
  <2>1. emitted \in 0..Len(bcase.story) /\ Len(bcase.story) \in Nat
    BY BillTypes
  <2> QED BY <1>2, <2>1
<1>4. hk[h].e \in DOMAIN hooked
  BY <1>3, BillTypes
<1> QED BY <1>1, <1>2, <1>3, <1>4

(* A step of the webhook that leaves the account and the checkouts alone.  *)
StillThere == /\ UNCHANGED <<account, emitted, log, checkoutVars>>
              /\ acked' \subseteq DOMAIN hooked /\ turned' \subseteq DOMAIN hooked
              /\ hooked' \in [DOMAIN hooked -> Marks]

(* Its steps up to the write, and after it, change the marks and answers   *)
(* only.                                                                   *)
LEMMA StillShapes ==
  ASSUME BillInv, SameStory, StillThere, hk' \in [Hooks -> Delivery], tangled' \in BOOLEAN
  PROVE  BillShapes' /\ CustomersOK'
<1>1. DOMAIN hooked = 1..Len(bcase.story)
  BY BillTypes
<1>2. hooked' \in [1..Len(bcase'.story) -> Marks] /\ DOMAIN hooked' = DOMAIN hooked
  BY <1>1 DEF SameStory, StillThere
<1>3. /\ account' = account /\ emitted' = emitted /\ log' = log /\ lock' = lock
      /\ customers' = customers /\ by' = by
  BY DEF StillThere, checkoutVars
<1>4. BillingTypeOK
  BY DEF BillInv, BillShapes
<1>5. BillingTypeOK'
  BY <1>2, <1>3, <1>4 DEF BillingTypeOK, SameStory, StillThere, Marks, Delivery
<1>6. CustomersOK'
  BY <1>3 DEF BillInv, CustomersOK, HasLive, SameStory
<1> QED BY <1>2, <1>5, <1>6 DEF BillShapes

(* While nothing is applied, the last event applied is the same.           *)
LEMMA LatestStays ==
  ASSUME BillInv, SameStory, log' = log, account' = account, tangled => tangled'
  PROVE  LatestOK'
<1>1. Applied' = Applied /\ (InTurn' => InTurn)
  BY DEF Applied, InTurn
<1>2. \A e : /\ (Carries(e))' = Carries(e) /\ (Gone(e))' = Gone(e) /\ (Runs(e))' = Runs(e)
  BY <1>1 DEF SameStory, Carries, Gone, Runs
<1>3. \A e : (IsLatest(e))' = IsLatest(e) /\ (HookFits(e))' = HookFits(e)
  BY <1>1, <1>2 DEF IsLatest, HookFits, SameStory
<1> QED BY <1>1, <1>2, <1>3 DEF BillInv, LatestOK

(* A delivery that moves on keeps the invariant, if what it has read is    *)
(* so.                                                                     *)
LEMMA HookMove ==
  ASSUME BillInv, NEW h \in Hooks, NEW d \in Delivery, HookIs(h, d), SameStory, StillThere,
         tangled' \in BOOLEAN, tangled => tangled',
         d.step # "idle" => d.e \in 1..emitted,
         d.step = "write" =>
           /\ Applies(bcase.story[d.e].kind)
           /\ ~tangled' => /\ d.plan = account.plan /\ d.status = account.status
                           /\ \A g \in Hooks \ {h} : hk[g].step # "write"
  PROVE  BillInv'
<1>1. hk' \in [Hooks -> Delivery] /\ \A g \in Hooks : hk'[g] = IF g = h THEN d ELSE hk[g]
  BY BillTypes DEF HookIs
<1>2. BillShapes' /\ CustomersOK'
  BY <1>1, StillShapes
<1>3. bcase'.story = bcase.story /\ emitted' = emitted /\ account' = account /\ log' = log
  BY DEF SameStory, StillThere
<1>4. HooksOK'
  BY <1>1, <1>3 DEF BillInv, HooksOK, Event
<1>5. PlansOK'
  <2> SUFFICES ASSUME ~tangled' PROVE PlansOK'
    BY DEF PlansOK
  <2>1. /\ account.plan # "enterprise" /\ account.status # "manual_override"
        /\ \A g \in Hooks : hk[g].step = "write" =>
             /\ hk[g].plan = account.plan /\ hk[g].status = account.status
             /\ \A f \in Hooks : hk[f].step = "write" => f = g
    BY DEF BillInv, PlansOK, At
  <2>2. \A g \in Hooks : hk'[g].step = "write" =>
             /\ hk'[g].plan = account.plan /\ hk'[g].status = account.status
             /\ \A f \in Hooks : hk'[f].step = "write" => f = g
    BY <1>1, <2>1
  <2> QED BY <1>3, <2>1, <2>2 DEF PlansOK, At
<1>6. LatestOK'
  BY <1>3, LatestStays
<1> QED BY <1>2, <1>4, <1>5, <1>6 DEF BillInv

(* To a step at which nothing is decided yet.                              *)
LEMMA HookPasses ==
  ASSUME BillInv, NEW h \in Hooks, NEW s \in DeliverySteps \ {"idle", "write"}, To(h, s),
         hk[h].step # "idle", SameStory, StillThere, tangled' = tangled
  PROVE  BillInv'
<1>1. hk[h] \in Delivery /\ hk[h].e \in 1..emitted
  BY HookTypes
<1> DEFINE d == HookStepped(hk[h], s)
<1>2. d \in Delivery /\ d.step = s /\ d.e = hk[h].e
  BY <1>1, HookSteppedOK
<1>3. HookIs(h, d)
  BY DEF To, HookIs, HookStepped
<1>4. tangled \in BOOLEAN
  BY BillTypes
<1> HIDE DEF d
<1> QED BY <1>1, <1>2, <1>3, <1>4, HookMove

(* One that answers or dies is forgotten.                                  *)
LEMMA HookAnswers ==
  ASSUME BillInv, NEW h \in Hooks, hk' = [hk EXCEPT ![h] = NoDelivery],
         SameStory, StillThere, tangled' = tangled
  PROVE  BillInv'
<1>1. HookIs(h, NoDelivery)
  BY DEF HookIs
<1>2. tangled \in BOOLEAN
  BY BillTypes
<1> QED BY <1>1, <1>2, NoDeliveryOK, HookMove

(* The marks of the events stay marks.                                     *)
LEMMA MarkOK ==
  ASSUME BillInv, NEW e \in DOMAIN hooked, NEW m \in Marks
  PROVE  [hooked EXCEPT ![e] = m] \in [DOMAIN hooked -> Marks]
  BY BillTypes

LEMMA SameMarks ==
  ASSUME BillInv
  PROVE  /\ hooked \in [DOMAIN hooked -> Marks] /\ acked \subseteq DOMAIN hooked
         /\ turned \subseteq DOMAIN hooked /\ bcase \in BillingCaseTypes
         /\ bcase' = bcase => SameStory
<1>1. bcase' = bcase => SameStory
  BY BillTypes, Used
<1> QED BY <1>1, BillTypes

(* Each step of the webhook but its write keeps the invariant.             *)
LEMMA StartsKeeps ==
  ASSUME BillInv, NEW h \in Hooks, NEW e \in DOMAIN hooked, Starts(h, e), SameStory
  PROVE  BillInv'
<1>1. PICK d \in Delivery : HookIs(h, d) /\ d.step = "look" /\ d.e = e
  <2> DEFINE d == [NoDelivery EXCEPT !.step = "look", !.e = e]
  <2>1. NoDelivery \in Delivery /\ e \in 0..Len(bcase.story)
    BY NoDeliveryOK, BillTypes
  <2>2. d \in Delivery /\ d.step = "look" /\ d.e = e
    BY <2>1 DEF Delivery
  <2>3. HookIs(h, d)
    BY DEF Starts, HookIs
  <2> HIDE DEF d
  <2> QED BY <2>2, <2>3
<1>2. e \in 1..emitted /\ tangled' = tangled
  BY DEF Starts
<1>3. StillThere
  BY SameMarks DEF Starts, StillThere
<1>4. tangled \in BOOLEAN
  BY BillTypes
<1> QED BY <1>1, <1>2, <1>3, <1>4, HookMove

LEMMA DeliverHookKeeps ==
  ASSUME BillInv, NEW h \in Hooks, NEW e \in DOMAIN hooked,
         DeliverEvent(h, e) \/ DeliverEventAgain(h, e)
  PROVE  BillInv'
<1>1. Starts(h, e) /\ (bcase' = bcase \/ Use("again"))
  BY DEF DeliverEvent, DeliverEventAgain
<1>2. SameStory
  BY <1>1, SameMarks, Used
<1> QED BY <1>1, <1>2, StartsKeeps

LEMMA ClaimLookKeeps ==
  ASSUME BillInv, NEW h \in Hooks, ClaimLook(h)
  PROVE  BillInv'
<1>1. /\ hk[h].step # "idle" /\ SameStory /\ tangled' = tangled /\ hk[h].e \in DOMAIN hooked
  <2>1. hk[h].step # "idle" /\ bcase' = bcase /\ tangled' = tangled
    BY DEF ClaimLook, At
  <2> QED BY <2>1, SameMarks, HookTypes
<1>2. StillThere
  BY <1>1, SameMarks DEF ClaimLook, StillThere, Answer200
<1>3. hk' = [hk EXCEPT ![h] = NoDelivery] \/ To(h, "claim")
  BY DEF ClaimLook, Answer200
<1> QED BY <1>1, <1>2, <1>3, HookAnswers, HookPasses DEF DeliverySteps

LEMMA ClaimHookKeeps ==
  ASSUME BillInv, NEW h \in Hooks, Claim(h)
  PROVE  BillInv'
<1>1. /\ hk[h].step # "idle" /\ SameStory /\ tangled' = tangled /\ hk[h].e \in DOMAIN hooked
  <2>1. hk[h].step # "idle" /\ bcase' = bcase /\ tangled' = tangled
    BY DEF Claim, At
  <2> QED BY <2>1, SameMarks, HookTypes
<1>2. CASE To(h, "read") /\ hooked' = [hooked EXCEPT ![hk[h].e] = "processing"]
        /\ UNCHANGED <<turned, acked>>
  <2>1. StillThere
    BY <1>1, <1>2, SameMarks, MarkOK DEF Claim, StillThere, Marks
  <2> QED BY <1>1, <1>2, <2>1, HookPasses DEF DeliverySteps
<1>3. CASE Answer200(h) /\ UNCHANGED hooked
  <2>1. StillThere
    BY <1>1, <1>3, SameMarks DEF Claim, StillThere, Answer200
  <2> QED BY <1>1, <1>3, <2>1, HookAnswers DEF Answer200
<1> QED BY <1>2, <1>3 DEF Claim

LEMMA InsertFailsKeeps ==
  ASSUME BillInv, NEW h \in Hooks, ClaimInsertFails(h)
  PROVE  BillInv'
<1>1. /\ hk[h].step # "idle" /\ tangled' = tangled /\ hk' = [hk EXCEPT ![h] = NoDelivery]
      /\ bcase' = [bcase EXCEPT !.db_fails = FALSE]
  BY DEF ClaimInsertFails, At, Answer200
<1>2. SameStory
  BY <1>1, SameMarks, Used
<1>3. hk[h].e \in DOMAIN hooked
  BY <1>1, HookTypes
<1>4. hooked' \in [DOMAIN hooked -> Marks]
  <2>1. "processing" \in Marks
    BY DEF Marks
  <2>2. [hooked EXCEPT ![hk[h].e] = "processing"] \in [DOMAIN hooked -> Marks]
    BY <1>3, <2>1, MarkOK
  <2> QED BY <2>2, SameMarks DEF ClaimInsertFails
<1>5. StillThere
  BY <1>3, <1>4, SameMarks DEF ClaimInsertFails, StillThere, Answer200
<1> QED BY <1>1, <1>2, <1>5, HookAnswers

LEMMA ReadAccountKeeps ==
  ASSUME BillInv, NEW h \in Hooks, ReadAccount(h)
  PROVE  BillInv'
<1>1. /\ hk[h].step # "idle" /\ SameStory /\ hk[h].e \in 1..emitted /\ hk[h] \in Delivery
  <2>1. hk[h].step # "idle" /\ bcase' = bcase
    BY DEF ReadAccount, At
  <2> QED BY <2>1, SameMarks, HookTypes
<1>2. StillThere
  BY SameMarks DEF ReadAccount, StillThere
<1>3. /\ tangled \in BOOLEAN /\ tangled' = (tangled \/ \E g \in Hooks \ {h} : At(g, "write"))
      /\ account.plan \in Plans /\ account.status \in Statuses /\ hk[h].e \in 1..Len(bcase.story)
  <2>1. tangled' = (tangled \/ \E g \in Hooks \ {h} : At(g, "write"))
    BY DEF ReadAccount
  <2>2. hk[h].e \in 1..Len(bcase.story)
    BY <1>1, HookTypes
  <2>3. account.plan \in Plans /\ account.status \in Statuses
    BY BillTypes DEF Account
  <2>4. tangled \in BOOLEAN
    BY BillTypes
  <2> QED BY <2>1, <2>2, <2>3, <2>4
<1>4. Event(h).kind \in EventKinds
  BY <1>3, BillTypes DEF Event, Events
<1> DEFINE s == CASE Event(h).kind \in Hopeless -> "fail"
                  [] Event(h).kind \in {"other", "stranger"} -> "mark"
                  [] OTHER -> "write"
           d == [hk[h] EXCEPT !.plan = account.plan, !.status = account.status, !.step = s]
<1>5. s \in {"fail", "mark", "write"} /\ (s = "write" => Applies(Event(h).kind))
  BY <1>4, SMT DEF Applies, Hopeless
<1>6a. hk' = [hk EXCEPT ![h].plan = account.plan, ![h].status = account.status, ![h].step = s]
  BY DEF ReadAccount
<1> HIDE DEF s
<1>6. HookIs(h, d)
  BY <1>1, <1>6a, BillTypes DEF HookIs, Delivery
<1>7. /\ d \in Delivery /\ d.step = s /\ d.e = hk[h].e
      /\ d.plan = account.plan /\ d.status = account.status
  BY <1>1, <1>3, <1>5 DEF Delivery
<1> HIDE DEF d
<1>8. d.step = "write" => Applies(bcase.story[d.e].kind)
  BY <1>5, <1>7 DEF Event
<1>9. ~tangled' => \A g \in Hooks \ {h} : hk[g].step # "write"
  BY <1>3 DEF At
<1>10. tangled' \in BOOLEAN /\ (tangled => tangled')
  BY <1>3
<1>11. d.step # "idle" => d.e \in 1..emitted
  BY <1>1, <1>7
<1> QED BY <1>1, <1>2, <1>6, <1>7, <1>8, <1>9, <1>10, <1>11, HookMove

LEMMA MarksKeep ==
  ASSUME BillInv, NEW h \in Hooks, _mark_webhook_processed(h) \/ _mark_webhook_failed(h)
  PROVE  BillInv'
<1>1. /\ hk[h].step # "idle" /\ SameStory /\ tangled' = tangled
      /\ hk' = [hk EXCEPT ![h] = NoDelivery]
  <2>1. hk[h].step # "idle" /\ bcase' = bcase /\ tangled' = tangled
          /\ hk' = [hk EXCEPT ![h] = NoDelivery]
    BY DEF _mark_webhook_processed, _mark_webhook_failed, At, Answer200, Answer500
  <2> QED BY <2>1, SameMarks
<1>2. hk[h].e \in DOMAIN hooked
  BY <1>1, HookTypes
<1>3. StillThere
  BY <1>2, SameMarks, MarkOK
  DEF _mark_webhook_processed, _mark_webhook_failed, Answer200, Answer500, StillThere, Marks
<1> QED BY <1>1, <1>3, HookAnswers

LEMMA FaultKeeps ==
  ASSUME BillInv, NEW h \in Hooks, Fault(h)
  PROVE  BillInv'
<1>1. /\ hk[h].step # "idle" /\ tangled' = tangled /\ To(h, "fail")
      /\ bcase' = [bcase EXCEPT !.db_fails = FALSE]
  BY DEF Fault
<1>2. SameStory /\ StillThere
  BY <1>1, SameMarks, Used DEF Fault, StillThere
<1> QED BY <1>1, <1>2, HookPasses DEF DeliverySteps

LEMMA HookDiesKeeps ==
  ASSUME BillInv, NEW h \in Hooks, HookDies(h)
  PROVE  BillInv'
<1>1. /\ tangled' = tangled /\ hk' = [hk EXCEPT ![h] = NoDelivery] /\ Use("deaths")
  BY DEF HookDies, Answer500
<1>2. SameStory /\ StillThere
  BY <1>1, SameMarks, Used DEF HookDies, Answer500, StillThere
<1> QED BY <1>1, <1>2, HookAnswers

LEMMA ClaimExpiresKeeps ==
  ASSUME BillInv, NEW e \in DOMAIN hooked, ClaimExpires(e)
  PROVE  BillInv'
<1>1. SameStory /\ UNCHANGED <<hk, tangled, account, log, emitted>>
  BY SameMarks DEF ClaimExpires
<1>2. StillThere
  BY SameMarks, MarkOK DEF ClaimExpires, StillThere, Marks
<1>3. hk' \in [Hooks -> Delivery] /\ tangled' \in BOOLEAN
  BY <1>1, BillTypes
<1>4. BillShapes' /\ CustomersOK'
  BY <1>1, <1>2, <1>3, StillShapes
<1>5. HooksOK' /\ PlansOK' /\ LatestOK'
  BY <1>1, PlansKept
<1> QED BY <1>4, <1>5 DEF BillInv

(* Stripe's next event is not applied yet, and is the latest of none.      *)
LEMMA EmitKeeps ==
  ASSUME BillInv, Emit
  PROVE  BillInv'
<1>1. /\ SameStory /\ emitted < Len(bcase.story) /\ emitted' = emitted + 1
      /\ UNCHANGED <<account, acked, hooked, hk, log, turned, tangled, lock, customers, by, bcase>>
  BY SameMarks DEF Emit, checkoutVars
<1>2. emitted \in 0..Len(bcase.story) /\ Len(bcase.story) \in Nat
  BY BillTypes
<1>3. emitted' \in 1..Len(bcase.story) /\ 1..emitted \subseteq 1..emitted'
  BY <1>1, <1>2
<1>4. HasLive
  <2>1. CASE bcase.story[1].kind = "checkout"
    BY <2>1 DEF Emit, BuyerAt, BillInv, CustomersOK
  <2>2. CASE bcase.story[1].kind # "checkout"
    <3>1. bcase.story # <<>>
      BY <1>1, <1>2, BillTypes
    <3> QED BY <2>2, <3>1 DEF BillInv, CustomersOK, HasLive
  <2> QED BY <2>1, <2>2
<1>5. BillShapes'
  <2>1. BillingTypeOK /\ hooked \in [1..Len(bcase.story) -> Marks]
    BY DEF BillInv, BillShapes
  <2>2. emitted' \in 0..Len(bcase.story)
    BY <1>2, <1>3
  <2>3. BillingTypeOK'
    BY <1>1, <2>1, <2>2 DEF BillingTypeOK
  <2> QED BY <1>1, <2>1, <2>3 DEF BillShapes
<1>6. CustomersOK'
  BY <1>1, <1>4 DEF BillInv, CustomersOK, HasLive
<1>7. HooksOK'
  BY <1>1, <1>3 DEF BillInv, HooksOK, Event
<1>8. PlansOK'
  BY <1>1 DEF BillInv, PlansOK, At
<1>9. LatestOK'
  BY <1>1, LatestStays
<1> QED BY <1>5, <1>6, <1>7, <1>8, <1>9 DEF BillInv

(* A plan given by hand is entangled with the handlers that are between    *)
(* read and write.                                                         *)
LEMMA update_planKeeps ==
  ASSUME BillInv, update_plan
  PROVE  BillInv'
<1>1. /\ UNCHANGED <<emitted, acked, hooked, hk, log, turned, lock, customers, by>>
      /\ tangled' = TRUE
  BY DEF update_plan, checkoutVars
<1>2. SameStory
  BY SameMarks, Used DEF update_plan
<1>3. account' \in Account /\ account'.customer = account.customer
  <2>1. Head(bcase.admin) \in Plans
    <3>1. bcase.admin \in Seq(Plans) /\ bcase.admin # <<>>
      BY SameMarks DEF BillingCaseTypes, update_plan
    <3> QED BY <3>1
  <2>2. PICK t \in Statuses : account' = [account EXCEPT !.plan = Head(bcase.admin), !.status = t]
    <3>1. account.status \in Statuses
      BY BillTypes DEF Account
    <3>2. CASE Head(bcase.admin) \in PaidPlans
      BY <3>2 DEF update_plan, Statuses
    <3>3. CASE Head(bcase.admin) \notin PaidPlans /\ Head(bcase.admin) = "free"
      BY <3>3 DEF update_plan, Statuses
    <3>4. CASE Head(bcase.admin) \notin PaidPlans /\ Head(bcase.admin) # "free"
      BY <3>1, <3>4 DEF update_plan
    <3> QED BY <3>2, <3>3, <3>4
  <2> QED BY <2>1, <2>2, BillTypes DEF Account
<1>4. BillShapes'
  <2>1. BillingTypeOK /\ hooked \in [1..Len(bcase.story) -> Marks]
    BY DEF BillInv, BillShapes
  <2>2. BillingTypeOK'
    BY <1>1, <1>2, <1>3, <2>1 DEF BillingTypeOK, SameStory
  <2> QED BY <1>1, <1>2, <2>1, <2>2 DEF BillShapes, SameStory
<1>5. CustomersOK'
  BY <1>1, <1>2, <1>3 DEF BillInv, CustomersOK, HasLive, SameStory
<1>6. HooksOK'
  BY <1>1, <1>2 DEF BillInv, HooksOK, Event, SameStory
<1>7. PlansOK' /\ LatestOK'
  BY <1>1 DEF PlansOK, LatestOK, InTurn
<1> QED BY <1>4, <1>5, <1>6, <1>7 DEF BillInv

-----------------------------------------------------------------------------
(* The handler's write *)

(* What is known of a delivery when it writes.                             *)
LEMMA Written ==
  ASSUME BillInv, NEW h \in Hooks, WriteAccount(h)
  PROVE  /\ hk[h].step = "write" /\ hk[h] \in Delivery /\ hk[h].e \in 1..emitted
         /\ hk[h].e \in DOMAIN hooked /\ hk[h].e \in 1..Len(bcase.story) /\ emitted > 0
         /\ Applies(Event(h).kind) /\ Event(h) \in Events /\ Event(h) = bcase.story[hk[h].e]
<1>1. hk[h].step = "write"
  BY DEF WriteAccount, At
<1>2. /\ hk[h] \in Delivery /\ hk[h].e \in 1..emitted
      /\ hk[h].e \in DOMAIN hooked /\ hk[h].e \in 1..Len(bcase.story)
  BY <1>1, HookTypes
<1>3. Applies(Event(h).kind)
  BY <1>1 DEF BillInv, HooksOK
<1>4. emitted > 0
  <2>1. emitted \in Nat
    BY BillTypes
  <2> QED BY <1>2, <2>1
<1> QED BY <1>1, <1>2, <1>3, <1>4, BillTypes DEF Event

(* What an event makes of an account, kind by kind.                        *)
LEMMA FieldsType ==
  ASSUME BillInv, NEW ev \in Events, Applies(ev.kind), NEW read \in Delivery
  PROVE  \E p \in Plans, t \in Statuses :
           /\ Fields(ev, read) \in Account /\ Fields(ev, read).plan = p /\ Fields(ev, read).status = t
           /\ Fields(ev, read).customer \in {account.customer, "live"}
           /\ p \in PaidPlans \cup {"free", account.plan}
           /\ t \in StripeStatuses \cup {account.status}
<1>1. /\ account \in Account /\ account.plan \in Plans /\ account.status \in Statuses
  BY BillTypes DEF Account
<1>2. /\ ev.plan \in PaidPlans /\ ev.status \in StripeStatuses
      /\ ev.kind \in {"checkout", "subscription", "deleted", "paid", "failed", "finalized", "action_required"}
  BY DEF Events, Applies, EventKinds, Hopeless
<1>3. CASE ev.kind \in {"checkout", "subscription"}
  <2>1. PICK p \in PaidPlans \cup {"free"} :
          Fields(ev, read) = [account EXCEPT !.plan = p, !.status = ev.status, !.sub = TRUE, !.customer = "live"]
    BY <1>2, <1>3 DEF Fields
  <2>2. p \in Plans /\ ev.status \in Statuses
    BY <1>2 DEF Plans, Statuses
  <2>3. /\ Fields(ev, read) \in Account /\ Fields(ev, read).plan = p
        /\ Fields(ev, read).status = ev.status /\ Fields(ev, read).customer = "live"
    BY <1>1, <2>1, <2>2 DEF Account
  <2> QED BY <1>2, <2>2, <2>3
<1>4. CASE ev.kind = "deleted"
  <2>1. Fields(ev, read) = [account EXCEPT !.plan = "free", !.status = "canceled", !.sub = TRUE]
    BY <1>4 DEF Fields
  <2>2. "free" \in Plans /\ "canceled" \in Statuses /\ "canceled" \in StripeStatuses
    BY DEF Plans, Statuses, StripeStatuses
  <2>3. /\ Fields(ev, read) \in Account /\ Fields(ev, read).plan = "free"
        /\ Fields(ev, read).status = "canceled" /\ Fields(ev, read).customer = account.customer
    BY <1>1, <2>1, <2>2 DEF Account
  <2> QED BY <2>2, <2>3
<1>5. CASE ev.kind \in {"paid", "failed", "finalized", "action_required"}
  <2>1. PICK t \in StripeStatuses \cup {account.status} :
          Fields(ev, read) = [account EXCEPT !.pay = ev.kind, !.status = t]
    <3>1. CASE ev.kind = "paid"
      <4> DEFINE t == CASE read.status \in {"none", "incomplete", "past_due"} -> "active"
                        [] read.status = "trialing" -> "trialing"
                        [] OTHER -> account.status
      <4>1. t \in StripeStatuses \cup {account.status}
        BY DEF StripeStatuses
      <4>2. Fields(ev, read) = [account EXCEPT !.pay = "paid", !.status = t]
        BY <3>1 DEF Fields
      <4> HIDE DEF t
      <4> QED BY <3>1, <4>1, <4>2
    <3>2. CASE ev.kind = "failed"
      BY <3>2 DEF Fields, StripeStatuses
    <3>3. CASE ev.kind \in {"finalized", "action_required"}
      <4>1. Fields(ev, read) = [account EXCEPT !.pay = ev.kind]
        BY <3>3 DEF Fields
      <4>2. [account EXCEPT !.pay = ev.kind] = [account EXCEPT !.pay = ev.kind, !.status = account.status]
        BY <1>1 DEF Account
      <4> QED BY <4>1, <4>2
    <3> QED BY <1>5, <3>1, <3>2, <3>3
  <2>2. t \in Statuses
    BY <1>1 DEF Statuses
  <2>3. /\ Fields(ev, read) \in Account /\ Fields(ev, read).plan = account.plan
        /\ Fields(ev, read).status = t /\ Fields(ev, read).customer = account.customer
    BY <1>1, <1>5, <2>1, <2>2 DEF Account
  <2> QED BY <1>1, <2>2, <2>3
<1> QED BY <1>2, <1>3, <1>4, <1>5

(* The account after the write.                                            *)
LEMMA WrittenAccount ==
  ASSUME BillInv, NEW h \in Hooks, WriteAccount(h)
  PROVE  /\ account' \in Account /\ account'.customer \in {account.customer, "live"}
         /\ account'.plan \in PaidPlans \cup {"free", account.plan}
         /\ account'.status \in StripeStatuses \cup {account.status}
         /\ ~is_manual_plan(hk[h]) => account' = Fields(Event(h), hk[h])
<1>1. /\ Applies(Event(h).kind) /\ Event(h) \in Events /\ hk[h] \in Delivery
  BY Written
<1> DEFINE new == Fields(Event(h), hk[h])
<1>2. /\ new \in Account /\ new.customer \in {account.customer, "live"}
      /\ new.plan \in PaidPlans \cup {"free", account.plan}
      /\ new.status \in StripeStatuses \cup {account.status}
  BY <1>1, FieldsType
<1>3. account' = IF is_manual_plan(hk[h])
                 THEN [new EXCEPT !.plan = account.plan, !.status = account.status] ELSE new
  BY DEF WriteAccount
<1> HIDE DEF new
<1>4. account \in Account
  BY BillTypes
<1>5. CASE is_manual_plan(hk[h])
  BY <1>2, <1>3, <1>4, <1>5 DEF Account
<1>6. CASE ~is_manual_plan(hk[h])
  BY <1>2, <1>3, <1>6 DEF new
<1> QED BY <1>3, <1>5, <1>6 DEF new

(* The applied events, after one more.                                     *)
LEMMA AppliedNow ==
  ASSUME BillInv, NEW h \in Hooks, WriteAccount(h)
  PROVE  /\ log' \in Seq(DOMAIN hooked)
         /\ Applied' = Applied \cup {hk[h].e}
         /\ InTurn' => InTurn /\ \A f \in Applied : f < hk[h].e
<1>1. /\ log' = Append(log, hk[h].e) /\ tangled' = tangled /\ hk[h].e \in DOMAIN hooked
  BY Written DEF WriteAccount
<1>2. /\ log \in Seq(DOMAIN hooked) /\ DOMAIN log = 1..Len(log) /\ Len(log) \in Nat
  BY BillTypes
<1>3. /\ log' \in Seq(DOMAIN hooked) /\ Len(log') = Len(log) + 1 /\ DOMAIN log' = 1..Len(log) + 1
      /\ log'[Len(log) + 1] = hk[h].e /\ \A i \in 1..Len(log) : log'[i] = log[i]
  BY <1>1, <1>2
<1>4. DOMAIN log' = DOMAIN log \cup {Len(log) + 1}
  BY <1>2, <1>3
<1>5. Applied' = Applied \cup {hk[h].e}
  <2>1. {log'[i] : i \in DOMAIN log'} = {log[i] : i \in DOMAIN log} \cup {hk[h].e}
    BY <1>2, <1>3, <1>4
  <2> QED BY <2>1 DEF Applied
<1>6. ASSUME InTurn'
      PROVE  InTurn /\ \A f \in Applied : f < hk[h].e
  <2>1. ~tangled /\ \A i, j \in DOMAIN log' : i < j => log'[i] < log'[j]
    BY <1>1, <1>6 DEF InTurn
  <2>2. \A i, j \in DOMAIN log : i < j => log[i] < log[j]
    BY <1>2, <1>3, <1>4, <2>1
  <2>3. \A i \in DOMAIN log : log[i] < hk[h].e
    <3> TAKE i \in DOMAIN log
    <3>1. i \in DOMAIN log' /\ Len(log) + 1 \in DOMAIN log' /\ i < Len(log) + 1
      BY <1>2, <1>4
    <3>2. log'[i] < log'[Len(log) + 1]
      BY <2>1, <3>1
    <3> QED BY <1>2, <1>3, <3>2
  <2> QED BY <2>1, <2>2, <2>3 DEF InTurn, Applied
<1> QED BY <1>3, <1>5, <1>6

(* The event that is applied is the last one, or an invoice of it.         *)
LEMMA LatestNow ==
  ASSUME BillInv, NEW h \in Hooks, WriteAccount(h)
  PROVE  LatestOK'
<1> SUFFICES ASSUME InTurn', \E e \in Applied' : (Carries(e))'
             PROVE  \E e \in Applied' : (IsLatest(e))' /\ (HookFits(e))'
  BY DEF LatestOK
<1>0. PICK n \in 1..Len(bcase.story), ev \in Events : n = hk[h].e /\ ev = bcase.story[n]
  BY Written, Zenon
<1>1. /\ InTurn /\ Applied' = Applied \cup {n} /\ \A f \in Applied : f < n
  BY <1>0, AppliedNow
<1>2. /\ Applies(ev.kind) /\ ev \in Events /\ Event(h) = ev /\ hk[h].step = "write"
  BY <1>0, Written
<1>3. bcase' = bcase /\ n \in Int
  BY BillTypes DEF WriteAccount
<1>4. ~tangled
  BY <1>1 DEF InTurn
<1>5. /\ hk[h].plan = account.plan /\ hk[h].status = account.status
      /\ account.plan # "enterprise" /\ account.status # "manual_override"
  BY <1>2, <1>4 DEF BillInv, PlansOK, At
<1>6. account' = Fields(ev, hk[h])
  BY <1>2, <1>5, WrittenAccount DEF is_manual_plan
<1>7. \A f : (Carries(f))' = Carries(f) /\ (Gone(f))' = Gone(f)
  BY <1>3 DEF Carries, Gone
<1>8. Applied \subseteq Int
  <2>1. log \in Seq(1..Len(bcase.story)) /\ DOMAIN log = 1..Len(log)
    BY BillTypes
  <2> QED BY <2>1 DEF Applied
<1>9. account \in Account
  BY BillTypes
<1>10. n \in Applied'
  BY <1>1
<1>11. CASE Carries(n)
  <2>1. (IsLatest(n))'
    BY <1>1, <1>3, <1>7, <1>8, <1>11 DEF IsLatest
  <2>2. ~ \E f \in Applied' : f > n
    BY <1>1, <1>3, <1>8
  <2>3. (Runs(n))' => ev.status \in ACTIVE_SUBSCRIPTION_STATUSES
    BY <1>0, <1>3, <2>2 DEF Runs
  <2>4. (HookFits(n))'
    <3>1. CASE ev.kind = "deleted"
      <4>1. account'.plan = "free"
        BY <1>6, <1>9, <3>1 DEF Fields, Account
      <4> QED BY <1>0, <1>3, <3>1, <4>1 DEF HookFits, Gone
    <3>2. CASE ev.kind \in {"checkout", "subscription"}
      <4>1. /\ account'.plan = IF ev.status = "canceled" THEN "free" ELSE ev.plan
            /\ account'.status = ev.status
        BY <1>6, <1>9, <3>2 DEF Fields, Account
      <4>2. (Gone(n))' <=> ev.status = "canceled"
        BY <1>0, <1>3, <3>2 DEF Gone
      <4> QED BY <1>0, <1>3, <2>3, <4>1, <4>2 DEF HookFits
    <3> QED BY <1>0, <1>11, <3>1, <3>2 DEF Carries
  <2> QED BY <1>10, <2>1, <2>4
<1>12. CASE ~Carries(n)
  <2>1. PICK l \in Applied : IsLatest(l) /\ HookFits(l)
    BY <1>1, <1>7, <1>12 DEF BillInv, LatestOK
  <2>2. l \in Applied' /\ (IsLatest(l))'
    BY <1>1, <1>7, <1>12, <2>1 DEF IsLatest
  <2>3. l < n /\ Carries(l)
    BY <1>1, <2>1 DEF IsLatest
  <2>4. ev.kind \in {"paid", "failed", "finalized", "action_required"}
    BY <1>0, <1>2, <1>12 DEF Applies, Carries, Events, EventKinds, Hopeless
  <2>5. account'.plan = account.plan
    BY <1>6, <1>9, <2>4 DEF Fields, Account
  <2>6. /\ Runs(l) => (Runs(l))'
        /\ (Runs(l))' <=> Runs(l) \/ ev.kind \in {"failed"} \cup
             IF bcase.story[l].status = "incomplete" THEN {"paid"} ELSE {}
    BY <1>0, <1>1, <1>3, <1>8, <2>3 DEF Runs
  <2>7. (HookFits(l))'
    <3>1. CASE Gone(l)
      BY <1>7, <2>1, <2>5, <3>1 DEF HookFits
    <3>2. CASE ~Gone(l)
      <4>1. account.plan = bcase.story[l].plan
        BY <2>1, <3>2 DEF HookFits
      <4>2. IF (Runs(l))' THEN account'.status \in ACTIVE_SUBSCRIPTION_STATUSES
            ELSE account'.status = bcase.story[l].status
        <5>1. CASE ev.kind = "failed"
          <6>1. account'.status = "past_due"
            BY <1>6, <1>9, <5>1 DEF Fields, Account
          <6>2. (Runs(l))'
            BY <2>6, <5>1
          <6> QED BY <6>1, <6>2 DEF ACTIVE_SUBSCRIPTION_STATUSES
        <5>2. CASE ev.kind \in {"finalized", "action_required"}
          <6>1. account'.status = account.status
            BY <1>6, <1>9, <5>2 DEF Fields, Account
          <6>2. (Runs(l))' <=> Runs(l)
            BY <2>6, <5>2
          <6> QED BY <2>1, <3>2, <6>1, <6>2 DEF HookFits
        <5>3. CASE ev.kind = "paid"
          <6>1. account'.status =
                  CASE account.status \in {"none", "incomplete", "past_due"} -> "active"
                    [] account.status = "trialing" -> "trialing"
                    [] OTHER -> account.status
            BY <1>5, <1>6, <1>9, <5>3 DEF Fields, Account
          <6>2. CASE Runs(l)
            <7>1. account.status \in ACTIVE_SUBSCRIPTION_STATUSES
              BY <2>1, <3>2, <6>2 DEF HookFits
            <7>2. account'.status \in ACTIVE_SUBSCRIPTION_STATUSES
              BY <6>1, <7>1 DEF ACTIVE_SUBSCRIPTION_STATUSES
            <7> QED BY <2>6, <6>2, <7>2
          <6>3. CASE ~Runs(l)
            <7>1. account.status = bcase.story[l].status
              BY <2>1, <3>2, <6>3 DEF HookFits
            <7>2. account.status \notin ACTIVE_SUBSCRIPTION_STATUSES
              BY <6>3, <7>1 DEF Runs
            <7>3. bcase.story[l] \in Events
              <8>1. l \in 1..Len(bcase.story)
                <9>1. log \in Seq(1..Len(bcase.story)) /\ DOMAIN log = 1..Len(log)
                  BY BillTypes
                <9> QED BY <9>1 DEF Applied
              <8> QED BY <8>1, BillTypes
            <7>4. CASE account.status = "incomplete"
              BY <2>6, <5>3, <6>1, <7>1, <7>4 DEF ACTIVE_SUBSCRIPTION_STATUSES
            <7>5. CASE account.status # "incomplete"
              <8>1. ~(Runs(l))'
                BY <2>6, <5>3, <6>3, <7>1, <7>5
              <8>2. account.status \notin {"none", "past_due", "trialing"}
                BY <7>1, <7>2, <7>3 DEF Events, StripeStatuses, ACTIVE_SUBSCRIPTION_STATUSES
              <8> QED BY <6>1, <7>1, <7>5, <8>1, <8>2
            <7> QED BY <7>4, <7>5
          <6> QED BY <6>2, <6>3
        <5> QED BY <2>4, <5>1, <5>2, <5>3
      <4> QED BY <1>3, <1>7, <2>5, <3>2, <4>1, <4>2 DEF HookFits
    <3> QED BY <3>1, <3>2
  <2> QED BY <2>2, <2>7
<1> QED BY <1>11, <1>12

(* The handler's write keeps the invariant.                                *)
LEMMA WriteAccountKeeps ==
  ASSUME BillInv, NEW h \in Hooks, WriteAccount(h)
  PROVE  BillInv'
<1>1. /\ UNCHANGED <<emitted, acked, hooked, turned, tangled, lock, customers, by, bcase>>
      /\ To(h, "mark") /\ SameStory
  BY SameMarks DEF WriteAccount, checkoutVars
<1>2. /\ hk[h].step = "write" /\ hk[h] \in Delivery /\ hk[h].e \in 1..emitted /\ emitted > 0
  BY Written
<1>3. /\ account' \in Account /\ account'.customer \in {account.customer, "live"}
      /\ account'.plan \in PaidPlans \cup {"free", account.plan}
      /\ account'.status \in StripeStatuses \cup {account.status}
  BY WrittenAccount
<1> DEFINE d == HookStepped(hk[h], "mark")
<1>4. d \in Delivery /\ d.step = "mark" /\ d.e = hk[h].e
  <2>1. "mark" \in DeliverySteps
    BY DEF DeliverySteps
  <2> QED BY <1>2, <2>1, HookSteppedOK
<1>5. HookIs(h, d)
  BY <1>1 DEF To, HookIs, HookStepped
<1> HIDE DEF d
<1>6. hk' \in [Hooks -> Delivery] /\ \A g \in Hooks : hk'[g] = IF g = h THEN d ELSE hk[g]
  BY <1>4, <1>5, BillTypes DEF HookIs
<1>7. BillShapes'
  <2>1. BillingTypeOK /\ hooked \in [1..Len(bcase.story) -> Marks]
    BY DEF BillInv, BillShapes
  <2>2. log' \in Seq(DOMAIN hooked)
    BY AppliedNow
  <2>3. BillingTypeOK'
    BY <1>1, <1>3, <1>6, <2>1, <2>2 DEF BillingTypeOK, Delivery
  <2> QED BY <1>1, <2>1, <2>3 DEF BillShapes
<1>8. CustomersOK'
  <2>1. account.customer # "old" => account'.customer # "old"
    BY <1>3
  <2>2. HasLive
    BY <1>2 DEF BillInv, CustomersOK
  <2> QED BY <1>1, <2>1, <2>2 DEF BillInv, CustomersOK, HasLive
<1>9. HooksOK'
  BY <1>1, <1>2, <1>4, <1>6 DEF BillInv, HooksOK, Event
<1>10. PlansOK'
  <2> SUFFICES ASSUME ~tangled' PROVE PlansOK'
    BY DEF PlansOK
  <2>1. /\ account.plan # "enterprise" /\ account.status # "manual_override"
        /\ \A g \in Hooks : hk[g].step = "write" => g = h
    BY <1>1, <1>2 DEF BillInv, PlansOK, At
  <2>2. account'.plan # "enterprise" /\ account'.status # "manual_override"
    BY <1>3, <2>1 DEF PaidPlans, StripeStatuses
  <2>3. \A g \in Hooks : hk'[g].step # "write"
    BY <1>4, <1>6, <2>1
  <2> QED BY <2>2, <2>3 DEF PlansOK, At
<1>11. LatestOK'
  BY LatestNow
<1> QED BY <1>7, <1>8, <1>9, <1>10, <1>11 DEF BillInv

-----------------------------------------------------------------------------
(* The invariant *)

(* The parts of a case.                                                    *)
LEMMA CaseTypes ==
  ASSUME NEW c \in BillingCaseTypes
  PROVE  /\ c.story \in Seq(Events) /\ c.customer \in {"", "old", "live"}
         /\ Len(c.story) \in Nat /\ 0 \in 0..Len(c.story)
<1>1. c.story \in Seq(Events) /\ c.customer \in {"", "old", "live"}
  BY DEF BillingCaseTypes
<1>2. \A u \in Seq(Events) : Len(u) \in Nat /\ 0 \in 0..Len(u)
  OBVIOUS
<1> QED BY <1>1, <1>2, Zenon

(* The invariant holds at the start, every step keeps it, and it gives     *)
(* what is promised.                                                       *)
LEMMA BillInvInit ==
  BillingInit => BillInv
<1> SUFFICES ASSUME BillingInit PROVE BillInv
  OBVIOUS
<1>1. /\ bcase \in BillingCaseTypes
      /\ bcase.story # <<>> /\ bcase.customer # "live" => bcase.story[1].kind = "checkout"
  BY BillingCasesAssumption DEF BillingInit
<1>2. bcase.customer \in {"", "old", "live"}
  BY <1>1, CaseTypes
<1>3. Len(bcase.story) \in Nat /\ 0 \in 0..Len(bcase.story)
  BY <1>1, CaseTypes, Zenon
<1>4. NoDelivery \in Delivery /\ NoCheckout \in Checkout
  <2>2. NoDelivery \in Delivery
    BY <1>3 DEF NoDelivery, Delivery, Plans, PaidPlans, Statuses, StripeStatuses
  <2> QED BY <2>2, NoCheckoutOK
<1>5. account \in Account /\ account.customer = bcase.customer /\ account.plan = "free"
        /\ account.status = "none"
  BY <1>2 DEF BillingInit, Account, Plans, PaidPlans, Statuses, StripeStatuses
<1>6. /\ hooked \in [1..Len(bcase.story) -> Marks] /\ DOMAIN hooked = 1..Len(bcase.story)
      /\ hk \in [Hooks -> Delivery] /\ by \in [Buyers -> Checkout]
  BY <1>4 DEF BillingInit, Marks
<1>7. BillShapes
  <2>1. /\ lock \subseteq Buyers /\ emitted \in 0..Len(bcase.story) /\ acked \subseteq DOMAIN hooked
        /\ customers \in Nat /\ log \in Seq(DOMAIN hooked) /\ turned \subseteq DOMAIN hooked
        /\ tangled \in BOOLEAN
    <3>1. /\ lock = {} /\ emitted = 0 /\ acked = {} /\ customers = 0 /\ log = <<>> /\ turned = {}
          /\ tangled = FALSE
      BY DEF BillingInit
    <3>2. \A S : <<>> \in Seq(S)
      OBVIOUS
    <3> QED BY <1>3, <3>1, <3>2
  <2> QED BY <1>1, <1>5, <1>6, <2>1 DEF BillShapes, BillingTypeOK, Marks, Delivery, Checkout
<1>8. CustomersOK
  <2>1. customers = 0 /\ emitted = 0 /\ \A b \in Buyers : by[b] = NoCheckout
    BY DEF BillingInit
  <2>2. /\ customers \in {0, 1} /\ (account.customer = "live" => HasLive)
        /\ emitted > 0 => HasLive
    <3>1. account.customer = "live" => HasLive
      BY <1>5 DEF HasLive
    <3>2. customers \in {0, 1} /\ ~(emitted > 0)
      BY <2>1
    <3> QED BY <3>1, <3>2
  <2>3. \A b \in Buyers : by[b].cus = "" /\ by[b].step = "idle"
    BY <2>1, NoCheckoutOK
  <2> QED BY <1>1, <2>2, <2>3 DEF CustomersOK
<1>9. HooksOK /\ PlansOK
  BY <1>5 DEF BillingInit, HooksOK, PlansOK, At, NoDelivery
<1>10. LatestOK
  <2>1. DOMAIN log = {}
    BY DEF BillingInit
  <2> QED BY <2>1 DEF LatestOK, Applied
<1> QED BY <1>7, <1>8, <1>9, <1>10 DEF BillInv

LEMMA BillInvStep ==
  BillInv /\ [BillingNext]_billingVars => BillInv'
<1> SUFFICES ASSUME BillInv, [BillingNext]_billingVars PROVE BillInv'
  OBVIOUS
<1>1. CASE UNCHANGED billingVars
  <2>1. SameStory /\ UNCHANGED <<hk, log, emitted, tangled, account>>
    BY <1>1, SameMarks DEF billingVars
  <2>2. HooksOK' /\ PlansOK' /\ LatestOK'
    BY <2>1, PlansKept
  <2>3. BillShapes' /\ CustomersOK'
    BY <1>1 DEF billingVars, BillInv, BillShapes, BillingTypeOK, CustomersOK, HasLive
  <2> QED BY <2>2, <2>3 DEF BillInv
<1>2. CASE BillingNext
  <2>1. CASE \E b \in Buyers : CheckoutStep(b) \/ BuyerDies(b)
    BY <2>1, CheckoutsKeep
  <2>2. CASE Emit \/ update_plan
    BY <2>2, EmitKeeps, update_planKeeps
  <2>3. CASE \E h \in Hooks : HookStep(h) \/ HookDies(h) \/ ClaimInsertFails(h) \/ Fault(h)
    BY <2>3, InsertFailsKeeps, ClaimLookKeeps, ClaimHookKeeps, ReadAccountKeeps, WriteAccountKeeps, MarksKeep,
       HookDiesKeeps, FaultKeeps DEF HookStep
  <2>4. CASE \E h \in Hooks, e \in DOMAIN hooked : DeliverEvent(h, e) \/ DeliverEventAgain(h, e)
    BY <2>4, DeliverHookKeeps
  <2>5. CASE \E e \in DOMAIN hooked : ClaimExpires(e)
    BY <2>5, ClaimExpiresKeeps
  <2> QED BY <1>2, <2>1, <2>2, <2>3, <2>4, <2>5 DEF BillingNext
<1> QED BY <1>1, <1>2

LEMMA BillKeeps ==
  BillInv => BillingTypeOK /\ OneCustomer /\ EntitledToWhatIsPaid
<1> SUFFICES ASSUME BillInv PROVE BillingTypeOK /\ OneCustomer /\ EntitledToWhatIsPaid
  OBVIOUS
<1>1. BillingTypeOK
  BY DEF BillInv, BillShapes
<1>2. OneCustomer
  <2>1. customers \in {0, 1} /\ (account.customer = "live" => HasLive)
    BY DEF BillInv, CustomersOK
  <2> QED BY <2>1 DEF OneCustomer, HasLive
<1>3. EntitledToWhatIsPaid
  <2> SUFFICES ASSUME InTurn, \E e \in Applied : Carries(e)
               PROVE  effective_plan_key(account) =
                        IF ~Gone(Latest) /\ Runs(Latest) THEN bcase.story[Latest].plan ELSE "free"
    BY DEF EntitledToWhatIsPaid
  <2>1. PICK l \in Applied : IsLatest(l) /\ HookFits(l)
    BY DEF BillInv, LatestOK
  <2>2. Applied \subseteq Int
    <3>1. log \in Seq(1..Len(bcase.story)) /\ DOMAIN log = 1..Len(log)
      BY BillTypes
    <3> QED BY <3>1 DEF Applied
  <2>3. \A k \in Applied : Carries(k) /\ (\A f \in Applied : Carries(f) => f <= k) => k = l
    BY <2>1, <2>2 DEF IsLatest
  <2>4. Latest = l
    BY <2>1, <2>3 DEF Latest, IsLatest
  <2>5. account.plan # "enterprise" /\ account.status # "manual_override"
    BY DEF BillInv, PlansOK, InTurn
  <2>6. CASE Gone(l)
    BY <2>1, <2>4, <2>6 DEF HookFits, effective_plan_key
  <2>7. CASE ~Gone(l) /\ Runs(l)
    BY <2>1, <2>4, <2>7 DEF HookFits, effective_plan_key
  <2>8. CASE ~Gone(l) /\ ~Runs(l)
    <3>1. account.status \notin ACTIVE_SUBSCRIPTION_STATUSES
      BY <2>1, <2>8 DEF HookFits, Runs
    <3> QED BY <2>4, <2>5, <2>8, <3>1 DEF effective_plan_key
  <2> QED BY <2>6, <2>7, <2>8
<1> QED BY <1>1, <1>2, <1>3

(* A delivery that goes from its write to its mark has written.            *)
LEMMA HandStays ==
  ASSUME BillInv, [BillingNext]_billingVars, NEW h \in Hooks, At(h, "write"),
         hk'[h].step = "mark", is_manual_plan(account), is_manual_plan(hk[h])
  PROVE  account'.plan = account.plan /\ account'.status = account.status
<1>1. CASE WriteAccount(h)
  <2>1. /\ Applies(Event(h).kind) /\ Event(h) \in Events /\ hk[h] \in Delivery
    BY <1>1, Written
  <2>2. Fields(Event(h), hk[h]) \in Account
    BY <2>1, FieldsType
  <2>3. account' = [Fields(Event(h), hk[h]) EXCEPT !.plan = account.plan, !.status = account.status]
    BY <1>1 DEF WriteAccount
  <2> QED BY <2>2, <2>3 DEF Account
<1>2. CASE \E g \in Hooks \ {h} : WriteAccount(g)
  <2>1. PICK g \in Hooks \ {h} : To(g, "mark")
    BY <1>2 DEF WriteAccount
  <2>2. hk'[h] = hk[h]
    BY <2>1, BillTypes DEF To
  <2> QED BY <2>2 DEF At
<1>3. CASE account' = account
  BY <1>3
<1>4. CASE update_plan
  <2>1. hk'[h] = hk[h]
    BY <1>4 DEF update_plan
  <2> QED BY <2>1 DEF At
<1>5. CASE \E b \in Buyers : CheckoutStep(b) \/ BuyerDies(b)
  <2>1. hk' = hk
    BY <1>5 DEF CheckoutStep, create_checkout, Verify, LookAtLock, Grab, CreateCustomer,
       StoreCustomer, CreateFailed, OpenSession, BuyerDies, hookVars
  <2> QED BY <2>1 DEF At
<1>6. BillingNext \/ UNCHANGED billingVars
  OBVIOUS
<1>7. \/ WriteAccount(h) \/ (\E g \in Hooks \ {h} : WriteAccount(g)) \/ account' = account
      \/ update_plan \/ \E b \in Buyers : CheckoutStep(b) \/ BuyerDies(b)
  BY <1>6 DEF BillingNext, billingVars, Emit, HookStep, ClaimLook, Claim, ClaimInsertFails, ReadAccount,
     _mark_webhook_processed, _mark_webhook_failed, HookDies, Fault, DeliverEvent,
     DeliverEventAgain, Starts, ClaimExpires
<1> QED BY <1>1, <1>2, <1>3, <1>4, <1>5, <1>7

(* Whatever checkouts run side by side, die or outlive their lock, and in  *)
(* whatever order Stripe's events come, come again and fail: an account    *)
(* gets one customer (_get_or_create_customer), and when its events have   *)
(* been applied in turn it is entitled to what the last of them says is    *)
(* paid (handle_webhook, effective_plan_key).                              *)
THEOREM BillingKept ==
  BillingInit /\ [][BillingNext]_billingVars =>
    [](BillingTypeOK /\ OneCustomer /\ EntitledToWhatIsPaid)
<1> QED BY BillInvInit, BillInvStep, BillKeeps, PTL

(* No event of Stripe changes a plan that was given by hand, as the        *)
(* handler knew when it read the account (is_manual_plan).                 *)
THEOREM HandKept == BillingInit /\ [][BillingNext]_billingVars => GivenByHandStays
<1>1. BillInv /\ [BillingNext]_billingVars =>
        [\A h \in Hooks :
           At(h, "write") /\ hk'[h].step = "mark" /\ is_manual_plan(account)
             /\ is_manual_plan(hk[h]) =>
           account'.plan = account.plan /\ account'.status = account.status]_billingVars
  BY HandStays
<1> QED BY <1>1, BillInvInit, BillInvStep, PTL DEF GivenByHandStays

-----------------------------------------------------------------------------
(* What the AI costs.  The limits are read before a call and counted after *)
(* it, so every worker may be one too late: the invariant counts those who *)
(* may still add to the day's tokens or to the month's conversations.      *)

(* A worker at one of these steps may still add one token to the day's, or *)
(* two: an answer that is cut off is asked for once more.                  *)
MayAdd(u)  == u.step \in {"call", "record", "longer"}
MayAdd2(u) == u.step = "call" \/ (u.step = "record" /\ u.then = "longer")
Passive  == {w \in AiWorkers : ~MayAdd(uses[w])}
Passive2 == {w \in AiWorkers : ~MayAdd2(uses[w])}

TokensLeft == ~blind /\ ucase.tokens > 0 =>
  spent <= ucase.tokens - 1 + Cardinality(Passive) + Cardinality(Passive2)

(* The month's conversations, and those that are about to be counted.      *)
Counting == {w \in AiWorkers : StepIs(w, "count")}
Pending  == {uses[w].chat : w \in Counting}

ChatsLeft == ~blind =>
  /\ ucase.conversations > 0 =>
       Cardinality(counted \cup Pending) <= ucase.conversations - 1 + Calling
  /\ ucase.conversations = 0 => counted = {} /\ Counting = {}

(* Attempts made: all those of the model before, and this one's.           *)
Attempts(u) == IF u.model = 1 THEN u.attempt ELSE ucase.retries + 1 + u.attempt

CallsOK(u) ==
  /\ u.model <= ucase.models /\ u.attempt <= ucase.retries
  /\ u.step \in {"quota", "plan", "count"} => u.chat \in Chats
  /\ u.step \in {"idle", "quota", "plan", "count", "completion"} => u.calls = 0 /\ u.then = "idle"
  /\ u.step = "call" => u.calls <= Attempts(u) /\ u.then = "idle"
  /\ u.step \in {"record", "longer"} => 
       u.calls <= Attempts(u) + (IF u.step = "record" /\ u.then = "idle" THEN 2 ELSE 1)

UsageInv ==
  /\ UsageTypeOK /\ IsFiniteSet(counted) /\ (~redis => blind)
  /\ \A w \in AiWorkers : CallsOK(uses[w])
  /\ TokensLeft /\ ChatsLeft

-----------------------------------------------------------------------------
(* Types *)

Use1 == [step : {"idle", "quota", "plan", "count", "completion", "call", "longer", "record"},
         chat : Chats \cup {NoOne}, model : 1..2, attempt : Nat,
         then : {"idle", "longer"}, calls : Nat]

(* A worker that asks for nothing.                                         *)
LEMMA UnusedOK == Unused \in Use1 /\ Unused.step = "idle" /\ Unused.calls = 0
                  /\ Unused.model = 1 /\ Unused.attempt = 0 /\ Unused.chat = NoOne
                  /\ Unused.then = "idle"
  BY DEF Unused, Use1

(* The invariant holds at the start: nothing is spent or counted.          *)
LEMMA UsageInvInit == UsageInit => UsageInv
<1> SUFFICES ASSUME UsageInit PROVE UsageInv
  OBVIOUS
<1>1. ucase \in UsageCaseTypes /\ uses \in [AiWorkers -> Use1]
  BY UnusedOK, UsageCasesAssumption DEF UsageInit
<1>2. \A w \in AiWorkers : uses[w] = Unused
  BY DEF UsageInit
<1>3. UsageTypeOK
  BY <1>1 DEF UsageInit, UsageTypeOK, Use1
<1>4. \A w \in AiWorkers : CallsOK(uses[w])
  BY <1>1, <1>2, UnusedOK DEF CallsOK, UsageCaseTypes
<1>5. Passive = AiWorkers /\ Passive2 = AiWorkers /\ Counting = {} /\ Pending = {}
  BY <1>2, UnusedOK DEF Passive, Passive2, MayAdd, MayAdd2, Counting, Pending, StepIs
<1>6. Cardinality(AiWorkers) \in Nat
  BY AiWorkersAssumption, FS_CardinalityType
<1>7. counted \cup Pending = {} /\ Cardinality({}) = 0 /\ IsFiniteSet({})
  BY <1>5, FS_EmptySet DEF UsageInit
<1>8. TokensLeft /\ ChatsLeft
  BY <1>1, <1>5, <1>6, <1>7 DEF TokensLeft, ChatsLeft, Calling, UsageInit, UsageCaseTypes
<1> QED BY <1>3, <1>4, <1>7, <1>8 DEF UsageInv, UsageInit

(* The workers can be counted, and so can any set of them.                 *)
LEMMA Finite ==
  /\ \A S \in SUBSET AiWorkers : IsFiniteSet(S) /\ Cardinality(S) \in Nat
                                 /\ Cardinality(S) <= Calling
  /\ Calling \in Nat
  BY AiWorkersAssumption, FS_Subset, FS_CardinalityType DEF Calling

(* What is about to be counted is no more than there are workers.          *)
LEMMA ChatsOfWorkers ==
  ASSUME NEW g, NEW S \in SUBSET AiWorkers
  PROVE  LET T == {g[w].chat : w \in S} IN
         IsFiniteSet(T) /\ Cardinality(T) \in Nat /\ Cardinality(T) <= Calling
<1> DEFINE T == {g[w].chat : w \in S}
           f == [w \in S |-> g[w].chat]
<1>1. f \in Surjection(S, T)
  BY DEF Surjection
<1>2. IsFiniteSet(S) /\ Cardinality(S) <= Calling /\ Cardinality(S) \in Nat /\ Calling \in Nat
  BY Finite
<1>3. IsFiniteSet(T) /\ Cardinality(T) <= Cardinality(S)
  BY <1>1, <1>2, FS_Surjection
<1> QED BY <1>2, <1>3, FS_CardinalityType

-----------------------------------------------------------------------------
(* Bounds are used up, settings stay.                                      *)
LEMMA UsageCaseStep ==
  ASSUME ucase \in UsageCaseTypes,
         \/ ucase' = ucase
         \/ \E what \in {"acts", "days", "months", "outages"} :
              ucase[what] > 0 /\ ucase' = [ucase EXCEPT ![what] = @ - 1]
  PROVE  /\ ucase' \in UsageCaseTypes
         /\ ucase'.tokens = ucase.tokens /\ ucase'.conversations = ucase.conversations
         /\ ucase'.models = ucase.models /\ ucase'.retries = ucase.retries
         /\ ucase'.chats = ucase.chats
  BY DEF UsageCaseTypes

(* One worker's step and the tokens: it gives up a right to add one, adds  *)
(* one and gives up its right, or gets its rights while there are tokens.  *)
LEMMA TokensStep ==
  ASSUME UsageInv, NEW w \in AiWorkers, NEW u, uses' = [uses EXCEPT ![w] = u],
         blind' = blind, ucase'.tokens = ucase.tokens,
         \/ /\ spent' = spent
            /\ MayAdd(u) => MayAdd(uses[w])
            /\ MayAdd2(u) => MayAdd2(uses[w])
         \/ spent' = spent /\ (blind \/ ucase.tokens = 0 \/ spent < ucase.tokens)
         \/ /\ spent' \in {spent, spent + 1}
            /\ MayAdd(uses[w]) /\ (MayAdd(u) => MayAdd2(uses[w])) /\ ~MayAdd2(u)
  PROVE  TokensLeft'
<1>1. DOMAIN uses = AiWorkers /\ spent \in Nat /\ ucase.tokens \in Nat
  BY DEF UsageInv, UsageTypeOK, UsageCaseTypes
<1>2. /\ Passive' = IF MayAdd(u) THEN Passive \ {w} ELSE Passive \cup {w}
      /\ Passive2' = IF MayAdd2(u) THEN Passive2 \ {w} ELSE Passive2 \cup {w}
  BY <1>1 DEF Passive, Passive2, MayAdd, MayAdd2
<1>3. /\ w \in Passive <=> ~MayAdd(uses[w])
      /\ w \in Passive2 <=> ~MayAdd2(uses[w])
  BY DEF Passive, Passive2
<1>4. /\ IsFiniteSet(Passive) /\ Cardinality(Passive) \in Nat
      /\ IsFiniteSet(Passive2) /\ Cardinality(Passive2) \in Nat
      /\ IsFiniteSet(Passive') /\ Cardinality(Passive') \in Nat
      /\ IsFiniteSet(Passive2') /\ Cardinality(Passive2') \in Nat
  <2>1. Passive \subseteq AiWorkers /\ Passive2 \subseteq AiWorkers
    BY DEF Passive, Passive2
  <2>2. Passive' \subseteq AiWorkers /\ Passive2' \subseteq AiWorkers
    BY <1>2, <2>1
  <2> QED BY <2>1, <2>2, Finite
<1>5. /\ Cardinality(Passive \cup {w}) = IF w \in Passive THEN Cardinality(Passive) ELSE Cardinality(Passive) + 1
      /\ Cardinality(Passive \ {w}) = IF w \in Passive THEN Cardinality(Passive) - 1 ELSE Cardinality(Passive)
      /\ Cardinality(Passive2 \cup {w}) = IF w \in Passive2 THEN Cardinality(Passive2) ELSE Cardinality(Passive2) + 1
      /\ Cardinality(Passive2 \ {w}) = IF w \in Passive2 THEN Cardinality(Passive2) - 1 ELSE Cardinality(Passive2)
  BY <1>4, FS_AddElement, FS_RemoveElement
<1>6. /\ Cardinality(Passive') = IF MayAdd(u) THEN IF w \in Passive THEN Cardinality(Passive) - 1 ELSE Cardinality(Passive)
                                 ELSE IF w \in Passive THEN Cardinality(Passive) ELSE Cardinality(Passive) + 1
      /\ Cardinality(Passive2') = IF MayAdd2(u) THEN IF w \in Passive2 THEN Cardinality(Passive2) - 1 ELSE Cardinality(Passive2)
                                  ELSE IF w \in Passive2 THEN Cardinality(Passive2) ELSE Cardinality(Passive2) + 1
  BY <1>2, <1>5
<1>7. MayAdd2(uses[w]) => MayAdd(uses[w])
  BY DEF MayAdd, MayAdd2
<1> QED BY <1>1, <1>3, <1>4, <1>6, <1>7 DEF TokensLeft, UsageInv

(* One worker's step and the conversations.                                *)
LEMMA ChatsStep ==
  ASSUME UsageInv, NEW w \in AiWorkers, NEW u, uses' = [uses EXCEPT ![w] = u],
         blind' = blind, ucase'.conversations = ucase.conversations,
         IsFiniteSet(counted'),
         \/ counted' = counted /\ u.step # "count"
         \/ /\ counted' = counted /\ u.step = "count"
            /\ blind \/ ai_conversation_allowed(u.chat)
         \/ /\ uses[w].step = "count" /\ u.step # "count"
            /\ blind \/ counted' = counted \cup {uses[w].chat}
  PROVE  ChatsLeft'
<1>1. DOMAIN uses = AiWorkers /\ ucase.conversations \in Int
  BY DEF UsageInv, UsageTypeOK, UsageCaseTypes
<1>2. \A v \in AiWorkers : uses'[v] = IF v = w THEN u ELSE uses[v]
  BY <1>1
<1>3. Calling \in Nat /\ IsFiniteSet(counted)
  BY Finite DEF UsageInv
<1>4. /\ IsFiniteSet(Pending) /\ IsFiniteSet(Pending')
      /\ Cardinality(Pending') \in Nat /\ Cardinality(Pending') <= Calling
  <2>1. Counting \in SUBSET AiWorkers /\ Counting' \in SUBSET AiWorkers
    BY DEF Counting
  <2>2. IsFiniteSet({uses[v].chat : v \in Counting})
    BY <2>1, ChatsOfWorkers
  <2>3. PICK g : g = uses'
    OBVIOUS
  <2>4. PICK S \in SUBSET AiWorkers : S = Counting'
    BY <2>1
  <2>5. LET T == {g[v].chat : v \in S} IN
        IsFiniteSet(T) /\ Cardinality(T) \in Nat /\ Cardinality(T) <= Calling
    BY ChatsOfWorkers
  <2>6. Pending' = {g[v].chat : v \in S}
    BY <2>3, <2>4 DEF Pending
  <2> QED BY <2>2, <2>5, <2>6 DEF Pending
<1>5. /\ IsFiniteSet(counted \cup Pending) /\ Cardinality(counted \cup Pending) \in Nat
      /\ IsFiniteSet(counted' \cup Pending') /\ Cardinality(counted' \cup Pending') \in Nat
  BY <1>3, <1>4, FS_Union, FS_CardinalityType
<1>6. CASE counted' \cup Pending' \subseteq counted \cup Pending
           /\ (ucase.conversations = 0 /\ ~blind => Counting' = {} /\ counted' = {})
  <2>1. Cardinality(counted' \cup Pending') <= Cardinality(counted \cup Pending)
    BY <1>5, <1>6, FS_Subset
  <2> QED BY <1>1, <1>3, <1>5, <1>6, <2>1 DEF ChatsLeft, UsageInv, Calling
<1>7. Pending' \subseteq Pending \cup (IF u.step = "count" THEN {u.chat} ELSE {})
  BY <1>2 DEF Pending, Counting, StepIs
<1>8. u.step # "count" => Counting' \subseteq Counting
  BY <1>2 DEF Counting, StepIs
<1>9. CASE blind
  BY <1>9 DEF ChatsLeft
<1>10. CASE ~blind /\ u.step # "count"
  <2>1. counted' \cup Pending' \subseteq counted \cup Pending
    <3>1. uses[w].step = "count" => uses[w].chat \in Pending
      BY DEF Pending, Counting, StepIs
    <3>2. counted' \subseteq counted \cup Pending
      BY <1>10, <3>1
    <3> QED BY <1>7, <1>10, <3>2
  <2>2. ucase.conversations = 0 => Counting = {} /\ counted = {}
    BY <1>10 DEF UsageInv, ChatsLeft
  <2>3. ucase.conversations = 0 => Counting' = {} /\ counted' = {}
    <3>1. uses[w].step = "count" => w \in Counting
      BY DEF Counting, StepIs
    <3>2. Counting = {} => counted' = counted
      BY <1>10, <3>1
    <3> QED BY <1>8, <1>10, <2>2, <3>2
  <2> QED BY <1>6, <2>1, <2>3
<1>11. CASE ~blind /\ u.step = "count"
  <2>1. counted' = counted /\ ai_conversation_allowed(u.chat) /\ redis
    BY <1>11 DEF UsageInv
  <2>2. CASE u.chat \in counted
    <3>1. ucase.conversations # 0
      BY <1>1, <2>1 DEF ai_conversation_allowed
    <3> QED BY <1>6, <1>7, <2>1, <2>2, <3>1
  <2>3. CASE Cardinality(counted) < ucase.conversations /\ ucase.conversations > 0
    <3>1. Cardinality(counted) \in Nat
      BY <1>3, FS_CardinalityType
    <3>2. Cardinality(counted \cup Pending') <= Cardinality(counted) + Cardinality(Pending')
      <4>1. Cardinality(counted \cap Pending') \in Nat
        BY <1>3, FS_Intersection, FS_CardinalityType
      <4>2. Cardinality(counted \cup Pending') =
              Cardinality(counted) + Cardinality(Pending') - Cardinality(counted \cap Pending')
        BY <1>3, <1>4, FS_Union
      <4> QED BY <1>4, <3>1, <4>1, <4>2
    <3> QED BY <1>1, <1>3, <1>4, <1>5, <2>1, <2>3, <3>1, <3>2 DEF ChatsLeft, Calling
  <2>4. CASE ucase.conversations < 0
    BY <1>1, <2>4 DEF ChatsLeft
  <2> QED BY <2>1, <2>2, <2>3, <2>4 DEF ai_conversation_allowed
<1> QED BY <1>9, <1>10, <1>11

-----------------------------------------------------------------------------
(* One worker's step keeps what is said of every worker, where it keeps it *)
(* for this one.                                                           *)
LEMMA WorkerStep ==
  ASSUME UsageInv, NEW w \in AiWorkers, NEW u \in Use1, uses' = [uses EXCEPT ![w] = u],
         ucase' \in UsageCaseTypes, ucase'.models = ucase.models, ucase'.retries = ucase.retries,
         CallsOK(u)
  PROVE  /\ uses' \in [AiWorkers -> Use1]
         /\ \A v \in AiWorkers : CallsOK(uses[v])'
<1>1. uses \in [AiWorkers -> Use1] /\ \A v \in AiWorkers : CallsOK(uses[v])
  BY DEF UsageInv, UsageTypeOK, Use1
<1>2. \A v \in AiWorkers : uses'[v] = IF v = w THEN u ELSE uses[v]
  BY <1>1
<1> QED BY <1>1, <1>2 DEF CallsOK, Attempts

LEMMA UsageStep1 ==
  ASSUME UsageInv, NEW w \in AiWorkers,
         AskQuota(w) \/ AskPlan(w) \/ record_ai_conversation(w) \/ chat_completion(w)
         \/ record_quota_usage(w) \/ UserDies(w) \/ \E chat \in Chats \cup {NoOne} : AskAi(w, chat)
  PROVE  UsageInv'
<1>1. /\ UsageTypeOK /\ uses \in [AiWorkers -> Use1] /\ uses[w] \in Use1 /\ CallsOK(uses[w])
      /\ DOMAIN uses = AiWorkers /\ IsFiniteSet(counted) /\ (~redis => blind)
  BY DEF UsageInv, UsageTypeOK, Use1
<1>2. \/ ucase' = ucase
      \/ \E what \in {"acts", "days", "months", "outages"} :
           ucase[what] > 0 /\ ucase' = [ucase EXCEPT ![what] = @ - 1]
  BY DEF AskQuota, AskPlan, record_ai_conversation, chat_completion, record_quota_usage, UserDies, AskAi
<1>3. /\ ucase' \in UsageCaseTypes
      /\ ucase'.tokens = ucase.tokens /\ ucase'.conversations = ucase.conversations
      /\ ucase'.models = ucase.models /\ ucase'.retries = ucase.retries
      /\ ucase'.chats = ucase.chats
  BY <1>1, <1>2, UsageCaseStep DEF UsageTypeOK
<1>4. redis' = redis /\ blind' = blind
  BY DEF AskQuota, AskPlan, record_ai_conversation, chat_completion, record_quota_usage, UserDies, AskAi
<1> DEFINE Done(u) ==
      /\ u \in Use1 /\ CallsOK(u) /\ uses' = [uses EXCEPT ![w] = u]
      /\ spent' \in Nat /\ counted' \subseteq Chats /\ IsFiniteSet(counted')
      /\ TokensLeft' /\ ChatsLeft'
<1>5. ASSUME NEW u, Done(u) PROVE UsageInv'
  <2>1. uses' \in [AiWorkers -> Use1] /\ \A v \in AiWorkers : CallsOK(uses[v])'
    BY <1>3, <1>5, WorkerStep
  <2>2. UsageTypeOK'
    BY <1>1, <1>3, <1>4, <1>5, <2>1 DEF UsageTypeOK, Use1
  <2> QED BY <1>1, <1>4, <1>5, <2>1, <2>2 DEF UsageInv
<1>6. CallsOK(Unused)
  BY <1>1, UnusedOK DEF CallsOK, UsageTypeOK, UsageCaseTypes
<1>7. CASE AskQuota(w)
  <2> DEFINE u == IF check_quota THEN [uses[w] EXCEPT !.step = "plan"] ELSE Unused
  <2>1. u \in Use1 /\ uses' = [uses EXCEPT ![w] = u] /\ CallsOK(u)
    BY <1>1, <1>6, <1>7, UnusedOK DEF AskQuota, StepTo, StepIs, Use1, CallsOK, Attempts
  <2>2. TokensLeft'
    <3>1. ~MayAdd(u) /\ ~MayAdd2(u)
      BY <1>1, UnusedOK DEF MayAdd, MayAdd2, Use1
    <3> HIDE DEF u
    <3> QED BY <1>3, <1>4, <1>7, <2>1, <3>1, TokensStep DEF AskQuota
  <2>3. ChatsLeft'
    <3>1. u.step # "count"
      BY <1>1, UnusedOK DEF Use1
    <3> HIDE DEF u
    <3> QED BY <1>1, <1>3, <1>4, <1>7, <2>1, <3>1, ChatsStep DEF AskQuota
  <2> HIDE DEF u
  <2>4. Done(u)
    BY <1>1, <1>7, <2>1, <2>2, <2>3 DEF AskQuota, UsageTypeOK
  <2> QED BY <1>5, <2>4
<1>8. CASE AskPlan(w)
  <2> DEFINE u == IF ai_conversation_allowed(uses[w].chat) THEN [uses[w] EXCEPT !.step = "count"] ELSE Unused
  <2>1. u \in Use1 /\ uses' = [uses EXCEPT ![w] = u] /\ CallsOK(u)
    BY <1>1, <1>6, <1>8, UnusedOK DEF AskPlan, StepTo, StepIs, Use1, CallsOK, Attempts
  <2>2. TokensLeft'
    <3>1. ~MayAdd(u) /\ ~MayAdd2(u)
      BY <1>1, UnusedOK DEF MayAdd, MayAdd2, Use1
    <3> HIDE DEF u
    <3> QED BY <1>3, <1>4, <1>8, <2>1, <3>1, TokensStep DEF AskPlan
  <2>3. ChatsLeft'
    <3>1. \/ u.step # "count"
          \/ u.step = "count" /\ ai_conversation_allowed(u.chat)
      BY <1>1, UnusedOK DEF Use1
    <3> HIDE DEF u
    <3> QED BY <1>1, <1>3, <1>4, <1>8, <2>1, <3>1, ChatsStep DEF AskPlan
  <2> HIDE DEF u
  <2>4. Done(u)
    BY <1>1, <1>8, <2>1, <2>2, <2>3 DEF AskPlan, UsageTypeOK
  <2> QED BY <1>5, <2>4
<1>9. CASE record_ai_conversation(w)
  <2> DEFINE u == [uses[w] EXCEPT !.step = "completion"]
  <2>1. u \in Use1 /\ uses' = [uses EXCEPT ![w] = u] /\ CallsOK(u)
    BY <1>1, <1>9 DEF record_ai_conversation, StepTo, StepIs, Use1, CallsOK, Attempts
  <2>2. TokensLeft'
    <3>1. ~MayAdd(u) /\ ~MayAdd2(u)
      BY <1>1 DEF MayAdd, MayAdd2, Use1
    <3> HIDE DEF u
    <3> QED BY <1>3, <1>4, <1>9, <2>1, <3>1, TokensStep DEF record_ai_conversation
  <2>3. IsFiniteSet(counted') /\ counted' \subseteq Chats
    <3>1. uses[w].chat \in Chats
      BY <1>1, <1>9 DEF record_ai_conversation, StepIs, CallsOK
    <3>2. counted' = counted \/ counted' = counted \cup {uses[w].chat}
      BY <1>9 DEF record_ai_conversation
    <3> QED BY <1>1, <3>1, <3>2, FS_AddElement DEF UsageTypeOK
  <2>4. ChatsLeft'
    <3>1. u.step # "count" /\ uses[w].step = "count"
      BY <1>1, <1>9 DEF Use1, record_ai_conversation, StepIs
    <3>2. blind \/ counted' = counted \cup {uses[w].chat}
      BY <1>1, <1>9 DEF record_ai_conversation
    <3> HIDE DEF u
    <3> QED BY <1>1, <1>3, <1>4, <2>1, <2>3, <3>1, <3>2, ChatsStep
  <2> HIDE DEF u
  <2>5. Done(u)
    BY <1>1, <1>9, <2>1, <2>2, <2>3, <2>4 DEF record_ai_conversation, UsageTypeOK
  <2> QED BY <1>5, <2>5
<1>10. CASE chat_completion(w)
  <2> DEFINE u == IF check_quota THEN [uses[w] EXCEPT !.step = "call"] ELSE Unused
  <2>1. u \in Use1 /\ uses' = [uses EXCEPT ![w] = u] /\ CallsOK(u)
    <3> DEFINE a == [uses[w] EXCEPT !.step = "call"]
    <3>1. uses' = [uses EXCEPT ![w] = u] /\ uses[w].step = "completion"
      BY <1>10 DEF chat_completion, StepTo, StepIs
    <3>2. /\ a \in Use1 /\ a.step = "call" /\ a.then = uses[w].then /\ a.calls = uses[w].calls
          /\ a.model = uses[w].model /\ a.attempt = uses[w].attempt
      BY <1>1 DEF Use1
    <3>3. ucase.retries \in Nat
      BY <1>1 DEF UsageTypeOK, UsageCaseTypes
    <3> HIDE DEF a
    <3>4. CallsOK(a)
      BY <1>1, <3>1, <3>2, <3>3 DEF CallsOK, Attempts, Use1
    <3> QED BY <1>6, <3>1, <3>2, <3>4, UnusedOK DEF a
  <2>2. TokensLeft'
    <3>1. \/ ~MayAdd(u) /\ ~MayAdd2(u)
          \/ blind \/ ucase.tokens = 0 \/ spent < ucase.tokens
      BY <1>1, UnusedOK DEF MayAdd, MayAdd2, Use1, check_quota
    <3> HIDE DEF u
    <3> QED BY <1>3, <1>4, <1>10, <2>1, <3>1, TokensStep DEF chat_completion
  <2>3. ChatsLeft'
    <3>1. u.step # "count"
      BY <1>1, UnusedOK DEF Use1
    <3> HIDE DEF u
    <3> QED BY <1>1, <1>3, <1>4, <1>10, <2>1, <3>1, ChatsStep DEF chat_completion
  <2> HIDE DEF u
  <2>4. Done(u)
    BY <1>1, <1>10, <2>1, <2>2, <2>3 DEF chat_completion, UsageTypeOK
  <2> QED BY <1>5, <2>4
<1>11. CASE record_quota_usage(w)
  <2> DEFINE u == IF uses[w].then = "idle" THEN Unused ELSE [uses[w] EXCEPT !.step = uses[w].then]
  <2>1. u \in Use1 /\ uses' = [uses EXCEPT ![w] = u] /\ CallsOK(u)
    BY <1>1, <1>6, <1>11, UnusedOK DEF record_quota_usage, StepTo, StepIs, Use1, CallsOK, Attempts
  <2>2. TokensLeft'
    <3>1. MayAdd(uses[w]) /\ (MayAdd(u) => MayAdd2(uses[w])) /\ ~MayAdd2(u)
      BY <1>1, <1>11, UnusedOK DEF MayAdd, MayAdd2, Use1, record_quota_usage, StepIs
    <3> HIDE DEF u
    <3>2. spent' \in {spent, spent + 1}
      BY <1>11 DEF record_quota_usage
    <3> QED BY <1>3, <1>4, <2>1, <3>1, <3>2, TokensStep
  <2>3. ChatsLeft'
    <3>1. u.step # "count"
      BY <1>1, UnusedOK DEF Use1
    <3> HIDE DEF u
    <3> QED BY <1>1, <1>3, <1>4, <1>11, <2>1, <3>1, ChatsStep DEF record_quota_usage
  <2> HIDE DEF u
  <2>4. Done(u)
    BY <1>1, <1>11, <2>1, <2>2, <2>3 DEF record_quota_usage, UsageTypeOK
  <2> QED BY <1>5, <2>4
<1>12. CASE UserDies(w)
  <2>1. Unused \in Use1 /\ uses' = [uses EXCEPT ![w] = Unused]
    BY <1>12, UnusedOK DEF UserDies, StepTo
  <2>2. TokensLeft'
    <3>1. ~MayAdd(Unused) /\ ~MayAdd2(Unused)
      BY UnusedOK DEF MayAdd, MayAdd2
    <3> QED BY <1>3, <1>4, <1>12, <2>1, <3>1, TokensStep DEF UserDies
  <2>3. ChatsLeft'
    BY <1>1, <1>3, <1>4, <1>12, <2>1, UnusedOK, ChatsStep DEF UserDies
  <2>4. Done(Unused)
    BY <1>1, <1>6, <1>12, <2>1, <2>2, <2>3 DEF UserDies, UsageTypeOK
  <2> QED BY <1>5, <2>4
<1>13. ASSUME NEW chat \in Chats \cup {NoOne}, AskAi(w, chat) PROVE UsageInv'
  <2> DEFINE u == [Unused EXCEPT !.chat = chat, !.step = IF chat = NoOne THEN "completion" ELSE "quota"]
  <2>1. uses' = [uses EXCEPT ![w] = u] /\ spent' = spent /\ counted' = counted
    BY <1>13 DEF AskAi
  <2>2. u \in Use1 /\ u.step \in {"completion", "quota"} /\ u.calls = 0 /\ u.model = 1
        /\ u.attempt = 0 /\ u.chat = chat /\ (u.step = "quota" => chat \in Chats)
    BY UnusedOK DEF Use1, Unused
  <2> HIDE DEF u
  <2>3. CallsOK(u)
    <3>1. u.then = "idle" /\ 1 <= ucase.models /\ 0 <= ucase.retries
      BY <1>1 DEF u, Unused, UsageTypeOK, UsageCaseTypes
    <3> QED BY <2>2, <3>1 DEF CallsOK
  <2>4. TokensLeft'
    <3>1. ~MayAdd(u) /\ ~MayAdd2(u)
      BY <2>2 DEF MayAdd, MayAdd2
    <3> QED BY <1>3, <1>4, <2>1, <3>1, TokensStep
  <2>5. ChatsLeft'
    BY <1>1, <1>3, <1>4, <2>1, <2>2, ChatsStep
  <2>6. Done(u)
    BY <1>1, <2>1, <2>2, <2>3, <2>4, <2>5 DEF UsageTypeOK
  <2> QED BY <1>5, <2>6
<1> QED BY <1>7, <1>8, <1>9, <1>10, <1>11, <1>12, <1>13

LEMMA AnswerTaken ==
  ASSUME NEW v \in Use1
  PROVE  LET a == [v EXCEPT !.step = "record", !.then = "idle", !.calls = @ + 1] IN
         /\ a \in Use1 /\ a.step = "record" /\ a.then = "idle" /\ a.calls = v.calls + 1
         /\ a.model = v.model /\ a.attempt = v.attempt /\ a.chat = v.chat
<1> DEFINE a == [v EXCEPT !.step = "record", !.then = "idle", !.calls = @ + 1]
<1>1. PICK x \in Use1 : x = [v EXCEPT !.step = "record"]
  BY DEF Use1
<1>2. PICK y \in Use1 : y = [x EXCEPT !.then = "idle"]
  BY DEF Use1
<1>3. [y EXCEPT !.calls = v.calls + 1] \in Use1
  BY DEF Use1
<1>4. a \in Use1
  BY <1>1, <1>2, <1>3
<1>5. /\ a.step = "record" /\ a.then = "idle" /\ a.calls = v.calls + 1
      /\ a.model = v.model /\ a.attempt = v.attempt /\ a.chat = v.chat
  BY DEF Use1
<1> QED BY <1>4, <1>5

LEMMA NextModel ==
  ASSUME NEW v \in Use1, v.model = 1
  PROVE  LET a == [v EXCEPT !.model = @ + 1, !.attempt = 0] IN
         /\ a \in Use1 /\ a.step = v.step /\ a.then = v.then /\ a.calls = v.calls
         /\ a.model = 2 /\ a.attempt = 0
<1> DEFINE a == [v EXCEPT !.model = @ + 1, !.attempt = 0]
<1>0. [v EXCEPT !.model = v.model + 1] \in Use1
  BY DEF Use1
<1>1. PICK x \in Use1 : x = [v EXCEPT !.model = v.model + 1]
  BY <1>0
<1>2. [x EXCEPT !.attempt = 0] \in Use1
  BY DEF Use1
<1>3. a \in Use1
  BY <1>1, <1>2
<1>4. /\ a.step = v.step /\ a.then = v.then /\ a.calls = v.calls
      /\ a.model = 2 /\ a.attempt = 0
  BY DEF Use1
<1> QED BY <1>3, <1>4

(* The calls of the model and their answers.                               *)
LEMMA UsageStep2 ==
  ASSUME UsageInv, NEW w \in AiWorkers, CallModel(w) \/ CallLonger(w)
  PROVE  UsageInv'
<1>1. /\ UsageTypeOK /\ uses \in [AiWorkers -> Use1] /\ uses[w] \in Use1 /\ CallsOK(uses[w])
      /\ DOMAIN uses = AiWorkers /\ IsFiniteSet(counted) /\ (~redis => blind)
      /\ ucase \in UsageCaseTypes
  BY DEF UsageInv, UsageTypeOK, Use1
<1>2. UNCHANGED <<spent, counted, redis, blind, ucase>>
  BY DEF CallModel, CallLonger
<1>3. ucase.models \in 1..2 /\ ucase.retries \in Nat
  BY <1>1 DEF UsageCaseTypes
<1>4. CallsOK(Unused)
  BY <1>3, UnusedOK DEF CallsOK
<1>5. PICK u : /\ uses' = [uses EXCEPT ![w] = u] /\ u \in Use1 /\ CallsOK(u) /\ u.step # "count"
               /\ MayAdd(uses[w]) /\ (MayAdd2(u) => MayAdd2(uses[w]))
  <2>1. CASE CallModel(w)
    <3> DEFINE c == [uses[w] EXCEPT !.calls = @ + 1]
    <3>1. PICK r \in ucase.replies : uses' = [uses EXCEPT ![w] =
         CASE r = "text"   -> [c EXCEPT !.step = "record"]
           [] r = "length" -> [c EXCEPT !.step = "record", !.then = "longer"]
           [] r = "empty"  -> Unused
           [] OTHER        -> AfterError(c, r)]
      BY <2>1 DEF CallModel
    <3>2. uses[w].step = "call"
      BY <2>1 DEF CallModel, StepIs
    <3>3. MayAdd(uses[w]) /\ MayAdd2(uses[w]) /\ uses[w].then = "idle"
          /\ uses[w].calls <= Attempts(uses[w])
      BY <1>1, <3>2 DEF MayAdd, MayAdd2, CallsOK
    <3>a. /\ c \in Use1 /\ c.step = "call" /\ c.then = "idle" /\ c.calls <= Attempts(c) + 1
          /\ c.attempt <= ucase.retries /\ c.model <= ucase.models
      <4>1. /\ c \in Use1 /\ c.step = uses[w].step /\ c.then = uses[w].then
            /\ c.calls = uses[w].calls + 1 /\ c.model = uses[w].model
            /\ c.attempt = uses[w].attempt
        BY <1>1 DEF Use1
      <4> HIDE DEF c
      <4> QED BY <1>1, <1>3, <3>2, <3>3, <4>1 DEF Use1, CallsOK, Attempts
    <3> HIDE DEF c
    <3>4. ASSUME NEW u, u \in {[c EXCEPT !.step = "record"],
                               [c EXCEPT !.step = "record", !.then = "longer"], Unused,
                               [c EXCEPT !.attempt = @ + 1]},
                 u.attempt <= ucase.retries
          PROVE  u \in Use1 /\ CallsOK(u) /\ u.step # "count"
      <4>1. CASE u = [c EXCEPT !.step = "record"]
        BY <1>3, <3>a, <4>1 DEF Use1, CallsOK, Attempts
      <4>2. CASE u = [c EXCEPT !.step = "record", !.then = "longer"]
        BY <1>3, <3>a, <4>2 DEF Use1, CallsOK, Attempts
      <4>3. CASE u = [c EXCEPT !.attempt = @ + 1]
        BY <1>3, <3>a, <3>4, <4>3 DEF Use1, CallsOK, Attempts
      <4> QED BY <1>4, <3>4, <4>1, <4>2, <4>3, UnusedOK
    <3>5. ASSUME c.model < ucase.models PROVE
             LET u == [c EXCEPT !.model = @ + 1, !.attempt = 0] IN
             u \in Use1 /\ CallsOK(u) /\ u.step # "count"
      <4>1. c.model = 1 /\ ucase.models = 2
        BY <1>3, <3>a, <3>5 DEF Use1
      <4> DEFINE u == [c EXCEPT !.model = @ + 1, !.attempt = 0]
      <4>2. /\ u \in Use1 /\ u.step = "call" /\ u.then = "idle" /\ u.calls = c.calls
            /\ u.model = 2 /\ u.attempt = 0 /\ Attempts(c) = c.attempt
        BY <3>a, <4>1, NextModel DEF Attempts
      <4> HIDE DEF u
      <4>3. u \in Use1 /\ CallsOK(u) /\ u.step # "count"
        BY <1>3, <3>a, <4>1, <4>2 DEF Use1, CallsOK, Attempts
      <4> QED BY <4>3 DEF u
    <3>6. c.attempt <= ucase.retries /\ c.attempt \in Nat
      BY <3>a DEF Use1
    <3> DEFINE u == CASE r = "text"   -> [c EXCEPT !.step = "record"]
           [] r = "length" -> [c EXCEPT !.step = "record", !.then = "longer"]
           [] r = "empty"  -> Unused
           [] OTHER        -> AfterError(c, r)
    <3>7. \/ u \in {[c EXCEPT !.step = "record"],
                               [c EXCEPT !.step = "record", !.then = "longer"], Unused,
                               [c EXCEPT !.attempt = @ + 1]} /\ u.attempt <= ucase.retries
          \/ c.model < ucase.models /\ u = [c EXCEPT !.model = @ + 1, !.attempt = 0]
      BY <1>3, <3>6, UnusedOK DEF AfterError, Use1
    <3>8. u \in Use1 /\ CallsOK(u) /\ u.step # "count"
      BY <3>4, <3>5, <3>7
    <3> QED BY <3>1, <3>3, <3>8
  <2>2. CASE CallLonger(w)
    <3>1. PICK r \in ucase.replies : uses' = [uses EXCEPT ![w] =
         IF r = "text"
         THEN [uses[w] EXCEPT !.step = "record", !.then = "idle", !.calls = uses[w].calls + 1]
         ELSE Unused]
      BY <2>2, Zenon DEF CallLonger
    <3> DEFINE a == [uses[w] EXCEPT !.step = "record", !.then = "idle", !.calls = @ + 1]
               u == IF r = "text" THEN a ELSE Unused
    <3>2. uses[w].step = "longer" /\ uses' = [uses EXCEPT ![w] = u]
      <4>1. uses[w].step = "longer"
        BY <2>2 DEF CallLonger, StepIs
      <4>2. uses' = [uses EXCEPT ![w] = u]
        BY <3>1, Zenon
      <4> QED BY <4>1, <4>2
    <3>3. u \in Use1 /\ CallsOK(u) /\ u.step # "count" /\ ~MayAdd2(u)
      <4>1. a \in Use1 /\ CallsOK(a) /\ a.step # "count" /\ ~MayAdd2(a)
        <5>1. /\ a \in Use1 /\ a.step = "record" /\ a.then = "idle" /\ a.calls = uses[w].calls + 1
              /\ a.model = uses[w].model /\ a.attempt = uses[w].attempt /\ a.chat = uses[w].chat
          BY <1>1, AnswerTaken
        <5> HIDE DEF a
        <5> QED BY <1>1, <1>3, <3>2, <5>1 DEF Use1, CallsOK, Attempts, MayAdd2
      <4> QED BY <1>4, <4>1, UnusedOK DEF MayAdd2
    <3>4. MayAdd(uses[w])
      BY <3>2 DEF MayAdd
    <3> QED BY <3>2, <3>3, <3>4
  <2> QED BY <2>1, <2>2
<1>6. TokensLeft'
  BY <1>2, <1>5, TokensStep
<1>7. ChatsLeft'
  BY <1>1, <1>2, <1>5, ChatsStep
<1>8. uses' \in [AiWorkers -> Use1] /\ \A v \in AiWorkers : CallsOK(uses[v])'
  BY <1>1, <1>2, <1>5, WorkerStep
<1>9. UsageTypeOK'
  BY <1>1, <1>2, <1>8 DEF UsageTypeOK, Use1
<1> QED BY <1>1, <1>2, <1>6, <1>7, <1>8, <1>9 DEF UsageInv

(* The day, the month and Redis.                                           *)
LEMMA UsageStep3 ==
  ASSUME UsageInv, DayEnds \/ MonthEnds \/ RedisFails \/ RedisReturns
  PROVE  UsageInv'
<1>1. /\ UsageTypeOK /\ uses \in [AiWorkers -> Use1]
      /\ IsFiniteSet(counted) /\ (~redis => blind) /\ TokensLeft /\ ChatsLeft
      /\ \A v \in AiWorkers : CallsOK(uses[v])
  BY DEF UsageInv, UsageTypeOK, Use1
<1>2. \/ ucase' = ucase
      \/ \E what \in {"acts", "days", "months", "outages"} :
           ucase[what] > 0 /\ ucase' = [ucase EXCEPT ![what] = @ - 1]
  BY DEF DayEnds, MonthEnds, RedisFails, RedisReturns
<1>3. /\ ucase' \in UsageCaseTypes
      /\ ucase'.tokens = ucase.tokens /\ ucase'.conversations = ucase.conversations
      /\ ucase'.models = ucase.models /\ ucase'.retries = ucase.retries
  BY <1>1, <1>2, UsageCaseStep DEF UsageTypeOK
<1>4. /\ uses' = uses /\ (~redis' => blind') /\ redis' \in BOOLEAN /\ blind' \in BOOLEAN
      /\ spent' \in {0, spent} /\ counted' \in {{}, counted} /\ (blind => blind')
  BY <1>1 DEF DayEnds, MonthEnds, RedisFails, RedisReturns, UsageTypeOK
<1>5. UsageTypeOK'
  BY <1>1, <1>3, <1>4 DEF UsageTypeOK
<1>6. \A v \in AiWorkers : CallsOK(uses[v])'
  BY <1>1, <1>3, <1>4 DEF CallsOK, Attempts
<1>7. Passive' = Passive /\ Passive2' = Passive2 /\ Counting' = Counting /\ Pending' = Pending
  BY <1>4 DEF Passive, Passive2, Counting, Pending, StepIs
<1>8. TokensLeft'
  <2>1. Cardinality(Passive) \in Nat /\ Cardinality(Passive2) \in Nat
    BY Finite DEF Passive, Passive2
  <2>2. spent \in Nat /\ ucase.tokens \in Nat
    BY <1>1 DEF UsageTypeOK, UsageCaseTypes
  <2> QED BY <1>1, <1>3, <1>4, <1>7, <2>1, <2>2 DEF TokensLeft
<1>9. ChatsLeft'
  <2>1. Counting \in SUBSET AiWorkers
    BY DEF Counting
  <2>2. IsFiniteSet(Pending)
    BY <2>1, ChatsOfWorkers DEF Pending
  <2>3. IsFiniteSet(counted \cup Pending) /\ counted' \cup Pending' \subseteq counted \cup Pending
    BY <1>1, <1>4, <1>7, <2>2, FS_Union
  <2>4. /\ Cardinality(counted' \cup Pending') <= Cardinality(counted \cup Pending)
        /\ Cardinality(counted' \cup Pending') \in Nat /\ Cardinality(counted \cup Pending) \in Nat
    BY <2>3, FS_Subset, FS_CardinalityType
  <2>5. ucase.conversations \in Int /\ Calling \in Nat
    BY <1>1, Finite DEF UsageTypeOK, UsageCaseTypes
  <2> QED BY <1>1, <1>3, <1>4, <1>7, <2>4, <2>5 DEF ChatsLeft, Calling
<1>10. IsFiniteSet(counted')
  BY <1>1, <1>4, FS_EmptySet
<1> QED BY <1>4, <1>5, <1>6, <1>8, <1>9, <1>10 DEF UsageInv

LEMMA UsageInvStep == UsageInv /\ [UsageNext]_usageVars => UsageInv'
<1>1. ASSUME UsageInv, UNCHANGED usageVars PROVE UsageInv'
  BY <1>1 DEF usageVars, UsageInv, UsageTypeOK, CallsOK, Attempts, TokensLeft, ChatsLeft,
     Passive, Passive2, MayAdd, MayAdd2, Counting, Pending, StepIs
<1> QED BY <1>1, UsageStep1, UsageStep2, UsageStep3 DEF UsageNext

LEMMA UsageKeeps == UsageInv => UsageTypeOK /\ SpendsWithinLimits /\ CallsBounded
<1> SUFFICES ASSUME UsageInv PROVE UsageTypeOK /\ SpendsWithinLimits /\ CallsBounded
  OBVIOUS
<1>1. UsageTypeOK /\ ucase.models \in 1..2 /\ ucase.retries \in Nat /\ ucase.conversations \in Int
      /\ ucase.tokens \in Nat /\ spent \in Nat
  BY DEF UsageInv, UsageTypeOK, UsageCaseTypes
<1>2. CallsBounded
  <2> SUFFICES ASSUME NEW w \in AiWorkers
               PROVE uses[w].calls <= ucase.models * (ucase.retries + 1) + 1
    BY DEF CallsBounded
  <2>1. uses[w] \in Use1 /\ CallsOK(uses[w])
    BY DEF UsageInv, UsageTypeOK, Use1
  <2>2. uses[w].calls <= Attempts(uses[w]) + 2
    BY <1>1, <2>1 DEF CallsOK, Attempts, Use1
  <2>3. CASE ucase.models = 1
    BY <1>1, <2>1, <2>2, <2>3 DEF CallsOK, Attempts, Use1
  <2>4. CASE ucase.models = 2
    BY <1>1, <2>1, <2>2, <2>4 DEF CallsOK, Attempts, Use1
  <2> QED BY <1>1, <2>3, <2>4
<1>3. SpendsWithinLimits
  <2>1. /\ Cardinality(Passive) \in Nat /\ Cardinality(Passive2) \in Nat /\ Calling \in Nat
        /\ Cardinality(Passive) <= Calling /\ Cardinality(Passive2) <= Calling
    BY Finite DEF Passive, Passive2
  <2>2. Cardinality(counted) <= Cardinality(counted \cup Pending)
        /\ Cardinality(counted) \in Nat /\ Cardinality(counted \cup Pending) \in Nat
    <3>1. Counting \in SUBSET AiWorkers
      BY DEF Counting
    <3>2. IsFiniteSet(Pending) /\ IsFiniteSet(counted)
      BY <3>1, ChatsOfWorkers DEF Pending, UsageInv
    <3> QED BY <3>2, FS_Union, FS_Subset, FS_CardinalityType
  <2> QED BY <1>1, <2>1, <2>2 DEF SpendsWithinLimits, UsageInv, TokensLeft, ChatsLeft
<1> QED BY <1>1, <1>2, <1>3

(* However many workers ask at once, and wherever their calls fail: the    *)
(* tenant's tokens and conversations stay within the limits, but for what  *)
(* each worker may add that had read them before; and one text costs a     *)
(* bounded number of calls, retries and the second model included.         *)
THEOREM UsageKept ==
  UsageInit /\ [][UsageNext]_usageVars =>
    [](UsageTypeOK /\ SpendsWithinLimits /\ CallsBounded)
<1> QED BY UsageInvInit, UsageInvStep, UsageKeeps, PTL

-----------------------------------------------------------------------------
(* The knowledge base.  What holds of a source at rest is little; the      *)
(* invariant says of each source who works on it, how far that work has    *)
(* come and what the pages it has passed look like, and of the whole       *)
(* knowledge how many chunks there are and how many are on their way.      *)

KbStatus == {"none", "queued", "processing", "ready", "partial", "failed", "gone"}
SourceType == [status : KbStatus, run : Nat, crawl : SUBSET Pages, next : {"no", "later", "due"}]
DocType == [has : BOOLEAN, hash : Nat, run : Nat]
HoldingSteps == {"begin", "page", "embed", "clear", "fill", "drop", "drop docs", "finish", "unlock"}
RdSteps == {"idle", "lock", "again"} \cup HoldingSteps
RdType == [step : RdSteps, s : KbSources, src : SourceType, run : Nat, todo : SUBSET Pages,
           page : Nat, ver : Nat, fetched : BOOLEAN, end : {"ready", "partial", "failed", "processing"}]
ClerkType == [step : {"idle", "texts", "enqueue", "reset", "chunks", "docs", "source"}, s : KbSources]

KbTypes ==
  /\ source \in [KbSources -> SourceType]
  /\ doc \in [KbSources -> [Pages -> DocType]]
  /\ chunks \in [KbSources -> [Pages -> SUBSET Nat]]
  /\ site \in [KbSources -> [Pages -> Nat]]
  /\ got \in [KbSources -> [Pages -> Nat]]
  /\ ingests \in [KbSources -> Nat] /\ locked \subseteq KbSources /\ auto_refresh \in BOOLEAN
  /\ rd \in [Readers -> RdType] /\ clerk \in [Clerks -> ClerkType]
  /\ runs \in Nat /\ torn \subseteq KbSources /\ stranded \subseteq KbSources
     /\ mixed \subseteq KbSources
  /\ kcase \in KbCaseTypes

(* A run's number is one that was given.                                   *)
RunsKnown ==
  /\ \A s \in KbSources : source[s].run <= runs
  /\ \A s \in KbSources, p \in Pages : doc[s][p].run <= runs
  /\ \A w \in Readers : rd[w].run <= runs /\ rd[w].src.run <= runs

(* Plain facts of a source and of a worker, whatever interleaves.          *)
ReadSteps == {"page", "embed", "clear", "fill", "drop", "drop docs"}
PlainSource(s) ==
  /\ source[s].status # "processing" => source[s].run = 0
  /\ Kind(s) # "crawl" => source[s].crawl = Pages
  /\ \A p \in Pages : ~doc[s][p].has => doc[s][p].hash = 0
  /\ \A p \in Pages : ~Refetchable(s) => site[s][p] # 0
PlainReader(w) ==
  /\ Kind(rd[w].s) # "crawl" => rd[w].src.crawl = Pages
  /\ rd[w].step \in ReadSteps \cup {"lock", "begin"} => rd[w].end = "ready"
  /\ rd[w].step \in ReadSteps => rd[w].run # 0
  /\ rd[w].step = "finish" => rd[w].end # "processing"
  /\ rd[w].step \in {"embed", "clear", "fill"} => rd[w].page \in Pages /\ rd[w].ver # 0
  /\ rd[w].step = "again" => rd[w].end = "processing"

(* Before it is added there is nothing of a source.                        *)
Unmade(s) == source[s].status = "none" =>
  /\ ~Reading(s) /\ \A c \in Clerks : clerk[c].s = s => clerk[c].step = "idle"
  /\ \A p \in Pages : doc[s][p] = NoDoc /\ chunks[s][p] = {}
  /\ ingests[s] = 0
Plain == /\ \A s \in KbSources : PlainSource(s) /\ Unmade(s)
         /\ \A w \in Readers : PlainReader(w)
         /\ \A c \in Clerks : clerk[c].step = "idle" => clerk[c] = NoCall

SourceGone(s) == source[s].status = "gone"
ClerkCalls(c, s) == clerk[c].s = s /\ clerk[c].step \in {"texts", "enqueue"}
Running(w, s) == /\ rd[w].s = s /\ rd[w].step # "idle"
                 /\ rd[w].step = "unlock" => rd[w].end = "processing"
Holding(w, s) == rd[w].s = s /\ rd[w].step \in HoldingSteps
Wiping(s) == \E c \in Clerks : clerk[c].s = s /\ clerk[c].step \in {"docs", "source"}

(* Of a source that is deleted nothing is read or stored, what was wiped   *)
(* has no chunks, and one worker at most holds its lock.                   *)
Forgotten(s) ==
  /\ Deleting(s) \/ SourceGone(s) => ~Reading(s) /\ ~Storing(s)
  /\ Wiping(s) \/ SourceGone(s) => \A p \in Pages : chunks[s][p] = {}
  /\ SourceGone(s) \/ (\E c \in Clerks : clerk[c].s = s /\ clerk[c].step = "source") =>
       \A p \in Pages : ~doc[s][p].has
  /\ \A w, x \in Readers : Holding(w, s) /\ Holding(x, s) => w = x
  /\ \A w \in Readers : Holding(w, s) => s \in locked

(* One request or one job is to do something about a source, not two.      *)
One(s) ==
  /\ \A c, d \in Clerks : ClerkCalls(c, s) /\ ClerkCalls(d, s) => c = d
  /\ \A w, x \in Readers : Running(w, s) /\ Running(x, s) => w = x
  /\ \A c \in Clerks : ClerkCalls(c, s) => /\ source[s].status = "queued" /\ ingests[s] = 0
                                        /\ \A w \in Readers : ~Running(w, s)
  /\ \A w \in Readers : Running(w, s) => ingests[s] = 0
  /\ ingests[s] <= 1
  /\ ingests[s] > 0 => source[s].status \in Syncing
  /\ \A w \in Readers : Running(w, s) => source[s].status \in Syncing
  /\ \A w \in Readers : Running(w, s) /\ rd[w].step \in {"lock", "begin"} =>
       rd[w].src.run = source[s].run /\ rd[w].src.crawl = source[s].crawl
  /\ \A w \in Readers : Running(w, s) /\ rd[w].step \notin {"lock", "begin"} =>
       source[s].run = rd[w].run /\ source[s].status = "processing"

(* A page as run r of its source left it; one that the run is done with;   *)
(* one whose chunks are its document's; one whose chunks are what was last *)
(* read.                                                                   *)
RunOK(s, p, r) ==
  IF doc[s][p].run = r THEN got[s][p] = doc[s][p].hash /\ got[s][p] # 0 ELSE got[s][p] = 0
PageDone(s, p, r) == doc[s][p].run = r \/ doc[s][p].hash = 0
Whole(s, p) == chunks[s][p] = IF doc[s][p].hash = 0 THEN {} ELSE {doc[s][p].hash}
Filled(s, p) == chunks[s][p] = {got[s][p]} \ {0}

(* How far a worker has come: what it has read so far has its chunks, and  *)
(* at the end so has all.                                                  *)
Progress(w) == LET r == rd[w]  s == rd[w].s IN
  /\ r.step \in {"lock", "begin"} /\ source[s].run # 0 => \A p \in Pages : RunOK(s, p, source[s].run)
  /\ r.step \in ReadSteps \cup {"unlock", "again"} \/ (r.step = "finish" /\ r.end = "ready") =>
       \A p \in Pages : RunOK(s, p, r.run) \/ (r.step = "embed" /\ p = r.page)
  /\ r.step = "embed" => got[s][r.page] = r.ver
  /\ r.step \in {"clear", "fill"} => doc[s][r.page].hash = r.ver /\ doc[s][r.page].run = r.run
  /\ r.step \in {"page", "embed", "clear", "fill"} /\ ~Refetchable(s) =>
       \A p \in Pages \ r.todo : PageDone(s, p, r.run) \/ (r.step = "embed" /\ p = r.page)
  /\ r.step = "finish" /\ r.end = "ready" => \A p \in Pages : PageDone(s, p, r.run)
  /\ r.step = "fill" => chunks[s][r.page] = {}
  /\ r.step = "drop docs" => \A p \in Pages :
       IF doc[s][p].has /\ doc[s][p].run # r.run THEN chunks[s][p] = {} ELSE Whole(s, p)

(* A page that somebody is between two writes of.                          *)
Disturbed(s, p) == \E w \in Readers : /\ Running(w, s)
   /\ \/ rd[w].step = "drop docs"
      \/ rd[w].step \in {"clear", "fill"} /\ rd[w].page = p

(* A source whose chunks are those of its documents, and if it is ready,   *)
(* of what was last read.                                                  *)
Sound(s) ==
  /\ \A w \in Readers : Running(w, s) => Progress(w)
  /\ ingests[s] > 0 /\ source[s].run # 0 => \A p \in Pages : RunOK(s, p, source[s].run)
  /\ \A p \in Pages : Disturbed(s, p) \/ Whole(s, p)
  /\ source[s].status = "ready" => \A p \in Pages : Filled(s, p)
  /\ Storing(s) => \A p \in Pages : chunks[s][p] = {}

(* Workers about to add a chunk, and how many chunks and workers there may *)
(* be together: check_and_reserve looks at the chunks before the worker    *)
(* adds its own.                                                           *)
Adding == {w \in Readers : \/ rd[w].step = "fill"
             \/ (rd[w].step \in {"embed", "clear"} /\ chunks[rd[w].s][rd[w].page] = {})}
Plan == torn = {} /\ mixed = {} =>
  Cardinality(AllChunks) + Cardinality(Adding) <= kcase.plan + Cardinality(Readers) - 1

(* What is known of every source that was neither reset nor deleted under  *)
(* a worker.                                                               *)
KbGood(s) == s \notin mixed =>
  Forgotten(s) /\ (SourceGone(s) \/ (One(s) /\ (s \in torn \/ Wiping(s) \/ Sound(s))))
AllGood == \A s \in KbSources : KbGood(s)

(* A set of pages has a first one: of the sets that have none, one would   *)
(* have no smaller such set inside it.                                     *)
HasLeast(S) == \E q \in S : \A o \in S : q <= o
LEMMA LeastPage ==
  ASSUME NEW S \in SUBSET Pages, S # {}
  PROVE  (CHOOSE q \in S : \A o \in S : q <= o) \in S
<1>1. IsWellFoundedOn(StrictSubsetOrdering(Pages), SUBSET Pages)
  BY KbPagesAssumption, FS_StrictSubsetOrderingWellFounded, FS_FiniteSubsetsOfFinite
<1> DEFINE Bad == {U \in SUBSET Pages : U # {} /\ ~HasLeast(U)}
<1>2. Bad = {}
  <2> SUFFICES ASSUME Bad # {} PROVE FALSE
    OBVIOUS
  <2>1. PICK U \in Bad : \A V \in Bad : <<V, U>> \notin StrictSubsetOrdering(Pages)
    <3>1. Bad \subseteq SUBSET Pages
      OBVIOUS
    <3> QED BY <1>1, <3>1, WFMin
  <2>2. PICK x : x \in U
    OBVIOUS
  <2>3. x \in Nat /\ U \subseteq Nat
    BY <2>2, KbPagesAssumption
  <2>4. U \ {x} \notin Bad
    BY <2>1, <2>2 DEF StrictSubsetOrdering
  <2>5. CASE U = {x}
    BY <2>3, <2>5 DEF HasLeast
  <2>6. CASE U # {x}
    <3>1. PICK m \in U \ {x} : \A o \in U \ {x} : m <= o
      BY <2>2, <2>4, <2>6 DEF HasLeast
    <3>2. HasLeast(U)
      BY <2>2, <2>3, <3>1 DEF HasLeast
    <3> QED BY <3>2
  <2> QED BY <2>5, <2>6
<1>3. HasLeast(S)
  BY <1>2
<1> QED BY <1>3 DEF HasLeast
-----------------------------------------------------------------------------
(* Types *)

(* A bound that is used up changes nothing else of the case.               *)
LEMMA CostKept ==
  ASSUME kcase \in KbCaseTypes,
         \/ kcase' = kcase \/ Cost("acts") \/ Cost("refreshes") \/ Cost("changes")
         \/ Cost("faults") \/ Cost("deaths")
  PROVE  kcase' \in KbCaseTypes /\ kcase'.kind = kcase.kind /\ kcase'.plan = kcase.plan
<1>1. CASE kcase' = kcase
  BY <1>1
<1>2. CASE Cost("acts")
  <2>1. kcase.acts \in Nat
    BY DEF KbCaseTypes
  <2>2. kcase.acts > 0 /\ kcase' = [kcase EXCEPT !.acts = kcase.acts - 1]
    BY <1>2 DEF Cost
  <2>3. kcase.acts - 1 \in Nat
    BY <2>1, <2>2
  <2> QED BY <2>2, <2>3 DEF KbCaseTypes
<1>3. CASE Cost("refreshes")
  <2>1. kcase.refreshes \in Nat
    BY DEF KbCaseTypes
  <2>2. kcase.refreshes > 0 /\ kcase' = [kcase EXCEPT !.refreshes = kcase.refreshes - 1]
    BY <1>3 DEF Cost
  <2>3. kcase.refreshes - 1 \in Nat
    BY <2>1, <2>2
  <2> QED BY <2>2, <2>3 DEF KbCaseTypes
<1>4. CASE Cost("changes")
  <2>1. kcase.changes \in Nat
    BY DEF KbCaseTypes
  <2>2. kcase.changes > 0 /\ kcase' = [kcase EXCEPT !.changes = kcase.changes - 1]
    BY <1>4 DEF Cost
  <2>3. kcase.changes - 1 \in Nat
    BY <2>1, <2>2
  <2> QED BY <2>2, <2>3 DEF KbCaseTypes
<1>5. CASE Cost("faults")
  <2>1. kcase.faults \in Nat
    BY DEF KbCaseTypes
  <2>2. kcase.faults > 0 /\ kcase' = [kcase EXCEPT !.faults = kcase.faults - 1]
    BY <1>5 DEF Cost
  <2>3. kcase.faults - 1 \in Nat
    BY <2>1, <2>2
  <2> QED BY <2>2, <2>3 DEF KbCaseTypes
<1>6. CASE Cost("deaths")
  <2>1. kcase.deaths \in Nat
    BY DEF KbCaseTypes
  <2>2. kcase.deaths > 0 /\ kcase' = [kcase EXCEPT !.deaths = kcase.deaths - 1]
    BY <1>6 DEF Cost
  <2>3. kcase.deaths - 1 \in Nat
    BY <2>1, <2>2
  <2> QED BY <2>2, <2>3 DEF KbCaseTypes
<1> QED BY <1>1, <1>2, <1>3, <1>4, <1>5, <1>6

(* No step changes what the sources are.                                   *)
LEMMA StepCosts ==
  ASSUME KbTypes, [KbNext]_kbVars
  PROVE  /\ kcase' \in KbCaseTypes /\ kcase'.plan = kcase.plan
         /\ \A s : Kind(s)' = Kind(s)
<1> DEFINE K == \/ kcase' = kcase \/ Cost("acts") \/ Cost("refreshes") \/ Cost("changes")
                \/ Cost("faults") \/ Cost("deaths")
<1>1. K
  <2>1. ASSUME NEW c \in Clerks, ClerkStep(c) \/ ClerkDies(c) PROVE K
    BY <2>1 DEF ClerkStep, StoreTexts, enqueue_ingest, ResetSource, DeleteStep, ClerkDies
  <2>2. ASSUME NEW c \in Clerks, NEW s \in KbSources,
               _create_source(c, s) \/ resync_source(c, s) \/ delete_source(c, s)
                 \/ refresh_due_kb_sources(c, s)
        PROVE  K
    BY <2>2 DEF _create_source, resync_source, delete_source, refresh_due_kb_sources
  <2>3. ASSUME update_kb \/ (\E s \in KbSources : DayPasses(s) \/ LockEnds(s) \/ \E p \in Pages : PageChanges(s, p))
        PROVE  K
    BY <2>3 DEF update_kb, DayPasses, LockEnds, PageChanges
  <2>4. ASSUME NEW w \in Readers, ReaderStep(w) PROVE K
    BY <2>4 DEF ReaderStep, run_source, TakeLock, BeginSlice, ReadPage, UpsertDocument, DeleteChunks,
       InsertChunks, StoreCrawlState, PagesDone, DropChunks, DropDocuments, _finish, Unlock,
       EnqueueNextSlice
  <2>5. ASSUME NEW w \in Readers, EmbeddingFails(w) \/ InsertFails(w) \/ ReaderDies(w) PROVE K
    BY <2>5 DEF EmbeddingFails, InsertFails, ReaderDies
  <2>6. ASSUME UNCHANGED kbVars PROVE K
    BY <2>6 DEF kbVars
  <2> HIDE DEF K
  <2> QED BY <2>1, <2>2, <2>3, <2>4, <2>5, <2>6 DEF KbNext
<1>2. kcase \in KbCaseTypes
  BY DEF KbTypes
<1>3. kcase' \in KbCaseTypes /\ kcase'.kind = kcase.kind /\ kcase'.plan = kcase.plan
  BY <1>1, <1>2, CostKept
<1> QED BY <1>3 DEF Kind
ClerkActs(c) == \/ ClerkStep(c) \/ ClerkDies(c)
                \/ \E s \in KbSources : _create_source(c, s) \/ resync_source(c, s)
                   \/ delete_source(c, s)
                                         \/ refresh_due_kb_sources(c, s)
ReaderActs(w) == ReaderStep(w) \/ EmbeddingFails(w) \/ InsertFails(w) \/ ReaderDies(w)
OtherActs == update_kb \/ \E s \in KbSources : DayPasses(s) \/ LockEnds(s)
  \/ \E p \in Pages : PageChanges(s, p)

(* Who takes the step: a request, a worker, or neither.                    *)
LEMMA KbSplit ==
  ASSUME [KbNext]_kbVars
  PROVE  \/ UNCHANGED kbVars \/ OtherActs
         \/ (\E c \in Clerks : ClerkActs(c)) \/ (\E w \in Readers : ReaderActs(w))
  BY DEF KbNext, ClerkActs, ReaderActs, OtherActs

(* The records of those that rest.                                         *)
LEMMA EmptyRecords ==
  /\ NoSource \in SourceType /\ NoDoc \in DocType /\ NoRead \in RdType /\ NoCall \in ClerkType
<1>1. NoSource \in SourceType
  BY DEF NoSource, SourceType, KbStatus
<1>2. NoDoc \in DocType
  BY DEF NoDoc, DocType
<1>3. (CHOOSE s \in KbSources : TRUE) \in KbSources
  BY KbSourcesAssumption
<1>4. NoRead \in RdType
  BY <1>1, <1>3 DEF NoRead, RdType, RdSteps
<1>5. NoCall \in ClerkType
  BY <1>3 DEF NoCall, ClerkType
<1> QED BY <1>1, <1>2, <1>4, <1>5

(* The step of a request keeps the types.                                  *)
LEMMA ClerkTypes ==
  ASSUME KbTypes, NEW c \in Clerks, ClerkActs(c)
  PROVE  clerk' \in [Clerks -> ClerkType]
<1>1. clerk \in [Clerks -> ClerkType] /\ NoCall \in ClerkType
  BY EmptyRecords DEF KbTypes
<1>2. CASE \E v \in ClerkType : clerk' = [clerk EXCEPT ![c] = v]
  BY <1>1, <1>2
<1>3. CASE \E step \in {"docs", "source", "enqueue"} : CallTo(c, step)
  BY <1>1, <1>3 DEF CallTo, ClerkType
<1>4. CASE \E step \in {"texts", "reset", "chunks", "enqueue"}, s \in KbSources : Calls(c, step, s)
  BY <1>1, <1>4 DEF Calls, ClerkType
<1>5. CASE CallEnds(c)
  BY <1>1, <1>5 DEF CallEnds
<1> QED BY <1>3, <1>4, <1>5 DEF ClerkActs, ClerkStep, StoreTexts, enqueue_ingest, ResetSource,
       DeleteStep, ClerkDies, _create_source, resync_source, delete_source, refresh_due_kb_sources

LEMMA ClerkSource ==
  ASSUME KbTypes, NEW c \in Clerks, ClerkActs(c)
  PROVE  source' \in [KbSources -> SourceType]
<1>1. source \in [KbSources -> SourceType] /\ NoSource \in SourceType /\ clerk[c].s \in KbSources
  BY EmptyRecords DEF KbTypes, ClerkType
<1>2. CASE \E s \in KbSources : source' = [source EXCEPT ![s].status = "queued"]
  BY <1>1, <1>2 DEF SourceType, KbStatus
<1>3. CASE source' = [source EXCEPT ![clerk[c].s] = [NoSource EXCEPT !.status = "queued", !.next = source[clerk[c].s].next]]
  <2>1. [NoSource EXCEPT !.status = "queued", !.next = source[clerk[c].s].next] \in SourceType
    BY <1>1 DEF SourceType, KbStatus
  <2> QED BY <1>1, <1>3, <2>1
<1>4. CASE source' = [source EXCEPT ![clerk[c].s] = [NoSource EXCEPT !.status = "gone"]]
  <2>1. [NoSource EXCEPT !.status = "gone"] \in SourceType
    BY <1>1 DEF SourceType, KbStatus
  <2> QED BY <1>1, <1>4, <2>1
<1>5. CASE source' = source
  BY <1>1, <1>5
<1> QED BY <1>2, <1>3, <1>4, <1>5 DEF ClerkActs, ClerkStep, StoreTexts, enqueue_ingest, ResetSource,
       DeleteStep, ClerkDies, _create_source, resync_source, delete_source, refresh_due_kb_sources

LEMMA ClerkMore ==
  ASSUME KbTypes, [KbNext]_kbVars, NEW c \in Clerks, ClerkActs(c)
  PROVE  KbTypes'
<1>1. /\ clerk[c].s \in KbSources /\ doc \in [KbSources -> [Pages -> DocType]] /\ NoDoc \in DocType
      /\ chunks \in [KbSources -> [Pages -> SUBSET Nat]]
  BY EmptyRecords DEF KbTypes, ClerkType
<1>2. doc' \in [KbSources -> [Pages -> DocType]]
  <2>1. [NoDoc EXCEPT !.has = TRUE] \in DocType
    BY <1>1 DEF DocType
  <2>2. \A v \in DocType : [doc EXCEPT ![clerk[c].s] = [p \in Pages |-> v]] \in [KbSources -> [Pages -> DocType]]
    BY <1>1
  <2>3. doc' = doc \/ \E v \in DocType : doc' = [doc EXCEPT ![clerk[c].s] = [p \in Pages |-> v]]
    BY <1>1, <2>1 DEF ClerkActs, ClerkStep, StoreTexts, enqueue_ingest, ResetSource,
       DeleteStep, ClerkDies, _create_source, resync_source, delete_source, refresh_due_kb_sources
  <2> QED BY <1>1, <2>2, <2>3
<1>3. chunks' \in [KbSources -> [Pages -> SUBSET Nat]]
  BY <1>1 DEF ClerkActs, ClerkStep, StoreTexts, enqueue_ingest, ResetSource,
       DeleteStep, ClerkDies, _create_source, resync_source, delete_source, refresh_due_kb_sources
<1>4. ingests' \in [KbSources -> Nat]
  <2>1. ingests' = ingests \/ ingests' = [ingests EXCEPT ![clerk[c].s] = @ + 1]
    BY DEF ClerkActs, ClerkStep, StoreTexts, enqueue_ingest, ResetSource,
       DeleteStep, ClerkDies, _create_source, resync_source, delete_source, refresh_due_kb_sources
  <2>2. ingests \in [KbSources -> Nat]
    BY DEF KbTypes
  <2> QED BY <1>1, <2>1, <2>2
<1>5. torn' \subseteq KbSources /\ stranded' \subseteq KbSources /\ mixed' \subseteq KbSources
  BY <1>1 DEF KbTypes, readSide, ClerkActs, ClerkStep, StoreTexts, enqueue_ingest, ResetSource,
       DeleteStep, ClerkDies, _create_source, resync_source, delete_source, refresh_due_kb_sources
<1>6. UNCHANGED <<site, got, locked, auto_refresh, rd, runs>>
  BY DEF readSide, ClerkActs, ClerkStep, StoreTexts, enqueue_ingest, ResetSource,
       DeleteStep, ClerkDies, _create_source, resync_source, delete_source, refresh_due_kb_sources
<1> QED BY <1>2, <1>3, <1>4, <1>5, <1>6, ClerkTypes, ClerkSource, StepCosts DEF KbTypes

(* So do the steps that nobody takes: ticks, changed pages, expired locks. *)
LEMMA OtherTypes ==
  ASSUME KbTypes, [KbNext]_kbVars, OtherActs \/ UNCHANGED kbVars
  PROVE  KbTypes'
<1>1. CASE UNCHANGED kbVars
  BY <1>1 DEF kbVars, KbTypes
<1>2. CASE update_kb
  <2>1. \A s \in KbSources : source'[s] = source[s]
          \/ \E n \in {"later", "no"} : source'[s] = [source[s] EXCEPT !.next = n]
    BY <1>2 DEF update_kb
  <2>2. source' = [s \in KbSources |-> source'[s]]
    BY <1>2 DEF update_kb
  <2>3. source' \in [KbSources -> SourceType]
    <3>1. \A s \in KbSources : source'[s] \in SourceType
      <4>1. source \in [KbSources -> SourceType]
        BY DEF KbTypes
      <4> SUFFICES ASSUME NEW s \in KbSources PROVE source'[s] \in SourceType
        OBVIOUS
      <4>2. CASE \E n \in {"later", "no"} : source'[s] = [source[s] EXCEPT !.next = n]
        <5>1. PICK n \in {"later", "no"} : source'[s] = [source[s] EXCEPT !.next = n]
          BY <4>2
        <5> QED BY <4>1, <5>1 DEF SourceType
      <4> QED BY <2>1, <4>1, <4>2
    <3> QED BY <2>2, <3>1
  <2>4. auto_refresh' \in BOOLEAN
    BY <1>2 DEF update_kb
  <2>5. UNCHANGED <<doc, chunks, site, ingests, clerk, locked, rd, runs, got, torn, stranded, mixed>>
    BY <1>2 DEF update_kb, readSide
  <2> QED BY <2>3, <2>4, <2>5, StepCosts DEF KbTypes
<1>3. ASSUME NEW s \in KbSources, DayPasses(s) PROVE KbTypes'
  <2>1. source' \in [KbSources -> SourceType]
    <3>1. source \in [KbSources -> SourceType]
      BY DEF KbTypes
    <3>2. source' = [source EXCEPT ![s].next = "due"]
      BY <1>3 DEF DayPasses
    <3> QED BY <3>1, <3>2 DEF SourceType
  <2>2. UNCHANGED <<doc, chunks, site, ingests, auto_refresh, clerk, locked, rd, runs, got, torn, stranded, mixed, kcase>>
    BY <1>3 DEF DayPasses, readSide
  <2> QED BY <2>1, <2>2 DEF KbTypes
<1>4. ASSUME NEW s \in KbSources, LockEnds(s) PROVE KbTypes'
  BY <1>4 DEF LockEnds, KbTypes, callSide
<1>5. ASSUME NEW s \in KbSources, NEW p \in Pages, PageChanges(s, p) PROVE KbTypes'
  <2>1. site' \in [KbSources -> [Pages -> Nat]]
    <3>1. PICK v \in {0, site[s][p] + 1} : site' = [site EXCEPT ![s][p] = v]
      BY <1>5 DEF PageChanges
    <3>2. v \in Nat
      BY <3>1 DEF KbTypes
    <3> QED BY <3>1, <3>2 DEF KbTypes
  <2>2. UNCHANGED <<source, doc, chunks, ingests, auto_refresh, clerk, locked, rd, runs, got, torn, stranded, mixed>>
    BY <1>5 DEF PageChanges, readSide
  <2> QED BY <2>1, <2>2, StepCosts DEF KbTypes
<1> QED BY <1>1, <1>2, <1>3, <1>4, <1>5 DEF OtherActs

(* What a reader's step changes of its record, and of no other reader's.   *)
Others(w)  == rd' \in [Readers -> RdType] /\ \A x \in Readers \ {w} : rd'[x] = rd[x]
SameJob(w) == rd'[w].s = rd[w].s /\ rd'[w].src = rd[w].src
SameWork(w) == /\ SameJob(w) /\ rd'[w].run = rd[w].run /\ rd'[w].todo = rd[w].todo
               /\ rd'[w].page = rd[w].page /\ rd'[w].ver = rd[w].ver

(* What the moves of the model are of a worker's record.                   *)
LEMMA ReaderStepped ==
  ASSUME KbTypes, NEW w \in Readers, NEW step \in RdSteps, RdTo(w, step)
  PROVE  Others(w) /\ SameWork(w) /\ rd'[w].step = step /\ rd'[w].end = rd[w].end
  BY DEF RdTo, KbTypes, RdType, Others, SameWork, SameJob

LEMMA EndStepped ==
  ASSUME KbTypes, NEW w \in Readers, NEW step \in RdSteps,
         NEW e \in {"ready", "partial", "failed", "processing"},
         rd' = [rd EXCEPT ![w].step = step, ![w].end = e]
  PROVE  Others(w) /\ SameWork(w) /\ rd'[w].step = step /\ rd'[w].end = e
  BY DEF KbTypes, RdType, Others, SameWork, SameJob

LEMMA ReadEnded ==
  ASSUME KbTypes, NEW w \in Readers, RdEnds(w)
  PROVE  Others(w) /\ rd'[w].step = "idle" /\ rd'[w].end = "ready" /\ rd'[w] = NoRead
  BY EmptyRecords DEF RdEnds, KbTypes, Others, NoRead

LEMMA Started ==
  ASSUME KbTypes, NEW w \in Readers, NEW s \in KbSources,
         rd' = [rd EXCEPT ![w] = [NoRead EXCEPT !.step = "lock", !.s = s, !.src = source[s]]]
  PROVE  /\ Others(w) /\ rd'[w].step = "lock" /\ rd'[w].end = "ready" /\ rd'[w].s = s
         /\ rd'[w].src = source[s] /\ rd'[w].run = 0
<1>1. source[s] \in SourceType /\ NoRead \in RdType
  BY EmptyRecords DEF KbTypes
<1>2. PICK v : v = [NoRead EXCEPT !.step = "lock", !.s = s, !.src = source[s]]
  OBVIOUS
<1>3. v \in RdType /\ v.step = "lock" /\ v.end = "ready" /\ v.s = s /\ v.src = source[s] /\ v.run = 0
  BY <1>1, <1>2 DEF RdType, RdSteps, NoRead
<1>4. rd' = [rd EXCEPT ![w] = v]
  BY <1>2
<1> QED BY <1>3, <1>4 DEF KbTypes, Others

LEMMA Begun ==
  ASSUME KbTypes, NEW w \in Readers, BeginSlice(w)
  PROVE  /\ Others(w) /\ SameJob(w) /\ rd'[w].step = "page" /\ rd'[w].end = rd[w].end
         /\ rd'[w].run = IF rd[w].src.run = 0 THEN runs + 1 ELSE rd[w].src.run
         /\ Kind(rd[w].s) # "url" => rd'[w].todo = rd[w].src.crawl
<1>1. PICK n, todo : /\ n = (IF rd[w].src.run = 0 THEN runs' ELSE rd[w].src.run)
                    /\ todo = IF Kind(rd[w].s) = "url" THEN {p \in Pages : \A q \in Pages : p <= q}
                              ELSE rd[w].src.crawl
  OBVIOUS
<1>2. rd' = [rd EXCEPT ![w].step = "page", ![w].run = n, ![w].todo = todo]
  BY <1>1 DEF BeginSlice
<1>3. n \in Nat /\ n = (IF rd[w].src.run = 0 THEN runs + 1 ELSE rd[w].src.run) /\ todo \subseteq Pages
  BY <1>1 DEF BeginSlice, KbTypes, RdType, SourceType
<1>4. rd \in [Readers -> RdType] /\ "page" \in RdSteps
  BY DEF KbTypes, RdSteps, HoldingSteps
<1>5. PICK v \in RdType : /\ v.step = "page" /\ v.run = n /\ v.todo = todo /\ v.s = rd[w].s
                         /\ v.src = rd[w].src /\ v.end = rd[w].end
                         /\ v = [rd[w] EXCEPT !.step = "page", !.run = n, !.todo = todo]
  BY <1>3, <1>4 DEF RdType
<1>6. rd' = [rd EXCEPT ![w] = v]
  BY <1>2, <1>4, <1>5
<1> QED BY <1>1, <1>3, <1>4, <1>5, <1>6 DEF Others, SameJob
(* The outcomes of a page.                                                 *)
Skips(w, p) ==
  /\ rd'[w].step = "page" /\ rd'[w].todo = rd[w].todo \ {p} /\ rd'[w].end = rd[w].end
  /\ Kind(rd[w].s) = "crawl" \/ ~doc[rd[w].s][p].has
  /\ UNCHANGED <<doc, got>>
Knows(w, p) ==
  /\ rd'[w].step = "page" /\ rd'[w].todo = rd[w].todo \ {p} /\ rd'[w].end = rd[w].end
  /\ doc[rd[w].s][p].hash = site[rd[w].s][p] /\ site[rd[w].s][p] # 0
  /\ got' = [got EXCEPT ![rd[w].s][p] = site[rd[w].s][p]]
  /\ doc' = [doc EXCEPT ![rd[w].s][p].run = rd[w].run]
Fails(w) ==
  /\ rd'[w].step = "finish" /\ rd'[w].end \in {"failed", "partial"} /\ UNCHANGED <<doc, got>>
Learns(w, p) ==
  /\ rd'[w].step = "embed" /\ rd'[w].todo = rd[w].todo \ {p} /\ rd'[w].end = rd[w].end
  /\ rd'[w].page = p /\ rd'[w].ver = site[rd[w].s][p] /\ site[rd[w].s][p] # 0
  /\ got' = [got EXCEPT ![rd[w].s][p] = site[rd[w].s][p]] /\ UNCHANGED doc
  /\ Cardinality(AllChunks) + (IF doc[rd[w].s][p].hash = 0 THEN 1 ELSE 0) <= kcase.plan

(* Reading a page has one of these outcomes.                               *)
LEMMA PageRead ==
  ASSUME KbTypes, Plain, NEW w \in Readers, ReadPage(w)
  PROVE  /\ rd[w].step = "page" /\ Others(w) /\ SameJob(w) /\ rd'[w].run = rd[w].run
         /\ \E p \in rd[w].todo : Skips(w, p) \/ Knows(w, p) \/ Fails(w) \/ Learns(w, p)
<1>1. PICK s \in KbSources : s = rd[w].s
  BY DEF KbTypes, RdType
<1>2. PICK p : p = CHOOSE q \in rd[w].todo : \A o \in rd[w].todo : q <= o
  OBVIOUS
<1>3. rd[w].todo # {} /\ rd[w].todo \subseteq Pages /\ rd[w].step = "page"
  BY DEF ReadPage, RdAt, KbTypes, RdType
<1>4. p \in rd[w].todo /\ p \in Pages
  BY <1>2, <1>3, LeastPage
<1>5. PICK v : v = site[s][p]
  OBVIOUS
<1>6. /\ v \in Nat /\ doc[s][p] \in DocType
      /\ ~Refetchable(s) => v # 0
  <2>1. PlainSource(s)
    BY DEF Plain
  <2>2. site[s] \in [Pages -> Nat] /\ doc[s] \in [Pages -> DocType]
    BY DEF KbTypes
  <2> QED BY <1>4, <1>5, <2>1, <2>2 DEF PlainSource
<1>7. rd \in [Readers -> RdType] /\ p \in Nat
  BY <1>4, KbPagesAssumption DEF KbTypes
<1>8. PICK next : next = [rd[w] EXCEPT !.todo = rd[w].todo \ {p}, !.fetched = TRUE]
  OBVIOUS
<1>9. next \in RdType /\ \A e : [next EXCEPT !.step = "embed", !.page = p, !.ver = v] \in RdType
  BY <1>3, <1>6, <1>7, <1>8 DEF RdType, RdSteps, HoldingSteps
<1>10. PICK there \in BOOLEAN : there = IF Refetchable(s) THEN v # 0 ELSE doc[s][p].has
  BY <1>6 DEF DocType
<1>11. there => v # 0
  BY <1>6, <1>10
<1>12. CASE Fails(w) /\ Others(w) /\ SameWork(w)
  BY <1>3, <1>4, <1>12 DEF SameWork
<1>13. CASE Ends(w, "failed") /\ UNCHANGED <<doc, got>>
  BY <1>12, <1>13, EndStepped DEF Ends, RdSteps, HoldingSteps, Fails
<1>14. CASE Ends(w, "partial") /\ UNCHANGED <<doc, got>>
  BY <1>12, <1>14, EndStepped DEF Ends, RdSteps, HoldingSteps, Fails
<1>15. /\ next.step = "page" /\ next.todo = rd[w].todo \ {p} /\ next.end = rd[w].end
       /\ next.s = rd[w].s /\ next.src = rd[w].src /\ next.run = rd[w].run
  BY <1>3, <1>7, <1>8 DEF RdType
<1>16. ASSUME rd' = [rd EXCEPT ![w] = next] PROVE Others(w) /\ rd'[w] = next
  BY <1>7, <1>9, <1>16 DEF Others
<1>17. CASE ~there /\ Kind(s) # "url" /\ rd' = [rd EXCEPT ![w] = next] /\ UNCHANGED <<doc, got>>
  <2>1. Kind(s) = "crawl" \/ ~doc[s][p].has
    BY <1>10, <1>17 DEF Refetchable
  <2> QED BY <1>1, <1>3, <1>4, <1>15, <1>16, <1>17, <2>1 DEF Skips, SameJob
<1>18. CASE /\ there /\ doc[s][p].hash = v
            /\ rd' = [rd EXCEPT ![w] = next] /\ got' = [got EXCEPT ![s][p] = v]
            /\ doc' = [doc EXCEPT ![s][p].run = rd[w].run]
  BY <1>1, <1>3, <1>4, <1>5, <1>11, <1>15, <1>16, <1>18 DEF Knows, SameJob
<1>19. CASE /\ there /\ Cardinality(AllChunks) + (IF doc[s][p].hash = 0 THEN 1 ELSE 0) <= kcase.plan
            /\ rd' = [rd EXCEPT ![w] = [next EXCEPT !.step = "embed", !.page = p, !.ver = v]]
            /\ got' = [got EXCEPT ![s][p] = v] /\ UNCHANGED doc
  <2>1. PICK e \in RdType : e = [next EXCEPT !.step = "embed", !.page = p, !.ver = v]
    BY <1>9
  <2>2. /\ e.step = "embed" /\ e.todo = rd[w].todo \ {p} /\ e.end = rd[w].end /\ e.page = p /\ e.ver = v
        /\ e.s = rd[w].s /\ e.src = rd[w].src /\ e.run = rd[w].run
    BY <1>7, <1>8, <1>9, <2>1 DEF RdType
  <2>3. Others(w) /\ rd'[w] = e
    BY <1>7, <1>19, <2>1 DEF Others
  <2> QED BY <1>1, <1>3, <1>4, <1>5, <1>11, <1>19, <2>2, <2>3 DEF Learns, SameJob
<1> QED BY <1>1, <1>2, <1>5, <1>8, <1>10, <1>13, <1>14, <1>17, <1>18, <1>19 DEF ReadPage

(* The step of a worker keeps the types.                                   *)
LEMMA ReaderRecords ==
  ASSUME KbTypes, Plain, NEW w \in Readers, ReaderActs(w)
  PROVE  rd' \in [Readers -> RdType]
<1>1. rd \in [Readers -> RdType]
  BY DEF KbTypes
<1>2. \A step \in {"begin", "clear", "fill", "page", "drop docs", "drop", "finish", "unlock", "again"} :
        RdTo(w, step) => rd' \in [Readers -> RdType]
  BY ReaderStepped DEF Others, RdSteps, HoldingSteps
<1>3. RdEnds(w) => rd' \in [Readers -> RdType]
  BY ReadEnded DEF Others
<1>4. \A e \in {"failed", "ready"} : Ends(w, e) => rd' \in [Readers -> RdType]
  BY EndStepped DEF Others, Ends, RdSteps, HoldingSteps
<1>5. CASE \E s \in KbSources : run_source(w, s)
  <2>1. PICK s \in KbSources : run_source(w, s)
    BY <1>5
  <2>2. CASE Exists(s)
    BY <2>1, <2>2, Started DEF run_source, Others
  <2>3. CASE ~Exists(s)
    BY <1>1, <2>1, <2>3 DEF run_source
  <2> QED BY <2>2, <2>3
<1>6. CASE BeginSlice(w) \/ ReadPage(w)
  BY <1>6, Begun, PageRead DEF Others
<1>7. CASE StoreCrawlState(w)
  BY <1>7, EndStepped DEF StoreCrawlState, Others, RdSteps, HoldingSteps
<1>8. CASE PagesDone(w)
  <2>1. RdTo(w, IF Refetchable(rd[w].s) THEN "drop" ELSE "finish") \/ Ends(w, "failed")
    BY <1>8 DEF PagesDone
  <2>2. RdTo(w, "drop") \/ RdTo(w, "finish") \/ Ends(w, "failed")
    <3>1. CASE Refetchable(rd[w].s)
      BY <2>1, <3>1 DEF RdTo
    <3>2. CASE ~Refetchable(rd[w].s)
      BY <2>1, <3>2 DEF RdTo
    <3> QED BY <3>1, <3>2
  <2> QED BY <1>2, <1>4, <2>2
<1> QED BY <1>2, <1>3, <1>4, <1>5, <1>6, <1>7, <1>8 DEF ReaderActs, ReaderStep, TakeLock,
     UpsertDocument, DeleteChunks,
       InsertChunks, DropChunks, DropDocuments, _finish, Unlock, EnqueueNextSlice, EmbeddingFails,
       InsertFails, ReaderDies

LEMMA ReaderSource ==
  ASSUME KbTypes, Plain, NEW w \in Readers, ReaderActs(w)
  PROVE  source' \in [KbSources -> SourceType]
<1>1. source \in [KbSources -> SourceType] /\ NoSource \in SourceType /\ rd[w] \in RdType
        /\ runs \in Nat
  BY EmptyRecords DEF KbTypes
<1>2. rd[w].s \in KbSources /\ source[rd[w].s] \in SourceType
  BY <1>1 DEF RdType
<1>3. CASE source' = source
  BY <1>1, <1>3
<1>4. CASE BeginSlice(w)
  <2>1. rd'[w].run \in Nat
    BY <1>1, <1>4, Begun DEF RdType, SourceType
  <2>2. CASE source' = [source EXCEPT ![rd[w].s].status = "processing", ![rd[w].s].run = rd'[w].run]
    <3>1. PICK n \in Nat : n = rd'[w].run
      BY <2>1
    <3>2. PICK v \in SourceType : v = [source[rd[w].s] EXCEPT !.status = "processing", !.run = n]
      BY <1>2 DEF SourceType, KbStatus
    <3>3. source' = [source EXCEPT ![rd[w].s] = v]
      BY <1>1, <1>2, <2>2, <3>1, <3>2
    <3> QED BY <1>1, <3>3
  <2> QED BY <1>3, <1>4, <2>2 DEF BeginSlice
<1>5. CASE StoreCrawlState(w)
  <2>1. rd[w].todo \subseteq Pages
    BY <1>1 DEF RdType
  <2>2. source' = source \/ source' = [source EXCEPT ![rd[w].s].crawl = rd[w].todo]
    BY <1>5 DEF StoreCrawlState
  <2> QED BY <1>1, <1>2, <2>1, <2>2 DEF SourceType
<1>6. CASE _finish(w)
  <2>1. rd[w].end \in KbStatus
    BY <1>1 DEF RdType, KbStatus
  <2>2. \A n \in {"later", "no"} : [NoSource EXCEPT !.status = rd[w].end, !.next = n] \in SourceType
    BY <1>1, <2>1 DEF SourceType
  <2>3. \/ source' = source
        \/ \E n \in {"later", "no"} : source' = [source EXCEPT ![rd[w].s] = [NoSource EXCEPT !.status = rd[w].end, !.next = n]]
    BY <1>6 DEF _finish
  <2> QED BY <1>1, <2>2, <2>3
<1> QED BY <1>3, <1>4, <1>5, <1>6 DEF ReaderActs, ReaderStep, run_source, ReadPage, PagesDone, TakeLock,
       UpsertDocument, DeleteChunks, InsertChunks, DropChunks, DropDocuments, Unlock, EnqueueNextSlice,
       EmbeddingFails, InsertFails, ReaderDies

LEMMA ReaderMore ==
  ASSUME KbTypes, Plain, [KbNext]_kbVars, NEW w \in Readers, ReaderActs(w)
  PROVE  KbTypes'
<1>1. /\ rd[w].s \in KbSources /\ doc \in [KbSources -> [Pages -> DocType]] /\ NoDoc \in DocType
      /\ chunks \in [KbSources -> [Pages -> SUBSET Nat]] /\ got \in [KbSources -> [Pages -> Nat]]
      /\ rd[w].run \in Nat /\ rd[w].ver \in Nat /\ rd[w].todo \subseteq Pages /\ rd[w].page \in Nat
      /\ site \in [KbSources -> [Pages -> Nat]] /\ ingests \in [KbSources -> Nat]
  BY EmptyRecords DEF KbTypes, RdType
<1>2. doc' \in [KbSources -> [Pages -> DocType]]
  <2>1. CASE doc' = doc
    BY <1>1, <2>1
  <2>2. CASE ReadPage(w) /\ doc' # doc
    <3>0. PICK p \in rd[w].todo : Skips(w, p) \/ Knows(w, p) \/ Fails(w) \/ Learns(w, p)
      BY <2>2, PageRead
    <3>1. Knows(w, p)
      BY <2>2, <3>0 DEF Skips, Fails, Learns
    <3>2. doc' = [doc EXCEPT ![rd[w].s][p].run = rd[w].run] /\ p \in Pages
      BY <1>1, <3>1 DEF Knows
    <3>3. PICK s \in KbSources : s = rd[w].s
      BY <1>1
    <3>4. doc[s] \in [Pages -> DocType] /\ doc[s][p] \in DocType
      BY <1>1, <3>2
    <3>5. PICK d \in DocType : d = [doc[s][p] EXCEPT !.run = rd[w].run]
      BY <1>1, <3>4 DEF DocType
    <3>6. PICK f \in [Pages -> DocType] : f = [doc[s] EXCEPT ![p] = d]
      BY <3>2, <3>4
    <3>7. doc' = [doc EXCEPT ![s] = f]
      BY <3>2, <3>3, <3>5, <3>6
    <3> QED BY <1>1, <3>7
  <2>3. CASE UpsertDocument(w)
    <3>1. [has |-> TRUE, hash |-> rd[w].ver, run |-> rd[w].run] \in DocType
      BY <1>1 DEF DocType
    <3> QED BY <1>1, <2>3, <3>1 DEF UpsertDocument
  <2>4. CASE DropDocuments(w)
    BY <1>1, <2>4 DEF DropDocuments
  <2> QED BY <2>1, <2>2, <2>3, <2>4 DEF ReaderActs, ReaderStep, run_source, BeginSlice, PagesDone,
       StoreCrawlState, TakeLock, DeleteChunks, InsertChunks, DropChunks, _finish, Unlock,
       EnqueueNextSlice, EmbeddingFails, InsertFails, ReaderDies
<1>3. chunks' \in [KbSources -> [Pages -> SUBSET Nat]]
  <2>1. CASE chunks' = chunks
    BY <1>1, <2>1
  <2>2. CASE DeleteChunks(w)
    BY <1>1, <2>2 DEF DeleteChunks
  <2>3. CASE InsertChunks(w)
    BY <1>1, <2>3 DEF InsertChunks
  <2>4. CASE DropChunks(w)
    BY <1>1, <2>4 DEF DropChunks
  <2> QED BY <2>1, <2>2, <2>3, <2>4 DEF ReaderActs, ReaderStep, run_source, BeginSlice, PagesDone,
       ReadPage,
       UpsertDocument, StoreCrawlState, TakeLock, DropDocuments, _finish, Unlock,
       EnqueueNextSlice, EmbeddingFails, InsertFails, ReaderDies
<1>4. got' \in [KbSources -> [Pages -> Nat]]
  <2>1. CASE got' = got
    BY <1>1, <2>1
  <2>2. CASE got' = [got EXCEPT ![rd[w].s] = Nothing]
    BY <1>1, <2>2 DEF Nothing
  <2>3. CASE \E p \in Pages : got' = [got EXCEPT ![rd[w].s][p] = site[rd[w].s][p]]
    BY <1>1, <2>3
  <2>4. CASE ReadPage(w)
    <3>0. PICK p \in rd[w].todo : Skips(w, p) \/ Knows(w, p) \/ Fails(w) \/ Learns(w, p)
      BY <2>4, PageRead
    <3>1. got' = got \/ got' = [got EXCEPT ![rd[w].s][p] = site[rd[w].s][p]]
      BY <3>0 DEF Skips, Knows, Fails, Learns
    <3> QED BY <1>1, <2>1, <2>3, <3>1
  <2> QED BY <2>1, <2>2, <2>4 DEF ReaderActs, ReaderStep, run_source, BeginSlice, PagesDone,
       UpsertDocument,
       StoreCrawlState, TakeLock, DeleteChunks, InsertChunks, DropChunks, DropDocuments, _finish,
       Unlock,
       EnqueueNextSlice, EmbeddingFails, InsertFails, ReaderDies
<1>5. ingests' \in [KbSources -> Nat]
  <2>1. \/ ingests' = ingests \/ ingests' = [ingests EXCEPT ![rd[w].s] = @ + 1]
        \/ \E s \in KbSources : ingests[s] > 0 /\ ingests' = [ingests EXCEPT ![s] = @ - 1]
    BY DEF ReaderActs, ReaderStep, run_source, BeginSlice, PagesDone, ReadPage, UpsertDocument,
       StoreCrawlState, TakeLock, DeleteChunks, InsertChunks, DropChunks, DropDocuments, _finish,
       Unlock,
       EnqueueNextSlice, EmbeddingFails, InsertFails, ReaderDies
  <2>2. CASE \E s \in KbSources : ingests[s] > 0 /\ ingests' = [ingests EXCEPT ![s] = @ - 1]
    <3>1. PICK s \in KbSources : ingests[s] > 0 /\ ingests' = [ingests EXCEPT ![s] = ingests[s] - 1]
      BY <2>2
    <3>2. ingests[s] - 1 \in Nat
      BY <1>1, <3>1
    <3>3. PICK n \in Nat : n = ingests[s] - 1
      BY <3>2
    <3> QED BY <1>1, <3>1, <3>3
  <2>3. CASE ingests' = ingests
    BY <1>1, <2>3
  <2>4. CASE ingests' = [ingests EXCEPT ![rd[w].s] = @ + 1]
    BY <1>1, <2>4
  <2> QED BY <2>1, <2>2, <2>3, <2>4
<1>6. runs' \in Nat /\ locked' \subseteq KbSources
  <2>1. runs' = runs \/ runs' = runs + 1
    BY DEF ReaderActs, ReaderStep, run_source, BeginSlice, PagesDone, ReadPage, UpsertDocument,
       StoreCrawlState, TakeLock, DeleteChunks, InsertChunks, DropChunks, DropDocuments, _finish,
       Unlock,
       EnqueueNextSlice, EmbeddingFails, InsertFails, ReaderDies
  <2>2. locked' = locked \/ locked' = locked \cup {rd[w].s} \/ locked' = locked \ {rd[w].s}
    BY DEF ReaderActs, ReaderStep, run_source, BeginSlice, PagesDone, ReadPage, UpsertDocument,
       StoreCrawlState, TakeLock, DeleteChunks, InsertChunks, DropChunks, DropDocuments, _finish,
       Unlock,
       EnqueueNextSlice, EmbeddingFails, InsertFails, ReaderDies
  <2> QED BY <1>1, <2>1, <2>2 DEF KbTypes
<1>7. torn' \subseteq KbSources /\ stranded' \subseteq KbSources /\ mixed' \subseteq KbSources
  <2>1. /\ torn' = torn \/ torn' = torn \cup {rd[w].s}
        /\ stranded' = stranded \/ stranded' = stranded \cup {rd[w].s}
        /\ mixed' = mixed \/ \E s \in KbSources : mixed' = mixed \cup {s}
    BY DEF ReaderActs, ReaderStep, run_source, BeginSlice, PagesDone, ReadPage, UpsertDocument,
       StoreCrawlState, TakeLock, DeleteChunks, InsertChunks, DropChunks, DropDocuments, _finish,
       Unlock,
       EnqueueNextSlice, EmbeddingFails, InsertFails, ReaderDies
  <2> QED BY <1>1, <2>1 DEF KbTypes
<1>8. UNCHANGED <<site, auto_refresh, clerk>>
  BY DEF callSide, ReaderActs, ReaderStep, run_source, BeginSlice, PagesDone, ReadPage, UpsertDocument,
       StoreCrawlState, TakeLock, DeleteChunks, InsertChunks, DropChunks, DropDocuments, _finish,
       Unlock,
       EnqueueNextSlice, EmbeddingFails, InsertFails, ReaderDies
<1> QED BY <1>2, <1>3, <1>4, <1>5, <1>6, <1>7, <1>8, ReaderRecords, ReaderSource, StepCosts DEF KbTypes

LEMMA KbTypesStep ==
  ASSUME KbTypes, Plain, [KbNext]_kbVars
  PROVE  KbTypes'
  BY KbSplit, ClerkMore, OtherTypes, ReaderMore
-----------------------------------------------------------------------------
(* Who writes what *)

(* Which steps write a source, its documents and its chunks.               *)
LEMMA ReaderWrites ==
  ASSUME NEW w \in Readers, ReaderActs(w)
  PROVE  /\ source' = source \/ BeginSlice(w) \/ StoreCrawlState(w) \/ _finish(w)
         /\ doc' = doc \/ ReadPage(w) \/ UpsertDocument(w) \/ DropDocuments(w)
         /\ chunks' = chunks \/ DeleteChunks(w) \/ InsertChunks(w) \/ DropChunks(w)
         /\ got' = got \/ BeginSlice(w) \/ ReadPage(w)
         /\ ingests' = ingests \/ EnqueueNextSlice(w) \/ \E s \in KbSources : run_source(w, s)
         /\ locked' = locked \/ TakeLock(w) \/ Unlock(w)
         /\ runs' = runs \/ BeginSlice(w)
         /\ torn \subseteq torn' /\ mixed \subseteq mixed'
         /\ mixed' = mixed \/ \E s \in KbSources : run_source(w, s)
         /\ UNCHANGED <<site, clerk>>
<1>1. source' = source \/ BeginSlice(w) \/ StoreCrawlState(w) \/ _finish(w)
  BY DEF ReaderActs, ReaderStep, run_source, BeginSlice, PagesDone, ReadPage, UpsertDocument,
       StoreCrawlState, TakeLock, DeleteChunks, InsertChunks, DropChunks, DropDocuments, _finish,
       Unlock,
       EnqueueNextSlice, EmbeddingFails, InsertFails, ReaderDies
<1>2. doc' = doc \/ ReadPage(w) \/ UpsertDocument(w) \/ DropDocuments(w)
  BY DEF ReaderActs, ReaderStep, run_source, BeginSlice, PagesDone, ReadPage, UpsertDocument,
       StoreCrawlState, TakeLock, DeleteChunks, InsertChunks, DropChunks, DropDocuments, _finish,
       Unlock,
       EnqueueNextSlice, EmbeddingFails, InsertFails, ReaderDies
<1>3. chunks' = chunks \/ DeleteChunks(w) \/ InsertChunks(w) \/ DropChunks(w)
  BY DEF ReaderActs, ReaderStep, run_source, BeginSlice, PagesDone, ReadPage, UpsertDocument,
       StoreCrawlState, TakeLock, DeleteChunks, InsertChunks, DropChunks, DropDocuments, _finish,
       Unlock,
       EnqueueNextSlice, EmbeddingFails, InsertFails, ReaderDies
<1>4. got' = got \/ BeginSlice(w) \/ ReadPage(w)
  BY DEF ReaderActs, ReaderStep, run_source, BeginSlice, PagesDone, ReadPage, UpsertDocument,
       StoreCrawlState, TakeLock, DeleteChunks, InsertChunks, DropChunks, DropDocuments, _finish,
       Unlock,
       EnqueueNextSlice, EmbeddingFails, InsertFails, ReaderDies
<1>5. ingests' = ingests \/ EnqueueNextSlice(w) \/ \E s \in KbSources : run_source(w, s)
  BY DEF ReaderActs, ReaderStep, run_source, BeginSlice, PagesDone, ReadPage, UpsertDocument,
       StoreCrawlState, TakeLock, DeleteChunks, InsertChunks, DropChunks, DropDocuments, _finish,
       Unlock,
       EnqueueNextSlice, EmbeddingFails, InsertFails, ReaderDies
<1>6. locked' = locked \/ TakeLock(w) \/ Unlock(w)
  BY DEF ReaderActs, ReaderStep, run_source, BeginSlice, PagesDone, ReadPage, UpsertDocument,
       StoreCrawlState, TakeLock, DeleteChunks, InsertChunks, DropChunks, DropDocuments, _finish,
       Unlock,
       EnqueueNextSlice, EmbeddingFails, InsertFails, ReaderDies
<1>7. runs' = runs \/ BeginSlice(w)
  BY DEF ReaderActs, ReaderStep, run_source, BeginSlice, PagesDone, ReadPage, UpsertDocument,
       StoreCrawlState, TakeLock, DeleteChunks, InsertChunks, DropChunks, DropDocuments, _finish,
       Unlock,
       EnqueueNextSlice, EmbeddingFails, InsertFails, ReaderDies
<1>8. torn \subseteq torn' /\ mixed \subseteq mixed'
  BY DEF ReaderActs, ReaderStep, run_source, BeginSlice, PagesDone, ReadPage, UpsertDocument,
       StoreCrawlState, TakeLock, DeleteChunks, InsertChunks, DropChunks, DropDocuments, _finish,
       Unlock,
       EnqueueNextSlice, EmbeddingFails, InsertFails, ReaderDies
<1>9. mixed' = mixed \/ \E s \in KbSources : run_source(w, s)
  BY DEF ReaderActs, ReaderStep, run_source, BeginSlice, PagesDone, ReadPage, UpsertDocument,
       StoreCrawlState, TakeLock, DeleteChunks, InsertChunks, DropChunks, DropDocuments, _finish,
       Unlock,
       EnqueueNextSlice, EmbeddingFails, InsertFails, ReaderDies
<1>10. UNCHANGED <<site, clerk>>
  BY DEF callSide, ReaderActs, ReaderStep, run_source, BeginSlice, PagesDone, ReadPage, UpsertDocument,
       StoreCrawlState, TakeLock, DeleteChunks, InsertChunks, DropChunks, DropDocuments, _finish,
       Unlock,
       EnqueueNextSlice, EmbeddingFails, InsertFails, ReaderDies
<1> QED BY <1>1, <1>2, <1>3, <1>4, <1>5, <1>6, <1>7, <1>8, <1>9, <1>10

LEMMA ClerkWrites ==
  ASSUME NEW c \in Clerks, ClerkActs(c)
  PROVE  /\ doc' = doc \/ StoreTexts(c) \/ (DeleteStep(c) /\ CallAt(c, "docs"))
         /\ chunks' = chunks \/ (DeleteStep(c) /\ CallAt(c, "chunks"))
         /\ torn \subseteq torn' /\ mixed \subseteq mixed'
         /\ UNCHANGED <<site, rd, got, locked, runs>>
<1>1. doc' = doc \/ StoreTexts(c) \/ (DeleteStep(c) /\ CallAt(c, "docs"))
  BY DEF ClerkActs, ClerkStep, StoreTexts, enqueue_ingest, ResetSource,
       DeleteStep, ClerkDies, _create_source, resync_source, delete_source, refresh_due_kb_sources
<1>2. chunks' = chunks \/ (DeleteStep(c) /\ CallAt(c, "chunks"))
  BY DEF ClerkActs, ClerkStep, StoreTexts, enqueue_ingest, ResetSource,
       DeleteStep, ClerkDies, _create_source, resync_source, delete_source, refresh_due_kb_sources
<1>3. torn \subseteq torn' /\ mixed \subseteq mixed'
  BY DEF readSide, ClerkActs, ClerkStep, StoreTexts, enqueue_ingest, ResetSource,
       DeleteStep, ClerkDies, _create_source, resync_source, delete_source, refresh_due_kb_sources
<1>4. UNCHANGED <<site, rd, got, locked, runs>>
  BY DEF readSide, ClerkActs, ClerkStep, StoreTexts, enqueue_ingest, ResetSource,
       DeleteStep, ClerkDies, _create_source, resync_source, delete_source, refresh_due_kb_sources
<1> QED BY <1>1, <1>2, <1>3, <1>4

LEMMA OtherWrites ==
  ASSUME OtherActs \/ UNCHANGED kbVars
  PROVE  /\ UNCHANGED <<doc, chunks, rd, clerk, got, runs, ingests, torn>> /\ mixed \subseteq mixed'
         /\ source' = source \/ update_kb \/ \E s \in KbSources : DayPasses(s)
         /\ site' = site \/ \E s \in KbSources, p \in Pages : PageChanges(s, p)
         /\ locked' \subseteq locked
  BY DEF OtherActs, kbVars, update_kb, DayPasses, LockEnds, PageChanges, readSide, callSide

(* What a writer makes of a source.                                        *)
LEMMA SourceBegun ==
  ASSUME KbTypes, NEW w \in Readers, BeginSlice(w)
  PROVE  /\ \A u \in KbSources \ {rd[w].s} : source'[u] = source[u]
         /\ Exists(rd[w].s) => /\ source'[rd[w].s].status = "processing"
                               /\ source'[rd[w].s].run = rd'[w].run
                               /\ source'[rd[w].s].crawl = source[rd[w].s].crawl
         /\ ~Exists(rd[w].s) => source' = source
<1>1. source \in [KbSources -> SourceType] /\ rd[w].s \in KbSources
  BY DEF KbTypes, RdType
<1>2. PICK n : n = rd'[w].run
  OBVIOUS
<1>3. source' = IF Exists(rd[w].s) THEN [source EXCEPT ![rd[w].s].status = "processing", ![rd[w].s].run = n] ELSE source
  BY <1>2 DEF BeginSlice
<1>4. CASE Exists(rd[w].s)
  <2>1. PICK s \in KbSources : s = rd[w].s
    BY <1>1
  <2>2. PICK v : v = [source[s] EXCEPT !.status = "processing", !.run = n]
    OBVIOUS
  <2>3. v.status = "processing" /\ v.run = n /\ v.crawl = source[s].crawl
    BY <1>1, <2>2 DEF SourceType
  <2>4. source' = [source EXCEPT ![s] = v]
    BY <1>1, <1>3, <1>4, <2>1, <2>2
  <2> QED BY <1>1, <1>2, <1>4, <2>1, <2>3, <2>4
<1> QED BY <1>3, <1>4

(* What each writer makes of a source's record.                            *)
LEMMA SourceFinished ==
  ASSUME KbTypes, NEW w \in Readers, _finish(w)
  PROVE  /\ \A u \in KbSources \ {rd[w].s} : source'[u] = source[u]
         /\ Exists(rd[w].s) => /\ source'[rd[w].s].status = rd[w].end
                               /\ source'[rd[w].s].run = 0 /\ source'[rd[w].s].crawl = Pages
         /\ ~Exists(rd[w].s) => source' = source
<1>1. source \in [KbSources -> SourceType] /\ rd[w].s \in KbSources
  BY DEF KbTypes, RdType
<1>2. PICK v : v = [NoSource EXCEPT !.status = rd[w].end,
                            !.next = IF auto_refresh /\ Refetchable(rd[w].s) THEN "later" ELSE "no"]
  OBVIOUS
<1>3. v.status = rd[w].end /\ v.run = 0 /\ v.crawl = Pages
  BY <1>2 DEF NoSource
<1>4. source' = IF Exists(rd[w].s) THEN [source EXCEPT ![rd[w].s] = v] ELSE source
  BY <1>2 DEF _finish
<1> QED BY <1>1, <1>3, <1>4

LEMMA SourceCrawled ==
  ASSUME KbTypes, NEW w \in Readers, StoreCrawlState(w)
  PROVE  /\ \A u \in KbSources \ {rd[w].s} : source'[u] = source[u]
         /\ source'[rd[w].s].status = source[rd[w].s].status
         /\ source'[rd[w].s].run = source[rd[w].s].run
         /\ Kind(rd[w].s) = "crawl"
<1>1. source \in [KbSources -> SourceType] /\ rd[w].s \in KbSources
  BY DEF KbTypes, RdType
<1>2. source' = source \/ source' = [source EXCEPT ![rd[w].s].crawl = rd[w].todo]
  BY DEF StoreCrawlState
<1> QED BY <1>1, <1>2 DEF StoreCrawlState, SourceType

LEMMA SourceReset ==
  ASSUME KbTypes, NEW c \in Clerks, ResetSource(c)
  PROVE  /\ \A u \in KbSources \ {clerk[c].s} : source'[u] = source[u]
         /\ Exists(clerk[c].s) => /\ source'[clerk[c].s].status = "queued"
                                  /\ source'[clerk[c].s].run = 0 /\ source'[clerk[c].s].crawl = Pages
         /\ ~Exists(clerk[c].s) => source' = source
<1>1. source \in [KbSources -> SourceType] /\ clerk[c].s \in KbSources
  BY DEF KbTypes, ClerkType
<1>2. PICK v : v = [NoSource EXCEPT !.status = "queued", !.next = source[clerk[c].s].next]
  OBVIOUS
<1>3. v.status = "queued" /\ v.run = 0 /\ v.crawl = Pages
  BY <1>2 DEF NoSource
<1>4. source' = IF Exists(clerk[c].s) THEN [source EXCEPT ![clerk[c].s] = v] ELSE source
  BY <1>2 DEF ResetSource
<1> QED BY <1>1, <1>3, <1>4

LEMMA SourceOther ==
  ASSUME KbTypes, OtherActs \/ UNCHANGED kbVars
  PROVE  \A s \in KbSources : /\ source'[s].status = source[s].status
                              /\ source'[s].run = source[s].run
                              /\ source'[s].crawl = source[s].crawl
<1> SUFFICES ASSUME NEW s \in KbSources
             PROVE  /\ source'[s].status = source[s].status /\ source'[s].run = source[s].run
                    /\ source'[s].crawl = source[s].crawl
  OBVIOUS
<1>1. source \in [KbSources -> SourceType]
  BY DEF KbTypes
<1>2. CASE source' = source
  BY <1>2
<1>3. CASE update_kb
  <2>1. source'[s] = source[s] \/ \E n : source'[s] = [source[s] EXCEPT !.next = n]
    BY <1>3 DEF update_kb
  <2> QED BY <1>1, <2>1 DEF SourceType
<1>4. CASE \E u \in KbSources : DayPasses(u)
  <2>1. PICK u \in KbSources : source' = [source EXCEPT ![u].next = "due"]
    BY <1>4 DEF DayPasses
  <2> QED BY <1>1, <2>1 DEF SourceType
<1> QED BY <1>2, <1>3, <1>4, OtherWrites

(* Runs are numbered from the counter, so none is ahead of it.             *)
LEMMA RunsKnownStep ==
  ASSUME KbTypes, Plain, RunsKnown, [KbNext]_kbVars
  PROVE  RunsKnown'
<1>1. ASSUME OtherActs \/ UNCHANGED kbVars PROVE RunsKnown'
  BY <1>1, SourceOther, OtherWrites DEF RunsKnown
<1>2. ASSUME NEW c \in Clerks, ClerkActs(c) PROVE RunsKnown'
  <2>0. runs \in Nat /\ source \in [KbSources -> SourceType] /\ clerk[c].s \in KbSources
        /\ doc \in [KbSources -> [Pages -> DocType]]
    BY DEF KbTypes, ClerkType
  <2>1. \A s \in KbSources : source'[s].run \in {0, source[s].run}
    <3>1. CASE ResetSource(c)
      BY <2>0, <3>1, SourceReset
    <3>2. CASE \E s \in KbSources : source' = [source EXCEPT ![s].status = "queued"]
      BY <2>0, <3>2 DEF SourceType
    <3>3. CASE DeleteStep(c)
      BY <2>0, <3>3 DEF DeleteStep, NoSource
    <3>4. CASE source' = source
      BY <3>4
    <3> QED BY <1>2, <3>1, <3>2, <3>3, <3>4 DEF ClerkActs, ClerkStep, StoreTexts, enqueue_ingest,
         ClerkDies,
         _create_source, resync_source, delete_source, refresh_due_kb_sources
  <2>2. \A s \in KbSources, p \in Pages : doc'[s][p].run \in {0, doc[s][p].run}
    <3>1. CASE doc' = doc
      BY <3>1
    <3>2. CASE StoreTexts(c)
      BY <2>0, <3>2 DEF StoreTexts, NoDoc
    <3>3. CASE DeleteStep(c) /\ CallAt(c, "docs")
      BY <2>0, <3>3 DEF DeleteStep, CallAt, NoDoc
    <3> QED BY <1>2, <3>1, <3>2, <3>3, ClerkWrites
  <2>3. rd' = rd /\ runs' = runs
    BY <1>2, ClerkWrites
  <2>4. \A s \in KbSources : source[s].run \in Nat
    BY <2>0 DEF SourceType
  <2> QED BY <2>0, <2>1, <2>2, <2>3, <2>4 DEF RunsKnown
<1>3. ASSUME NEW w \in Readers, ReaderActs(w) PROVE RunsKnown'
  <2>0. /\ runs \in Nat /\ source \in [KbSources -> SourceType] /\ rd[w].s \in KbSources
        /\ doc \in [KbSources -> [Pages -> DocType]] /\ rd[w] \in RdType
    BY DEF KbTypes, RdType
  <2>1. CASE BeginSlice(w)
    <3>1. runs' = IF rd[w].src.run = 0 THEN runs + 1 ELSE runs
      BY <2>1 DEF BeginSlice
    <3>2. /\ \A x \in Readers : rd'[x].run <= runs' /\ rd'[x].src.run <= runs'
          /\ \A x \in Readers : rd'[x].run \in Nat
      <4>1. \A x \in Readers : rd[x].run \in Nat /\ rd[x].src.run \in Nat
        BY DEF KbTypes, RdType, SourceType
      <4>2. /\ \A x \in Readers \ {w} : rd'[x] = rd[x]
            /\ rd'[w].src = rd[w].src
            /\ rd'[w].run = IF rd[w].src.run = 0 THEN runs + 1 ELSE rd[w].src.run
        BY <2>1, Begun DEF Others, SameJob
      <4>3. \A x \in Readers : rd[x].run <= runs /\ rd[x].src.run <= runs
        BY DEF RunsKnown
      <4>4. rd'[w].run <= runs' /\ rd'[w].src.run <= runs' /\ rd'[w].run \in Nat
        BY <2>0, <3>1, <4>1, <4>2, <4>3
      <4>5. ASSUME NEW x \in Readers \ {w}
            PROVE  rd'[x].run <= runs' /\ rd'[x].src.run <= runs' /\ rd'[x].run \in Nat
        BY <2>0, <3>1, <4>1, <4>2, <4>3
      <4> QED BY <4>4, <4>5
    <3>3. \A s \in KbSources : source'[s].run \in {source[s].run, rd'[w].run}
      BY <2>1, SourceBegun
    <3>4. doc' = doc
      BY <2>1 DEF BeginSlice
    <3>5. \A s \in KbSources : source[s].run \in Nat /\ \A p \in Pages : doc[s][p].run \in Nat
      BY <2>0 DEF SourceType, DocType
    <3> QED BY <2>0, <3>1, <3>2, <3>3, <3>4, <3>5 DEF RunsKnown
  <2>2. CASE ~BeginSlice(w)
    <3>1. runs' = runs
      BY <1>3, <2>2, ReaderWrites
    <3>2. \A s \in KbSources : source'[s].run \in {0, source[s].run}
      BY <1>3, <2>2, ReaderWrites, SourceCrawled, SourceFinished
    <3>3. \A s \in KbSources, p \in Pages : doc'[s][p].run \in {0, doc[s][p].run, rd[w].run}
      <4>1. CASE ReadPage(w)
        <5>1. PICK p \in rd[w].todo : Skips(w, p) \/ Knows(w, p) \/ Fails(w) \/ Learns(w, p)
          BY <4>1, PageRead
        <5>2. CASE Knows(w, p)
          BY <2>0, <5>2 DEF Knows, RdType, DocType
        <5> QED BY <5>1, <5>2 DEF Skips, Fails, Learns
      <4>2. CASE UpsertDocument(w)
        BY <2>0, <4>2 DEF UpsertDocument
      <4>3. CASE DropDocuments(w)
        BY <2>0, <4>3 DEF DropDocuments, NoDoc
      <4> QED BY <1>3, <4>1, <4>2, <4>3, ReaderWrites
    <3>4. \A x \in Readers : rd'[x].run <= runs /\ rd'[x].src.run <= runs
      <4>1. CASE Others(w) /\ SameJob(w) /\ rd'[w].run = rd[w].run
        BY <4>1 DEF Others, SameJob, RunsKnown
      <4>2. CASE RdEnds(w)
        <5>1. NoRead.run = 0 /\ NoRead.src.run = 0 /\ 0 <= runs
          BY <2>0 DEF NoRead, NoSource
        <5>2. rd'[w] = NoRead /\ \A x \in Readers \ {w} : rd'[x] = rd[x]
          BY <4>2, ReadEnded DEF Others
        <5> QED BY <5>1, <5>2 DEF RunsKnown
      <4>3. CASE \E s \in KbSources : run_source(w, s)
        <5>1. PICK s \in KbSources : run_source(w, s)
          BY <4>3
        <5>2. CASE Exists(s)
          <6>1. rd' = [rd EXCEPT ![w] = [NoRead EXCEPT !.step = "lock", !.s = s, !.src = source[s]]]
            BY <5>1, <5>2 DEF run_source
          <6>2. rd'[w].src = source[s] /\ rd'[w].run = 0 /\ \A x \in Readers \ {w} : rd'[x] = rd[x]
            BY <6>1, Started DEF Others
          <6>3. source[s].run <= runs /\ 0 <= runs
            BY <2>0 DEF RunsKnown
          <6> QED BY <6>2, <6>3 DEF RunsKnown
        <5>3. CASE ~Exists(s)
          BY <5>1, <5>3 DEF run_source, RunsKnown
        <5> QED BY <5>2, <5>3
      <4>4. CASE ReadPage(w)
        BY <4>1, <4>4, PageRead
      <4>5. CASE \E step \in {"begin", "clear", "fill", "page", "drop docs", "drop", "finish", "unlock", "again"} : RdTo(w, step)
        BY <4>1, <4>5, ReaderStepped DEF RdSteps, HoldingSteps, SameWork
      <4>6. CASE \E step \in {"finish", "unlock"}, e \in {"failed", "ready", "processing"} :
                   rd' = [rd EXCEPT ![w].step = step, ![w].end = e]
        <5>1. PICK step \in {"finish", "unlock"}, e \in {"failed", "ready", "processing"} :
                     rd' = [rd EXCEPT ![w].step = step, ![w].end = e]
          BY <4>6
        <5>2. step \in RdSteps
          BY DEF RdSteps, HoldingSteps
        <5>3. Others(w) /\ SameWork(w)
          BY <5>1, <5>2, EndStepped
        <5> QED BY <4>1, <5>3 DEF SameWork
      <4>7. CASE PagesDone(w)
        <5>1. RdTo(w, IF Refetchable(rd[w].s) THEN "drop" ELSE "finish") \/ Ends(w, "failed")
          BY <4>7 DEF PagesDone
        <5>2. CASE Ends(w, "failed")
          BY <4>6, <5>2 DEF Ends
        <5>3. CASE Refetchable(rd[w].s) /\ RdTo(w, "drop")
          BY <4>5, <5>3
        <5>4. CASE ~Refetchable(rd[w].s) /\ RdTo(w, "finish")
          BY <4>5, <5>4
        <5> QED BY <5>1, <5>2, <5>3, <5>4 DEF RdTo
      <4> DEFINE Good == \A x \in Readers : rd'[x].run <= runs /\ rd'[x].src.run <= runs
      <4> HIDE DEF Good
      <4>8. CASE TakeLock(w) \/ Unlock(w) \/ EnqueueNextSlice(w) \/ ReaderDies(w)
        <5>1. RdEnds(w) \/ RdTo(w, "begin") \/ RdTo(w, "again")
          BY <4>8 DEF TakeLock, Unlock, EnqueueNextSlice, ReaderDies
        <5> QED BY <4>2, <4>5, <5>1 DEF Good
      <4>9. CASE UpsertDocument(w) \/ DeleteChunks(w) \/ InsertChunks(w) \/ DropChunks(w)
                   \/ DropDocuments(w) \/ _finish(w)
        <5>1. \E step \in {"clear", "fill", "page", "drop docs", "finish", "unlock"} : RdTo(w, step)
          BY <4>9 DEF UpsertDocument, DeleteChunks, InsertChunks, DropChunks, DropDocuments, _finish
        <5> QED BY <4>5, <5>1 DEF Good
      <4>10. CASE StoreCrawlState(w) \/ EmbeddingFails(w) \/ InsertFails(w)
        <5>1. rd' = [rd EXCEPT ![w].step = "unlock", ![w].end = "processing"]
              \/ rd' = [rd EXCEPT ![w].step = "finish", ![w].end = "failed"]
          BY <4>10 DEF StoreCrawlState, EmbeddingFails, InsertFails, Ends
        <5> QED BY <4>6, <5>1 DEF Good
      <4> QED BY <1>3, <2>2, <4>3, <4>4, <4>7, <4>8, <4>9, <4>10 DEF ReaderActs, ReaderStep, Good
    <3>5. 0 <= runs /\ rd[w].run <= runs
      BY <2>0 DEF RunsKnown
    <3>6. \A s \in KbSources : source'[s].run <= runs
      BY <3>2, <3>5 DEF RunsKnown
    <3>7. \A s \in KbSources, p \in Pages : doc'[s][p].run <= runs
      BY <3>3, <3>5 DEF RunsKnown
    <3> QED BY <3>1, <3>4, <3>6, <3>7 DEF RunsKnown
  <2> QED BY <2>1, <2>2
<1> QED BY <1>1, <1>2, <1>3, KbSplit

(* What is the same of a source after the step.                            *)
PagesSame(u) == doc'[u] = doc[u] /\ chunks'[u] = chunks[u] /\ got'[u] = got[u]
KeptState(u) ==
  /\ source'[u].status = source[u].status /\ source'[u].run = source[u].run
  /\ source'[u].crawl = source[u].crawl /\ ingests'[u] = ingests[u]
KeptRest(u) ==
  /\ KeptState(u) /\ PagesSame(u)
  /\ (u \in torn => u \in torn') /\ (u \in mixed => u \in mixed')
  /\ \A c \in Clerks : (clerk[c].s = u /\ clerk[c].step # "idle")
     \/ (clerk'[c].s = u /\ clerk'[c].step # "idle") =>
       clerk'[c] = clerk[c]
KeptSource(u) ==
  /\ KeptRest(u) /\ (u \in locked => u \in locked')
  /\ \A x \in Readers : (rd[x].s = u /\ rd[x].step # "idle")
     \/ (rd'[x].s = u /\ rd'[x].step # "idle") =>
       rd'[x] = rd[x]

ClerkAlone(c, s) ==
  /\ rd' = rd /\ \A d \in Clerks \ {c} : clerk'[d] = clerk[d]
  /\ clerk[c].step = "idle" \/ clerk[c].s = s
  /\ clerk'[c].step = "idle" \/ clerk'[c].s = s
  /\ \A u \in KbSources \ {s} : KeptSource(u)

(* What is known of a request.                                             *)
LEMMA CallTypes ==
  ASSUME KbTypes, NEW c \in Clerks
  PROVE  /\ clerk \in [Clerks -> ClerkType] /\ clerk[c] \in ClerkType /\ clerk[c].s \in KbSources
         /\ NoCall.step = "idle"
         /\ \A step, s : [step |-> step, s |-> s].s = s /\ [step |-> step, s |-> s].step = step
         /\ \A step : CallTo(c, step) =>
              /\ clerk'[c].s = clerk[c].s /\ clerk'[c].step = step
              /\ \A d \in Clerks \ {c} : clerk'[d] = clerk[d]
         /\ CallEnds(c) => clerk'[c] = NoCall /\ \A d \in Clerks \ {c} : clerk'[d] = clerk[d]
         /\ \A step, s : Calls(c, step, s) =>
              /\ clerk[c] = NoCall /\ clerk'[c].s = s /\ clerk'[c].step = step
              /\ \A d \in Clerks \ {c} : clerk'[d] = clerk[d]
<1>1. clerk \in [Clerks -> ClerkType]
  BY DEF KbTypes
<1>2. clerk[c] \in ClerkType /\ clerk[c].s \in KbSources
  BY <1>1 DEF ClerkType
<1>3. ASSUME NEW step, CallTo(c, step)
      PROVE  clerk'[c].s = clerk[c].s /\ clerk'[c].step = step
        /\ \A d \in Clerks \ {c} : clerk'[d] = clerk[d]
  BY <1>1, <1>3 DEF CallTo, ClerkType
<1>4. ASSUME NEW step, NEW s, Calls(c, step, s)
      PROVE  /\ clerk[c] = NoCall /\ clerk'[c].s = s /\ clerk'[c].step = step
             /\ \A d \in Clerks \ {c} : clerk'[d] = clerk[d]
  BY <1>1, <1>4 DEF Calls
<1>5. ASSUME CallEnds(c)
      PROVE  clerk'[c] = NoCall /\ \A d \in Clerks \ {c} : clerk'[d] = clerk[d]
  BY <1>1, <1>5 DEF CallEnds
<1>6. NoCall.step = "idle"
  BY DEF NoCall
<1> QED BY <1>1, <1>2, <1>3, <1>4, <1>5, <1>6

(* A clerk's step is about one source.                                     *)
LEMMA ClerkApart ==
  ASSUME KbTypes, NEW c \in Clerks,
         \/ ClerkStep(c) /\ clerk[c].step # "idle"
         \/ ClerkDies(c) /\ clerk[c].step # "idle"
  PROVE  ClerkAlone(c, clerk[c].s)
<1>1. PICK s \in KbSources : s = clerk[c].s
  BY CallTypes
<1>2. /\ clerk' [c].step = "idle" \/ clerk'[c].s = s
      /\ \A d \in Clerks \ {c} : clerk'[d] = clerk[d]
  BY <1>1, CallTypes DEF ClerkStep, StoreTexts, enqueue_ingest, ResetSource, DeleteStep, ClerkDies
<1>3. \A u \in KbSources \ {s} :
        /\ source'[u] = source[u] /\ doc'[u] = doc[u] /\ chunks'[u] = chunks[u]
           /\ ingests'[u] = ingests[u]
  <2>1. \A u \in KbSources \ {s} : source'[u] = source[u]
    BY <1>1 DEF KbTypes, ClerkStep, StoreTexts, enqueue_ingest, ResetSource, DeleteStep, ClerkDies
  <2>2. \A u \in KbSources \ {s} : doc'[u] = doc[u]
    BY <1>1 DEF KbTypes, ClerkStep, StoreTexts, enqueue_ingest, ResetSource, DeleteStep, ClerkDies
  <2>3. \A u \in KbSources \ {s} : chunks'[u] = chunks[u]
    BY <1>1 DEF KbTypes, ClerkStep, StoreTexts, enqueue_ingest, ResetSource, DeleteStep, ClerkDies
  <2>4. \A u \in KbSources \ {s} : ingests'[u] = ingests[u]
    BY <1>1 DEF KbTypes, ClerkStep, StoreTexts, enqueue_ingest, ResetSource, DeleteStep, ClerkDies
  <2> QED BY <2>1, <2>2, <2>3, <2>4
<1>4. rd' = rd /\ got' = got /\ locked' = locked /\ torn \subseteq torn' /\ mixed \subseteq mixed'
  <2>1. ClerkActs(c)
    BY DEF ClerkActs
  <2> QED BY <2>1, ClerkWrites
<1>5. ASSUME NEW u \in KbSources \ {s} PROVE KeptSource(u)
  <2>1. ASSUME NEW d \in Clerks,
               (clerk[d].s = u /\ clerk[d].step # "idle")
                 \/ (clerk'[d].s = u /\ clerk'[d].step # "idle")
        PROVE  clerk'[d] = clerk[d]
    BY <1>1, <1>2, <2>1
  <2> QED BY <1>3, <1>4, <2>1 DEF KeptSource, KeptRest, KeptState, PagesSame
<1> QED BY <1>1, <1>2, <1>4, <1>5 DEF ClerkAlone

LEMMA CallApart ==
  ASSUME KbTypes, NEW c \in Clerks, NEW s \in KbSources,
         \/ _create_source(c, s) \/ resync_source(c, s) \/ delete_source(c, s)
         \/ refresh_due_kb_sources(c, s)
  PROVE  ClerkAlone(c, s)
<1>1. clerk[c].step = "idle" /\ clerk'[c].s = s /\ \A d \in Clerks \ {c} : clerk'[d] = clerk[d]
  BY CallTypes DEF _create_source, resync_source, delete_source, refresh_due_kb_sources
<1>2. doc' = doc /\ chunks' = chunks /\ ingests' = ingests
  BY DEF _create_source, resync_source, delete_source, refresh_due_kb_sources
<1>3. \A u \in KbSources \ {s} : source'[u] = source[u]
  BY DEF KbTypes, _create_source, resync_source, delete_source, refresh_due_kb_sources
<1>4. rd' = rd /\ got' = got /\ locked' = locked /\ torn \subseteq torn' /\ mixed \subseteq mixed'
  <2>1. ClerkActs(c)
    BY DEF ClerkActs
  <2> QED BY <2>1, ClerkWrites
<1>5. ASSUME NEW u \in KbSources \ {s} PROVE KeptSource(u)
  <2>1. ASSUME NEW d \in Clerks,
               (clerk[d].s = u /\ clerk[d].step # "idle")
                 \/ (clerk'[d].s = u /\ clerk'[d].step # "idle")
        PROVE  clerk'[d] = clerk[d]
    BY <1>1, <2>1
  <2> QED BY <1>2, <1>3, <1>4, <2>1 DEF KeptSource, KeptRest, KeptState, PagesSame
<1> QED BY <1>1, <1>4, <1>5 DEF ClerkAlone

(* So is a reader's.                                                       *)
ReaderAlone(w, s) ==
  /\ clerk' = clerk /\ Others(w)
  /\ rd[w].step = "idle" \/ rd[w].s = s
  /\ rd'[w].step = "idle" \/ rd'[w].s = s
  /\ \A u \in KbSources \ {s} : KeptSource(u)

(* A job that is taken up is about one source.                             *)
LEMMA RunApart ==
  ASSUME KbTypes, NEW w \in Readers, NEW s \in KbSources, run_source(w, s)
  PROVE  ReaderAlone(w, s)
<1>1. rd[w].step = "idle"
  BY DEF run_source, RdAt
<1>2. Others(w) /\ (rd'[w].step = "idle" \/ rd'[w].s = s)
  <2>1. CASE Exists(s)
    BY <2>1, Started DEF run_source
  <2>2. CASE ~Exists(s)
    BY <1>1, <2>2 DEF run_source, Others, KbTypes
  <2> QED BY <2>1, <2>2
<1>3. /\ clerk' = clerk /\ source' = source /\ doc' = doc /\ chunks' = chunks /\ got' = got
      /\ locked' = locked /\ torn' = torn /\ mixed \subseteq mixed'
      /\ \A u \in KbSources \ {s} : ingests'[u] = ingests[u]
  BY DEF run_source, callSide, KbTypes
<1>4. ASSUME NEW u \in KbSources \ {s} PROVE KeptSource(u)
  <2>1. ASSUME NEW x \in Readers,
               (rd[x].s = u /\ rd[x].step # "idle") \/ (rd'[x].s = u /\ rd'[x].step # "idle")
        PROVE  rd'[x] = rd[x]
    BY <1>1, <1>2, <2>1 DEF Others
  <2> QED BY <1>3, <2>1 DEF KeptSource, KeptRest, KeptState, PagesSame
<1> QED BY <1>1, <1>2, <1>3, <1>4 DEF ReaderAlone

(* The reader's next step, and that it goes on with the same job.          *)
GoesTo(w, step) == Others(w) /\ SameWork(w) /\ rd'[w].step = step /\ rd'[w].end = rd[w].end
EndsWith(w, step, e) == Others(w) /\ SameWork(w) /\ rd'[w].step = step /\ rd'[w].end = e
Stops(w) == Others(w) /\ rd'[w] = NoRead

(* Where each step of a job goes.                                          *)
LEMMA JobMoves ==
  ASSUME KbTypes, NEW w \in Readers
  PROVE  /\ TakeLock(w) => (rd[w].s \in locked /\ Stops(w)) \/ (rd[w].s \notin locked /\ GoesTo(w, "begin"))
         /\ EmbeddingFails(w) \/ InsertFails(w) => EndsWith(w, "finish", "failed")
         /\ UpsertDocument(w) => GoesTo(w, "clear")
         /\ DeleteChunks(w) => GoesTo(w, "fill")
         /\ InsertChunks(w) => GoesTo(w, "page")
         /\ StoreCrawlState(w) => EndsWith(w, "unlock", "processing")
         /\ PagesDone(w) => \/ EndsWith(w, "finish", "failed")
                            \/ Refetchable(rd[w].s) /\ GoesTo(w, "drop")
                            \/ ~Refetchable(rd[w].s) /\ GoesTo(w, "finish")
         /\ DropChunks(w) => GoesTo(w, "drop docs")
         /\ DropDocuments(w) => GoesTo(w, "finish")
         /\ _finish(w) => GoesTo(w, "unlock")
         /\ Unlock(w) => IF rd[w].end = "processing" THEN GoesTo(w, "again") ELSE Stops(w)
         /\ EnqueueNextSlice(w) \/ ReaderDies(w) => Stops(w)
<1>1. \A step \in RdSteps : RdTo(w, step) => GoesTo(w, step)
  BY ReaderStepped DEF GoesTo
<1>2. {"begin", "clear", "fill", "page", "drop docs", "drop", "finish", "unlock", "again"} \subseteq RdSteps
  BY DEF RdSteps, HoldingSteps
<1>3. RdEnds(w) => Stops(w)
  BY ReadEnded DEF Stops
<1>4. \A step \in {"finish", "unlock"}, e \in {"failed", "processing"} :
        rd' = [rd EXCEPT ![w].step = step, ![w].end = e] => EndsWith(w, step, e)
  BY <1>2, EndStepped DEF EndsWith
<1>5. TakeLock(w) => (rd[w].s \in locked /\ Stops(w)) \/ (rd[w].s \notin locked /\ GoesTo(w, "begin"))
  BY <1>1, <1>2, <1>3 DEF TakeLock
<1>6. EmbeddingFails(w) \/ InsertFails(w) => EndsWith(w, "finish", "failed")
  BY <1>4 DEF EmbeddingFails, InsertFails, Ends
<1>7. UpsertDocument(w) => GoesTo(w, "clear")
  BY <1>1, <1>2 DEF UpsertDocument
<1>8. (DeleteChunks(w) => GoesTo(w, "fill")) /\ (InsertChunks(w) => GoesTo(w, "page"))
  BY <1>1, <1>2 DEF DeleteChunks, InsertChunks
<1>9. StoreCrawlState(w) => EndsWith(w, "unlock", "processing")
  BY <1>4 DEF StoreCrawlState
<1>10. ASSUME PagesDone(w)
       PROVE  \/ EndsWith(w, "finish", "failed")
              \/ Refetchable(rd[w].s) /\ GoesTo(w, "drop")
              \/ ~Refetchable(rd[w].s) /\ GoesTo(w, "finish")
  <2>1. RdTo(w, IF Refetchable(rd[w].s) THEN "drop" ELSE "finish") \/ Ends(w, "failed")
    BY <1>10 DEF PagesDone
  <2>2. CASE Ends(w, "failed")
    BY <1>4, <2>2 DEF Ends
  <2>3. CASE Refetchable(rd[w].s) /\ RdTo(w, "drop")
    BY <1>1, <1>2, <2>3
  <2>4. CASE ~Refetchable(rd[w].s) /\ RdTo(w, "finish")
    BY <1>1, <1>2, <2>4
  <2> QED BY <2>1, <2>2, <2>3, <2>4 DEF RdTo
<1>11. /\ DropChunks(w) => GoesTo(w, "drop docs")
       /\ DropDocuments(w) => GoesTo(w, "finish")
       /\ _finish(w) => GoesTo(w, "unlock")
  BY <1>1, <1>2 DEF DropChunks, DropDocuments, _finish
<1>12. Unlock(w) => IF rd[w].end = "processing" THEN GoesTo(w, "again") ELSE Stops(w)
  BY <1>1, <1>2, <1>3 DEF Unlock
<1>13. EnqueueNextSlice(w) \/ ReaderDies(w) => Stops(w)
  BY <1>3 DEF EnqueueNextSlice, ReaderDies
<1> QED BY <1>5, <1>6, <1>7, <1>8, <1>9, <1>10, <1>11, <1>12, <1>13

(* What a reader does of a job it is at.                                   *)
Work(w) == \/ TakeLock(w) \/ BeginSlice(w) \/ ReadPage(w) \/ UpsertDocument(w) \/ DeleteChunks(w)
           \/ InsertChunks(w) \/ StoreCrawlState(w) \/ PagesDone(w) \/ DropChunks(w) \/ DropDocuments(w)
           \/ _finish(w) \/ Unlock(w) \/ EnqueueNextSlice(w) \/ EmbeddingFails(w) \/ InsertFails(w)
           \/ ReaderDies(w)

(* A worker is at work on a job, or takes one up.                          *)
LEMMA ActsAreWork ==
  ASSUME NEW w \in Readers, ReaderActs(w)
  PROVE  Work(w) \/ \E s \in KbSources : run_source(w, s)
  BY DEF ReaderActs, ReaderStep, Work

LEMMA WorkActs ==
  ASSUME NEW w \in Readers, Work(w)
  PROVE  ReaderActs(w) /\ rd[w].step # "idle"
<1>1. ReaderActs(w)
  BY DEF ReaderActs, ReaderStep, Work
<1>2. rd[w].step # "idle"
  BY DEF Work, RdAt, TakeLock, BeginSlice, ReadPage, UpsertDocument, DeleteChunks, InsertChunks,
       StoreCrawlState,
     PagesDone, DropChunks, DropDocuments, _finish, Unlock, EnqueueNextSlice, EmbeddingFails,
     InsertFails, ReaderDies
<1> QED BY <1>1, <1>2

LEMMA WorkRecords ==
  ASSUME KbTypes, Plain, NEW w \in Readers, Work(w)
  PROVE  Others(w) /\ ((rd'[w].step = "idle" /\ rd'[w] = NoRead) \/ SameJob(w))
<1>1. ReadPage(w) => Others(w) /\ SameJob(w)
  BY PageRead
<1>2. BeginSlice(w) => Others(w) /\ SameJob(w)
  BY Begun
<1>3. NoRead.step = "idle"
  BY DEF NoRead
<1> QED BY <1>1, <1>2, <1>3, JobMoves DEF Work, GoesTo, EndsWith, Stops, SameWork

LEMMA WorkApart ==
  ASSUME KbTypes, Plain, NEW w \in Readers, Work(w)
  PROVE  ReaderAlone(w, rd[w].s)
<1>1. PICK s \in KbSources : s = rd[w].s
  BY DEF KbTypes, RdType
<1>2. Others(w) /\ (rd'[w].step = "idle" \/ rd'[w].s = s)
  BY <1>1, WorkRecords DEF SameJob
<1>3. clerk' = clerk /\ torn \subseteq torn' /\ mixed \subseteq mixed'
  BY WorkActs, ReaderWrites
<1>4. \A u \in KbSources \ {s} : source'[u] = source[u]
  BY <1>1, WorkActs, ReaderWrites, SourceBegun, SourceCrawled, SourceFinished
<1>5. \A u \in KbSources \ {s} : doc'[u] = doc[u] /\ got'[u] = got[u]
  <2>1. doc \in [KbSources -> [Pages -> DocType]] /\ got \in [KbSources -> [Pages -> Nat]]
    BY DEF KbTypes
  <2>2. ASSUME ReadPage(w) PROVE \A u \in KbSources \ {s} : doc'[u] = doc[u] /\ got'[u] = got[u]
    <3>1. PICK p \in rd[w].todo : Skips(w, p) \/ Knows(w, p) \/ Fails(w) \/ Learns(w, p)
      BY <2>2, PageRead
    <3> QED BY <1>1, <2>1, <3>1 DEF Skips, Knows, Fails, Learns
  <2>3. ASSUME UpsertDocument(w) \/ DropDocuments(w) PROVE \A u \in KbSources \ {s} : doc'[u] = doc[u]
    BY <1>1, <2>1, <2>3 DEF UpsertDocument, DropDocuments
  <2>4. ASSUME BeginSlice(w) PROVE \A u \in KbSources \ {s} : got'[u] = got[u]
    BY <1>1, <2>1, <2>4 DEF BeginSlice
  <2> QED BY <2>2, <2>3, <2>4, WorkActs, ReaderWrites
<1>6. \A u \in KbSources \ {s} : chunks'[u] = chunks[u]
  BY <1>1, WorkActs, ReaderWrites DEF DeleteChunks, InsertChunks, DropChunks, KbTypes
<1>7. \A u \in KbSources \ {s} : ingests'[u] = ingests[u] /\ (u \in locked => u \in locked')
  <2>1. ~\E u \in KbSources : run_source(w, u)
    BY WorkActs DEF run_source, RdAt
  <2>2. ingests' = ingests \/ EnqueueNextSlice(w)
    BY <2>1, WorkActs, ReaderWrites
  <2>3. \A u \in KbSources \ {s} : ingests'[u] = ingests[u]
    BY <1>1, <2>2 DEF EnqueueNextSlice, KbTypes
  <2>4. locked' = locked \/ TakeLock(w) \/ Unlock(w)
    BY WorkActs, ReaderWrites
  <2> QED BY <1>1, <2>3, <2>4 DEF TakeLock, Unlock
<1>8. ASSUME NEW u \in KbSources \ {s} PROVE KeptSource(u)
  <2>1. ASSUME NEW x \in Readers,
               (rd[x].s = u /\ rd[x].step # "idle") \/ (rd'[x].s = u /\ rd'[x].step # "idle")
        PROVE  rd'[x] = rd[x]
    BY <1>1, <1>2, <2>1, WorkActs DEF Others
  <2> QED BY <1>3, <1>4, <1>5, <1>6, <1>7, <2>1 DEF KeptSource, KeptRest, KeptState, PagesSame
<1> QED BY <1>1, <1>2, <1>3, <1>8 DEF ReaderAlone

(* The other steps change nothing that a source's chunks depend on, but    *)
(* that a lock may end.                                                    *)
LEMMA OtherKept ==
  ASSUME KbTypes, OtherActs \/ UNCHANGED kbVars
  PROVE  \A u \in KbSources : KeptSource(u) \/ LockEnds(u)
<1> SUFFICES ASSUME NEW u \in KbSources PROVE KeptSource(u) \/ LockEnds(u)
  OBVIOUS
<1>1. /\ source'[u].status = source[u].status /\ source'[u].run = source[u].run
      /\ source'[u].crawl = source[u].crawl
  BY SourceOther
<1>2. UNCHANGED <<doc, chunks, rd, clerk, got, runs, ingests, torn>> /\ mixed \subseteq mixed'
  BY OtherWrites
<1>3. LockEnds(u) \/ (u \in locked => u \in locked')
  BY DEF OtherActs, kbVars, update_kb, DayPasses, LockEnds, PageChanges, readSide
<1> QED BY <1>1, <1>2, <1>3 DEF KeptSource, KeptRest, KeptState, PagesSame

(* A source that is let alone stays good.                                  *)
LEMMA KeptCalls ==
  ASSUME NEW u \in KbSources, KeptRest(u)
  PROVE  /\ \A c \in Clerks : ClerkCalls(c, u)' <=> ClerkCalls(c, u)
         /\ Wiping(u)' <=> Wiping(u)
         /\ Deleting(u)' <=> Deleting(u)
         /\ Storing(u)' <=> Storing(u)
         /\ (\E c \in Clerks : clerk'[c].s = u /\ clerk'[c].step = "source")
              <=> (\E c \in Clerks : clerk[c].s = u /\ clerk[c].step = "source")
<1>1. \A c \in Clerks, step \in {"texts", "enqueue", "reset", "chunks", "docs", "source"} :
        (clerk'[c].s = u /\ clerk'[c].step = step) <=> (clerk[c].s = u /\ clerk[c].step = step)
  BY DEF KeptSource, KeptRest, KeptState, PagesSame
<1>2. \A c \in Clerks : ClerkCalls(c, u)' <=> ClerkCalls(c, u)
  BY <1>1 DEF ClerkCalls
<1>3. Wiping(u)' <=> Wiping(u)
  BY <1>1 DEF Wiping
<1>4. Deleting(u)' <=> Deleting(u)
  BY <1>1 DEF Deleting
<1>5. Storing(u)' <=> Storing(u)
  BY <1>1 DEF Storing
<1> QED BY <1>1, <1>2, <1>3, <1>4, <1>5

(* Nobody else begins or ends work on it,                                  *)
LEMMA KeptReads ==
  ASSUME NEW u \in KbSources, KeptSource(u)
  PROVE  /\ \A w \in Readers : (Running(w, u)' <=> Running(w, u)) /\ (Holding(w, u)' <=> Holding(w, u))
         /\ Reading(u)' <=> Reading(u)
         /\ \A w \in Readers : Running(w, u) => rd'[w] = rd[w]
         /\ \A p \in Pages : Disturbed(u, p)' <=> Disturbed(u, p)
<1>1. \A w \in Readers : (rd[w].s = u /\ rd[w].step # "idle")
        \/ (rd'[w].s = u /\ rd'[w].step # "idle") => rd'[w] = rd[w]
  BY DEF KeptSource, KeptRest, KeptState, PagesSame
<1>2. \A w \in Readers : (Running(w, u)' <=> Running(w, u)) /\ (Running(w, u) => rd'[w] = rd[w])
  BY <1>1 DEF Running
<1>3. \A w \in Readers : Holding(w, u)' <=> Holding(w, u)
  BY <1>1 DEF Holding, HoldingSteps
<1>4. Reading(u)' <=> Reading(u)
  BY <1>1 DEF Reading
<1>5. ASSUME NEW p \in Pages PROVE Disturbed(u, p)' <=> Disturbed(u, p)
  BY <1>2 DEF Disturbed
<1> QED BY <1>2, <1>3, <1>4, <1>5

SameRuns(u) == \A w \in Readers : (Running(w, u)' <=> Running(w, u))
  /\ (Running(w, u) => rd'[w] = rd[w])

LEMMA KeptRuns ==
  ASSUME NEW u \in KbSources, KeptSource(u)
  PROVE  KeptRest(u) /\ SameRuns(u)
  BY KeptReads DEF KeptSource, SameRuns

LEMMA RunsDisturb ==
  ASSUME NEW u \in KbSources, SameRuns(u)
  PROVE  \A p \in Pages : Disturbed(u, p)' <=> Disturbed(u, p)
<1> SUFFICES ASSUME NEW p \in Pages PROVE Disturbed(u, p)' <=> Disturbed(u, p)
  OBVIOUS
<1>1. \A w \in Readers : (Running(w, u)' <=> Running(w, u)) /\ (Running(w, u) => rd'[w] = rd[w])
  BY DEF SameRuns
<1> QED BY <1>1 DEF Disturbed

(* its pages are as they were,                                             *)
LEMMA KeptPages ==
  ASSUME NEW u \in KbSources, KeptState(u), PagesSame(u)
  PROVE  /\ SourceGone(u)' <=> SourceGone(u)
         /\ \A p \in Pages : /\ Whole(u, p)' <=> Whole(u, p)
                             /\ Filled(u, p)' <=> Filled(u, p)
                             /\ \A r : RunOK(u, p, r)' <=> RunOK(u, p, r)
                             /\ \A r : PageDone(u, p, r)' <=> PageDone(u, p, r)
<1>1. SourceGone(u)' <=> SourceGone(u)
  BY DEF KeptState, PagesSame, SourceGone
<1>2. doc'[u] = doc[u] /\ chunks'[u] = chunks[u] /\ got'[u] = got[u]
  BY DEF KeptState, PagesSame
<1> QED BY <1>1, <1>2 DEF Whole, Filled, RunOK, PageDone

(* and each part of what makes it good stays.                              *)
LEMMA KeptForgotten ==
  ASSUME NEW u \in KbSources, KeptSource(u), Forgotten(u)
  PROVE  Forgotten(u)'
<1>0. KeptRest(u)
  BY DEF KeptSource
<1>1. /\ SourceGone(u)' <=> SourceGone(u)
      /\ doc'[u] = doc[u] /\ chunks'[u] = chunks[u] /\ (u \in locked => u \in locked')
  BY <1>0, KeptPages DEF KeptSource, KeptRest, PagesSame
<1>2. Deleting(u)' \/ SourceGone(u)' => ~Reading(u)' /\ ~Storing(u)'
  BY <1>0, <1>1, KeptCalls, KeptReads DEF Forgotten
<1>3. Wiping(u)' \/ SourceGone(u)' => \A p \in Pages : chunks'[u][p] = {}
  BY <1>0, <1>1, KeptCalls DEF Forgotten
<1>4. SourceGone(u)' \/ (\E c \in Clerks : clerk'[c].s = u /\ clerk'[c].step = "source") =>
        \A p \in Pages : ~doc'[u][p].has
  BY <1>0, <1>1, KeptCalls DEF Forgotten
<1>5. \A w, x \in Readers : Holding(w, u)' /\ Holding(x, u)' => w = x
  BY KeptReads DEF Forgotten
<1>6. \A w \in Readers : Holding(w, u)' => u \in locked'
  BY <1>1, KeptReads DEF Forgotten
<1> QED BY <1>2, <1>3, <1>4, <1>5, <1>6 DEF Forgotten

LEMMA KeptOne ==
  ASSUME NEW u \in KbSources, KeptState(u), SameRuns(u),
         \A c \in Clerks : ClerkCalls(c, u)' => ClerkCalls(c, u), One(u)
  PROVE  One(u)'
<1>1. /\ \A c, d \in Clerks : ClerkCalls(c, u)' /\ ClerkCalls(d, u)' => c = d
      /\ \A w, x \in Readers : Running(w, u)' /\ Running(x, u)' => w = x
  BY DEF One, SameRuns
<1>2. source'[u].status = source[u].status /\ source'[u].run = source[u].run
      /\ source'[u].crawl = source[u].crawl /\ ingests'[u] = ingests[u]
  BY DEF KeptState
<1>3. \A c \in Clerks : ClerkCalls(c, u)' => /\ source'[u].status = "queued" /\ ingests'[u] = 0
                                         /\ \A w \in Readers : ~Running(w, u)'
  BY <1>2 DEF One, SameRuns
<1>4. \A w \in Readers : Running(w, u)' => ingests'[u] = 0 /\ source'[u].status \in Syncing
  BY <1>2 DEF One, SameRuns
<1>5. ingests'[u] <= 1 /\ (ingests'[u] > 0 => source'[u].status \in Syncing)
  BY <1>2 DEF One
<1>6. ASSUME NEW w \in Readers, Running(w, u)'
      PROVE  /\ rd'[w].step \in {"lock", "begin"} =>
                 rd'[w].src.run = source'[u].run /\ rd'[w].src.crawl = source'[u].crawl
             /\ rd'[w].step \notin {"lock", "begin"} =>
                 source'[u].run = rd'[w].run /\ source'[u].status = "processing"
  <2>1. Running(w, u) /\ rd'[w] = rd[w]
    BY <1>6 DEF SameRuns
  <2> QED BY <1>2, <2>1 DEF One
<1> QED BY <1>1, <1>3, <1>4, <1>5, <1>6 DEF One, Syncing

LEMMA KeptProgress ==
  ASSUME NEW u \in KbSources, KeptState(u), PagesSame(u), SameRuns(u), NEW w \in Readers,
         Running(w, u), Progress(w), Kind(u)' = Kind(u)
  PROVE  Progress(w)'
<1>1. rd'[w] = rd[w] /\ rd[w].s = u
  BY DEF Running, SameRuns
<1>2. PICK r : r = rd[w]
  OBVIOUS
<1>3. rd'[w] = r /\ rd[w] = r /\ r.s = u
  BY <1>1, <1>2
<1>4. source'[u].run = source[u].run /\ doc'[u] = doc[u] /\ chunks'[u] = chunks[u] /\ got'[u] = got[u]
  BY DEF KeptState, PagesSame
<1>5. PICK n, d, k, g : n = source[u].run /\ d = doc[u] /\ k = chunks[u] /\ g = got[u]
  OBVIOUS
<1>6. /\ source[u].run = n /\ doc[u] = d /\ chunks[u] = k /\ got[u] = g
      /\ source'[u].run = n /\ doc'[u] = d /\ chunks'[u] = k /\ got'[u] = g
  BY <1>4, <1>5
<1>7. Refetchable(u)' <=> Refetchable(u)
  BY DEF Refetchable
<1> DEFINE
  OK(p, q) == IF d[p].run = q THEN g[p] = d[p].hash /\ g[p] # 0 ELSE g[p] = 0
  Dn(p) == d[p].run = r.run \/ d[p].hash = 0
  Wh(p) == k[p] = IF d[p].hash = 0 THEN {} ELSE {d[p].hash}
<1>8. /\ \A p, q : (RunOK(u, p, q) <=> OK(p, q)) /\ (RunOK(u, p, q)' <=> OK(p, q))
      /\ \A p : (PageDone(u, p, r.run) <=> Dn(p)) /\ (PageDone(u, p, r.run)' <=> Dn(p))
      /\ \A p : (Whole(u, p) <=> Wh(p)) /\ (Whole(u, p)' <=> Wh(p))
  BY <1>6 DEF RunOK, PageDone, Whole
<1>9. rd[w] = r /\ r.s = u /\ source[u].run = n /\ doc[u] = d /\ chunks[u] = k
  BY <1>3, <1>6
<1>11. r.step \in {"lock", "begin"} /\ n # 0 => \A p \in Pages : OK(p, n)
  BY <1>6, <1>9 DEF Progress, RunOK
<1>12. r.step \in ReadSteps \cup {"unlock", "again"} \/ (r.step = "finish" /\ r.end = "ready") =>
          \A p \in Pages : OK(p, r.run) \/ (r.step = "embed" /\ p = r.page)
  BY <1>6, <1>9 DEF Progress, RunOK
<1>13. /\ r.step = "embed" => g[r.page] = r.ver
       /\ r.step \in {"clear", "fill"} => d[r.page].hash = r.ver /\ d[r.page].run = r.run
       /\ r.step = "fill" => k[r.page] = {}
  BY <1>6, <1>9 DEF Progress
<1>14. /\ r.step \in {"page", "embed", "clear", "fill"} /\ ~Refetchable(u) =>
           \A p \in Pages \ r.todo : Dn(p) \/ (r.step = "embed" /\ p = r.page)
       /\ r.step = "finish" /\ r.end = "ready" => \A p \in Pages : Dn(p)
  BY <1>8, <1>9 DEF Progress
<1>15. r.step = "drop docs" => \A p \in Pages :
           IF d[p].has /\ d[p].run # r.run THEN k[p] = {} ELSE Wh(p)
  BY <1>8, <1>9 DEF Progress
<1> HIDE DEF Dn, Wh
<1>16. rd'[w] = r /\ r.s = u /\ source'[u].run = n /\ doc'[u] = d /\ chunks'[u] = k /\ got'[u] = g
  BY <1>3, <1>6
<1>17. /\ \A p : (RunOK(u, p, source[u].run)' <=> OK(p, n)) /\ (RunOK(u, p, r.run)' <=> OK(p, r.run))
       /\ \A p : (PageDone(u, p, r.run)' <=> Dn(p)) /\ (Whole(u, p)' <=> Wh(p))
  BY <1>8, <1>16 DEF RunOK, OK
<1> HIDE DEF OK
<1>18. r.step \in {"lock", "begin"}
         /\ source'[u].run # 0 => \A p \in Pages : RunOK(u, p, source[u].run)'
  BY <1>11, <1>16, <1>17
<1>19. r.step \in ReadSteps \cup {"unlock", "again"} \/ (r.step = "finish" /\ r.end = "ready") =>
          \A p \in Pages : RunOK(u, p, r.run)' \/ (r.step = "embed" /\ p = r.page)
  BY <1>12, <1>17
<1>20. /\ r.step \in {"page", "embed", "clear", "fill"} /\ ~Refetchable(u)' =>
           \A p \in Pages \ r.todo : PageDone(u, p, r.run)' \/ (r.step = "embed" /\ p = r.page)
       /\ r.step = "finish" /\ r.end = "ready" => \A p \in Pages : PageDone(u, p, r.run)'
  BY <1>7, <1>14, <1>17
<1>21. r.step = "drop docs" => \A p \in Pages :
           IF doc'[u][p].has /\ doc'[u][p].run # r.run THEN chunks'[u][p] = {} ELSE Whole(u, p)'
  BY <1>15, <1>16, <1>17
<1> QED BY <1>13, <1>16, <1>18, <1>19, <1>20, <1>21 DEF Progress

LEMMA KeptSound ==
  ASSUME NEW u \in KbSources, KeptState(u), PagesSame(u), SameRuns(u), Storing(u)' => Storing(u),
         Sound(u), Kind(u)' = Kind(u)
  PROVE  Sound(u)'
<1>1. \A w \in Readers : Running(w, u)' => Progress(w)'
  BY KeptProgress DEF Sound, SameRuns
<1>2. source'[u].run = source[u].run /\ source'[u].status = source[u].status
      /\ ingests'[u] = ingests[u] /\ chunks'[u] = chunks[u]
  BY DEF KeptState, PagesSame
<1>3. ingests'[u] > 0 /\ source'[u].run # 0 => \A p \in Pages : RunOK(u, p, source[u].run)'
  <2>1. PICK r : r = source[u].run
    OBVIOUS
  <2>2. ingests'[u] > 0 /\ r # 0 => \A p \in Pages : RunOK(u, p, r)'
    BY <1>2, <2>1, KeptPages DEF Sound
  <2>3. source'[u].run = r
    BY <1>2, <2>1
  <2> QED BY <2>2, <2>3 DEF RunOK
<1>4. \A p \in Pages : Disturbed(u, p)' \/ Whole(u, p)'
  BY RunsDisturb, KeptPages DEF Sound
<1>5. source'[u].status = "ready" => \A p \in Pages : Filled(u, p)'
  BY <1>2, KeptPages DEF Sound
<1>6. Storing(u)' => \A p \in Pages : chunks'[u][p] = {}
  BY <1>2 DEF Sound
<1> QED BY <1>1, <1>3, <1>4, <1>5, <1>6 DEF Sound

LEMMA KeptGood ==
  ASSUME NEW u \in KbSources, KeptSource(u), KbGood(u), Kind(u)' = Kind(u)
  PROVE  KbGood(u)'
<1> SUFFICES ASSUME u \notin mixed'
             PROVE  /\ Forgotten(u)'
                    /\ SourceGone(u)' \/ (One(u)' /\ (u \in torn' \/ Wiping(u)' \/ Sound(u)'))
  BY DEF KbGood
<1>0. /\ KeptRest(u) /\ SameRuns(u) /\ KeptState(u) /\ PagesSame(u)
      /\ \A c \in Clerks : ClerkCalls(c, u)' => ClerkCalls(c, u)
      /\ Storing(u)' => Storing(u)
  BY KeptRuns, KeptCalls DEF KeptRest
<1>1. u \notin mixed /\ (u \in torn => u \in torn')
  BY DEF KeptSource, KeptRest, KeptState, PagesSame
<1>2. Forgotten(u)'
  BY <1>1, KeptForgotten DEF KbGood
<1>3. CASE SourceGone(u)
  BY <1>0, <1>2, <1>3, KeptPages
<1>4. CASE ~SourceGone(u)
  <2>1. One(u)'
    BY <1>0, <1>1, <1>4, KeptOne DEF KbGood
  <2>2. u \in torn' \/ Wiping(u)' \/ Sound(u)'
    BY <1>0, <1>1, <1>4, KeptCalls, KeptSound DEF KbGood
  <2> QED BY <1>2, <2>1, <2>2
<1> QED BY <1>3, <1>4

-----------------------------------------------------------------------------
(* The plain facts of a source and of a reader. *)
LEMMA KeptPlain ==
  ASSUME NEW u \in KbSources, KeptSource(u), PlainSource(u), Unmade(u), Kind(u)' = Kind(u),
         Refetchable(u) \/ site'[u] = site[u]
  PROVE  PlainSource(u)' /\ Unmade(u)'
<1>1. PlainSource(u)'
  <2>1. Refetchable(u)' <=> Refetchable(u)
    BY DEF Refetchable
  <2>2. /\ source'[u].status = source[u].status /\ source'[u].run = source[u].run
        /\ source'[u].crawl = source[u].crawl /\ doc'[u] = doc[u]
    BY DEF KeptSource, KeptRest, KeptState, PagesSame
  <2> QED BY <2>1, <2>2 DEF PlainSource
<1>2. Unmade(u)'
  <2>1. source'[u].status = "none" => Unmade(u) /\ source[u].status = "none"
    BY DEF KeptSource, KeptRest, KeptState, PagesSame
  <2>2. source'[u].status = "none" => ~Reading(u)'
    BY <2>1, KeptReads DEF Unmade
  <2>3. source'[u].status = "none" => \A c \in Clerks : clerk'[c].s = u => clerk'[c].step = "idle"
    BY <2>1 DEF Unmade, KeptSource, KeptRest, KeptState, PagesSame
  <2>4. source'[u].status = "none" =>
          (\A p \in Pages : doc'[u][p] = NoDoc /\ chunks'[u][p] = {}) /\ ingests'[u] = 0
    BY <2>1 DEF Unmade, KeptSource, KeptRest, KeptState, PagesSame
  <2> QED BY <2>2, <2>3, <2>4 DEF Unmade
<1> QED BY <1>1, <1>2

(* A worker whose record is the same, is idle again, has taken a job or    *)
(* goes on with one stays plain.                                           *)
LEMMA SameReader ==
  ASSUME NEW w \in Readers, PlainReader(w), rd'[w] = rd[w], \A s : Kind(s)' = Kind(s)
  PROVE  PlainReader(w)'
<1>1. PICK r : r = rd[w]
  OBVIOUS
<1>2. rd[w] = r /\ rd'[w] = r
  BY <1>1
<1> QED BY <1>2 DEF PlainReader

LEMMA NoReadPlain ==
  ASSUME NEW w \in Readers, rd'[w] = NoRead
  PROVE  PlainReader(w)'
  BY DEF PlainReader, NoRead, NoSource, ReadSteps

LEMMA RunPlain ==
  ASSUME KbTypes, Plain, NEW w \in Readers, NEW s \in KbSources, run_source(w, s),
         \A u : Kind(u)' = Kind(u)
  PROVE  PlainReader(w)'
<1>1. CASE Exists(s)
  <2>1. /\ rd'[w].step = "lock" /\ rd'[w].end = "ready" /\ rd'[w].s = s /\ rd'[w].src = source[s]
    BY <1>1, Started DEF run_source
  <2>2. Kind(s) # "crawl" => source[s].crawl = Pages
    BY DEF Plain, PlainSource
  <2> QED BY <2>1, <2>2 DEF PlainReader, ReadSteps
<1>2. CASE ~Exists(s)
  <2>1. rd'[w] = rd[w]
    BY <1>2 DEF run_source
  <2> QED BY <2>1, SameReader DEF Plain
<1> QED BY <1>1, <1>2

LEMMA WorkPlain ==
  ASSUME KbTypes, Plain, NEW w \in Readers, Work(w), \A u : Kind(u)' = Kind(u)
  PROVE  PlainReader(w)'
<1>1. PlainReader(w)
  BY DEF Plain
<1>2. PICK s \in KbSources : s = rd[w].s
  BY DEF KbTypes, RdType
<1>3. CASE rd'[w] = NoRead
  BY <1>3, NoReadPlain
<1>4. CASE \E step \in {"begin", "clear", "fill", "page", "drop", "drop docs", "finish", "unlock"} :
             /\ GoesTo(w, step)
             /\ step \in ReadSteps => rd[w].step \in ReadSteps
             /\ step \in {"clear", "fill"} => rd[w].step \in {"embed", "clear", "fill"}
             /\ step \in ReadSteps \cup {"begin", "finish"} => rd[w].step \in ReadSteps \cup {"lock"}
  <2>1. PICK step \in {"begin", "clear", "fill", "page", "drop", "drop docs", "finish", "unlock"} :
             /\ GoesTo(w, step)
             /\ step \in ReadSteps => rd[w].step \in ReadSteps
             /\ step \in {"clear", "fill"} => rd[w].step \in {"embed", "clear", "fill"}
             /\ step \in ReadSteps \cup {"begin", "finish"} => rd[w].step \in ReadSteps \cup {"lock"}
    BY <1>4
  <2>2. /\ rd'[w].s = rd[w].s /\ rd'[w].src = rd[w].src /\ rd'[w].run = rd[w].run
           /\ rd'[w].page = rd[w].page
        /\ rd'[w].ver = rd[w].ver /\ rd'[w].step = step /\ rd'[w].end = rd[w].end
    BY <2>1 DEF GoesTo, SameWork, SameJob
  <2> QED BY <1>1, <2>1, <2>2 DEF PlainReader, ReadSteps
<1>5. CASE EndsWith(w, "finish", "failed") \/ EndsWith(w, "unlock", "processing")
  <2>1. /\ rd'[w].s = rd[w].s /\ rd'[w].src = rd[w].src
        /\ \/ rd'[w].step = "finish" /\ rd'[w].end = "failed"
           \/ rd'[w].step = "unlock"
    BY <1>5 DEF EndsWith, SameWork, SameJob
  <2> QED BY <1>1, <2>1 DEF PlainReader, ReadSteps
<1>6. CASE BeginSlice(w)
  <2>1. /\ rd'[w].s = rd[w].s /\ rd'[w].src = rd[w].src /\ rd'[w].step = "page"
           /\ rd'[w].end = rd[w].end
        /\ rd'[w].run = IF rd[w].src.run = 0 THEN runs + 1 ELSE rd[w].src.run
    BY <1>6, Begun DEF SameJob
  <2>2. rd'[w].run # 0 /\ rd[w].step = "begin"
    BY <1>6, <2>1 DEF KbTypes, BeginSlice, RdAt
  <2> QED BY <1>1, <2>1, <2>2 DEF PlainReader, ReadSteps
<1>7. CASE ReadPage(w)
  <2>1. /\ rd[w].step = "page" /\ rd'[w].s = rd[w].s /\ rd'[w].src = rd[w].src /\ rd'[w].run = rd[w].run
    BY <1>7, PageRead DEF SameJob
  <2>2. PICK p \in rd[w].todo : Skips(w, p) \/ Knows(w, p) \/ Fails(w) \/ Learns(w, p)
    BY <1>7, PageRead
  <2>3. p \in Pages
    BY DEF KbTypes, RdType
  <2> QED BY <1>1, <2>1, <2>2, <2>3 DEF PlainReader, ReadSteps, Skips, Knows, Fails, Learns
<1>8. CASE Unlock(w)
  <2>1. CASE rd[w].end = "processing"
    <3>1. rd'[w].s = rd[w].s /\ rd'[w].src = rd[w].src /\ rd'[w].step = "again"
            /\ rd'[w].end = "processing"
      BY <1>8, <2>1, JobMoves DEF GoesTo, SameWork, SameJob
    <3> QED BY <1>1, <3>1 DEF PlainReader, ReadSteps
  <2>2. CASE rd[w].end # "processing"
    BY <1>3, <1>8, <2>2, JobMoves DEF Stops
  <2> QED BY <2>1, <2>2
<1>9. TakeLock(w) => rd[w].step = "lock"
  BY DEF TakeLock, RdAt
<1>10. UpsertDocument(w) => rd[w].step = "embed"
  BY DEF UpsertDocument, RdAt
<1>11. DeleteChunks(w) => rd[w].step = "clear"
  BY DEF DeleteChunks, RdAt
<1>12. InsertChunks(w) => rd[w].step = "fill"
  BY DEF InsertChunks, RdAt
<1>13. PagesDone(w) => rd[w].step = "page"
  BY DEF PagesDone, RdAt
<1>14. DropChunks(w) => rd[w].step = "drop"
  BY DEF DropChunks, RdAt
<1>15. DropDocuments(w) => rd[w].step = "drop docs"
  BY DEF DropDocuments, RdAt
<1>16. CASE TakeLock(w)
  BY <1>3, <1>4, <1>9, <1>16, JobMoves DEF Stops, ReadSteps
<1>17. CASE UpsertDocument(w) \/ DeleteChunks(w) \/ InsertChunks(w)
  BY <1>4, <1>10, <1>11, <1>12, <1>17, JobMoves DEF ReadSteps
<1>18. CASE PagesDone(w)
  BY <1>4, <1>5, <1>13, <1>18, JobMoves DEF ReadSteps
<1>19. CASE DropChunks(w) \/ DropDocuments(w) \/ _finish(w)
  BY <1>4, <1>14, <1>15, <1>19, JobMoves DEF ReadSteps
<1>20. CASE EnqueueNextSlice(w) \/ ReaderDies(w)
  BY <1>3, <1>20, JobMoves DEF Stops
<1>21. CASE StoreCrawlState(w) \/ EmbeddingFails(w) \/ InsertFails(w)
  BY <1>5, <1>21, JobMoves
<1> QED BY <1>6, <1>7, <1>8, <1>16, <1>17, <1>18, <1>19, <1>20, <1>21 DEF Work

(* A page without a document has no version, and what was uploaded does    *)
(* not change.                                                             *)
LEMMA DocHashes ==
  ASSUME KbTypes, Plain, [KbNext]_kbVars, NEW u \in KbSources, NEW p \in Pages, ~doc'[u][p].has
  PROVE  doc'[u][p].hash = 0
<1>1. doc \in [KbSources -> [Pages -> DocType]] /\ (~doc[u][p].has => doc[u][p].hash = 0)
  BY DEF KbTypes, Plain, PlainSource
<1>2. CASE doc'[u][p].has = doc[u][p].has /\ doc'[u][p].hash = doc[u][p].hash
  BY <1>1, <1>2
<1>3. CASE doc'[u][p] = NoDoc
  BY <1>3 DEF NoDoc
<1>4. ASSUME NEW c \in Clerks, ClerkActs(c)
      PROVE  \/ doc'[u][p].has \/ doc'[u][p] = NoDoc
             \/ doc'[u][p].has = doc[u][p].has /\ doc'[u][p].hash = doc[u][p].hash
  <2>1. clerk[c].s \in KbSources
    BY DEF KbTypes, ClerkType
  <2>2. CASE doc' = doc
    BY <2>2
  <2>3. CASE StoreTexts(c)
    BY <1>1, <2>1, <2>3 DEF StoreTexts, NoDoc
  <2>4. CASE DeleteStep(c) /\ CallAt(c, "docs")
    BY <1>1, <2>1, <2>4 DEF DeleteStep, CallAt
  <2> QED BY <1>4, <2>2, <2>3, <2>4, ClerkWrites
<1>5. ASSUME NEW w \in Readers, ReaderActs(w)
      PROVE  \/ doc'[u][p].has \/ doc'[u][p] = NoDoc
             \/ doc'[u][p].has = doc[u][p].has /\ doc'[u][p].hash = doc[u][p].hash
  <2>1. rd[w].s \in KbSources /\ rd[w].todo \subseteq Pages
    BY DEF KbTypes, RdType
  <2>2. CASE doc' = doc
    BY <2>2
  <2>3. CASE ReadPage(w)
    <3>1. PICK q \in rd[w].todo : Skips(w, q) \/ Knows(w, q) \/ Fails(w) \/ Learns(w, q)
      BY <2>3, PageRead
    <3>2. CASE Knows(w, q)
      <4>1. doc' = [doc EXCEPT ![rd[w].s][q].run = rd[w].run]
        BY <3>2 DEF Knows
      <4>2. PICK s, r : s \in KbSources /\ s = rd[w].s /\ r = rd[w].run
        BY <2>1
      <4>3. PICK v : v = [doc[s][q] EXCEPT !.run = r]
        OBVIOUS
      <4>4. q \in Pages /\ doc[s][q] \in DocType
        BY <1>1, <2>1, <4>2
      <4>5. v.has = doc[s][q].has /\ v.hash = doc[s][q].hash
        BY <4>3, <4>4 DEF DocType
      <4>6. doc' = [doc EXCEPT ![s][q] = v]
        BY <1>1, <4>1, <4>2, <4>3
      <4> QED BY <1>1, <4>4, <4>5, <4>6
    <3> QED BY <3>1, <3>2 DEF Skips, Fails, Learns
  <2>4. CASE UpsertDocument(w)
    <3>1. PICK s, q, v : s \in KbSources /\ s = rd[w].s /\ q = rd[w].page
            /\ v = [has |-> TRUE, hash |-> rd[w].ver, run |-> rd[w].run]
      BY <2>1
    <3>2. doc' = [doc EXCEPT ![s][q] = v] /\ v.has
      BY <2>4, <3>1 DEF UpsertDocument
    <3> QED BY <1>1, <3>1, <3>2
  <2>5. CASE DropDocuments(w)
    BY <1>1, <2>1, <2>5 DEF DropDocuments
  <2> QED BY <1>5, <2>2, <2>3, <2>4, <2>5, ReaderWrites
<1>6. ASSUME OtherActs \/ UNCHANGED kbVars PROVE doc' = doc
  BY <1>6, OtherWrites
<1> QED BY <1>2, <1>3, <1>4, <1>5, <1>6, KbSplit

LEMMA SitesOfFiles ==
  ASSUME KbTypes, [KbNext]_kbVars, NEW u \in KbSources
  PROVE  Refetchable(u) \/ site'[u] = site[u]
<1>1. ASSUME NEW c \in Clerks, ClerkActs(c) PROVE site' = site
  BY <1>1, ClerkWrites
<1>2. ASSUME NEW w \in Readers, ReaderActs(w) PROVE site' = site
  BY <1>2, ReaderWrites
<1>3. ASSUME NEW s \in KbSources, NEW p \in Pages, PageChanges(s, p)
      PROVE  Refetchable(u) \/ site'[u] = site[u]
  BY <1>3 DEF PageChanges, KbTypes
<1> QED BY <1>1, <1>2, <1>3, KbSplit, OtherWrites

(* What a step makes of the record of a source, where it is not let alone. *)
LEMMA OwnSource ==
  ASSUME KbTypes, Plain, NEW u \in KbSources,
         \/ \E w \in Readers : Work(w) /\ rd[w].s = u
         \/ \E w \in Readers : run_source(w, u)
         \/ \E c \in Clerks : clerk[c].step # "idle" /\ clerk[c].s = u /\ (ClerkStep(c) \/ ClerkDies(c))
         \/ \E c \in Clerks : _create_source(c, u) \/ resync_source(c, u) \/ delete_source(c, u)
                                \/ refresh_due_kb_sources(c, u)
  PROVE  /\ source'[u].status # "none"
         /\ source'[u].status # "processing" => source'[u].run = 0
         /\ Kind(u) # "crawl" => source'[u].crawl = Pages
<1>1. source \in [KbSources -> SourceType]
  BY DEF KbTypes
<1>2. /\ source[u].status # "processing" => source[u].run = 0
      /\ Kind(u) # "crawl" => source[u].crawl = Pages
      /\ Unmade(u)
  BY DEF Plain, PlainSource
<1>3. CASE source[u].status # "none" /\ source' = source
  BY <1>2, <1>3
<1>4. ASSUME NEW w \in Readers, Work(w), rd[w].s = u
      PROVE  /\ source'[u].status # "none"
             /\ source'[u].status # "processing" => source'[u].run = 0
             /\ Kind(u) # "crawl" => source'[u].crawl = Pages
  <2>1. source[u].status # "none"
    BY <1>2, <1>4, WorkActs DEF Unmade, Reading
  <2>2. CASE BeginSlice(w)
    BY <1>2, <1>4, <2>1, <2>2, SourceBegun
  <2>3. CASE StoreCrawlState(w)
    BY <1>2, <1>4, <2>1, <2>3, SourceCrawled
  <2>4. CASE _finish(w)
    <3>1. rd[w].end # "none"
      BY DEF KbTypes, RdType
    <3> QED BY <1>2, <1>4, <2>1, <2>4, <3>1, SourceFinished
  <2> QED BY <1>3, <1>4, <2>1, <2>2, <2>3, <2>4, WorkActs, ReaderWrites
<1>5. CASE \E w \in Readers : run_source(w, u)
  <2>1. source' = source /\ source[u].status # "none"
    BY <1>2, <1>5 DEF run_source, Unmade, KbTypes
  <2> QED BY <1>3, <2>1
<1>6. ASSUME NEW c \in Clerks, clerk[c].step # "idle", clerk[c].s = u, ClerkStep(c) \/ ClerkDies(c)
      PROVE  /\ source'[u].status # "none"
             /\ source'[u].status # "processing" => source'[u].run = 0
             /\ Kind(u) # "crawl" => source'[u].crawl = Pages
  <2>1. source[u].status # "none"
    BY <1>2, <1>6 DEF Unmade
  <2>2. CASE ResetSource(c)
    BY <1>2, <1>6, <2>1, <2>2, SourceReset
  <2>3. CASE source' = [source EXCEPT ![u] = [NoSource EXCEPT !.status = "gone"]]
    BY <1>1, <2>3 DEF NoSource
  <2> QED BY <1>3, <1>6, <2>1, <2>2, <2>3 DEF ClerkStep, StoreTexts, enqueue_ingest, DeleteStep,
       ClerkDies
<1>7. ASSUME NEW c \in Clerks, \/ _create_source(c, u) \/ resync_source(c, u) \/ delete_source(c, u)
                               \/ refresh_due_kb_sources(c, u)
      PROVE  /\ source'[u].status # "none"
             /\ source'[u].status # "processing" => source'[u].run = 0
             /\ Kind(u) # "crawl" => source'[u].crawl = Pages
  <2>1. CASE _create_source(c, u) \/ refresh_due_kb_sources(c, u)
    <3>1. source' = [source EXCEPT ![u].status = "queued"] /\ source[u].status # "processing"
      BY <2>1 DEF _create_source, refresh_due_kb_sources, Syncing
    <3> QED BY <1>1, <1>2, <3>1 DEF SourceType
  <2>2. CASE resync_source(c, u) \/ delete_source(c, u)
    BY <1>3, <2>2 DEF resync_source, delete_source, Exists
  <2> QED BY <1>7, <2>1, <2>2
<1> QED BY <1>4, <1>5, <1>6, <1>7

(* The source that was acted on stays plain.                               *)
LEMMA OwnPlain ==
  ASSUME KbTypes, Plain, [KbNext]_kbVars, NEW u \in KbSources, Kind(u)' = Kind(u),
         /\ source'[u].status # "none"
         /\ source'[u].status # "processing" => source'[u].run = 0
         /\ Kind(u) # "crawl" => source'[u].crawl = Pages
  PROVE  PlainSource(u)' /\ Unmade(u)'
<1>1. Unmade(u)'
  BY DEF Unmade
<1>2. \A p \in Pages : ~doc'[u][p].has => doc'[u][p].hash = 0
  BY DocHashes
<1>3. \A p \in Pages : ~Refetchable(u) => site'[u][p] # 0
  BY SitesOfFiles DEF Plain, PlainSource
<1>4. Refetchable(u)' <=> Refetchable(u)
  BY DEF Refetchable
<1> QED BY <1>1, <1>2, <1>3, <1>4 DEF PlainSource

LEMMA IdleStep ==
  ASSUME KbTypes, Plain, [KbNext]_kbVars, NEW d \in Clerks, clerk'[d].step = "idle"
  PROVE  clerk'[d] = NoCall
<1>1. clerk[d].step = "idle" => clerk[d] = NoCall
  BY DEF Plain
<1>2. ASSUME NEW c \in Clerks, ClerkActs(c) PROVE clerk'[d] = NoCall
  <2>1. \/ \E step \in {"enqueue", "docs", "source"} : CallTo(c, step)
        \/ \E step \in {"texts", "reset", "chunks", "enqueue"}, s \in KbSources : Calls(c, step, s)
        \/ CallEnds(c)
    BY <1>2 DEF ClerkActs, ClerkStep, StoreTexts, enqueue_ingest, ResetSource,
       DeleteStep, ClerkDies, _create_source, resync_source, delete_source, refresh_due_kb_sources
  <2> QED BY <1>1, <2>1, CallTypes
<1>3. ASSUME NEW w \in Readers, ReaderActs(w) PROVE clerk' = clerk
  BY <1>3, ReaderWrites
<1> QED BY <1>1, <1>2, <1>3, OtherWrites, KbSplit

(* So all stay plain.                                                      *)
LEMMA PlainStep ==
  ASSUME KbTypes, Plain, [KbNext]_kbVars
  PROVE  Plain'
<1>1. \A s : Kind(s)' = Kind(s)
  BY StepCosts
<1>0. \A d \in Clerks : clerk'[d].step = "idle" => clerk'[d] = NoCall
  BY IdleStep
<1>2. ASSUME NEW u \in KbSources, KeptSource(u) PROVE PlainSource(u)' /\ Unmade(u)'
  BY <1>1, <1>2, SitesOfFiles, KeptPlain DEF Plain
<1>3. CASE OtherActs \/ UNCHANGED kbVars
  <2>1. rd' = rd /\ clerk' = clerk
    BY <1>3, OtherWrites
  <2>2. \A w \in Readers : PlainReader(w)'
    BY <1>1, <2>1, SameReader DEF Plain
  <2>3. ASSUME NEW u \in KbSources, LockEnds(u) PROVE PlainSource(u)' /\ Unmade(u)'
    <3>1. UNCHANGED <<source, doc, chunks, ingests, rd, got, site, clerk, kcase>>
      BY <2>3 DEF LockEnds, callSide
    <3>2. PlainSource(u) /\ Unmade(u)
      BY DEF Plain
    <3> QED BY <3>1, <3>2 DEF PlainSource, Unmade, Refetchable, Kind, Reading
  <2> QED BY <1>0, <1>2, <1>3, <2>2, <2>3, OtherKept DEF Plain
<1>4. ASSUME NEW w \in Readers, ReaderActs(w) PROVE Plain'
  <2>1. PICK s \in KbSources : (Work(w) /\ s = rd[w].s) \/ run_source(w, s)
    BY <1>4, ActsAreWork DEF KbTypes, RdType
  <2>2. ReaderAlone(w, s)
    BY <2>1, WorkApart, RunApart
  <2>3. PlainReader(w)'
    BY <1>1, <2>1, WorkPlain, RunPlain
  <2>4. \A x \in Readers : PlainReader(x)'
    BY <1>1, <2>2, <2>3, SameReader DEF Plain, ReaderAlone, Others
  <2>5. PlainSource(s)' /\ Unmade(s)'
    BY <1>1, <2>1, OwnSource, OwnPlain
  <2> QED BY <1>0, <1>2, <2>2, <2>4, <2>5 DEF Plain, ReaderAlone
<1>5. ASSUME NEW c \in Clerks, NEW s \in KbSources, ClerkAlone(c, s),
             \/ clerk[c].step # "idle" /\ clerk[c].s = s /\ (ClerkStep(c) \/ ClerkDies(c))
             \/ _create_source(c, s) \/ resync_source(c, s) \/ delete_source(c, s)
             \/ refresh_due_kb_sources(c, s)
      PROVE  Plain'
  <2>1. \A x \in Readers : PlainReader(x)'
    BY <1>1, <1>5, SameReader DEF Plain, ClerkAlone
  <2>2. PlainSource(s)' /\ Unmade(s)'
    BY <1>1, <1>5, OwnSource, OwnPlain
  <2> QED BY <1>0, <1>2, <1>5, <2>1, <2>2 DEF Plain, ClerkAlone
<1>6. ASSUME NEW c \in Clerks, ClerkActs(c) PROVE Plain'
  <2>1. CASE \E s \in KbSources : \/ _create_source(c, s) \/ resync_source(c, s) \/ delete_source(c, s)
                                  \/ refresh_due_kb_sources(c, s)
    BY <1>5, <2>1, CallApart
  <2>2. CASE clerk[c].step # "idle" /\ (ClerkStep(c) \/ ClerkDies(c))
    BY <1>5, <2>2, ClerkApart, CallTypes
  <2>3. CASE clerk[c].step = "idle" /\ (ClerkStep(c) \/ ClerkDies(c))
    <3>1. ClerkDies(c)
      BY <2>3 DEF ClerkStep, StoreTexts, enqueue_ingest, ResetSource, DeleteStep, CallAt
    <3> QED BY <2>3, <3>1 DEF ClerkDies, Plain
  <2> QED BY <1>6, <2>1, <2>2, <2>3 DEF ClerkActs
<1> QED BY <1>3, <1>4, <1>6, KbSplit

(* A reader at a source that was let alone.                                *)
AtSource(w, s) ==
  /\ KbTypes /\ Plain /\ RunsKnown
  /\ w \in Readers /\ s \in KbSources /\ rd[w].s = s /\ rd[w].step # "idle"
  /\ s \notin mixed /\ Forgotten(s) /\ One(s) /\ (s \in torn \/ Sound(s))
  /\ ~Deleting(s) /\ ~Wiping(s) /\ ~SourceGone(s) /\ Exists(s)

(* A worker that is at work is at a source of which everything holds.      *)
LEMMA IsAt ==
  ASSUME KbTypes, Plain, RunsKnown, AllGood, NEW w \in Readers, NEW s \in KbSources,
         rd[w].s = s, rd[w].step # "idle", s \notin mixed
  PROVE  AtSource(w, s)
<1>1. Reading(s)
  BY DEF Reading
<1>2. KbGood(s)
  BY DEF AllGood
<1>3. Forgotten(s)
  BY <1>2 DEF KbGood
<1>4. ~Deleting(s) /\ ~SourceGone(s)
  BY <1>1, <1>3 DEF Forgotten
<1>5. ~Wiping(s)
  BY <1>4 DEF Wiping, Deleting
<1>6. source[s].status # "none"
  BY <1>1 DEF Plain, Unmade
<1>7. Exists(s)
  BY <1>4, <1>6 DEF Exists, SourceGone
<1>8. One(s) /\ (s \in torn \/ Sound(s))
  BY <1>2, <1>4, <1>5 DEF KbGood
<1> QED BY <1>3, <1>4, <1>5, <1>7, <1>8 DEF AtSource

(* What holds of its source as long as it is at work.                      *)
LEMMA AtRun ==
  ASSUME NEW w \in Readers, NEW s \in KbSources, AtSource(w, s), Running(w, s)
  PROVE  /\ \A x \in Readers : Running(x, s) => x = w
         /\ \A c \in Clerks : ~ClerkCalls(c, s)
         /\ ~Storing(s) /\ ingests[s] = 0 /\ source[s].status \in Syncing
         /\ rd[w].step \in {"lock", "begin"} => rd[w].src.run = source[s].run
            /\ rd[w].src.crawl = source[s].crawl
         /\ rd[w].step \notin {"lock", "begin"} => source[s].run = rd[w].run
            /\ source[s].status = "processing"
<1>1. One(s)
  BY DEF AtSource
<1>2. \A c \in Clerks : ~ClerkCalls(c, s)
  BY <1>1 DEF One
<1>3. ~Storing(s)
  BY <1>2 DEF Storing, ClerkCalls
<1> QED BY <1>1, <1>2, <1>3 DEF One

(* Its work brings back nothing of a source that was deleted.              *)
LEMMA WorkForgotten ==
  ASSUME NEW w \in Readers, NEW s \in KbSources, AtSource(w, s), Work(w)
  PROVE  /\ Forgotten(s)' /\ ~SourceGone(s)' /\ clerk' = clerk /\ mixed' = mixed /\ torn \subseteq torn' /\ Others(w)
         /\ (rd'[w].step = "idle" /\ rd'[w] = NoRead) \/ SameJob(w)
<1>1. KbTypes /\ Plain /\ rd[w].s = s /\ Forgotten(s)
  BY DEF AtSource
<1>2. Others(w) /\ ((rd'[w].step = "idle" /\ rd'[w] = NoRead) \/ SameJob(w))
  BY <1>1, WorkRecords
<1>3. clerk' = clerk /\ torn \subseteq torn'
  BY WorkActs, ReaderWrites
<1>4. mixed' = mixed
  BY WorkActs, ReaderWrites DEF run_source, RdAt
<1>5. ~SourceGone(s)'
  <2>1. CASE BeginSlice(w)
    BY <1>1, <2>1, SourceBegun DEF SourceGone, AtSource
  <2>2. CASE StoreCrawlState(w)
    BY <1>1, <2>2, SourceCrawled DEF SourceGone, AtSource
  <2>3. CASE _finish(w)
    <3>1. rd[w].end # "gone"
      BY <1>1 DEF KbTypes, RdType
    <3> QED BY <1>1, <2>3, <3>1, SourceFinished DEF SourceGone, AtSource
  <2>4. CASE source' = source
    BY <2>4 DEF SourceGone, AtSource
  <2> QED BY <2>1, <2>2, <2>3, <2>4, WorkActs, ReaderWrites
<1>6. ~Deleting(s)' /\ ~Wiping(s)' /\ ~(\E c \in Clerks : clerk'[c].s = s /\ clerk'[c].step = "source")
  BY <1>3 DEF AtSource, Deleting, Wiping
<1>7. \A x \in Readers \ {w} : Holding(x, s)' <=> Holding(x, s)
  BY <1>2 DEF Holding, Others
<1>8. CASE TakeLock(w) /\ GoesTo(w, "begin")
  <2>1. s \notin locked /\ s \in locked'
    BY <1>1, <1>8 DEF TakeLock, RdEnds, GoesTo, Others, NoRead, KbTypes
  <2>2. \A x \in Readers \ {w} : ~Holding(x, s)'
    BY <1>1, <1>7, <2>1 DEF Forgotten
  <2> QED BY <1>2, <1>3, <1>4, <1>5, <1>6, <2>1, <2>2 DEF Forgotten
<1>9. CASE ~(TakeLock(w) /\ GoesTo(w, "begin"))
  <2>1. Holding(w, s)' => Holding(w, s) /\ ~Unlock(w)
    <3>1. NoRead.step \notin HoldingSteps
      BY DEF NoRead, HoldingSteps
    <3>2. CASE TakeLock(w)
      BY <1>1, <1>9, <3>1, <3>2, JobMoves DEF Stops, Holding
    <3>3. CASE Unlock(w)
      BY <1>1, <3>1, <3>3, JobMoves DEF Stops, GoesTo, Holding, HoldingSteps
    <3>4. CASE EnqueueNextSlice(w) \/ ReaderDies(w)
      BY <1>1, <3>1, <3>4, JobMoves DEF Stops, Holding
    <3>5. CASE BeginSlice(w) \/ ReadPage(w) \/ UpsertDocument(w) \/ DeleteChunks(w) \/ InsertChunks(w)
               \/ StoreCrawlState(w) \/ PagesDone(w) \/ DropChunks(w) \/ DropDocuments(w)
               \/ _finish(w) \/ EmbeddingFails(w) \/ InsertFails(w)
      <4>1. rd[w].step \in HoldingSteps \ {"unlock"}
        BY <3>5 DEF HoldingSteps, RdAt, BeginSlice, ReadPage, UpsertDocument, DeleteChunks,
             InsertChunks,
           StoreCrawlState, PagesDone, DropChunks, DropDocuments, _finish, EmbeddingFails, InsertFails
      <4> QED BY <1>1, <4>1 DEF Holding, Unlock, RdAt
    <3> QED BY <3>2, <3>3, <3>4, <3>5 DEF Work
  <2>2. \A x, y \in Readers : Holding(x, s)' /\ Holding(y, s)' => x = y
    BY <1>1, <1>7, <2>1 DEF Forgotten
  <2>3. ASSUME NEW x \in Readers, Holding(x, s)' PROVE s \in locked'
    <3>1. Holding(x, s) /\ s \in locked
      BY <1>1, <1>7, <2>1, <2>3 DEF Forgotten
    <3>2. CASE Unlock(w)
      <4>1. Holding(w, s) /\ x # w
        BY <1>1, <2>1, <2>3, <3>2 DEF Unlock, RdAt, Holding, HoldingSteps
      <4> QED BY <1>1, <3>1, <4>1 DEF Forgotten
    <3> QED BY <3>1, <3>2, WorkActs, ReaderWrites DEF TakeLock
  <2> QED BY <1>2, <1>3, <1>4, <1>5, <1>6, <2>2, <2>3 DEF Forgotten
<1> QED BY <1>8, <1>9

-----------------------------------------------------------------------------
(* The source after the step of a reader that was at work on it. *)

(* Pages that are the same are as whole and as filled.                     *)
LEMMA SamePages ==
  ASSUME NEW u \in KbSources, PagesSame(u)
  PROVE  \A p \in Pages : /\ Whole(u, p)' <=> Whole(u, p)
                          /\ Filled(u, p)' <=> Filled(u, p)
                          /\ \A r : RunOK(u, p, r)' <=> RunOK(u, p, r)
                          /\ \A r : PageDone(u, p, r)' <=> PageDone(u, p, r)
  BY DEF PagesSame, Whole, Filled, RunOK, PageDone

(* Its pages, once it is sound and the reader is not between two writes.   *)
LEMMA AllWhole ==
  ASSUME NEW w \in Readers, NEW s \in KbSources, AtSource(w, s), Running(w, s), Sound(s),
         NEW p \in Pages,
         ~(rd[w].step = "drop docs"), ~(rd[w].step \in {"clear", "fill"} /\ rd[w].page = p)
  PROVE  Whole(s, p)
<1>1. ~Disturbed(s, p)
  BY AtRun DEF Disturbed
<1> QED BY <1>1 DEF Sound

(* The source is good again, if the step leaves its run and its pages in   *)
(* order.                                                                  *)
LEMMA GoodAfter ==
  ASSUME NEW w \in Readers, NEW s \in KbSources, AtSource(w, s), Work(w), Running(w, s),
         ingests'[s] <= 1, ingests'[s] > 0 => source'[s].status \in Syncing,
         Running(w, s)' => /\ ingests'[s] = 0 /\ source'[s].status \in Syncing
                           /\ rd'[w].step \in {"lock", "begin"} =>
                                rd'[w].src.run = source'[s].run /\ rd'[w].src.crawl = source'[s].crawl
                           /\ rd'[w].step \notin {"lock", "begin"} =>
                                source'[s].run = rd'[w].run /\ source'[s].status = "processing",
         s \in torn' \/
         ( /\ Running(w, s)' => Progress(w)'
           /\ ingests'[s] > 0 /\ source'[s].run # 0 => \A p \in Pages : RunOK(s, p, source[s].run)'
           /\ \A p \in Pages : Whole(s, p)' \/
                (Running(w, s)' /\ (rd'[w].step = "drop docs" \/ (rd'[w].step \in {"clear", "fill"} /\ rd'[w].page = p)))
           /\ source'[s].status = "ready" => \A p \in Pages : Filled(s, p)' )
  PROVE  KbGood(s)'
<1>1. /\ Forgotten(s)' /\ ~SourceGone(s)' /\ clerk' = clerk /\ torn \subseteq torn' /\ Others(w)
  BY WorkForgotten
<1>2. \A x \in Readers : Running(x, s)' => x = w
  <2>1. \A x \in Readers : Running(x, s) => x = w
    BY AtRun
  <2>2. ASSUME NEW x \in Readers \ {w} PROVE ~Running(x, s)'
    <3>1. rd'[x] = rd[x] /\ ~Running(x, s)
      BY <1>1, <2>1 DEF Others
    <3> QED BY <3>1 DEF Running
  <2> QED BY <2>2
<1>3. /\ \A c \in Clerks : ~ClerkCalls(c, s)'
      /\ ~Storing(s)'
  BY <1>1, AtRun DEF ClerkCalls, Storing
<1>4. One(s)'
  <2>1. /\ \A c, d \in Clerks : ClerkCalls(c, s)' /\ ClerkCalls(d, s)' => c = d
        /\ \A x, y \in Readers : Running(x, s)' /\ Running(y, s)' => x = y
    BY <1>2, <1>3
  <2>2. ASSUME NEW x \in Readers, Running(x, s)'
        PROVE  /\ ingests'[s] = 0 /\ source'[s].status \in Syncing
               /\ rd'[x].step \in {"lock", "begin"} =>
                    rd'[x].src.run = source'[s].run /\ rd'[x].src.crawl = source'[s].crawl
               /\ rd'[x].step \notin {"lock", "begin"} =>
                    source'[s].run = rd'[x].run /\ source'[s].status = "processing"
    <3>1. x = w
      BY <1>2, <2>2
    <3> QED BY <2>2, <3>1
  <2> QED BY <1>3, <2>1, <2>2 DEF One, Syncing
<1>5. CASE s \in torn'
  BY <1>1, <1>4, <1>5 DEF KbGood
<1>6. CASE s \notin torn'
  <2>1. \A x \in Readers : Running(x, s)' => Progress(x)'
    BY <1>2, <1>6
  <2>2. ASSUME NEW p \in Pages PROVE Disturbed(s, p)' \/ Whole(s, p)'
    BY <1>6 DEF Disturbed
  <2>3. Sound(s)'
    BY <1>3, <1>6, <2>1, <2>2 DEF Sound
  <2> QED BY <1>1, <1>4, <2>3 DEF KbGood
<1> QED BY <1>5, <1>6

(* Only the unlocking is after the work.                                   *)
LEMMA IsRunning ==
  ASSUME NEW w \in Readers, NEW s \in KbSources, AtSource(w, s), rd[w].step # "unlock"
  PROVE  Running(w, s)
  BY DEF AtSource, Running

(* No job waits.                                                           *)
LEMMA NoneWaiting == \A n : n = 0 => n <= 1 /\ ~(n > 0)
  OBVIOUS

(* If it stops, and if it goes on.                                         *)
LEMMA GoodStopped ==
  ASSUME NEW w \in Readers, NEW s \in KbSources, AtSource(w, s), Work(w), Running(w, s),
         ~Running(w, s)', ingests'[s] = 0, s \in torn' \/ \A p \in Pages : Whole(s, p)',
         s \in torn' \/ (source'[s].status = "ready" => \A p \in Pages : Filled(s, p)')
  PROVE  KbGood(s)'
<1>1. ingests'[s] <= 1 /\ ~(ingests'[s] > 0)
  OBVIOUS
<1>2. ingests'[s] > 0 => source'[s].status \in Syncing
  BY <1>1
<1>3. Running(w, s)' => /\ ingests'[s] = 0 /\ source'[s].status \in Syncing
                        /\ rd'[w].step \in {"lock", "begin"} =>
                             rd'[w].src.run = source'[s].run /\ rd'[w].src.crawl = source'[s].crawl
                        /\ rd'[w].step \notin {"lock", "begin"} =>
                             source'[s].run = rd'[w].run /\ source'[s].status = "processing"
  OBVIOUS
<1>4. s \in torn' \/
         ( /\ Running(w, s)' => Progress(w)'
           /\ ingests'[s] > 0 /\ source'[s].run # 0 => \A p \in Pages : RunOK(s, p, source[s].run)'
           /\ \A p \in Pages : Whole(s, p)' \/
                (Running(w, s)' /\ (rd'[w].step = "drop docs" \/ (rd'[w].step \in {"clear", "fill"} /\ rd'[w].page = p)))
           /\ source'[s].status = "ready" => \A p \in Pages : Filled(s, p)' )
  BY <1>1
<1> QED BY <1>1, <1>2, <1>3, <1>4, GoodAfter

LEMMA GoodGoing ==
  ASSUME NEW w \in Readers, NEW s \in KbSources, AtSource(w, s), Work(w), Running(w, s),
         Running(w, s)', ingests'[s] = 0, source'[s].status \in Syncing,
         rd'[w].step \in {"lock", "begin"} =>
           rd'[w].src.run = source'[s].run /\ rd'[w].src.crawl = source'[s].crawl,
         rd'[w].step \notin {"lock", "begin"} =>
           source'[s].run = rd'[w].run /\ source'[s].status = "processing",
         s \in torn' \/ Progress(w)',
         s \in torn' \/ \A p \in Pages : \/ Whole(s, p)' \/ rd'[w].step = "drop docs"
                                        \/ (rd'[w].step \in {"clear", "fill"} /\ rd'[w].page = p)
  PROVE  KbGood(s)'
<1>1. ingests'[s] <= 1 /\ ~(ingests'[s] > 0) /\ source'[s].status # "ready"
  <2>1. source'[s].status # "ready"
    BY DEF Syncing
  <2>2. ingests'[s] <= 1 /\ ~(ingests'[s] > 0)
    <3>1. ingests'[s] = 0
      OBVIOUS
    <3> QED BY ONLY <3>1, NoneWaiting
  <2> QED BY <2>1, <2>2
<1>2. ingests'[s] > 0 => source'[s].status \in Syncing
  BY <1>1
<1>3. Running(w, s)' => /\ ingests'[s] = 0 /\ source'[s].status \in Syncing
                        /\ rd'[w].step \in {"lock", "begin"} =>
                             rd'[w].src.run = source'[s].run /\ rd'[w].src.crawl = source'[s].crawl
                        /\ rd'[w].step \notin {"lock", "begin"} =>
                             source'[s].run = rd'[w].run /\ source'[s].status = "processing"
  OBVIOUS
<1>4. s \in torn' \/
         ( /\ Running(w, s)' => Progress(w)'
           /\ ingests'[s] > 0 /\ source'[s].run # 0 => \A p \in Pages : RunOK(s, p, source[s].run)'
           /\ \A p \in Pages : Whole(s, p)' \/
                (Running(w, s)' /\ (rd'[w].step = "drop docs" \/ (rd'[w].step \in {"clear", "fill"} /\ rd'[w].page = p)))
           /\ source'[s].status = "ready" => \A p \in Pages : Filled(s, p)' )
  <2>1. s \in torn' \/ \A p \in Pages : Whole(s, p)' \/
          (Running(w, s)' /\ (rd'[w].step = "drop docs" \/ (rd'[w].step \in {"clear", "fill"} /\ rd'[w].page = p)))
    OBVIOUS
  <2> QED BY <1>1, <2>1
<1> QED BY <1>1, <1>2, <1>3, <1>4, GoodAfter

(* Each step of the work leaves the source good: the lock and the slice's  *)
(* begin,                                                                  *)
LEMMA TakeLockGood ==
  ASSUME NEW w \in Readers, NEW s \in KbSources, AtSource(w, s), TakeLock(w)
  PROVE  KbGood(s)'
<1>1. Work(w) /\ rd[w].step = "lock" /\ rd[w].s = s /\ KbTypes
  BY DEF Work, TakeLock, RdAt, AtSource
<1>2. Running(w, s)
  BY <1>1, IsRunning
<1>3. source' = source /\ ingests' = ingests /\ PagesSame(s) /\ torn' = torn
  BY DEF TakeLock, PagesSame
<1>4. ingests[s] = 0 /\ source[s].status \in Syncing /\ rd[w].src.run = source[s].run
        /\ rd[w].src.crawl = source[s].crawl
  BY <1>1, <1>2, AtRun
<1>5. CASE Stops(w)
  <2>1. ~Running(w, s)'
    BY <1>5 DEF Stops, Running, NoRead
  <2>2. s \in torn \/ \A p \in Pages : Whole(s, p)'
    BY <1>1, <1>2, <1>3, AllWhole, SamePages DEF AtSource
  <2>3. ingests'[s] = 0 /\ source'[s].status # "ready" /\ (s \in torn' \/ \A p \in Pages : Whole(s, p)')
    BY <1>3, <1>4, <2>2 DEF Syncing
  <2> QED BY <1>1, <1>2, <2>1, <2>3, GoodStopped
<1>6. CASE GoesTo(w, "begin")
  <2>1. rd'[w].step = "begin" /\ rd'[w].s = s /\ rd'[w].src = rd[w].src
    BY <1>1, <1>6 DEF GoesTo, SameWork, SameJob
  <2>2. s \in torn \/ \A p \in Pages : Whole(s, p)'
    BY <1>1, <1>2, <1>3, AllWhole, SamePages DEF AtSource
  <2>3. ASSUME s \notin torn PROVE Progress(w)'
    <3>1. Progress(w)
      BY <1>2, <2>3 DEF AtSource, Sound
    <3>2. source[s].run # 0 => \A p \in Pages : RunOK(s, p, source[s].run)
      BY <1>1, <3>1 DEF Progress
    <3>3. source'[s].run # 0 => \A p \in Pages : RunOK(s, p, source[s].run)'
      BY <1>3, <3>2 DEF RunOK, PagesSame
    <3> QED BY <2>1, <3>3 DEF Progress, ReadSteps
  <2>4. Running(w, s)' /\ (s \in torn' \/ Progress(w)')
          /\ (s \in torn' \/ \A p \in Pages : Whole(s, p)')
    BY <1>3, <2>1, <2>2, <2>3 DEF Running
  <2>5. /\ ingests'[s] = 0 /\ source'[s].status \in Syncing
        /\ rd'[w].src.run = source'[s].run /\ rd'[w].src.crawl = source'[s].crawl
    BY <1>3, <1>4, <2>1
  <2> QED BY <1>1, <1>2, <2>1, <2>4, <2>5, GoodGoing
<1> QED BY <1>1, <1>5, <1>6, JobMoves

LEMMA BeginGood ==
  ASSUME NEW w \in Readers, NEW s \in KbSources, AtSource(w, s), BeginSlice(w)
  PROVE  KbGood(s)'
<1>1. Work(w) /\ rd[w].step = "begin" /\ rd[w].s = s /\ KbTypes /\ RunsKnown
  BY DEF Work, BeginSlice, RdAt, AtSource
<1>2. Running(w, s)
  BY <1>1, IsRunning
<1>3. ingests' = ingests /\ doc' = doc /\ chunks' = chunks /\ torn' = torn
  BY DEF BeginSlice
<1>4. ingests[s] = 0 /\ rd[w].src.run = source[s].run /\ rd[w].src.crawl = source[s].crawl
  BY <1>1, <1>2, AtRun
<1>5. /\ rd'[w].step = "page" /\ rd'[w].s = s
      /\ rd'[w].run = (IF source[s].run = 0 THEN runs + 1 ELSE source[s].run)
      /\ Kind(s) # "url" => rd'[w].todo = source[s].crawl
  BY <1>1, <1>4, Begun DEF SameJob
<1>6. source'[s].run = rd'[w].run /\ source'[s].status = "processing"
  BY <1>1, SourceBegun DEF AtSource
<1>7. s \in torn \/ \A p \in Pages : Whole(s, p)'
  <2>1. s \in torn \/ \A p \in Pages : Whole(s, p)
    BY <1>1, <1>2, AllWhole DEF AtSource
  <2> QED BY <1>3, <2>1 DEF Whole
<1>8. ASSUME s \notin torn PROVE Progress(w)'
  <2>1. \A p \in Pages : RunOK(s, p, rd[w].run)'
    <3>1. CASE source[s].run = 0
      <4>1. got' = [got EXCEPT ![s] = Nothing]
        BY <1>1, <1>4, <3>1 DEF BeginSlice
      <4>2. \A p \in Pages : got'[s][p] = 0
        BY <4>1 DEF KbTypes, AtSource, Nothing
      <4>3. \A p \in Pages : doc'[s][p].run # runs + 1
        <5>1. \A p \in Pages : doc[s][p].run \in Nat /\ runs \in Nat
          BY <1>1 DEF KbTypes, DocType
        <5>2. \A p \in Pages : doc[s][p].run <= runs
          BY <1>1 DEF RunsKnown
        <5>3. ASSUME NEW p \in Pages PROVE doc[s][p].run # runs + 1
          BY <5>1, <5>2
        <5> QED BY <1>3, <5>3
      <4> QED BY <1>5, <3>1, <4>2, <4>3 DEF RunOK
    <3>2. CASE source[s].run # 0
      <4>1. got' = got
        BY <1>1, <1>4, <3>2 DEF BeginSlice
      <4>2. Progress(w)
        BY <1>2, <1>8 DEF AtSource, Sound
      <4>3. \A p \in Pages : RunOK(s, p, source[s].run)
        BY <1>1, <3>2, <4>2 DEF Progress
      <4> QED BY <1>3, <1>5, <3>2, <4>1, <4>3 DEF RunOK
    <3> QED BY <3>1, <3>2
  <2>2. ~Refetchable(s)' => rd'[w].todo = Pages
    <3>1. Kind(s)' = Kind(s)
      BY DEF BeginSlice, Kind
    <3>2. Kind(s) # "crawl" => source[s].crawl = Pages
      BY DEF AtSource, Plain, PlainSource
    <3> QED BY <1>5, <3>1, <3>2 DEF Refetchable
  <2> QED BY <1>5, <2>1, <2>2 DEF Progress, ReadSteps
<1>9. Running(w, s)' /\ (s \in torn' \/ Progress(w)') /\ (s \in torn' \/ \A p \in Pages : Whole(s, p)')
  BY <1>3, <1>5, <1>7, <1>8 DEF Running
<1>10. /\ ingests'[s] = 0 /\ source'[s].status \in Syncing
       /\ rd'[w].step \notin {"lock", "begin"}
  BY <1>3, <1>4, <1>5, <1>6 DEF Syncing
<1> QED BY <1>1, <1>2, <1>6, <1>9, <1>10, GoodGoing

(* What a step that writes nothing of the source leaves.                   *)
LEMMA QuietGood ==
  ASSUME NEW w \in Readers, NEW s \in KbSources, AtSource(w, s), Work(w), Running(w, s),
         PagesSame(s), ingests'[s] = ingests[s], torn \subseteq torn',
         source'[s].status = source[s].status, source'[s].run = source[s].run,
         rd[w].step \notin {"lock", "begin"},
         Running(w, s)' => /\ rd'[w].step \notin {"lock", "begin"} /\ rd'[w].run = rd[w].run
                           /\ s \in torn' \/ Progress(w)',
         s \in torn' \/ rd[w].step \notin {"clear", "fill", "drop docs"}
  PROVE  KbGood(s)'
<1>1. ingests[s] = 0 /\ source[s].status = "processing" /\ source[s].run = rd[w].run
  BY AtRun
<1>2. s \in torn' \/ \A p \in Pages : Whole(s, p)'
  BY AllWhole, SamePages DEF AtSource
<1>3. ingests'[s] = 0 /\ source'[s].status \in Syncing /\ source'[s].status # "ready"
  BY <1>1 DEF Syncing
<1>4. CASE Running(w, s)'
  BY <1>1, <1>2, <1>3, <1>4, GoodGoing
<1>5. CASE ~Running(w, s)'
  BY <1>2, <1>3, <1>5, GoodStopped
<1> QED BY <1>4, <1>5

(* Of the pages as they are after such a step.                             *)
LEMMA ProgressKept ==
  ASSUME NEW w \in Readers, NEW s \in KbSources, AtSource(w, s), Running(w, s), Sound(s), PagesSame(s),
         Kind(s)' = Kind(s),
         rd'[w].s = s, rd'[w].run = rd[w].run, rd[w].step \in {"page", "unlock"},
         rd'[w].step \in {"page", "drop", "unlock", "again", "finish"},
         rd'[w].step = "page" /\ ~Refetchable(s) => \A p \in Pages \ rd'[w].todo : PageDone(s, p, rd[w].run),
         rd'[w].step = "finish" /\ rd'[w].end = "ready" => \A p \in Pages : PageDone(s, p, rd[w].run)
  PROVE  Progress(w)'
<1>1. Progress(w) /\ rd[w].s = s
  BY DEF Sound, AtSource
<1>2. \A p \in Pages : RunOK(s, p, rd[w].run)
  BY <1>1 DEF Progress, ReadSteps
<1>3. \A p \in Pages : RunOK(s, p, rd[w].run)'
  BY <1>2 DEF RunOK, PagesSame
<1>4. /\ rd'[w].step = "page"
         /\ ~Refetchable(s)' => \A p \in Pages \ rd'[w].todo : PageDone(s, p, rd[w].run)'
      /\ rd'[w].step = "finish" /\ rd'[w].end = "ready" => \A p \in Pages : PageDone(s, p, rd[w].run)'
  BY DEF PageDone, PagesSame, Refetchable
<1> QED BY <1>3, <1>4 DEF Progress, ReadSteps

(* the page that is read and the document that is stored before its        *)
(* chunks,                                                                 *)
LEMMA ReadPageGood ==
  ASSUME NEW w \in Readers, NEW s \in KbSources, AtSource(w, s), ReadPage(w)
  PROVE  KbGood(s)'
<1>1. Work(w) /\ rd[w].step = "page" /\ rd[w].s = s /\ KbTypes /\ Plain
  BY DEF Work, ReadPage, RdAt, AtSource
<1>2. Running(w, s)
  BY <1>1, IsRunning
<1>3. source' = source /\ chunks' = chunks /\ ingests' = ingests /\ torn' = torn /\ Kind(s)' = Kind(s)
  BY DEF ReadPage, Kind
<1>4. SameJob(w) /\ rd'[w].run = rd[w].run /\ rd'[w].s = s
  BY <1>1, PageRead DEF SameJob
<1>5. PICK p \in rd[w].todo : Skips(w, p) \/ Knows(w, p) \/ Fails(w) \/ Learns(w, p)
  BY <1>1, PageRead
<1>6. /\ p \in Pages /\ doc \in [KbSources -> [Pages -> DocType]]
         /\ got \in [KbSources -> [Pages -> Nat]]
      /\ rd[w].todo \subseteq Pages
  BY <1>1, <1>5 DEF KbTypes, RdType
<1>7. ingests[s] = 0 /\ source[s].status = "processing" /\ source[s].run = rd[w].run
  BY <1>1, <1>2, AtRun
<1>8. ASSUME s \notin torn
      PROVE  /\ \A q \in Pages : RunOK(s, q, rd[w].run) /\ Whole(s, q)
             /\ ~Refetchable(s) => \A q \in Pages \ rd[w].todo : PageDone(s, q, rd[w].run)
  <2>1. Sound(s) /\ Progress(w)
    BY <1>2, <1>8 DEF AtSource, Sound
  <2>2. \A q \in Pages : Whole(s, q)
    BY <1>1, <1>2, <2>1, AllWhole
  <2>3. \A q \in Pages : RunOK(s, q, rd[w].run)
    BY <1>1, <2>1 DEF Progress, ReadSteps
  <2>4. ~Refetchable(s) => \A q \in Pages \ rd[w].todo : PageDone(s, q, rd[w].run)
    BY <1>1, <2>1 DEF Progress
  <2> QED BY <2>2, <2>3, <2>4
<1>9. rd[w].run # 0
  BY <1>1 DEF Plain, PlainReader, ReadSteps
<1>10. Refetchable(s)' <=> Refetchable(s)
  BY <1>3 DEF Refetchable
<1>11. \A q \in Pages : ~doc[s][q].has => doc[s][q].hash = 0
  BY <1>1 DEF Plain, PlainSource
<1>12. CASE Skips(w, p)
  <2>1. PagesSame(s) /\ rd'[w].step = "page" /\ rd'[w].todo = rd[w].todo \ {p}
    BY <1>3, <1>12 DEF Skips, PagesSame
  <2>2. ASSUME s \notin torn PROVE Progress(w)'
    <3>1. ~Refetchable(s) => PageDone(s, p, rd[w].run)
      BY <1>1, <1>6, <1>11, <1>12 DEF Skips, PageDone, Refetchable
    <3>2. ~Refetchable(s) => \A q \in Pages \ rd'[w].todo : PageDone(s, q, rd[w].run)
      BY <1>8, <2>1, <2>2, <3>1
    <3>3. Sound(s)
      BY <2>2 DEF AtSource
    <3> QED BY <1>1, <1>2, <1>3, <1>4, <2>1, <3>2, <3>3, ProgressKept
  <2> QED BY <1>1, <1>2, <1>3, <1>4, <2>1, <2>2, QuietGood
<1>13. CASE Fails(w)
  <2>1. PagesSame(s) /\ rd'[w].step = "finish" /\ rd'[w].end # "ready"
    BY <1>3, <1>13 DEF Fails, PagesSame
  <2>2. Progress(w)'
    BY <2>1 DEF Progress, ReadSteps
  <2> QED BY <1>1, <1>2, <1>3, <1>4, <2>1, <2>2, QuietGood
<1>14. CASE Knows(w, p)
  <2>1. /\ rd'[w].step = "page" /\ rd'[w].todo = rd[w].todo \ {p}
        /\ doc[s][p].hash = site[s][p] /\ site[s][p] # 0
        /\ got' = [got EXCEPT ![s][p] = site[s][p]]
    BY <1>1, <1>14 DEF Knows
  <2>2. PICK r, v : r = rd[w].run /\ v = [doc[s][p] EXCEPT !.run = r]
    OBVIOUS
  <2>3. doc' = [doc EXCEPT ![s][p] = v] /\ v.hash = doc[s][p].hash /\ v.run = r
    <3>1. doc' = [doc EXCEPT ![s][p].run = r]
      BY <1>1, <1>14, <2>2 DEF Knows
    <3>2. doc[s][p] \in DocType
      BY <1>6
    <3> QED BY <1>6, <2>2, <3>1, <3>2 DEF DocType
  <2>4. /\ \A q \in Pages \ {p} : doc'[s][q] = doc[s][q] /\ got'[s][q] = got[s][q]
        /\ doc'[s][p] = v /\ got'[s][p] = site[s][p]
    BY <1>6, <2>1, <2>3
  <2>5. ASSUME s \notin torn PROVE \A q \in Pages : Whole(s, q)'
    BY <1>3, <1>8, <2>3, <2>4, <2>5 DEF Whole
  <2>6. ASSUME s \notin torn PROVE Progress(w)'
    <3>1. \A q \in Pages : RunOK(s, q, rd[w].run)'
      <4>1. ASSUME NEW q \in Pages \ {p} PROVE RunOK(s, q, rd[w].run)'
        <5>1. RunOK(s, q, rd[w].run)
          BY <1>8, <2>6
        <5> QED BY <1>4, <2>4, <5>1 DEF RunOK
      <4>2. RunOK(s, p, rd[w].run)'
        BY <1>4, <2>1, <2>2, <2>3, <2>4 DEF RunOK
      <4> QED BY <4>1, <4>2
    <3>2. ~Refetchable(s)' => \A q \in Pages \ rd'[w].todo : PageDone(s, q, rd[w].run)'
      BY <1>4, <1>8, <1>10, <2>1, <2>2, <2>3, <2>4, <2>6 DEF PageDone
    <3> QED BY <1>4, <2>1, <3>1, <3>2 DEF Progress, ReadSteps
  <2>7. Running(w, s)' /\ ingests'[s] = 0 /\ source'[s].status \in Syncing
        /\ rd'[w].step \notin {"lock", "begin"} /\ source'[s].run = rd'[w].run
           /\ source'[s].status = "processing"
    BY <1>3, <1>4, <1>7, <2>1 DEF Running, Syncing
  <2>8. s \in torn' \/ \A q \in Pages : Whole(s, q)'
    BY <1>3, <2>5
  <2>9. s \in torn' \/ Progress(w)'
    BY <1>3, <2>6
  <2> QED BY <1>1, <1>2, <2>7, <2>8, <2>9, GoodGoing
<1>15. CASE Learns(w, p)
  <2>1. /\ rd'[w].step = "embed" /\ rd'[w].todo = rd[w].todo \ {p} /\ rd'[w].page = p
        /\ rd'[w].ver = site[s][p]
        /\ got' = [got EXCEPT ![s][p] = site[s][p]] /\ doc' = doc
    BY <1>1, <1>15 DEF Learns
  <2>2. got'[s][p] = site[s][p] /\ \A q \in Pages \ {p} : got'[s][q] = got[s][q]
    BY <1>6, <2>1
  <2>3. s \in torn' \/ \A q \in Pages : Whole(s, q)'
    BY <1>3, <1>8, <2>1 DEF Whole
  <2>4. ASSUME s \notin torn PROVE Progress(w)'
    <3>1. \A q \in Pages \ {p} : RunOK(s, q, rd[w].run)'
      BY <1>4, <1>8, <2>1, <2>2, <2>4 DEF RunOK
    <3>2. ~Refetchable(s)' => \A q \in Pages \ rd'[w].todo : PageDone(s, q, rd[w].run)' \/ q = p
      BY <1>4, <1>8, <1>10, <2>1, <2>4 DEF PageDone
    <3> QED BY <1>4, <2>1, <2>2, <3>1, <3>2 DEF Progress, ReadSteps
  <2>5. Running(w, s)' /\ ingests'[s] = 0 /\ source'[s].status \in Syncing
        /\ rd'[w].step \notin {"lock", "begin"} /\ source'[s].run = rd'[w].run
           /\ source'[s].status = "processing"
    BY <1>3, <1>4, <1>7, <2>1 DEF Running, Syncing
  <2>6. s \in torn' \/ Progress(w)'
    BY <1>3, <2>4
  <2> QED BY <1>1, <1>2, <2>3, <2>5, <2>6, GoodGoing
<1> QED BY <1>5, <1>12, <1>13, <1>14, <1>15

LEMMA UpsertGood ==
  ASSUME NEW w \in Readers, NEW s \in KbSources, AtSource(w, s), UpsertDocument(w)
  PROVE  KbGood(s)'
<1>1. Work(w) /\ rd[w].step = "embed" /\ rd[w].s = s /\ KbTypes /\ Plain
  BY DEF Work, UpsertDocument, RdAt, AtSource
<1>2. Running(w, s)
  BY <1>1, IsRunning
<1>3. source' = source /\ chunks' = chunks /\ ingests' = ingests /\ torn' = torn
        /\ Kind(s)' = Kind(s) /\ got' = got
  BY DEF UpsertDocument, Kind
<1>4. PICK p, v, r : p = rd[w].page /\ v = rd[w].ver /\ r = rd[w].run
  OBVIOUS
<1>5. p \in Pages /\ v # 0 /\ r # 0
  BY <1>1, <1>4 DEF Plain, PlainReader, ReadSteps
<1>6. /\ rd'[w].step = "clear" /\ rd'[w].s = s /\ rd'[w].page = p /\ rd'[w].ver = v /\ rd'[w].run = r
      /\ rd'[w].todo = rd[w].todo
  BY <1>1, <1>4, JobMoves DEF GoesTo, SameWork, SameJob
<1>7. doc'[s][p] = [has |-> TRUE, hash |-> v, run |-> r]
        /\ \A q \in Pages \ {p} : doc'[s][q] = doc[s][q]
  BY <1>1, <1>4, <1>5 DEF UpsertDocument, KbTypes
<1>8. ingests[s] = 0 /\ source[s].status = "processing" /\ source[s].run = r
  BY <1>1, <1>2, <1>4, AtRun
<1>9. ASSUME s \notin torn
      PROVE  Progress(w)' /\ \A q \in Pages : Whole(s, q)' \/ q = p
  <2>1. Sound(s) /\ Progress(w)
    BY <1>2, <1>9 DEF AtSource, Sound
  <2>2. \A q \in Pages : Whole(s, q)
    BY <1>1, <1>2, <2>1, AllWhole
  <2>3. /\ \A q \in Pages \ {p} : RunOK(s, q, r)
        /\ got[s][p] = v
        /\ ~Refetchable(s) => \A q \in Pages \ rd[w].todo : PageDone(s, q, r) \/ q = p
    BY <1>1, <1>4, <2>1 DEF Progress, ReadSteps
  <2>4. ASSUME NEW q \in Pages PROVE Whole(s, q)' \/ q = p
    BY <1>3, <1>7, <2>2 DEF Whole
  <2>5. \A q \in Pages : RunOK(s, q, r)'
    <3>1. ASSUME NEW q \in Pages \ {p} PROVE RunOK(s, q, r)'
      BY <1>3, <1>7, <2>3 DEF RunOK
    <3>2. RunOK(s, p, r)'
      BY <1>3, <1>5, <1>7, <2>3 DEF RunOK
    <3> QED BY <3>1, <3>2
  <2>6. ~Refetchable(s)' => \A q \in Pages \ rd[w].todo : PageDone(s, q, r)'
    <3>1. PageDone(s, p, r)'
      BY <1>7 DEF PageDone
    <3>2. \A q \in Pages \ {p} : PageDone(s, q, r) => PageDone(s, q, r)'
      BY <1>7 DEF PageDone
    <3> QED BY <1>3, <2>3, <3>1, <3>2 DEF Refetchable
  <2>7. Progress(w)'
    BY <1>6, <1>7, <2>5, <2>6 DEF Progress, ReadSteps
  <2> QED BY <2>4, <2>7
<1>10. Running(w, s)' /\ ingests'[s] = 0 /\ source'[s].status \in Syncing
        /\ rd'[w].step \notin {"lock", "begin"} /\ source'[s].run = rd'[w].run
           /\ source'[s].status = "processing"
  BY <1>3, <1>6, <1>8 DEF Running, Syncing
<1>11. s \in torn' \/ Progress(w)'
  BY <1>3, <1>9
<1>12. s \in torn' \/ \A q \in Pages : \/ Whole(s, q)' \/ rd'[w].step = "drop docs"
                                     \/ (rd'[w].step \in {"clear", "fill"} /\ rd'[w].page = q)
  BY <1>3, <1>6, <1>9
<1> QED BY <1>1, <1>2, <1>10, <1>11, <1>12, GoodGoing

(* the old chunks deleted, the new inserted, and what fails of it,         *)
LEMMA ClearGood ==
  ASSUME NEW w \in Readers, NEW s \in KbSources, AtSource(w, s), DeleteChunks(w) \/ InsertChunks(w)
  PROVE  KbGood(s)'
<1>1. Work(w) /\ rd[w].step \in {"clear", "fill"} /\ rd[w].s = s /\ KbTypes /\ Plain
  BY DEF Work, DeleteChunks, InsertChunks, RdAt, AtSource
<1>2. Running(w, s)
  BY <1>1, IsRunning
<1>3. source' = source /\ doc' = doc /\ ingests' = ingests /\ torn' = torn /\ Kind(s)' = Kind(s)
        /\ got' = got
  BY DEF DeleteChunks, InsertChunks, Kind
<1>4. PICK p, v, r : p = rd[w].page /\ v = rd[w].ver /\ r = rd[w].run
  OBVIOUS
<1>5. p \in Pages /\ v # 0 /\ r # 0
  BY <1>1, <1>4 DEF Plain, PlainReader, ReadSteps
<1>6. /\ rd'[w].s = s /\ rd'[w].page = p /\ rd'[w].ver = v /\ rd'[w].run = r
      /\ rd'[w].todo = rd[w].todo
      /\ DeleteChunks(w) => rd'[w].step = "fill"
      /\ InsertChunks(w) => rd'[w].step = "page"
  BY <1>1, <1>4, JobMoves DEF GoesTo, SameWork, SameJob
<1>7. /\ \A q \in Pages \ {p} : chunks'[s][q] = chunks[s][q]
      /\ DeleteChunks(w) => chunks'[s][p] = {}
      /\ InsertChunks(w) => chunks'[s][p] = chunks[s][p] \cup {v}
  BY <1>1, <1>4, <1>5 DEF DeleteChunks, InsertChunks, KbTypes
<1>8. ingests[s] = 0 /\ source[s].status = "processing" /\ source[s].run = r
  BY <1>1, <1>2, <1>4, AtRun
<1>9. ASSUME s \notin torn
      PROVE  Progress(w)' /\ \A q \in Pages : Whole(s, q)' \/ (rd'[w].step = "fill" /\ q = p)
  <2>1. Sound(s) /\ Progress(w)
    BY <1>2, <1>9 DEF AtSource, Sound
  <2>2. \A q \in Pages \ {p} : Whole(s, q)
    BY <1>1, <1>2, <1>4, <2>1, AllWhole
  <2>3. /\ \A q \in Pages : RunOK(s, q, r)
        /\ doc[s][p].hash = v /\ doc[s][p].run = r
        /\ ~Refetchable(s) => \A q \in Pages \ rd[w].todo : PageDone(s, q, r)
    BY <1>1, <1>4, <2>1 DEF Progress, ReadSteps
  <2>4. rd[w].step = "fill" => chunks[s][p] = {}
    BY <1>1, <1>4, <2>1 DEF Progress
  <2>5. \A q \in Pages \ {p} : Whole(s, q)'
    BY <1>3, <1>7, <2>2 DEF Whole
  <2>6. InsertChunks(w) => Whole(s, p)'
    BY <1>3, <1>5, <1>7, <2>3, <2>4 DEF Whole, InsertChunks, RdAt
  <2>7. \A q \in Pages : RunOK(s, q, r)'
    BY <1>3, <2>3 DEF RunOK
  <2>8. ~Refetchable(s)' => \A q \in Pages \ rd[w].todo : PageDone(s, q, r)'
    BY <1>3, <2>3 DEF Refetchable, PageDone
  <2>9. Progress(w)'
    BY <1>3, <1>6, <1>7, <2>3, <2>7, <2>8 DEF Progress, ReadSteps
  <2> QED BY <1>6, <2>5, <2>6, <2>9
<1>10. Running(w, s)' /\ ingests'[s] = 0 /\ source'[s].status \in Syncing
        /\ rd'[w].step \notin {"lock", "begin"} /\ source'[s].run = rd'[w].run
           /\ source'[s].status = "processing"
  BY <1>3, <1>6, <1>8 DEF Running, Syncing
<1>11. s \in torn' \/ Progress(w)'
  BY <1>3, <1>9
<1>12. s \in torn' \/ \A q \in Pages : \/ Whole(s, q)' \/ rd'[w].step = "drop docs"
                                     \/ (rd'[w].step \in {"clear", "fill"} /\ rd'[w].page = q)
  BY <1>3, <1>6, <1>9
<1> QED BY <1>1, <1>2, <1>10, <1>11, <1>12, GoodGoing

LEMMA FailGood ==
  ASSUME NEW w \in Readers, NEW s \in KbSources, AtSource(w, s), EmbeddingFails(w) \/ InsertFails(w)
  PROVE  KbGood(s)'
<1>1. Work(w) /\ rd[w].step \in {"embed", "clear", "fill"} /\ rd[w].s = s /\ KbTypes
  BY DEF Work, EmbeddingFails, InsertFails, RdAt, AtSource
<1>2. Running(w, s)
  BY <1>1, IsRunning
<1>3. /\ source' = source /\ ingests' = ingests /\ torn \subseteq torn' /\ PagesSame(s)
      /\ s \in torn' \/ rd[w].step = "embed"
  BY <1>1 DEF EmbeddingFails, InsertFails, PagesSame, RdAt
<1>4. rd'[w].step = "finish" /\ rd'[w].end = "failed" /\ rd'[w].s = s /\ rd'[w].run = rd[w].run
  BY <1>1, JobMoves DEF EndsWith, SameWork, SameJob
<1>5. Progress(w)'
  BY <1>4 DEF Progress, ReadSteps
<1> QED BY <1>1, <1>2, <1>3, <1>4, <1>5, QuietGood

(* the slice that ends and the pages that are no longer there,             *)
LEMMA SliceGood ==
  ASSUME NEW w \in Readers, NEW s \in KbSources, AtSource(w, s), StoreCrawlState(w)
  PROVE  KbGood(s)'
<1>1. Work(w) /\ rd[w].step = "page" /\ rd[w].s = s /\ KbTypes
  BY DEF Work, StoreCrawlState, RdAt, AtSource
<1>2. Running(w, s)
  BY <1>1, IsRunning
<1>3. ingests' = ingests /\ torn' = torn /\ PagesSame(s) /\ Kind(s)' = Kind(s)
  BY DEF StoreCrawlState, PagesSame, Kind
<1>4. source'[s].status = source[s].status /\ source'[s].run = source[s].run
  BY <1>1, SourceCrawled
<1>5. rd'[w].step = "unlock" /\ rd'[w].end = "processing" /\ rd'[w].s = s /\ rd'[w].run = rd[w].run
  BY <1>1, JobMoves DEF EndsWith, SameWork, SameJob
<1>6. s \in torn \/ Progress(w)'
  BY <1>1, <1>2, <1>3, <1>5, ProgressKept DEF AtSource
<1> QED BY <1>1, <1>2, <1>3, <1>4, <1>5, <1>6, QuietGood

LEMMA PagesDoneGood ==
  ASSUME NEW w \in Readers, NEW s \in KbSources, AtSource(w, s), PagesDone(w)
  PROVE  KbGood(s)'
<1>1. Work(w) /\ rd[w].step = "page" /\ rd[w].s = s /\ KbTypes
  BY DEF Work, PagesDone, RdAt, AtSource
<1>2. Running(w, s)
  BY <1>1, IsRunning
<1>3. ingests' = ingests /\ torn' = torn /\ PagesSame(s) /\ Kind(s)' = Kind(s) /\ source' = source
  BY DEF PagesDone, PagesSame, Kind
<1>4. CASE EndsWith(w, "finish", "failed")
  <2>1. rd'[w].step = "finish" /\ rd'[w].end = "failed" /\ rd'[w].s = s /\ rd'[w].run = rd[w].run
    BY <1>1, <1>4 DEF EndsWith, SameWork, SameJob
  <2>2. Progress(w)'
    BY <2>1 DEF Progress, ReadSteps
  <2> QED BY <1>1, <1>2, <1>3, <2>1, <2>2, QuietGood
<1>5. CASE Refetchable(s) /\ GoesTo(w, "drop")
  <2>1. rd'[w].step = "drop" /\ rd'[w].s = s /\ rd'[w].run = rd[w].run
    BY <1>1, <1>5 DEF GoesTo, SameWork, SameJob
  <2>2. s \in torn \/ Progress(w)'
    BY <1>1, <1>2, <1>3, <2>1, ProgressKept DEF AtSource
  <2> QED BY <1>1, <1>2, <1>3, <2>1, <2>2, QuietGood
<1>6. CASE ~Refetchable(s) /\ GoesTo(w, "finish")
  <2>1. rd'[w].step = "finish" /\ rd'[w].s = s /\ rd'[w].run = rd[w].run
    BY <1>1, <1>6 DEF GoesTo, SameWork, SameJob
  <2>2. ASSUME s \notin torn PROVE Progress(w)'
    <3>1. rd[w].todo = {}
      BY <1>1, <1>6 DEF PagesDone, Refetchable
    <3>2. Sound(s) /\ Progress(w)
      BY <1>2, <2>2 DEF AtSource, Sound
    <3>3. \A p \in Pages : PageDone(s, p, rd[w].run)
      BY <1>1, <1>6, <3>1, <3>2 DEF Progress
    <3> QED BY <1>1, <1>2, <1>3, <2>1, <3>2, <3>3, ProgressKept
  <2> QED BY <1>1, <1>2, <1>3, <2>1, <2>2, QuietGood
<1> QED BY <1>1, <1>4, <1>5, <1>6, JobMoves

LEMMA DropChunksGood ==
  ASSUME NEW w \in Readers, NEW s \in KbSources, AtSource(w, s), DropChunks(w)
  PROVE  KbGood(s)'
<1>1. Work(w) /\ rd[w].step = "drop" /\ rd[w].s = s /\ KbTypes
  BY DEF Work, DropChunks, RdAt, AtSource
<1>2. Running(w, s)
  BY <1>1, IsRunning
<1>3. ingests' = ingests /\ torn' = torn /\ doc' = doc /\ got' = got /\ source' = source
  BY DEF DropChunks
<1>4. PICK r : r = rd[w].run
  OBVIOUS
<1>5. rd'[w].step = "drop docs" /\ rd'[w].s = s /\ rd'[w].run = r
  BY <1>1, <1>4, JobMoves DEF GoesTo, SameWork, SameJob
<1>6. \A p \in Pages : chunks'[s][p] = IF doc[s][p].has /\ doc[s][p].run # r THEN {} ELSE chunks[s][p]
  <2>1. chunks' = [chunks EXCEPT ![s] = [p \in Pages |->
          IF doc[s][p].has /\ doc[s][p].run # r THEN {} ELSE chunks[s][p]]]
    BY <1>1, <1>4 DEF DropChunks
  <2> QED BY <1>1, <2>1 DEF KbTypes
<1>7. ASSUME s \notin torn PROVE Progress(w)'
  <2>1. Sound(s) /\ Progress(w)
    BY <1>2, <1>7 DEF AtSource, Sound
  <2>2. \A p \in Pages : Whole(s, p)
    BY <1>1, <1>2, <2>1, AllWhole
  <2>3. \A p \in Pages : RunOK(s, p, r)
    BY <1>1, <1>4, <2>1 DEF Progress, ReadSteps
  <2>4. \A p \in Pages : RunOK(s, p, r)'
    BY <1>3, <2>3 DEF RunOK
  <2>5. \A p \in Pages : IF doc'[s][p].has /\ doc'[s][p].run # r THEN chunks'[s][p] = {} ELSE Whole(s, p)'
    BY <1>3, <1>6, <2>2 DEF Whole
  <2> QED BY <1>5, <2>4, <2>5 DEF Progress, ReadSteps
<1>8. ingests[s] = 0 /\ source[s].status = "processing" /\ source[s].run = r
  BY <1>1, <1>2, <1>4, AtRun
<1>9. Running(w, s)' /\ ingests'[s] = 0 /\ source'[s].status \in Syncing
        /\ rd'[w].step \notin {"lock", "begin"} /\ source'[s].run = rd'[w].run
           /\ source'[s].status = "processing"
  BY <1>3, <1>5, <1>8 DEF Running, Syncing
<1>10. s \in torn' \/ Progress(w)'
  BY <1>3, <1>7
<1> QED BY <1>1, <1>2, <1>5, <1>9, <1>10, GoodGoing

LEMMA DropDocumentsGood ==
  ASSUME NEW w \in Readers, NEW s \in KbSources, AtSource(w, s), DropDocuments(w)
  PROVE  KbGood(s)'
<1>1. Work(w) /\ rd[w].step = "drop docs" /\ rd[w].s = s /\ KbTypes /\ Plain
  BY DEF Work, DropDocuments, RdAt, AtSource
<1>2. Running(w, s)
  BY <1>1, IsRunning
<1>3. ingests' = ingests /\ torn' = torn /\ chunks' = chunks /\ got' = got /\ source' = source
  BY DEF DropDocuments
<1>4. PICK r : r = rd[w].run
  OBVIOUS
<1>5. rd'[w].step = "finish" /\ rd'[w].s = s /\ rd'[w].run = r
  BY <1>1, <1>4, JobMoves DEF GoesTo, SameWork, SameJob
<1>6. \A p \in Pages : doc'[s][p] = IF doc[s][p].run # r THEN NoDoc ELSE doc[s][p]
  <2>1. doc' = [doc EXCEPT ![s] = [p \in Pages |-> IF doc[s][p].run # r THEN NoDoc ELSE doc[s][p]]]
    BY <1>1, <1>4 DEF DropDocuments
  <2> QED BY <1>1, <2>1 DEF KbTypes
<1>7. r # 0 /\ NoDoc.hash = 0 /\ NoDoc.run = 0
  BY <1>1, <1>4 DEF Plain, PlainReader, ReadSteps, NoDoc
<1>8. \A p \in Pages : ~doc[s][p].has => doc[s][p].hash = 0
  BY <1>1 DEF Plain, PlainSource
<1>9. ASSUME s \notin torn PROVE Progress(w)' /\ \A p \in Pages : Whole(s, p)'
  <2>1. Sound(s) /\ Progress(w)
    BY <1>2, <1>9 DEF AtSource, Sound
  <2>2. /\ \A p \in Pages : RunOK(s, p, r)
        /\ \A p \in Pages : IF doc[s][p].has /\ doc[s][p].run # r THEN chunks[s][p] = {} ELSE Whole(s, p)
    BY <1>1, <1>4, <2>1 DEF Progress, ReadSteps
  <2>3. ASSUME NEW p \in Pages PROVE RunOK(s, p, r)' /\ PageDone(s, p, r)' /\ Whole(s, p)'
    <3>1. CASE doc[s][p].run = r
      <4>1. doc'[s][p] = doc[s][p] /\ Whole(s, p)
        BY <1>6, <2>2, <3>1
      <4> QED BY <1>3, <2>2, <3>1, <4>1 DEF RunOK, PageDone, Whole
    <3>2. CASE doc[s][p].run # r
      <4>1. doc'[s][p] = NoDoc /\ got[s][p] = 0
        BY <1>6, <2>2, <3>2 DEF RunOK
      <4>2. chunks[s][p] = {}
        BY <1>8, <2>2, <3>2 DEF Whole
      <4> QED BY <1>3, <1>7, <4>1, <4>2 DEF RunOK, PageDone, Whole
    <3> QED BY <3>1, <3>2
  <2>4. Progress(w)'
    BY <1>5, <2>3 DEF Progress, ReadSteps
  <2> QED BY <2>3, <2>4
<1>10. ingests[s] = 0 /\ source[s].status = "processing" /\ source[s].run = r
  BY <1>1, <1>2, <1>4, AtRun
<1>11. Running(w, s)' /\ ingests'[s] = 0 /\ source'[s].status \in Syncing
        /\ rd'[w].step \notin {"lock", "begin"} /\ source'[s].run = rd'[w].run
           /\ source'[s].status = "processing"
  BY <1>3, <1>5, <1>10 DEF Running, Syncing
<1>12. s \in torn' \/ Progress(w)'
  BY <1>3, <1>9
<1>13. s \in torn' \/ \A p \in Pages : Whole(s, p)'
  BY <1>3, <1>9
<1> QED BY <1>1, <1>2, <1>11, <1>12, <1>13, GoodGoing

(* and the result.                                                         *)
LEMMA FinishGood ==
  ASSUME NEW w \in Readers, NEW s \in KbSources, AtSource(w, s), _finish(w)
  PROVE  KbGood(s)'
<1>1. Work(w) /\ rd[w].step = "finish" /\ rd[w].s = s /\ KbTypes /\ Plain
  BY DEF Work, _finish, RdAt, AtSource
<1>2. Running(w, s)
  BY <1>1, IsRunning
<1>3. ingests' = ingests /\ torn' = torn /\ PagesSame(s)
  BY DEF _finish, PagesSame
<1>4. rd'[w].step = "unlock" /\ rd'[w].end = rd[w].end /\ rd[w].end # "processing"
  BY <1>1, JobMoves DEF GoesTo, Plain, PlainReader
<1>5. ~Running(w, s)'
  BY <1>4 DEF Running
<1>6. source'[s].status = rd[w].end
  BY <1>1, SourceFinished DEF AtSource
<1>7. ingests[s] = 0
  BY <1>2, AtRun
<1>8. ASSUME s \notin torn
      PROVE  /\ \A p \in Pages : Whole(s, p)'
             /\ rd[w].end = "ready" => \A p \in Pages : Filled(s, p)'
  <2>1. Sound(s) /\ Progress(w)
    BY <1>2, <1>8 DEF AtSource, Sound
  <2>2. \A p \in Pages : Whole(s, p)
    BY <1>1, <1>2, <2>1, AllWhole
  <2>3. rd[w].end = "ready" => \A p \in Pages : RunOK(s, p, rd[w].run) /\ PageDone(s, p, rd[w].run)
    BY <1>1, <2>1 DEF Progress
  <2>4. ASSUME rd[w].end = "ready", NEW p \in Pages PROVE Filled(s, p)
    <3>1. RunOK(s, p, rd[w].run) /\ PageDone(s, p, rd[w].run) /\ Whole(s, p)
      BY <2>2, <2>3, <2>4
    <3>2. CASE doc[s][p].run = rd[w].run
      BY <3>1, <3>2 DEF RunOK, Whole, Filled
    <3>3. CASE doc[s][p].run # rd[w].run
      BY <3>1, <3>3 DEF RunOK, PageDone, Whole, Filled
    <3> QED BY <3>2, <3>3
  <2> QED BY <1>3, <2>2, <2>4, SamePages
<1>9. s \in torn' \/ \A p \in Pages : Whole(s, p)'
  BY <1>3, <1>8
<1>10. s \in torn' \/ (source'[s].status = "ready" => \A p \in Pages : Filled(s, p)')
  BY <1>3, <1>6, <1>8
<1>11. ingests'[s] = 0
  BY <1>3, <1>7
<1> QED BY <1>1, <1>2, <1>5, <1>9, <1>10, <1>11, GoodStopped

(* A reader that has finished leaves.                                      *)
LEMMA LeaveGood ==
  ASSUME NEW w \in Readers, NEW s \in KbSources, AtSource(w, s), Work(w), ~Running(w, s),
         rd'[w] = NoRead,
         PagesSame(s), source' = source, ingests' = ingests, Kind(s)' = Kind(s)
  PROVE  KbGood(s)'
<1>1. /\ Forgotten(s)' /\ ~SourceGone(s)' /\ clerk' = clerk /\ torn \subseteq torn' /\ Others(w)
  BY WorkForgotten
<1>2. SameRuns(s)
  <2>1. ~Running(w, s)'
    BY DEF Running, NoRead
  <2>2. ASSUME NEW x \in Readers \ {w} PROVE rd'[x] = rd[x] /\ (Running(x, s)' <=> Running(x, s))
    <3>1. rd'[x] = rd[x]
      BY <1>1 DEF Others
    <3> QED BY <3>1 DEF Running
  <2> QED BY <2>1, <2>2 DEF SameRuns
<1>3. KeptState(s)
  BY DEF KeptState
<1>4. One(s)'
  <2>1. \A c \in Clerks : ClerkCalls(c, s)' => ClerkCalls(c, s)
    BY <1>1 DEF ClerkCalls
  <2> QED BY <1>2, <1>3, <2>1, KeptOne DEF AtSource
<1>5. s \in torn' \/ Sound(s)'
  <2>1. Storing(s)' => Storing(s)
    BY <1>1 DEF Storing
  <2> QED BY <1>1, <1>2, <1>3, <2>1, KeptSound DEF AtSource
<1> QED BY <1>1, <1>4, <1>5 DEF KbGood

(* Then the lock is given back, or the next slice is queued.               *)
LEMMA UnlockGood ==
  ASSUME NEW w \in Readers, NEW s \in KbSources, AtSource(w, s), Unlock(w)
  PROVE  KbGood(s)'
<1>1. Work(w) /\ rd[w].step = "unlock" /\ rd[w].s = s /\ KbTypes
  BY DEF Work, Unlock, RdAt, AtSource
<1>2. ingests' = ingests /\ source' = source /\ torn' = torn /\ PagesSame(s) /\ Kind(s)' = Kind(s)
  BY DEF Unlock, PagesSame, Kind
<1>3. CASE rd[w].end = "processing"
  <2>1. rd'[w].step = "again" /\ rd'[w].s = s /\ rd'[w].run = rd[w].run
    BY <1>1, <1>3, JobMoves DEF GoesTo, SameWork, SameJob
  <2>2. Running(w, s)
    BY <1>1, <1>3 DEF Running
  <2>3. s \in torn \/ Progress(w)'
    BY <1>1, <1>2, <2>1, <2>2, ProgressKept DEF AtSource
  <2> QED BY <1>1, <1>2, <2>1, <2>2, <2>3, QuietGood
<1>4. CASE rd[w].end # "processing"
  <2>1. ~Running(w, s) /\ rd'[w] = NoRead
    BY <1>1, <1>4, JobMoves DEF Running, Stops
  <2> QED BY <1>1, <1>2, <2>1, LeaveGood
<1> QED BY <1>3, <1>4

LEMMA EnqueueNextGood ==
  ASSUME NEW w \in Readers, NEW s \in KbSources, AtSource(w, s), EnqueueNextSlice(w)
  PROVE  KbGood(s)'
<1>1. Work(w) /\ rd[w].step = "again" /\ rd[w].s = s /\ KbTypes
  BY DEF Work, EnqueueNextSlice, RdAt, AtSource
<1>2. Running(w, s)
  BY <1>1, IsRunning
<1>3. source' = source /\ torn' = torn /\ PagesSame(s)
  BY DEF EnqueueNextSlice, PagesSame
<1>4. ingests[s] = 0 /\ source[s].status = "processing" /\ source[s].run = rd[w].run
  BY <1>1, <1>2, AtRun
<1>5. ingests'[s] = 1
  <2>1. ingests'[s] = ingests[s] + 1
    BY <1>1 DEF EnqueueNextSlice, KbTypes
  <2> QED BY <1>4, <2>1
<1>6. ~Running(w, s)'
  <2>1. rd'[w] = NoRead
    BY <1>1, JobMoves DEF Stops
  <2> QED BY <2>1 DEF Running, NoRead
<1>7. ASSUME s \notin torn
      PROVE  /\ \A p \in Pages : Whole(s, p)'
             /\ \A p \in Pages : RunOK(s, p, source[s].run)'
  <2>1. Sound(s) /\ Progress(w)
    BY <1>2, <1>7 DEF AtSource, Sound
  <2>2. \A p \in Pages : Whole(s, p)
    BY <1>1, <1>2, <2>1, AllWhole
  <2>3. \A p \in Pages : RunOK(s, p, rd[w].run)
    BY <1>1, <2>1 DEF Progress
  <2>4. \A p \in Pages : RunOK(s, p, source[s].run)'
    BY <1>3, <1>4, <2>3 DEF RunOK, PagesSame
  <2> QED BY <1>3, <2>2, <2>4, SamePages
<1>8. ingests'[s] <= 1 /\ (ingests'[s] > 0 => source'[s].status \in Syncing)
        /\ source'[s].status # "ready"
  <2>1. \A n : n = 1 => n <= 1
    OBVIOUS
  <2> QED BY <1>3, <1>4, <1>5, <2>1 DEF Syncing
<1>9. s \in torn' \/
         ( /\ Running(w, s)' => Progress(w)'
           /\ ingests'[s] > 0 /\ source'[s].run # 0 => \A p \in Pages : RunOK(s, p, source[s].run)'
           /\ \A p \in Pages : Whole(s, p)' \/
                (Running(w, s)' /\ (rd'[w].step = "drop docs" \/ (rd'[w].step \in {"clear", "fill"} /\ rd'[w].page = p)))
           /\ source'[s].status = "ready" => \A p \in Pages : Filled(s, p)' )
  BY <1>3, <1>6, <1>7, <1>8
<1> QED BY <1>1, <1>2, <1>6, <1>8, <1>9, GoodAfter

(* A worker that dies leaves a source that is good as far as it came.      *)
LEMMA DiesGood ==
  ASSUME NEW w \in Readers, NEW s \in KbSources, AtSource(w, s), ReaderDies(w)
  PROVE  KbGood(s)'
<1>1. Work(w) /\ rd[w].s = s /\ KbTypes /\ kcase \in KbCaseTypes
  BY DEF Work, AtSource, KbTypes
<1>2. ingests' = ingests /\ source' = source /\ torn \subseteq torn' /\ PagesSame(s)
      /\ (s \in torn' \/ rd[w].step \notin {"clear", "fill", "drop docs"})
  BY <1>1 DEF ReaderDies, PagesSame
<1>3. Kind(s)' = Kind(s)
  BY <1>1, CostKept DEF ReaderDies, Kind
<1>4. rd'[w] = NoRead /\ ~Running(w, s)'
  <2>1. rd'[w] = NoRead
    BY <1>1, JobMoves DEF Stops
  <2> QED BY <2>1 DEF Running, NoRead
<1>5. CASE Running(w, s)
  <2>1. ingests'[s] = 0 /\ source'[s].status # "ready"
    BY <1>2, <1>5, AtRun DEF Syncing
  <2>2. s \in torn' \/ \A p \in Pages : Whole(s, p)'
    BY <1>2, <1>5, AllWhole, SamePages DEF AtSource
  <2> QED BY <1>1, <1>4, <1>5, <2>1, <2>2, GoodStopped
<1>6. CASE ~Running(w, s)
  BY <1>1, <1>2, <1>3, <1>4, <1>6, LeaveGood
<1> QED BY <1>5, <1>6

LEMMA WorkGood ==
  ASSUME NEW w \in Readers, NEW s \in KbSources, AtSource(w, s), Work(w)
  PROVE  KbGood(s)'
  BY TakeLockGood, BeginGood, ReadPageGood, UpsertGood, ClearGood, FailGood, SliceGood, PagesDoneGood,
     DropChunksGood, DropDocumentsGood, FinishGood, UnlockGood, EnqueueNextGood, DiesGood DEF Work

(* A job is taken up.                                                      *)
LEMMA RunGood ==
  ASSUME KbTypes, Plain, AllGood, NEW w \in Readers, NEW s \in KbSources, run_source(w, s)
  PROVE  KbGood(s)'
<1> SUFFICES ASSUME s \notin mixed' PROVE KbGood(s)'
  BY DEF KbGood
<1>1. /\ source' = source /\ doc' = doc /\ chunks' = chunks /\ locked' = locked /\ got' = got
         /\ torn' = torn
      /\ clerk' = clerk /\ kcase' = kcase /\ rd[w].step = "idle" /\ ingests[s] > 0
         /\ mixed \subseteq mixed'
      /\ ~Deleting(s)
  BY DEF run_source, callSide, RdAt
<1>2. KbGood(s) /\ s \notin mixed
  BY <1>1 DEF AllGood
<1>3. Forgotten(s) /\ (SourceGone(s) \/ (One(s) /\ (s \in torn \/ Wiping(s) \/ Sound(s))))
  BY <1>2 DEF KbGood
<1>4. ~Wiping(s) /\ ~(\E c \in Clerks : clerk[c].s = s /\ clerk[c].step = "source")
  BY <1>1 DEF Deleting, Wiping
<1>5. source[s].status # "none"
  BY <1>1 DEF Plain, Unmade
<1>6. CASE ~Exists(s)
  <2>1. SourceGone(s) /\ rd' = rd
    BY <1>5, <1>6 DEF Exists, SourceGone, run_source
  <2>2. Forgotten(s)' /\ SourceGone(s)'
    BY <1>1, <1>3, <2>1 DEF Forgotten, SourceGone, Deleting, Reading, Storing, Wiping, Holding
  <2> QED BY <2>2 DEF KbGood
<1>7. CASE Exists(s)
  <2>1. ~SourceGone(s) /\ One(s) /\ (s \in torn \/ Sound(s))
    BY <1>3, <1>4, <1>7 DEF Exists, SourceGone
  <2>2. /\ Others(w) /\ rd'[w].step = "lock" /\ rd'[w].end = "ready" /\ rd'[w].s = s
           /\ rd'[w].src = source[s]
    BY <1>7, Started DEF run_source
  <2>3. /\ \A c \in Clerks : ~ClerkCalls(c, s)
        /\ \A x \in Readers : ~Running(x, s)
        /\ source[s].status \in Syncing
    BY <1>1, <2>1 DEF One
  <2>4. ingests[s] = 1 /\ ingests'[s] = 0
    <3>1. ingests[s] <= 1 /\ ingests \in [KbSources -> Nat]
      BY <2>1 DEF One, KbTypes
    <3>2. ingests[s] = 1
      BY <1>1, <3>1
    <3>3. ingests' = [ingests EXCEPT ![s] = ingests[s] - 1]
      BY DEF run_source
    <3> QED BY <3>1, <3>2, <3>3
  <2>5. ~Deleting(s)' /\ ~Wiping(s)' /\ ~SourceGone(s)'
        /\ ~(\E c \in Clerks : clerk'[c].s = s /\ clerk'[c].step = "source")
    BY <1>1, <1>4, <2>1 DEF Deleting, Wiping, SourceGone
  <2>6. \A x \in Readers : Holding(x, s)' => Holding(x, s)
    BY <2>2 DEF Others, Holding, HoldingSteps
  <2>7. Forgotten(s)'
    <3>1. \A x, y \in Readers : Holding(x, s)' /\ Holding(y, s)' => x = y
      BY <1>3, <2>6 DEF Forgotten
    <3>2. \A x \in Readers : Holding(x, s)' => s \in locked'
      BY <1>1, <1>3, <2>6 DEF Forgotten
    <3> QED BY <2>5, <3>1, <3>2 DEF Forgotten
  <2>8. \A x \in Readers : Running(x, s)' => x = w
    <3>1. ASSUME NEW x \in Readers \ {w} PROVE ~Running(x, s)'
      <4>1. rd'[x] = rd[x] /\ ~Running(x, s)
        BY <2>2, <2>3 DEF Others
      <4> QED BY <4>1 DEF Running
    <3> QED BY <3>1
  <2>9. \A c \in Clerks : ~ClerkCalls(c, s)'
    BY <1>1, <2>3 DEF ClerkCalls
  <2>10. One(s)'
    <3>1. \A x \in Readers : Running(x, s)' => /\ rd'[x].step = "lock" /\ rd'[x].src = source'[s]
                                              /\ ingests'[s] = 0 /\ source'[s].status \in Syncing
      BY <1>1, <2>2, <2>3, <2>4, <2>8
    <3>2. ingests'[s] <= 1 /\ ~(ingests'[s] > 0)
      BY ONLY <2>4, NoneWaiting
    <3> QED BY <2>8, <2>9, <3>1, <3>2 DEF One, Syncing
  <2>11. ASSUME s \notin torn PROVE Sound(s)'
    <3>1. Sound(s)
      BY <2>1, <2>11
    <3>2. \A p \in Pages : Whole(s, p)
      BY <2>3, <3>1 DEF Sound, Disturbed
    <3>3. \A p \in Pages : Whole(s, p)'
      BY <1>1, <3>2 DEF Whole
    <3>4. source[s].run # 0 => \A p \in Pages : RunOK(s, p, source[s].run)
      BY <1>1, <3>1 DEF Sound
    <3>5. source'[s].run # 0 => \A p \in Pages : RunOK(s, p, source[s].run)'
      BY <1>1, <3>4 DEF RunOK
    <3>6. Progress(w)'
      BY <2>2, <3>5 DEF Progress, ReadSteps
    <3>7. source'[s].status # "ready" /\ ~Storing(s)' /\ ~(ingests'[s] > 0)
      <4>1. ~(ingests'[s] > 0)
        BY ONLY <2>4, NoneWaiting
      <4> QED BY <1>1, <2>3, <2>9, <4>1 DEF Syncing, Storing, ClerkCalls
    <3> QED BY <2>8, <3>3, <3>6, <3>7 DEF Sound
  <2> QED BY <1>1, <2>7, <2>10, <2>11 DEF KbGood
<1> QED BY <1>6, <1>7

-----------------------------------------------------------------------------
(* Requests *)

(* What a request's step can begin of a deletion.                          *)
LEMMA ClerkAfter ==
  ASSUME NEW c \in Clerks, NEW s \in KbSources, ClerkAlone(c, s)
  PROVE  /\ Deleting(s)' => Deleting(s) \/ clerk'[c].step \in {"chunks", "docs", "source"}
         /\ Wiping(s)' => Wiping(s) \/ clerk'[c].step \in {"docs", "source"}
         /\ (\E d \in Clerks : clerk'[d].s = s /\ clerk'[d].step = "source") =>
               (\E d \in Clerks : clerk[d].s = s /\ clerk[d].step = "source")
                 \/ clerk'[c].step = "source"
         /\ Storing(s)' => Storing(s) \/ clerk'[c].step = "texts"
         /\ Wiping(s) => Wiping(s)' \/ clerk[c].step \in {"docs", "source"}
         /\ \A d \in Clerks \ {c} : ClerkCalls(d, s)' <=> ClerkCalls(d, s)
         /\ ClerkCalls(c, s)' => clerk'[c].step \in {"texts", "enqueue"}
         /\ Reading(s)' <=> Reading(s)
         /\ \A w \in Readers : Holding(w, s)' <=> Holding(w, s)
         /\ SameRuns(s)
<1>1. rd' = rd /\ \A d \in Clerks \ {c} : clerk'[d] = clerk[d]
  BY DEF ClerkAlone
<1>2. Deleting(s)' => Deleting(s) \/ clerk'[c].step \in {"chunks", "docs", "source"}
  BY <1>1 DEF Deleting
<1>3. Wiping(s)' => Wiping(s) \/ clerk'[c].step \in {"docs", "source"}
  BY <1>1 DEF Wiping
<1>4. Storing(s)' => Storing(s) \/ clerk'[c].step = "texts"
  BY <1>1 DEF Storing
<1>5. Wiping(s) => Wiping(s)' \/ clerk[c].step \in {"docs", "source"}
  BY <1>1 DEF Wiping
<1>6. /\ \A d \in Clerks \ {c} : ClerkCalls(d, s)' <=> ClerkCalls(d, s)
      /\ ClerkCalls(c, s)' => clerk'[c].step \in {"texts", "enqueue"}
  BY <1>1 DEF ClerkCalls
<1>7. Reading(s)' <=> Reading(s)
  BY <1>1 DEF Reading
<1>8. \A w \in Readers : Holding(w, s)' <=> Holding(w, s)
  BY <1>1 DEF Holding
<1>9. SameRuns(s)
  BY <1>1 DEF SameRuns, Running
<1>10. (\E d \in Clerks : clerk'[d].s = s /\ clerk'[d].step = "source") =>
               (\E d \in Clerks : clerk[d].s = s /\ clerk[d].step = "source")
                 \/ clerk'[c].step = "source"
  BY <1>1
<1> QED BY <1>2, <1>3, <1>4, <1>5, <1>6, <1>7, <1>8, <1>9, <1>10

(* What is to be shown of a request's step.                                *)
LEMMA ClerkForgotten ==
  ASSUME NEW c \in Clerks, NEW s \in KbSources, ClerkAlone(c, s), Forgotten(s), locked' = locked,
         Deleting(s)' \/ SourceGone(s)' => ~Reading(s) /\ ~Storing(s)',
         Wiping(s)' \/ SourceGone(s)' => \A p \in Pages : chunks'[s][p] = {},
         SourceGone(s)' \/ (\E d \in Clerks : clerk'[d].s = s /\ clerk'[d].step = "source") =>
           \A p \in Pages : ~doc'[s][p].has
  PROVE  Forgotten(s)'
<1>1. /\ \A w, x \in Readers : Holding(w, s)' /\ Holding(x, s)' => w = x
      /\ \A w \in Readers : Holding(w, s)' => s \in locked'
  BY ClerkAfter DEF Forgotten
<1>2. Reading(s)' <=> Reading(s)
  BY ClerkAfter
<1> QED BY <1>1, <1>2 DEF Forgotten

(* A call that will have the source queued, when nothing else will.        *)
NoToken(s) == /\ \A c \in Clerks : ~ClerkCalls(c, s)
              /\ \A w \in Readers : ~Running(w, s)
              /\ ingests[s] = 0

(* The request that resets a source is the only one that will queue it.    *)
LEMMA NewCall ==
  ASSUME NEW c \in Clerks, NEW s \in KbSources, ClerkAlone(c, s), NoToken(s),
         source'[s].status = "queued", ingests'[s] = ingests[s]
  PROVE  One(s)'
<1>1. \A d \in Clerks : ClerkCalls(d, s)' => d = c
  BY ClerkAfter DEF NoToken
<1>2. \A w \in Readers : ~Running(w, s)'
  BY ClerkAfter DEF NoToken, SameRuns
<1>3. ingests'[s] = 0
  BY DEF NoToken
<1>4. ingests'[s] <= 1 /\ ~(ingests'[s] > 0)
  BY ONLY <1>3, NoneWaiting
<1> QED BY <1>1, <1>2, <1>3, <1>4 DEF One

(* What is known of a source when a request acts on it, and of the step.   *)
Asked(c, s) == /\ KbTypes /\ Plain /\ ClerkAlone(c, s) /\ locked' = locked /\ got' = got
               /\ torn \subseteq torn' /\ s \notin mixed
               /\ Forgotten(s) /\ (SourceGone(s) \/ (One(s) /\ (s \in torn \/ Wiping(s) \/ Sound(s))))
               /\ source[s].status # "processing" => source[s].run = 0

(* Everything is known of the source that a request acts on.               *)
LEMMA IsAsked ==
  ASSUME KbTypes, Plain, AllGood, NEW c \in Clerks, NEW s \in KbSources, s \notin mixed',
         ClerkActs(c), ClerkAlone(c, s)
  PROVE  Asked(c, s)
<1>1. locked' = locked /\ got' = got /\ torn \subseteq torn' /\ s \notin mixed
  BY ClerkWrites
<1>2. KbGood(s) /\ PlainSource(s)
  BY DEF AllGood, Plain
<1> QED BY <1>1, <1>2 DEF Asked, KbGood, PlainSource

(* A source that nobody reads is sound, if its pages are.                  *)
LEMMA QuietSound ==
  ASSUME NEW s \in KbSources, \A w \in Readers : ~Running(w, s)',
         source'[s].run = 0, \A p \in Pages : Whole(s, p)', source'[s].status # "ready",
         Storing(s)' => \A p \in Pages : chunks'[s][p] = {}
  PROVE  Sound(s)'
  BY DEF Sound

LEMMA NothingRuns ==
  ASSUME NEW c \in Clerks, NEW s \in KbSources, ClerkAlone(c, s), NoToken(s)
  PROVE  \A w \in Readers : ~Running(w, s)'
  BY ClerkAfter DEF NoToken, SameRuns

(* Each step of a request leaves its source good: adding it and storing    *)
(* its texts,                                                              *)
LEMMA CreateGood ==
  ASSUME KbTypes, Plain, NEW c \in Clerks, NEW s \in KbSources, Asked(c, s), _create_source(c, s)
  PROVE  KbGood(s)'
<1>1. /\ clerk'[c].step = "texts" /\ doc' = doc /\ chunks' = chunks /\ ingests' = ingests
      /\ source[s].status = "none"
  BY CallTypes DEF _create_source
<1>2. /\ ~Reading(s) /\ \A d \in Clerks : clerk[d].s = s => clerk[d].step = "idle"
      /\ \A p \in Pages : doc[s][p] = NoDoc /\ chunks[s][p] = {}
      /\ ingests[s] = 0
  BY <1>1 DEF Plain, Unmade
<1>3. source'[s].status = "queued" /\ source'[s].run = 0
  BY <1>1 DEF _create_source, KbTypes, SourceType, Asked
<1>4. NoToken(s)
  BY <1>2 DEF NoToken, ClerkCalls, Running, Reading
<1>5. ClerkAlone(c, s) /\ Forgotten(s) /\ locked' = locked
  BY DEF Asked
<1>6. ~Deleting(s)' /\ ~SourceGone(s)' /\ ~Wiping(s)'
        /\ ~(\E d \in Clerks : clerk'[d].s = s /\ clerk'[d].step = "source")
  BY <1>1, <1>2, <1>3, <1>5 DEF Deleting, Wiping, SourceGone, ClerkAlone
<1>7. Forgotten(s)'
  BY <1>5, <1>6, ClerkForgotten
<1>8. One(s)'
  BY <1>1, <1>3, <1>4, <1>5, NewCall
<1>9. Sound(s)'
  <2>1. \A p \in Pages : chunks'[s][p] = {} /\ doc'[s][p].hash = 0
    <3>1. NoDoc.hash = 0
      BY DEF NoDoc
    <3> QED BY <1>1, <1>2, <3>1
  <2>2. \A p \in Pages : Whole(s, p)'
    BY <2>1 DEF Whole
  <2> QED BY <1>3, <1>4, <1>5, <2>1, <2>2, NothingRuns, QuietSound
<1> QED BY <1>7, <1>8, <1>9 DEF KbGood

LEMMA StoreTextsGood ==
  ASSUME KbTypes, Plain, NEW c \in Clerks, NEW s \in KbSources, Asked(c, s), clerk[c].s = s,
         StoreTexts(c)
  PROVE  KbGood(s)'
<1>1. /\ clerk[c].step = "texts" /\ clerk'[c].step = "enqueue" /\ clerk'[c].s = s
      /\ source' = source /\ chunks' = chunks /\ ingests' = ingests /\ torn' = torn
  BY CallTypes DEF StoreTexts, CallAt, readSide
<1>2. /\ ClerkAlone(c, s) /\ Forgotten(s) /\ locked' = locked /\ got' = got
      /\ SourceGone(s) \/ (One(s) /\ (s \in torn \/ Wiping(s) \/ Sound(s)))
  BY DEF Asked
<1>3. Storing(s) /\ ClerkCalls(c, s)
  BY <1>1 DEF Storing, ClerkCalls
<1>4. ~Deleting(s) /\ ~SourceGone(s) /\ ~Wiping(s)
        /\ ~(\E d \in Clerks : clerk[d].s = s /\ clerk[d].step = "source")
  <2>1. ~Deleting(s) /\ ~SourceGone(s)
    BY <1>2, <1>3 DEF Forgotten
  <2> QED BY <2>1 DEF Deleting, Wiping
<1>5. ~Deleting(s)' /\ ~SourceGone(s)' /\ ~Wiping(s)'
        /\ ~(\E d \in Clerks : clerk'[d].s = s /\ clerk'[d].step = "source")
  BY <1>1, <1>2, <1>4, ClerkAfter DEF SourceGone
<1>6. Forgotten(s)'
  BY <1>2, <1>5, ClerkForgotten
<1>7. One(s)'
  <2>1. \A d \in Clerks : ClerkCalls(d, s)' => ClerkCalls(d, s)
    BY <1>2, <1>3, ClerkAfter
  <2> QED BY <1>1, <1>2, <1>4, <2>1, ClerkAfter, KeptOne DEF KeptState
<1>8. ASSUME s \notin torn PROVE Sound(s)'
  <2>1. Sound(s) /\ One(s)
    BY <1>2, <1>4, <1>8
  <2>2. \A p \in Pages : chunks[s][p] = {}
    BY <1>3, <2>1 DEF Sound
  <2>3. source[s].status = "queued" /\ \A w \in Readers : ~Running(w, s)
    BY <1>3, <2>1 DEF One
  <2>4. source'[s].status = "queued" /\ source'[s].run = 0
    BY <1>1, <2>3 DEF Asked
  <2>5. \A p \in Pages : Whole(s, p)
    BY <2>1, <2>3 DEF Sound, Disturbed
  <2>6. \A p \in Pages : doc[s][p].hash = 0
    BY <2>2, <2>5 DEF Whole
  <2>7. \A p \in Pages : doc'[s][p].hash = 0
    BY <2>6 DEF StoreTexts, NoDoc, KbTypes
  <2>8. \A p \in Pages : Whole(s, p)'
    BY <1>1, <2>2, <2>7 DEF Whole
  <2>9. \A w \in Readers : ~Running(w, s)'
    BY <1>2, <2>3, ClerkAfter DEF SameRuns
  <2> QED BY <1>1, <2>2, <2>4, <2>8, <2>9, QuietSound
<1> QED BY <1>1, <1>6, <1>7, <1>8 DEF KbGood

(* queueing the job,                                                       *)
LEMMA EnqueueGood ==
  ASSUME KbTypes, Plain, NEW c \in Clerks, NEW s \in KbSources, Asked(c, s), clerk[c].s = s,
         enqueue_ingest(c)
  PROVE  KbGood(s)'
<1>1. /\ clerk[c].step = "enqueue" /\ clerk'[c].step = "idle"
      /\ source' = source /\ chunks' = chunks /\ doc' = doc /\ torn' = torn
      /\ ingests' = [ingests EXCEPT ![s] = @ + 1]
  BY CallTypes DEF enqueue_ingest, CallAt, readSide
<1>2. /\ ClerkAlone(c, s) /\ Forgotten(s) /\ locked' = locked /\ got' = got
      /\ SourceGone(s) \/ (One(s) /\ (s \in torn \/ Wiping(s) \/ Sound(s)))
  BY DEF Asked
<1>3. ClerkCalls(c, s) /\ ~ClerkCalls(c, s)'
  BY <1>1 DEF ClerkCalls
<1>4. SourceGone(s)' <=> SourceGone(s)
  BY <1>1 DEF SourceGone
<1>5. /\ Deleting(s)' => Deleting(s)
      /\ Wiping(s)' <=> Wiping(s)
      /\ Storing(s)' => Storing(s)
      /\ (\E d \in Clerks : clerk'[d].s = s /\ clerk'[d].step = "source") =>
           (\E d \in Clerks : clerk[d].s = s /\ clerk[d].step = "source")
  BY <1>1, <1>2, ClerkAfter
<1>6. Forgotten(s)'
  <2>1. Deleting(s)' \/ SourceGone(s)' => ~Reading(s) /\ ~Storing(s)'
    BY <1>2, <1>4, <1>5 DEF Forgotten
  <2>2. Wiping(s)' \/ SourceGone(s)' => \A p \in Pages : chunks'[s][p] = {}
    BY <1>1, <1>2, <1>4, <1>5 DEF Forgotten
  <2>3. SourceGone(s)' \/ (\E d \in Clerks : clerk'[d].s = s /\ clerk'[d].step = "source") =>
           \A p \in Pages : ~doc'[s][p].has
    BY <1>1, <1>2, <1>4, <1>5 DEF Forgotten
  <2> QED BY <1>2, <2>1, <2>2, <2>3, ClerkForgotten
<1>7. CASE SourceGone(s)
  BY <1>4, <1>6, <1>7 DEF KbGood
<1>8. CASE ~SourceGone(s)
  <2>1. /\ One(s) /\ source[s].status = "queued" /\ ingests[s] = 0
        /\ \A w \in Readers : ~Running(w, s)
        /\ \A d \in Clerks : ClerkCalls(d, s) => d = c
    BY <1>2, <1>3, <1>8 DEF One
  <2>2. ingests'[s] = 1
    <3>1. ingests \in [KbSources -> Nat]
      BY DEF KbTypes
    <3> QED BY <1>1, <2>1, <3>1
  <2>3. \A d \in Clerks : ~ClerkCalls(d, s)'
    BY <1>2, <1>3, <2>1, ClerkAfter
  <2>4. \A w \in Readers : ~Running(w, s)'
    BY <1>2, <2>1, ClerkAfter DEF SameRuns
  <2>5. One(s)'
    <3>1. ingests'[s] <= 1
      <4>1. \A n : n = 1 => n <= 1
        OBVIOUS
      <4> QED BY <2>2, <4>1
    <3> QED BY <1>1, <2>1, <2>3, <2>4, <3>1 DEF One, Syncing
  <2>6. ASSUME s \notin torn, ~Wiping(s) PROVE Sound(s)'
    <3>1. Sound(s)
      BY <1>2, <1>8, <2>6
    <3>2. source'[s].run = 0 /\ source'[s].status # "ready"
      BY <1>1, <2>1 DEF Asked
    <3>3. \A p \in Pages : Whole(s, p)'
      <4>1. \A p \in Pages : Whole(s, p)
        BY <2>1, <3>1 DEF Sound, Disturbed
      <4> QED BY <1>1, <4>1 DEF Whole
    <3>4. Storing(s)' => \A p \in Pages : chunks'[s][p] = {}
      BY <1>1, <1>5, <3>1 DEF Sound
    <3> QED BY <2>4, <3>2, <3>3, <3>4, QuietSound
  <2> QED BY <1>1, <1>5, <1>6, <2>5, <2>6 DEF KbGood
<1> QED BY <1>7, <1>8

(* A request that leaves the source and its pages as they are.             *)
LEMMA QuietCall ==
  ASSUME NEW c \in Clerks, NEW s \in KbSources, Asked(c, s), KeptState(s), PagesSame(s),
         Kind(s)' = Kind(s),
         clerk'[c].step \in {"idle", "reset", "chunks"},
         clerk'[c].step = "chunks" => ~Reading(s) /\ ~Storing(s),
         clerk[c].step \in {"docs", "source"} => s \in torn'
  PROVE  KbGood(s)'
<1>1. /\ ClerkAlone(c, s) /\ Forgotten(s) /\ locked' = locked
      /\ SourceGone(s) \/ (One(s) /\ (s \in torn \/ Wiping(s) \/ Sound(s)))
      /\ (s \in torn => s \in torn')
  BY DEF Asked
<1>2. (SourceGone(s)' <=> SourceGone(s)) /\ doc'[s] = doc[s] /\ chunks'[s] = chunks[s]
  BY DEF SourceGone, KeptState, PagesSame
<1>3. /\ Deleting(s)' => ~Reading(s) /\ ~Storing(s)
      /\ Wiping(s)' => Wiping(s)
      /\ Wiping(s) => Wiping(s)' \/ s \in torn'
      /\ Storing(s)' => Storing(s)
      /\ (\E d \in Clerks : clerk'[d].s = s /\ clerk'[d].step = "source") =>
           (\E d \in Clerks : clerk[d].s = s /\ clerk[d].step = "source")
      /\ \A d \in Clerks : ClerkCalls(d, s)' => ClerkCalls(d, s)
      /\ SameRuns(s)
  <2>1. Deleting(s)' => ~Reading(s) /\ ~Storing(s)
    BY <1>1, ClerkAfter DEF Forgotten
  <2>2. /\ Wiping(s)' => Wiping(s)
        /\ Wiping(s) => Wiping(s)' \/ s \in torn'
        /\ Storing(s)' => Storing(s)
    BY <1>1, ClerkAfter
  <2>3. /\ (\E d \in Clerks : clerk'[d].s = s /\ clerk'[d].step = "source") =>
             (\E d \in Clerks : clerk[d].s = s /\ clerk[d].step = "source")
        /\ SameRuns(s)
    BY <1>1, ClerkAfter
  <2>4. \A d \in Clerks : ClerkCalls(d, s)' => ClerkCalls(d, s)
    BY <1>1, ClerkAfter
  <2> QED BY <2>1, <2>2, <2>3, <2>4
<1>4. Forgotten(s)'
  <2>1. Deleting(s)' \/ SourceGone(s)' => ~Reading(s) /\ ~Storing(s)'
    BY <1>1, <1>2, <1>3 DEF Forgotten
  <2>2. Wiping(s)' \/ SourceGone(s)' => \A p \in Pages : chunks'[s][p] = {}
    BY <1>1, <1>2, <1>3 DEF Forgotten
  <2>3. SourceGone(s)' \/ (\E d \in Clerks : clerk'[d].s = s /\ clerk'[d].step = "source") =>
           \A p \in Pages : ~doc'[s][p].has
    BY <1>1, <1>2, <1>3 DEF Forgotten
  <2> QED BY <1>1, <2>1, <2>2, <2>3, ClerkForgotten
<1>5. CASE SourceGone(s)
  BY <1>2, <1>4, <1>5 DEF KbGood
<1>6. CASE ~SourceGone(s)
  <2>1. One(s)'
    BY <1>1, <1>3, <1>6, KeptOne
  <2>2. s \in torn' \/ Wiping(s)' \/ Sound(s)'
    BY <1>1, <1>3, <1>6, KeptSound
  <2> QED BY <1>4, <2>1, <2>2 DEF KbGood
<1> QED BY <1>5, <1>6

(* One that queues a source which neither is nor was.                      *)
LEMMA RequeueGood ==
  ASSUME NEW c \in Clerks, NEW s \in KbSources, Asked(c, s), Exists(s), source[s].status \notin Syncing,
         source'[s].status = "queued", source'[s].run = 0, PagesSame(s), ingests'[s] = ingests[s],
         torn' = torn,
         clerk'[c].step = "enqueue", clerk[c].step \in {"idle", "reset"}
  PROVE  KbGood(s)'
<1>1. ClerkAlone(c, s) /\ Forgotten(s) /\ locked' = locked /\ One(s)
        /\ (s \in torn \/ Wiping(s) \/ Sound(s))
  BY DEF Asked, Exists, SourceGone
<1>2. ~SourceGone(s)' /\ doc'[s] = doc[s] /\ chunks'[s] = chunks[s]
  BY DEF SourceGone, PagesSame
<1>3. NoToken(s)
  <2>1. ingests[s] <= 1 /\ ~(ingests[s] > 0) /\ ingests[s] \in Nat
    BY <1>1 DEF One, Asked, KbTypes
  <2>2. ingests[s] = 0
    BY <2>1
  <2> QED BY <1>1, <2>2 DEF NoToken, One, Syncing
<1>4. /\ Deleting(s)' => Deleting(s)
      /\ Wiping(s)' <=> Wiping(s)
      /\ Storing(s)' => Storing(s)
      /\ (\E d \in Clerks : clerk'[d].s = s /\ clerk'[d].step = "source") =>
           (\E d \in Clerks : clerk[d].s = s /\ clerk[d].step = "source")
  BY <1>1, ClerkAfter
<1>5. Forgotten(s)'
  <2>1. Deleting(s)' \/ SourceGone(s)' => ~Reading(s) /\ ~Storing(s)'
    BY <1>1, <1>2, <1>4 DEF Forgotten
  <2>2. Wiping(s)' \/ SourceGone(s)' => \A p \in Pages : chunks'[s][p] = {}
    BY <1>1, <1>2, <1>4 DEF Forgotten
  <2>3. SourceGone(s)' \/ (\E d \in Clerks : clerk'[d].s = s /\ clerk'[d].step = "source") =>
           \A p \in Pages : ~doc'[s][p].has
    BY <1>1, <1>2, <1>4 DEF Forgotten
  <2> QED BY <1>1, <2>1, <2>2, <2>3, ClerkForgotten
<1>6. One(s)'
  BY <1>1, <1>3, NewCall
<1>7. ASSUME s \notin torn, ~Wiping(s) PROVE Sound(s)'
  <2>1. Sound(s)
    BY <1>1, <1>7
  <2>2. \A p \in Pages : Whole(s, p)
    BY <1>3, <2>1 DEF Sound, Disturbed, NoToken
  <2>3. \A p \in Pages : Whole(s, p)'
    BY <1>2, <2>2 DEF Whole
  <2>4. Storing(s)' => \A p \in Pages : chunks'[s][p] = {}
    BY <1>2, <1>4, <2>1 DEF Sound
  <2> QED BY <1>1, <1>3, <2>3, <2>4, NothingRuns, QuietSound
<1> QED BY <1>4, <1>5, <1>6, <1>7 DEF KbGood

(* resetting the source and asking again,                                  *)
LEMMA ResetGood ==
  ASSUME KbTypes, Plain, NEW c \in Clerks, NEW s \in KbSources, Asked(c, s), clerk[c].s = s,
         ResetSource(c), s \notin mixed'
  PROVE  KbGood(s)'
<1>1. /\ clerk[c].step = "reset" /\ clerk'[c].step = "enqueue" /\ clerk'[c].s = s
      /\ ingests' = ingests /\ chunks' = chunks /\ doc' = doc /\ torn' = torn
         /\ source[s].status \notin Syncing
  BY CallTypes DEF ResetSource, CallAt, readSide
<1>2. PagesSame(s)
  BY <1>1 DEF PagesSame, Asked
<1>3. CASE Exists(s)
  <2>1. source'[s].status = "queued" /\ source'[s].run = 0
    BY <1>3, SourceReset
  <2> QED BY <1>1, <1>2, <1>3, <2>1, RequeueGood
<1>4. CASE ~Exists(s)
  <2>1. source' = source
    BY <1>4, SourceReset
  <2>2. source[s].status # "none"
    BY <1>1 DEF Plain, Unmade
  <2>3. SourceGone(s) /\ SourceGone(s)'
    BY <1>4, <2>1, <2>2 DEF SourceGone, Exists
  <2>4. ClerkAlone(c, s) /\ Forgotten(s) /\ locked' = locked
    BY DEF Asked
  <2>5. /\ Deleting(s)' => Deleting(s)
        /\ Storing(s)' => Storing(s)
    BY <1>1, <2>4, ClerkAfter
  <2>6. /\ ~Reading(s) /\ ~Storing(s)'
        /\ \A p \in Pages : chunks'[s][p] = {}
        /\ \A p \in Pages : ~doc'[s][p].has
    BY <1>1, <2>3, <2>4, <2>5 DEF Forgotten
  <2>7. Forgotten(s)'
    BY <2>4, <2>6, ClerkForgotten
  <2> QED BY <2>3, <2>7 DEF KbGood
<1> QED BY <1>3, <1>4

LEMMA RefreshGood ==
  ASSUME KbTypes, Plain, NEW c \in Clerks, NEW s \in KbSources, Asked(c, s),
         refresh_due_kb_sources(c, s)
  PROVE  KbGood(s)'
<1>1. /\ clerk[c].step = "idle" /\ clerk'[c].step = "enqueue"
      /\ ingests' = ingests /\ chunks' = chunks /\ doc' = doc /\ torn' = torn
         /\ source[s].status \notin Syncing
      /\ Exists(s) /\ source' = [source EXCEPT ![s].status = "queued"]
  BY CallTypes DEF refresh_due_kb_sources, readSide
<1>2. PagesSame(s)
  BY <1>1 DEF PagesSame, Asked
<1>3. source'[s].status = "queued" /\ source'[s].run = source[s].run
  BY <1>1 DEF KbTypes, SourceType
<1>4. source[s].run = 0
  BY <1>1 DEF Asked, Syncing
<1> QED BY <1>1, <1>2, <1>3, <1>4, RequeueGood

LEMMA AskGood ==
  ASSUME KbTypes, Plain, [KbNext]_kbVars, NEW c \in Clerks, NEW s \in KbSources, Asked(c, s),
         s \notin mixed',
         resync_source(c, s) \/ delete_source(c, s)
  PROVE  KbGood(s)'
<1>1. /\ clerk[c].step = "idle" /\ clerk'[c].step \in {"reset", "chunks"}
      /\ ingests' = ingests /\ chunks' = chunks /\ doc' = doc /\ source' = source
      /\ clerk'[c].step = "chunks" => ~Reading(s) /\ ~Storing(s)
  BY CallTypes DEF resync_source, delete_source
<1>2. PagesSame(s) /\ KeptState(s)
  BY <1>1 DEF PagesSame, KeptState, Asked
<1>3. Kind(s)' = Kind(s)
  BY StepCosts
<1> QED BY <1>1, <1>2, <1>3, QuietCall

LEMMA ClerkDiesGood ==
  ASSUME KbTypes, Plain, [KbNext]_kbVars, NEW c \in Clerks, NEW s \in KbSources, Asked(c, s),
         clerk[c].s = s, ClerkDies(c)
  PROVE  KbGood(s)'
<1>1. /\ clerk'[c].step = "idle" /\ ingests' = ingests /\ chunks' = chunks /\ doc' = doc
         /\ source' = source
      /\ clerk[c].step \in {"docs", "source"} => s \in torn'
  BY CallTypes DEF ClerkDies
<1>2. PagesSame(s) /\ KeptState(s)
  BY <1>1 DEF PagesSame, KeptState, Asked
<1>3. Kind(s)' = Kind(s)
  BY StepCosts
<1> QED BY <1>1, <1>2, <1>3, QuietCall

LEMMA DeleteGood ==
  ASSUME KbTypes, Plain, NEW c \in Clerks, NEW s \in KbSources, Asked(c, s), clerk[c].s = s,
         DeleteStep(c)
  PROVE  KbGood(s)'
<1>1. /\ clerk[c].step \in {"chunks", "docs", "source"} /\ ingests' = ingests /\ torn' = torn
      /\ clerk'[c].step \in {"docs", "source", "idle"}
  BY CallTypes DEF DeleteStep, readSide, CallAt
<1>2. /\ ClerkAlone(c, s) /\ Forgotten(s) /\ locked' = locked /\ (SourceGone(s) \/ One(s))
  BY DEF Asked
<1>3. Deleting(s)
  BY <1>1 DEF Deleting
<1>4. ~Reading(s) /\ ~Storing(s)
  BY <1>2, <1>3 DEF Forgotten
<1>5. ~Storing(s)'
  BY <1>1, <1>2, <1>4, ClerkAfter
<1>6. CASE clerk[c].step \in {"chunks", "docs"}
  <2>1. /\ source' = source /\ clerk'[c].s = s
        /\ clerk[c].step = "chunks" => /\ chunks' = [chunks EXCEPT ![s] = [p \in Pages |-> {}]]
                                       /\ doc' = doc /\ clerk'[c].step = "docs"
        /\ clerk[c].step = "docs" => /\ doc' = [doc EXCEPT ![s] = [p \in Pages |-> NoDoc]]
                                     /\ chunks' = chunks /\ clerk'[c].step = "source"
    BY <1>6, CallTypes DEF DeleteStep, CallAt
  <2>2. Wiping(s)'
    BY <1>6, <2>1 DEF Wiping
  <2>3. \A p \in Pages : chunks'[s][p] = {}
    <3>1. CASE clerk[c].step = "chunks"
      BY <2>1, <3>1 DEF KbTypes
    <3>2. CASE clerk[c].step = "docs"
      <4>1. Wiping(s)
        BY <3>2 DEF Wiping
      <4> QED BY <1>2, <2>1, <3>2, <4>1 DEF Forgotten
    <3> QED BY <1>6, <3>1, <3>2
  <2>4. (SourceGone(s)' <=> SourceGone(s)) /\ KeptState(s)
    BY <1>1, <2>1 DEF SourceGone, KeptState
  <2>5. SourceGone(s)' \/ (\E d \in Clerks : clerk'[d].s = s /\ clerk'[d].step = "source") =>
           \A p \in Pages : ~doc'[s][p].has
    <3>1. CASE clerk[c].step = "chunks"
      <4>1. (\E d \in Clerks : clerk'[d].s = s /\ clerk'[d].step = "source") =>
               (\E d \in Clerks : clerk[d].s = s /\ clerk[d].step = "source")
        BY <1>2, <2>1, <3>1, ClerkAfter
      <4> QED BY <1>2, <2>1, <2>4, <3>1, <4>1 DEF Forgotten
    <3>2. CASE clerk[c].step = "docs"
      <4>1. ~NoDoc.has
        BY DEF NoDoc
      <4> QED BY <2>1, <3>2, <4>1 DEF KbTypes
    <3> QED BY <1>6, <3>1, <3>2
  <2>6. Forgotten(s)'
    BY <1>2, <1>4, <1>5, <2>3, <2>5, ClerkForgotten
  <2>7. CASE SourceGone(s)
    BY <2>4, <2>6, <2>7 DEF KbGood
  <2>8. CASE ~SourceGone(s)
    <3>1. \A d \in Clerks : ClerkCalls(d, s)' => ClerkCalls(d, s)
      BY <1>2, <1>6, <2>1, ClerkAfter
    <3>2. One(s)'
      BY <1>2, <2>4, <2>8, <3>1, ClerkAfter, KeptOne
    <3> QED BY <2>2, <2>6, <3>2 DEF KbGood
  <2> QED BY <2>7, <2>8
<1>7. CASE clerk[c].step = "source"
  <2>1. doc' = doc /\ chunks' = chunks /\ source'[s].status = "gone"
    BY <1>7 DEF DeleteStep, CallAt, KbTypes, NoSource
  <2>2. Wiping(s) /\ \E d \in Clerks : clerk[d].s = s /\ clerk[d].step = "source"
    BY <1>7 DEF Wiping
  <2>3. (\A p \in Pages : chunks'[s][p] = {}) /\ (\A p \in Pages : ~doc'[s][p].has)
    BY <1>2, <2>1, <2>2 DEF Forgotten
  <2>4. Forgotten(s)'
    BY <1>2, <1>4, <1>5, <2>3, ClerkForgotten
  <2> QED BY <2>1, <2>4 DEF KbGood, SourceGone
<1> QED BY <1>1, <1>6, <1>7

(* A lock that ends is one that a dead worker left, or the worker was      *)
(* slow.                                                                   *)
LEMMA LockEndsGood ==
  ASSUME NEW s \in KbSources, LockEnds(s), KbGood(s)
  PROVE  KbGood(s)'
<1> SUFFICES ASSUME s \notin mixed' PROVE KbGood(s)'
  BY DEF KbGood
<1>1. /\ UNCHANGED <<source, doc, chunks, ingests, rd, got, clerk, torn, kcase>>
      /\ ~Reading(s) /\ s \notin mixed
  BY DEF LockEnds, callSide
<1>2. Forgotten(s) /\ (SourceGone(s) \/ (One(s) /\ (s \in torn \/ Wiping(s) \/ Sound(s))))
  BY <1>1 DEF KbGood
<1>3. /\ \A c \in Clerks : clerk'[c] = clerk[c] /\ (ClerkCalls(c, s)' => ClerkCalls(c, s))
      /\ Deleting(s)' <=> Deleting(s)
      /\ Wiping(s)' <=> Wiping(s)
      /\ Storing(s)' <=> Storing(s)
      /\ SourceGone(s)' <=> SourceGone(s)
      /\ Reading(s)' <=> Reading(s)
  BY <1>1 DEF ClerkCalls, Deleting, Wiping, Storing, SourceGone, Reading
<1>4. KeptState(s) /\ PagesSame(s) /\ SameRuns(s) /\ Kind(s)' = Kind(s)
  BY <1>1 DEF KeptState, PagesSame, SameRuns, Running, Kind
<1>5. \A w \in Readers : ~Holding(w, s)'
  BY <1>1 DEF Holding, HoldingSteps, Reading
<1>6. Forgotten(s)'
  <2>1. Deleting(s)' \/ SourceGone(s)' => ~Reading(s)' /\ ~Storing(s)'
    BY <1>2, <1>3 DEF Forgotten
  <2>2. Wiping(s)' \/ SourceGone(s)' => \A p \in Pages : chunks'[s][p] = {}
    BY <1>1, <1>2, <1>3 DEF Forgotten
  <2>3. SourceGone(s)' \/ (\E d \in Clerks : clerk'[d].s = s /\ clerk'[d].step = "source") =>
           \A p \in Pages : ~doc'[s][p].has
    BY <1>1, <1>2, <1>3 DEF Forgotten
  <2> QED BY <1>5, <2>1, <2>2, <2>3 DEF Forgotten
<1>7. CASE SourceGone(s)
  BY <1>3, <1>6, <1>7 DEF KbGood
<1>8. CASE ~SourceGone(s)
  <2>1. One(s)'
    BY <1>2, <1>3, <1>4, <1>8, KeptOne
  <2>2. s \in torn' \/ Wiping(s)' \/ Sound(s)'
    BY <1>1, <1>2, <1>3, <1>4, <1>8, KeptSound
  <2> QED BY <1>6, <2>1, <2>2 DEF KbGood
<1> QED BY <1>7, <1>8

LEMMA ClerkGood ==
  ASSUME KbTypes, Plain, AllGood, [KbNext]_kbVars, NEW c \in Clerks, NEW s \in KbSources,
         ClerkAlone(c, s),
         \/ clerk[c].step # "idle" /\ clerk[c].s = s /\ (ClerkStep(c) \/ ClerkDies(c))
         \/ _create_source(c, s) \/ resync_source(c, s) \/ delete_source(c, s)
            \/ refresh_due_kb_sources(c, s)
  PROVE  KbGood(s)'
<1> SUFFICES ASSUME s \notin mixed' PROVE KbGood(s)'
  BY DEF KbGood
<1>1. ClerkActs(c)
  BY DEF ClerkActs
<1>2. Asked(c, s)
  BY <1>1, IsAsked
<1>3. CASE _create_source(c, s) \/ resync_source(c, s) \/ delete_source(c, s)
        \/ refresh_due_kb_sources(c, s)
  BY <1>2, <1>3, CreateGood, AskGood, RefreshGood
<1>4. CASE clerk[c].s = s /\ (ClerkStep(c) \/ ClerkDies(c))
  BY <1>2, <1>4, StoreTextsGood, EnqueueGood, ResetGood, DeleteGood, ClerkDiesGood DEF ClerkStep
<1> QED BY <1>3, <1>4

(* So all sources stay good.                                               *)
LEMMA AllGoodStep ==
  ASSUME KbTypes, Plain, RunsKnown, AllGood, [KbNext]_kbVars
  PROVE  AllGood'
<1>1. \A s : Kind(s)' = Kind(s)
  BY StepCosts
<1>2. ASSUME NEW u \in KbSources, KeptSource(u) PROVE KbGood(u)'
  BY <1>1, <1>2, KeptGood DEF AllGood
<1>3. CASE OtherActs \/ UNCHANGED kbVars
  BY <1>2, <1>3, OtherKept, LockEndsGood DEF AllGood
<1>4. ASSUME NEW w \in Readers, ReaderActs(w) PROVE AllGood'
  <2>1. PICK s \in KbSources : (Work(w) /\ rd[w].s = s) \/ run_source(w, s)
    BY <1>4, ActsAreWork DEF KbTypes, RdType
  <2>2. ReaderAlone(w, s)
    BY <2>1, WorkApart, RunApart
  <2>3. CASE run_source(w, s)
    BY <1>2, <2>2, <2>3, RunGood DEF AllGood, ReaderAlone
  <2>4. CASE Work(w) /\ rd[w].s = s
    <3>1. mixed \subseteq mixed'
      BY <1>4, ReaderWrites
    <3>2. ASSUME s \notin mixed' PROVE KbGood(s)'
      <4>1. AtSource(w, s)
        BY <2>4, <3>1, <3>2, IsAt, WorkActs
      <4> QED BY <2>4, <4>1, WorkGood
    <3>3. KbGood(s)'
      BY <3>2 DEF KbGood
    <3> QED BY <1>2, <2>2, <3>3 DEF AllGood, ReaderAlone
  <2> QED BY <2>1, <2>3, <2>4
<1>5. ASSUME NEW c \in Clerks, ClerkActs(c) PROVE AllGood'
  <2>1. ASSUME NEW s \in KbSources, ClerkAlone(c, s), KbGood(s)' PROVE AllGood'
    BY <1>2, <2>1 DEF AllGood, ClerkAlone
  <2>2. CASE \E s \in KbSources : \/ _create_source(c, s) \/ resync_source(c, s) \/ delete_source(c, s)
                                  \/ refresh_due_kb_sources(c, s)
    BY <2>1, <2>2, CallApart, ClerkGood
  <2>3. CASE clerk[c].step # "idle" /\ (ClerkStep(c) \/ ClerkDies(c))
    <3>1. PICK s \in KbSources : s = clerk[c].s
      BY CallTypes
    <3>2. ClerkAlone(c, s)
      BY <2>3, <3>1, ClerkApart
    <3>3. KbGood(s)'
      BY <2>3, <3>1, <3>2, ClerkGood
    <3> QED BY <2>1, <3>2, <3>3
  <2>4. CASE clerk[c].step = "idle" /\ (ClerkStep(c) \/ ClerkDies(c))
    <3>1. ClerkDies(c)
      BY <2>4 DEF ClerkStep, StoreTexts, enqueue_ingest, ResetSource, DeleteStep, CallAt
    <3> QED BY <2>4, <3>1 DEF ClerkDies, Plain
  <2> QED BY <1>5, <2>2, <2>3, <2>4 DEF ClerkActs
<1> QED BY <1>3, <1>4, <1>5, KbSplit

(* What is in the index and what is about to be, and how each step counts. *)
LEMMA SumKept ==
  ASSUME NEW S, NEW T, NEW A, NEW B, IsFiniteSet(S), IsFiniteSet(A), T \subseteq S, B \subseteq A
  PROVE  Cardinality(T) + Cardinality(B) <= Cardinality(S) + Cardinality(A)
<1>1. Cardinality(T) <= Cardinality(S) /\ Cardinality(B) <= Cardinality(A) /\ IsFiniteSet(T)
        /\ IsFiniteSet(B)
  BY FS_Subset
<1>2. Cardinality(T) \in Nat /\ Cardinality(S) \in Nat /\ Cardinality(B) \in Nat
        /\ Cardinality(A) \in Nat
  BY <1>1, FS_CardinalityType
<1> QED BY <1>1, <1>2

(* Chunks and workers counted together: one chunk less and one worker      *)
(* more, or the other way round.                                           *)
LEMMA SumCleared ==
  ASSUME NEW S, NEW T, NEW A, NEW B, NEW x, NEW w, IsFiniteSet(S), IsFiniteSet(A),
         x \in S, T \subseteq S \ {x}, B \subseteq A \cup {w}
  PROVE  Cardinality(T) + Cardinality(B) <= Cardinality(S) + Cardinality(A)
<1>1. /\ IsFiniteSet(S \ {x}) /\ Cardinality(S \ {x}) = Cardinality(S) - 1
      /\ IsFiniteSet(A \cup {w}) /\ Cardinality(A \cup {w}) <= Cardinality(A) + 1
  <2>1. IsFiniteSet(S \ {x}) /\ Cardinality(S \ {x}) = Cardinality(S) - 1
    BY FS_RemoveElement
  <2>2. IsFiniteSet(A \cup {w}) /\ Cardinality(A \cup {w}) = IF w \in A THEN Cardinality(A) ELSE Cardinality(A) + 1
    BY FS_AddElement
  <2>3. Cardinality(A) \in Nat
    BY FS_CardinalityType
  <2> QED BY <2>1, <2>2, <2>3
<1>2. Cardinality(T) + Cardinality(B) <= Cardinality(S \ {x}) + Cardinality(A \cup {w})
  BY <1>1, SumKept
<1>3. IsFiniteSet(T) /\ IsFiniteSet(B)
  BY <1>1, FS_Subset
<1>4. /\ Cardinality(T) \in Nat /\ Cardinality(S) \in Nat /\ Cardinality(B) \in Nat
         /\ Cardinality(A) \in Nat
      /\ Cardinality(A \cup {w}) \in Nat
  BY <1>1, <1>3, FS_CardinalityType
<1> QED BY <1>1, <1>2, <1>4

LEMMA SumFilled ==
  ASSUME NEW S, NEW T, NEW A, NEW B, NEW x, NEW w, IsFiniteSet(S), IsFiniteSet(A),
         w \in A, B \subseteq A \ {w}, T \subseteq S \cup {x}
  PROVE  Cardinality(T) + Cardinality(B) <= Cardinality(S) + Cardinality(A)
<1>1. Cardinality(B) + Cardinality(T) <= Cardinality(A) + Cardinality(S)
  BY SumCleared
<1>2. IsFiniteSet(S \cup {x}) /\ IsFiniteSet(A \ {w})
  BY FS_AddElement, FS_RemoveElement
<1>3. IsFiniteSet(T) /\ IsFiniteSet(B)
  BY <1>2, FS_Subset
<1>4. Cardinality(T) \in Nat /\ Cardinality(S) \in Nat /\ Cardinality(B) \in Nat
        /\ Cardinality(A) \in Nat
  BY <1>3, FS_CardinalityType
<1> QED BY <1>1, <1>4

(* The chunks of all sources, one by one.                                  *)
LEMMA InUnion ==
  ASSUME NEW K, NEW t
  PROVE  t \in UNION {{<<s, p, v>> : v \in K[s][p]} : s \in KbSources, p \in Pages} <=>
           \E s \in KbSources, p \in Pages : \E v \in K[s][p] : t = <<s, p, v>>
<1>1. ASSUME NEW s \in KbSources, NEW p \in Pages, NEW v \in K[s][p], t = <<s, p, v>>
      PROVE  t \in UNION {{<<u, q, n>> : n \in K[u][q]} : u \in KbSources, q \in Pages}
  <2>1. t \in {<<s, p, n>> : n \in K[s][p]}
    BY <1>1
  <2>2. PICK X : X = {<<s, p, n>> : n \in K[s][p]}
    OBVIOUS
  <2>3. X \in {{<<u, q, n>> : n \in K[u][q]} : u \in KbSources, q \in Pages}
    BY <2>2
  <2>4. t \in X
    BY <2>1, <2>2
  <2> DEFINE Y == {{<<u, q, n>> : n \in K[u][q]} : u \in KbSources, q \in Pages}
  <2>5. X \in Y
    BY <2>3
  <2> HIDE DEF Y
  <2>6. t \in UNION Y
    BY <2>4, <2>5
  <2> QED BY <2>6 DEF Y
<1>2. ASSUME t \in UNION {{<<u, q, n>> : n \in K[u][q]} : u \in KbSources, q \in Pages}
      PROVE  \E s \in KbSources, p \in Pages : \E v \in K[s][p] : t = <<s, p, v>>
  <2>1. PICK X \in {{<<u, q, n>> : n \in K[u][q]} : u \in KbSources, q \in Pages} : t \in X
    BY <1>2
  <2>2. PICK s \in KbSources, p \in Pages : X = {<<s, p, n>> : n \in K[s][p]}
    BY <2>1
  <2> QED BY <2>1, <2>2
<1> QED BY <1>1, <1>2

LEMMA InChunks ==
  /\ \A t : t \in AllChunks <=> \E s \in KbSources, p \in Pages : \E v \in chunks[s][p] : t = <<s, p, v>>
  /\ \A t : t \in AllChunks' <=> \E s \in KbSources, p \in Pages : \E v \in chunks'[s][p] : t = <<s, p, v>>
  BY InUnion DEF AllChunks

LEMMA FewerChunks ==
  ASSUME \A s \in KbSources, p \in Pages : chunks'[s][p] \subseteq chunks[s][p]
  PROVE  AllChunks' \subseteq AllChunks
<1> SUFFICES ASSUME NEW t \in AllChunks' PROVE t \in AllChunks
  OBVIOUS
<1>1. PICK s \in KbSources, p \in Pages : \E v \in chunks'[s][p] : t = <<s, p, v>>
  BY InChunks
<1>2. \E v \in chunks[s][p] : t = <<s, p, v>>
  BY <1>1
<1> QED BY <1>2, InChunks

ChunksFinite == IsFiniteSet(AllChunks)

(* Which chunks a step may add.                                            *)
LEMMA ChunksOfStep ==
  ASSUME KbTypes, [KbNext]_kbVars
  PROVE  \/ \A s \in KbSources, p \in Pages : chunks'[s][p] \subseteq chunks[s][p]
         \/ \E w \in Readers : InsertChunks(w)
<1>1. chunks \in [KbSources -> [Pages -> SUBSET Nat]]
  BY DEF KbTypes
<1>2. ASSUME NEW c \in Clerks, DeleteStep(c), CallAt(c, "chunks")
      PROVE  \A s \in KbSources, p \in Pages : chunks'[s][p] \subseteq chunks[s][p]
  <2>1. chunks' = [chunks EXCEPT ![clerk[c].s] = [p \in Pages |-> {}]]
    BY <1>2 DEF DeleteStep, CallAt
  <2> QED BY <1>1, <2>1
<1>3. ASSUME NEW w \in Readers, DeleteChunks(w) \/ DropChunks(w)
      PROVE  \A s \in KbSources, p \in Pages : chunks'[s][p] \subseteq chunks[s][p]
  <2>1. PICK u : u = rd[w].s
    OBVIOUS
  <2>2. CASE DeleteChunks(w)
    <3>1. PICK q : chunks' = [chunks EXCEPT ![u][q] = {}]
      BY <2>1, <2>2 DEF DeleteChunks
    <3> QED BY <1>1, <3>1
  <2>3. CASE DropChunks(w)
    <3>1. chunks' = [chunks EXCEPT ![u] = [p \in Pages |->
             IF doc[u][p].has /\ doc[u][p].run # rd[w].run THEN {} ELSE @[p]]]
      BY <2>1, <2>3 DEF DropChunks
    <3> QED BY <1>1, <3>1
  <2> QED BY <1>3, <2>2, <2>3
<1>4. chunks' = chunks => \A s \in KbSources, p \in Pages : chunks'[s][p] \subseteq chunks[s][p]
  OBVIOUS
<1> QED BY <1>2, <1>3, <1>4, KbSplit, ClerkWrites, ReaderWrites, OtherWrites

LEMMA InsertedChunks ==
  ASSUME KbTypes, Plain, NEW w \in Readers, InsertChunks(w)
  PROVE  AllChunks' \subseteq AllChunks \cup {<<rd[w].s, rd[w].page, rd[w].ver>>}
<1>1. chunks \in [KbSources -> [Pages -> SUBSET Nat]]
  BY DEF KbTypes
<1>2. PICK s, q, v : s \in KbSources /\ s = rd[w].s /\ q = rd[w].page /\ v = rd[w].ver
  BY DEF KbTypes, RdType
<1>3. chunks' = [chunks EXCEPT ![s][q] = @ \cup {v}]
  BY <1>2 DEF InsertChunks
<1>4. \A u \in KbSources, p \in Pages :
        chunks'[u][p] = chunks[u][p] \/ (u = s /\ p = q /\ chunks'[u][p] = chunks[u][p] \cup {v})
  BY <1>1, <1>3
<1>5. ASSUME NEW t \in AllChunks' PROVE t \in AllChunks \/ t = <<s, q, v>>
  <2>1. PICK u \in KbSources, p \in Pages : \E n \in chunks'[u][p] : t = <<u, p, n>>
    BY <1>5, InChunks
  <2>2. PICK n \in chunks'[u][p] : t = <<u, p, n>>
    BY <2>1
  <2>3. CASE n \in chunks[u][p]
    BY <2>2, <2>3, InChunks
  <2>4. CASE n \notin chunks[u][p]
    <3>1. u = s /\ p = q /\ n = v
      BY <1>4, <2>2, <2>4
    <3> QED BY <2>2, <3>1
  <2> QED BY <2>3, <2>4
<1> QED BY <1>2, <1>5

LEMMA ChunksFiniteStep ==
  ASSUME KbTypes, Plain, ChunksFinite, [KbNext]_kbVars
  PROVE  ChunksFinite'
<1>1. CASE \A s \in KbSources, p \in Pages : chunks'[s][p] \subseteq chunks[s][p]
  BY <1>1, FewerChunks, FS_Subset DEF ChunksFinite
<1>2. ASSUME NEW w \in Readers, InsertChunks(w) PROVE ChunksFinite'
  <2>1. PICK x : AllChunks' \subseteq AllChunks \cup {x}
    BY <1>2, InsertedChunks
  <2>2. IsFiniteSet(AllChunks \cup {x})
    BY FS_AddElement DEF ChunksFinite
  <2> QED BY <2>1, <2>2, FS_Subset DEF ChunksFinite
<1> QED BY <1>1, <1>2, ChunksOfStep

-----------------------------------------------------------------------------
(* How many chunks there are, and readers about to add one.                *)
LEMMA AddingFinite == Adding \subseteq Readers /\ Adding' \subseteq Readers /\ IsFiniteSet(Adding)
  /\ IsFiniteSet(Adding')
<1>1. Adding \subseteq Readers /\ Adding' \subseteq Readers
  BY DEF Adding
<1> QED BY <1>1, KbReadersAssumption, FS_Subset

(* The bound stays when neither sum grows.                                 *)
LEMMA PlanKept ==
  ASSUME KbTypes, [KbNext]_kbVars, Plan, torn \subseteq torn', mixed \subseteq mixed',
         torn' = {} /\ mixed' = {} =>
           Cardinality(AllChunks') + Cardinality(Adding') <= Cardinality(AllChunks) + Cardinality(Adding),
         ChunksFinite, ChunksFinite'
  PROVE  Plan'
<1> SUFFICES ASSUME torn' = {}, mixed' = {}
             PROVE  Cardinality(AllChunks') + Cardinality(Adding') <= kcase'.plan + Cardinality(Readers) - 1
  BY DEF Plan
<1>1. Cardinality(AllChunks) + Cardinality(Adding) <= kcase.plan + Cardinality(Readers) - 1
  BY DEF Plan
<1>2. kcase'.plan = kcase.plan /\ kcase.plan \in Nat
  BY StepCosts DEF KbTypes, KbCaseTypes
<1>3. /\ Cardinality(AllChunks) \in Nat /\ Cardinality(AllChunks') \in Nat
      /\ Cardinality(Adding) \in Nat /\ Cardinality(Adding') \in Nat /\ Cardinality(Readers) \in Nat
  BY AddingFinite, FS_CardinalityType, KbReadersAssumption DEF ChunksFinite
<1> QED BY <1>1, <1>2, <1>3

LEMMA PlanFewer ==
  ASSUME KbTypes, Plain, [KbNext]_kbVars, Plan, ChunksFinite, torn \subseteq torn',
         mixed \subseteq mixed',
         AllChunks' \subseteq AllChunks, torn' = {} /\ mixed' = {} => Adding' \subseteq Adding
  PROVE  Plan'
<1>1. torn' = {} /\ mixed' = {} =>
           Cardinality(AllChunks') + Cardinality(Adding') <= Cardinality(AllChunks) + Cardinality(Adding)
  BY SumKept, AddingFinite DEF ChunksFinite
<1> QED BY <1>1, PlanKept, ChunksFiniteStep

(* Which workers are about to add a chunk.                                 *)
LEMMA IsAdding ==
  ASSUME NEW x \in Readers
  PROVE  /\ x \in Adding <=> \/ rd[x].step = "fill"
                             \/ rd[x].step \in {"embed", "clear"} /\ chunks[rd[x].s][rd[x].page] = {}
         /\ x \in Adding' <=> \/ rd'[x].step = "fill"
                              \/ rd'[x].step \in {"embed", "clear"}
                                 /\ chunks'[rd'[x].s][rd'[x].page] = {}
  BY DEF Adding

(* The bound after the step of a request, of a worker, and of an insert.   *)
LEMMA PlanByClerk ==
  ASSUME KbTypes, Plain, AllGood, Plan, ChunksFinite, [KbNext]_kbVars, NEW c \in Clerks, ClerkActs(c)
  PROVE  Plan'
<1>1. torn \subseteq torn' /\ mixed \subseteq mixed' /\ rd' = rd
  BY ClerkWrites
<1>2. CASE chunks' = chunks
  <2>1. AllChunks' = AllChunks /\ Adding' = Adding
    BY <1>1, <1>2 DEF AllChunks, Adding
  <2> QED BY <1>1, <2>1, PlanFewer
<1>3. CASE DeleteStep(c) /\ CallAt(c, "chunks")
  <2>1. PICK s \in KbSources : s = clerk[c].s
    BY CallTypes
  <2>2. chunks' = [chunks EXCEPT ![s] = [p \in Pages |-> {}]]
    BY <1>3, <2>1 DEF DeleteStep, CallAt
  <2>3. AllChunks' \subseteq AllChunks
    <3>1. \A u \in KbSources, p \in Pages : chunks'[u][p] \subseteq chunks[u][p]
      BY <2>2 DEF KbTypes
    <3> QED BY <3>1, FewerChunks
  <2>4. ASSUME mixed' = {} PROVE Adding' \subseteq Adding
    <3>1. Deleting(s) /\ s \notin mixed
      BY <1>1, <1>3, <2>1, <2>4 DEF Deleting, CallAt
    <3>2. ~Reading(s)
      BY <3>1 DEF AllGood, KbGood, Forgotten
    <3>3. ASSUME NEW x \in Readers, x \in Adding' PROVE x \in Adding
      <4>1. rd'[x] = rd[x] /\ (rd[x].step # "idle" => rd[x].s # s)
        BY <1>1, <3>2 DEF Reading
      <4>2. rd[x].step # "idle" => chunks'[rd[x].s] = chunks[rd[x].s]
        BY <2>2, <4>1 DEF KbTypes, RdType
      <4> QED BY <3>3, <4>1, <4>2, IsAdding
    <3> QED BY <3>3, AddingFinite
  <2> QED BY <1>1, <2>3, <2>4, PlanFewer
<1> QED BY <1>2, <1>3, ClerkWrites

LEMMA PlanByOther ==
  ASSUME KbTypes, Plain, Plan, ChunksFinite, [KbNext]_kbVars, OtherActs \/ UNCHANGED kbVars
  PROVE  Plan'
<1>1. torn \subseteq torn' /\ mixed \subseteq mixed' /\ rd' = rd /\ chunks' = chunks
  BY OtherWrites
<1>2. AllChunks' = AllChunks /\ Adding' = Adding
  BY <1>1 DEF AllChunks, Adding
<1> QED BY <1>1, <1>2, PlanFewer

(* The steps that let the chunks be, and do not come to a new page.        *)
LEMMA PlanByQuiet ==
  ASSUME KbTypes, Plain, Plan, ChunksFinite, [KbNext]_kbVars, torn \subseteq torn',
         mixed \subseteq mixed',
         NEW w \in Readers, Others(w), chunks' = chunks,
         torn' = {} /\ mixed' = {} => (w \in Adding' => w \in Adding)
  PROVE  Plan'
<1>1. AllChunks' = AllChunks
  BY DEF AllChunks
<1>2. ASSUME torn' = {}, mixed' = {}, NEW x \in Readers, x \in Adding' PROVE x \in Adding
  <2>1. CASE x = w
    BY <1>2, <2>1
  <2>2. CASE x # w
    <3>1. rd'[x] = rd[x]
      BY <2>2 DEF Others
    <3> QED BY <1>2, <3>1, IsAdding
  <2> QED BY <2>1, <2>2
<1>3. torn' = {} /\ mixed' = {} => Adding' \subseteq Adding
  BY <1>2, AddingFinite
<1> QED BY <1>1, <1>3, PlanFewer

(* A page is taken up that has no chunks: there is room for one.           *)
LEMMA PlanByReadPage ==
  ASSUME KbTypes, Plain, RunsKnown, AllGood, Plan, ChunksFinite, [KbNext]_kbVars, NEW w \in Readers,
         ReadPage(w)
  PROVE  Plan'
<1>1. /\ Work(w) /\ chunks' = chunks /\ torn' = torn /\ mixed' = mixed
      /\ torn \subseteq torn' /\ mixed \subseteq mixed'
  BY DEF Work, ReadPage
<1>2. PICK s \in KbSources : s = rd[w].s
  BY DEF KbTypes, RdType
<1>3. PICK p \in rd[w].todo : Skips(w, p) \/ Knows(w, p) \/ Fails(w) \/ Learns(w, p)
  BY PageRead
<1>4. Others(w) /\ rd[w].step = "page" /\ rd'[w].s = s
  BY <1>2, PageRead DEF SameJob
<1>5. CASE ~Learns(w, p)
  <2>1. rd'[w].step \in {"page", "finish"}
    BY <1>3, <1>4, <1>5 DEF Skips, Knows, Fails
  <2>2. w \notin Adding'
    BY <2>1, IsAdding
  <2> QED BY <1>1, <1>4, <2>2, PlanByQuiet
<1>6. CASE Learns(w, p)
  <2>1. p \in Pages /\ rd'[w].step = "embed" /\ rd'[w].page = p
        /\ Cardinality(AllChunks) + (IF doc[s][p].hash = 0 THEN 1 ELSE 0) <= kcase.plan
    BY <1>2, <1>6 DEF Learns, KbTypes, RdType
  <2>2. CASE chunks[s][p] # {}
    <3>1. w \notin Adding'
      BY <1>1, <1>4, <2>1, <2>2, IsAdding
    <3> QED BY <1>1, <1>4, <3>1, PlanByQuiet
  <2>3. CASE chunks[s][p] = {}
    <3> SUFFICES ASSUME torn' = {}, mixed' = {}
                 PROVE  Cardinality(AllChunks') + Cardinality(Adding') <= kcase'.plan + Cardinality(Readers) - 1
      BY DEF Plan
    <3>1. AtSource(w, s)
      BY <1>1, <1>2, <1>4, IsAt
    <3>2. Sound(s) /\ Running(w, s)
      BY <1>1, <1>4, <3>1, IsRunning DEF AtSource
    <3>3. Whole(s, p)
      BY <1>4, <2>1, <3>1, <3>2, AllWhole
    <3>4. doc[s][p].hash = 0
      BY <2>3, <3>3 DEF Whole
    <3>5. Cardinality(AllChunks) + 1 <= kcase.plan
      BY <2>1, <3>4
    <3>6. Cardinality(Adding') <= Cardinality(Readers)
      BY AddingFinite, KbReadersAssumption, FS_Subset
    <3>7. /\ Cardinality(AllChunks) \in Nat /\ Cardinality(Adding') \in Nat
             /\ Cardinality(Readers) \in Nat
          /\ kcase'.plan = kcase.plan /\ kcase.plan \in Nat
      <4>1. kcase'.plan = kcase.plan /\ kcase.plan \in Nat
        BY StepCosts DEF KbTypes, KbCaseTypes
      <4> QED BY <4>1, AddingFinite, KbReadersAssumption, FS_CardinalityType DEF ChunksFinite
    <3>8. AllChunks' = AllChunks
      BY <1>1 DEF AllChunks
    <3> QED BY <3>5, <3>6, <3>7, <3>8
  <2> QED BY <2>2, <2>3
<1> QED BY <1>5, <1>6

(* The chunks of a page go, and their place is kept for its new ones.      *)
LEMMA PlanByDelete ==
  ASSUME KbTypes, Plain, RunsKnown, AllGood, Plan, ChunksFinite, [KbNext]_kbVars, NEW w \in Readers,
         DeleteChunks(w) \/ DropChunks(w)
  PROVE  Plan'
<1>1. Work(w) /\ rd[w].step \in {"clear", "drop"} /\ torn' = torn /\ mixed' = mixed
      /\ torn \subseteq torn' /\ mixed \subseteq mixed'
  BY DEF Work, DeleteChunks, DropChunks, RdAt
<1>2. PICK s \in KbSources : s = rd[w].s
  BY DEF KbTypes, RdType
<1>3. Others(w) /\ rd'[w].s = s /\ rd'[w].step \in {"fill", "drop docs"}
      /\ (rd'[w].step = "drop docs" <=> DropChunks(w)) /\ (rd'[w].step = "fill" <=> DeleteChunks(w))
  <2>1. rd[w].step = "clear" <=> DeleteChunks(w)
    BY DEF DeleteChunks, DropChunks, RdAt
  <2>2. rd[w].step = "drop" <=> DropChunks(w)
    BY DEF DeleteChunks, DropChunks, RdAt
  <2>3. DeleteChunks(w) => GoesTo(w, "fill")
    BY JobMoves
  <2>4. DropChunks(w) => GoesTo(w, "drop docs")
    BY JobMoves
  <2> QED BY <1>1, <1>2, <2>1, <2>2, <2>3, <2>4 DEF GoesTo, SameWork, SameJob
<1>4. /\ AllChunks' \subseteq AllChunks
      /\ \A u \in KbSources \ {s} : chunks'[u] = chunks[u]
  <2>1. ~\E x \in Readers : InsertChunks(x) /\ x = w
    BY <1>1 DEF InsertChunks, RdAt
  <2>2. \A u \in KbSources, p \in Pages : chunks'[u][p] \subseteq chunks[u][p]
    <3>1. chunks \in [KbSources -> [Pages -> SUBSET Nat]]
      BY DEF KbTypes
    <3>2. CASE DeleteChunks(w)
      <4>1. PICK q : chunks' = [chunks EXCEPT ![s][q] = {}]
        BY <1>2, <3>2 DEF DeleteChunks
      <4> QED BY <3>1, <4>1
    <3>3. CASE DropChunks(w)
      <4>1. chunks' = [chunks EXCEPT ![s] = [p \in Pages |->
               IF doc[s][p].has /\ doc[s][p].run # rd[w].run THEN {} ELSE @[p]]]
        BY <1>2, <3>3 DEF DropChunks
      <4> QED BY <3>1, <4>1
    <3> QED BY <3>2, <3>3
  <2>3. \A u \in KbSources \ {s} : chunks'[u] = chunks[u]
    BY <1>2 DEF DeleteChunks, DropChunks, KbTypes
  <2> QED BY <2>2, <2>3, FewerChunks
<1>5. ASSUME mixed' = {}, NEW x \in Readers \ {w}, x \in Adding' PROVE x \in Adding
  <2>1. rd'[x] = rd[x] /\ rd[x].step \in {"embed", "clear", "fill"}
    BY <1>3, <1>5, IsAdding DEF Others
  <2>2. rd[x].s # s
    <3>1. AtSource(w, s)
      BY <1>1, <1>2, <1>5, IsAt
    <3>2. Running(w, s)
      BY <1>1, <3>1, IsRunning
    <3>3. ~Running(x, s)
      BY <3>1, <3>2, AtRun
    <3> QED BY <2>1, <3>3 DEF Running
  <2>3. chunks'[rd[x].s] = chunks[rd[x].s]
    BY <1>4, <2>2 DEF KbTypes, RdType
  <2> QED BY <1>5, <2>1, <2>3, IsAdding
<1>6. CASE DropChunks(w)
  <2>1. w \notin Adding'
    BY <1>3, <1>6, IsAdding
  <2>2. mixed' = {} => Adding' \subseteq Adding
    BY <1>5, <2>1, AddingFinite
  <2> QED BY <1>1, <1>4, <2>2, PlanFewer
<1>7. CASE DeleteChunks(w)
  <2>1. rd[w].step = "clear" /\ rd[w].page \in Pages
    BY <1>7 DEF DeleteChunks, RdAt, Plain, PlainReader
  <2>2. CASE chunks[s][rd[w].page] = {}
    <3>1. w \in Adding
      BY <1>2, <2>1, <2>2, IsAdding
    <3>2. mixed' = {} => Adding' \subseteq Adding
      BY <1>5, <3>1, AddingFinite
    <3> QED BY <1>1, <1>4, <3>2, PlanFewer
  <2>3. CASE chunks[s][rd[w].page] # {}
    <3>1. PICK p \in Pages : p = rd[w].page
      BY <2>1
    <3>v. PICK v : v \in chunks[s][p]
      BY <2>3, <3>1
    <3>2. <<s, p, v>> \in AllChunks
      BY <3>1, <3>v, InChunks
    <3>3. <<s, p, v>> \notin AllChunks'
      <4>1. chunks' = [chunks EXCEPT ![s][p] = {}]
        BY <1>2, <1>7, <3>1 DEF DeleteChunks
      <4>2. chunks'[s][p] = {}
        BY <4>1 DEF KbTypes
      <4>3. ASSUME NEW u \in KbSources, NEW q \in Pages, NEW n \in chunks'[u][q],
                   <<s, p, v>> = <<u, q, n>>
            PROVE FALSE
        BY <4>2, <4>3
      <4> QED BY <4>3, InChunks
    <3>4. mixed' = {} => Adding' \subseteq Adding \cup {w}
      BY <1>5, AddingFinite
    <3>5. AllChunks' \subseteq AllChunks \ {<<s, p, v>>}
      BY <1>4, <3>3
    <3>6. mixed' = {} =>
            Cardinality(AllChunks') + Cardinality(Adding') <= Cardinality(AllChunks) + Cardinality(Adding)
      BY <3>2, <3>4, <3>5, AddingFinite, SumCleared DEF ChunksFinite
    <3> QED BY <1>1, <3>6, PlanKept, ChunksFiniteStep
  <2> QED BY <2>2, <2>3
<1> QED BY <1>6, <1>7

LEMMA PlanByInsert ==
  ASSUME KbTypes, Plain, Plan, ChunksFinite, [KbNext]_kbVars, NEW w \in Readers, InsertChunks(w)
  PROVE  Plan'
<1>1. /\ rd[w].step = "fill" /\ torn \subseteq torn' /\ mixed \subseteq mixed'
      /\ GoesTo(w, "page")
  BY JobMoves DEF InsertChunks, RdAt
<1>2. PICK x : AllChunks' \subseteq AllChunks \cup {x}
  BY InsertedChunks
<1>3. w \in Adding /\ w \notin Adding'
  BY <1>1, IsAdding DEF GoesTo
<1>4. ASSUME NEW y \in Readers \ {w}, y \in Adding' PROVE y \in Adding
  <2>1. rd'[y] = rd[y]
    BY <1>1 DEF GoesTo, Others
  <2>2. chunks'[rd[y].s][rd[y].page] = {} /\ rd[y].step # "fill" =>
          chunks[rd[y].s][rd[y].page] = {}
    <3>1. rd[y].s \in KbSources /\ rd[w].s \in KbSources
            /\ chunks \in [KbSources -> [Pages -> SUBSET Nat]]
      BY DEF KbTypes, RdType
    <3>2. rd[y].step \in {"embed", "clear", "fill"} => rd[y].page \in Pages
      BY DEF Plain, PlainReader
    <3>3. rd[y].step \in {"embed", "clear", "fill"}
      BY <1>4, <2>1, IsAdding
    <3>4. PICK u \in KbSources, q \in Pages : u = rd[y].s /\ q = rd[y].page
      BY <3>1, <3>2, <3>3
    <3>5. PICK t, p, v : t \in KbSources /\ t = rd[w].s /\ p = rd[w].page /\ v = rd[w].ver
      BY <3>1
    <3>6. chunks' = [chunks EXCEPT ![t][p] = @ \cup {v}]
      BY <3>5 DEF InsertChunks
    <3>7. chunks[u][q] \subseteq chunks'[u][q]
      BY <3>1, <3>6
    <3> QED BY <3>4, <3>7
  <2> QED BY <1>4, <2>1, <2>2, IsAdding
<1>5. Adding' \subseteq Adding \ {w}
  BY <1>3, <1>4, AddingFinite
<1>6. Cardinality(AllChunks') + Cardinality(Adding') <= Cardinality(AllChunks) + Cardinality(Adding)
  BY <1>2, <1>3, <1>5, AddingFinite, SumFilled DEF ChunksFinite
<1> QED BY <1>1, <1>6, PlanKept, ChunksFiniteStep

LEMMA PlanStep ==
  ASSUME KbTypes, Plain, RunsKnown, AllGood, Plan, ChunksFinite, [KbNext]_kbVars
  PROVE  Plan'
<1>1. ASSUME NEW w \in Readers, ReaderActs(w) PROVE Plan'
  <2>1. torn \subseteq torn' /\ mixed \subseteq mixed'
    BY <1>1, ReaderWrites
  <2>2. CASE ReadPage(w)
    BY <2>2, PlanByReadPage
  <2>3. CASE DeleteChunks(w) \/ DropChunks(w) \/ InsertChunks(w)
    BY <2>3, PlanByDelete, PlanByInsert
  <2>4. CASE ~ReadPage(w) /\ ~DeleteChunks(w) /\ ~DropChunks(w) /\ ~InsertChunks(w)
    <3>1. chunks' = chunks
      BY <1>1, <2>4, ReaderWrites
    <3>2. CASE \E s \in KbSources : run_source(w, s)
      <4>1. PICK s \in KbSources : run_source(w, s)
        BY <3>2
      <4>2. Others(w) /\ (rd'[w] = rd[w] \/ rd'[w].step = "lock")
        <5>1. CASE Exists(s)
          BY <4>1, <5>1, Started DEF run_source
        <5>2. CASE ~Exists(s)
          BY <4>1, <5>2 DEF run_source, Others, KbTypes
        <5> QED BY <5>1, <5>2
      <4>3. w \in Adding' => w \in Adding
        BY <3>1, <4>2, IsAdding
      <4> QED BY <2>1, <3>1, <4>2, <4>3, PlanByQuiet
    <3>3. CASE Work(w)
      <4>1. Others(w)
        BY <3>3, WorkRecords
      <4>2. CASE UpsertDocument(w)
        <5>1. rd'[w].s = rd[w].s /\ rd'[w].page = rd[w].page /\ rd'[w].step = "clear"
                /\ rd[w].step = "embed"
          BY <4>2, JobMoves DEF GoesTo, SameWork, SameJob, UpsertDocument, RdAt
        <5>2. w \in Adding' => w \in Adding
          BY <3>1, <5>1, IsAdding
        <5> QED BY <2>1, <3>1, <4>1, <5>2, PlanByQuiet
      <4>3. CASE BeginSlice(w)
        <5>1. rd'[w].step = "page"
          BY <4>3, Begun
        <5>2. w \notin Adding'
          BY <5>1, IsAdding
        <5> QED BY <2>1, <3>1, <4>1, <5>2, PlanByQuiet
      <4>4. CASE rd'[w].step \notin {"embed", "clear", "fill"}
        <5>2. w \notin Adding'
          BY <4>4, IsAdding
        <5> QED BY <2>1, <3>1, <4>1, <5>2, PlanByQuiet
      <4>5. NoRead.step = "idle"
        BY DEF NoRead
      <4> QED BY <2>4, <3>3, <4>2, <4>3, <4>4, <4>5, JobMoves DEF Work, GoesTo, EndsWith, Stops
    <3> QED BY <1>1, <3>2, <3>3, ActsAreWork
  <2> QED BY <2>2, <2>3, <2>4
<1> QED BY <1>1, PlanByClerk, PlanByOther, KbSplit

KbAll == KbTypes /\ RunsKnown /\ Plain /\ AllGood /\ ChunksFinite /\ Plan

(* The invariant holds at the start, every step keeps it, and it gives     *)
(* what is promised.                                                       *)
LEMMA KbAllInit ==
  ASSUME KbInit
  PROVE  KbAll
<1>1. KbTypes
  <2>1. /\ source \in [KbSources -> SourceType] /\ doc \in [KbSources -> [Pages -> DocType]]
        /\ rd \in [Readers -> RdType] /\ clerk \in [Clerks -> ClerkType]
    BY EmptyRecords DEF KbInit
  <2>2. kcase \in KbCaseTypes
    BY KbCasesAssumption DEF KbInit
  <2>3. /\ chunks \in [KbSources -> [Pages -> SUBSET Nat]]
        /\ site \in [KbSources -> [Pages -> Nat]]
        /\ got \in [KbSources -> [Pages -> Nat]]
    BY DEF KbInit, Nothing
  <2> QED BY <2>1, <2>2, <2>3 DEF KbTypes, KbInit
<1>2. /\ \A s \in KbSources : source[s] = NoSource /\ ingests[s] = 0
      /\ \A s \in KbSources, p \in Pages : doc[s][p] = NoDoc /\ chunks[s][p] = {} /\ site[s][p] = 1
      /\ \A w \in Readers : rd[w] = NoRead
      /\ \A c \in Clerks : clerk[c] = NoCall
      /\ runs = 0
  BY DEF KbInit
<1>3. /\ NoSource.run = 0 /\ NoSource.status = "none" /\ NoSource.crawl = Pages
      /\ NoDoc.run = 0 /\ NoDoc.hash = 0 /\ ~NoDoc.has
      /\ NoRead.run = 0 /\ NoRead.src = NoSource /\ NoRead.step = "idle" /\ NoRead.end = "ready"
      /\ NoCall.step = "idle"
  BY DEF NoSource, NoDoc, NoRead, NoCall
<1>4. RunsKnown
  BY <1>2, <1>3 DEF RunsKnown
<1>5. Plain
  <2>1. \A w \in Readers : PlainReader(w)
    BY <1>2, <1>3 DEF PlainReader, ReadSteps
  <2>2. \A s \in KbSources : PlainSource(s)
    BY <1>2, <1>3 DEF PlainSource
  <2>3. \A s \in KbSources : Unmade(s)
    BY <1>2, <1>3 DEF Unmade, Reading
  <2> QED BY <1>2, <2>1, <2>2, <2>3 DEF Plain
<1>6. ASSUME NEW s \in KbSources PROVE KbGood(s)
  <2>1. /\ ~Deleting(s) /\ ~Wiping(s) /\ ~Storing(s) /\ ~SourceGone(s)
        /\ ~(\E c \in Clerks : clerk[c].s = s /\ clerk[c].step = "source")
        /\ \A c \in Clerks : ~ClerkCalls(c, s)
    BY <1>2, <1>3 DEF Deleting, Wiping, Storing, SourceGone, ClerkCalls
  <2>2. \A w \in Readers : ~Running(w, s) /\ ~Holding(w, s)
    BY <1>2, <1>3 DEF Running, Holding, HoldingSteps
  <2>3. Forgotten(s)
    BY <2>1, <2>2 DEF Forgotten
  <2>4. ingests[s] <= 1 /\ ~(ingests[s] > 0)
    <3>1. ingests[s] = 0
      BY <1>2
    <3> QED BY ONLY <3>1, NoneWaiting
  <2>5. One(s)
    BY <2>1, <2>2, <2>4 DEF One
  <2>6. \A p \in Pages : Whole(s, p)
    BY <1>2, <1>3 DEF Whole
  <2>7. source[s].status # "ready"
    BY <1>2, <1>3
  <2>8. Sound(s)
    BY <2>1, <2>2, <2>4, <2>6, <2>7 DEF Sound
  <2> QED BY <2>3, <2>5, <2>8 DEF KbGood
<1>7. AllChunks = {}
  BY <1>2, InChunks
<1>8. ChunksFinite /\ Cardinality(AllChunks) = 0
  BY <1>7, FS_EmptySet DEF ChunksFinite
<1>9. Plan
  <2>1. Adding = {}
    BY <1>2, <1>3, AddingFinite, IsAdding
  <2>2. Cardinality(Adding) = 0
    BY <2>1, FS_EmptySet
  <2>3. kcase.plan \in Nat
    BY <1>1 DEF KbTypes, KbCaseTypes
  <2>4. Cardinality(Readers) \in Nat /\ Cardinality(Readers) # 0
    BY KbReadersAssumption, FS_EmptySet, FS_CardinalityType
  <2> QED BY <1>8, <2>2, <2>3, <2>4 DEF Plan
<1> QED BY <1>1, <1>4, <1>5, <1>6, <1>8, <1>9 DEF KbAll, AllGood

LEMMA KbAllStep ==
  ASSUME KbAll, [KbNext]_kbVars
  PROVE  KbAll'
<1>1. KbTypes /\ RunsKnown /\ Plain /\ AllGood /\ ChunksFinite /\ Plan
  BY DEF KbAll
<1> QED BY <1>1, KbTypesStep, RunsKnownStep, PlainStep, AllGoodStep, ChunksFiniteStep,
     PlanStep DEF KbAll

LEMMA KbAllKeeps ==
  ASSUME KbAll
  PROVE  KbTypeOK /\ ReadyIsIndexed /\ DeletedIsForgotten /\ KnowledgeWithinPlan
<1>0. KbTypes /\ RunsKnown /\ Plain /\ AllGood /\ ChunksFinite /\ Plan
  BY DEF KbAll
<1>1. KbTypeOK
  <2>1. /\ \A s \in KbSources : source[s] \in SourceType /\ source[s].run <= runs
        /\ \A w \in Readers : rd[w] \in RdType
        /\ \A s \in KbSources, p \in Pages : doc[s][p] \in DocType /\ doc[s][p].run <= runs
        /\ runs \in Nat
    BY <1>0 DEF KbTypes, RunsKnown
  <2>2. \A s \in KbSources : source[s].status \in {"none", "queued", "processing", "ready", "partial",
                                            "failed", "gone"}
                        /\ source[s].crawl \subseteq Pages /\ source[s].run \in 0..runs
                        /\ source[s].next \in {"no", "later", "due"}
    BY <2>1 DEF SourceType, KbStatus
  <2>3. doc \in [KbSources -> [Pages -> [has : BOOLEAN, hash : Nat, run : 0..runs]]]
    <3>1. \A s \in KbSources, p \in Pages : doc[s][p] \in [has : BOOLEAN, hash : Nat, run : 0..runs]
      BY <2>1 DEF DocType
    <3>2. doc \in [KbSources -> [Pages -> DocType]]
      BY <1>0 DEF KbTypes
    <3> QED BY <3>1, <3>2
  <2>4. \A w \in Readers : rd[w].s \in KbSources /\ rd[w].todo \subseteq Pages
    BY <2>1 DEF RdType
  <2> QED BY <1>0, <2>2, <2>3, <2>4 DEF KbTypeOK, KbTypes
<1>2. ReadyIsIndexed
  <2>1. ASSUME NEW s \in KbSources \ (torn \cup mixed), source[s].status = "ready", ~Deleting(s),
               NEW p \in Pages
        PROVE  chunks[s][p] = {got[s][p]} \ {0}
    <3>1. ~SourceGone(s) /\ ~Wiping(s)
      BY <2>1 DEF SourceGone, Wiping, Deleting
    <3>2. Sound(s)
      BY <1>0, <2>1, <3>1 DEF AllGood, KbGood
    <3> QED BY <2>1, <3>2 DEF Sound, Filled
  <2> QED BY <2>1 DEF ReadyIsIndexed
<1>3. DeletedIsForgotten
  BY <1>0 DEF DeletedIsForgotten, AllGood, KbGood, Forgotten, SourceGone
<1>4. KnowledgeWithinPlan
  <2>1. /\ Cardinality(AllChunks) \in Nat /\ Cardinality(Adding) \in Nat /\ Cardinality(Readers) \in Nat
        /\ kcase.plan \in Nat
    BY <1>0, AddingFinite, FS_CardinalityType, KbReadersAssumption DEF ChunksFinite, KbTypes,
         KbCaseTypes
  <2> QED BY <1>0, <2>1 DEF Plan, KnowledgeWithinPlan
<1> QED BY <1>1, <1>2, <1>3, <1>4

(* Whatever uploads, refreshes, ticks of the scheduler, deaths, expired    *)
(* locks and deletions interleave with run_ingestion: the variables keep   *)
(* their types; a source shown as "ready" has the chunks of the pages its  *)
(* last run read and no others; delete_source leaves nothing of a source   *)
(* that nobody was filling; and workers that embed at the same time exceed *)
(* the plan by a document each, less one, at most.                         *)
THEOREM KnowledgeKept ==
  KbInit /\ [][KbNext]_kbVars =>
    [](KbTypeOK /\ ReadyIsIndexed /\ DeletedIsForgotten /\ KnowledgeWithinPlan)
<1>1. KbInit => KbAll
  BY KbAllInit
<1>2. KbAll /\ [KbNext]_kbVars => KbAll'
  BY KbAllStep
<1>3. KbAll => KbTypeOK /\ ReadyIsIndexed /\ DeletedIsForgotten /\ KnowledgeWithinPlan
  BY KbAllKeeps
<1> QED BY <1>1, <1>2, <1>3, PTL

=============================================================================
