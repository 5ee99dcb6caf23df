----------------------------- MODULE SendPermits -----------------------------
(***************************************************************************)
(* app/services/throughput.py: the Redis counters every outbound send has  *)
(* to pass (acquire_send_permit) and the slot it gives back afterwards     *)
(* (release_send_permit).  Every Redis command is a step of its own; the   *)
(* counters are shared by all worker processes and nothing else orders     *)
(* them.                                                                   *)
(***************************************************************************)
EXTENDS Integers, FiniteSets

CONSTANTS
  Workers,             \* worker processes that send
  Tenants,             \* user ids
  PerSecond,           \* WHATSAPP_MESSAGES_PER_SECOND
  PerMinute,           \* WHATSAPP_MESSAGES_PER_MINUTE
  PerTenant,           \* WHATSAPP_TENANT_MESSAGES_PER_MINUTE
  MaxConcurrent,       \* WHATSAPP_MAX_CONCURRENT_SENDS
  SecondsPerMinute,    \* 60, scaled down
  SecondTTL,           \* EXPIRE of wa:tps:<second>: 2 seconds
  MinuteTTL,           \* EXPIRE of both wa:tpm keys: 70 seconds, scaled down
  LastSecond,          \* bound: the clock stops here
  CrashSteps,          \* the steps at which a worker may die
  MaxCrashes,          \* bound: workers that die
  MaxExpiries,         \* bound: how often wa:concurrent runs out of its TTL
  MaxAttempts          \* bound: permits asked for

ASSUME WorkersAssumption == IsFiniteSet(Workers)

ASSUME LimitsAssumption ==
  /\ PerSecond \in Nat \ {0} /\ PerMinute \in Nat \ {0}
  /\ PerTenant \in Nat \ {0} /\ MaxConcurrent \in Nat \ {0}
  /\ SecondsPerMinute \in Nat \ {0} /\ LastSecond \in Nat
  /\ SecondTTL \in Nat \ {0} /\ MinuteTTL \in Nat \ {0}
  /\ MaxCrashes \in Nat /\ MaxExpiries \in Nat /\ MaxAttempts \in Nat

Seconds == 0..LastSecond
Minutes == 0..(LastSecond \div SecondsPerMinute)
MinuteOf(t) == t \div SecondsPerMinute

(* The three limits, in the order in which they are counted. *)
Kinds == {"second", "minute", "tenant"}
Rank == [second |-> 1, minute |-> 2, tenant |-> 3]
Limit == [second |-> PerSecond, minute |-> PerMinute, tenant |-> PerTenant]
TTL == [second |-> SecondTTL, minute |-> MinuteTTL, tenant |-> MinuteTTL]

(* wa:tps:<second>, wa:tpm:<minute> and wa:tpm:<user>:<minute>. *)
Keys == [kind : {"second"}, user : {"all"}, at : Seconds]
        \cup [kind : {"minute"}, user : {"all"}, at : Minutes]
        \cup [kind : {"tenant"}, user : Tenants, at : Minutes]
Start(k) == IF k.kind = "second" THEN k.at ELSE k.at * SecondsPerMinute

Steps == {"idle", "count", "expire", "slot", "arm", "undo", "send"}

ASSUME CrashAssumption == CrashSteps \subseteq Steps \ {"idle"}

VARIABLES
  now,      \* the clock, in seconds
  count,    \* the value of each rate key, 0 when the key does not exist
  ends,     \* when its TTL runs out or ran out, 0 as long as it has none
  conc,     \* wa:concurrent (0 when the key does not exist)
  key,      \* wa:concurrent: "absent", "bare" (without) or "ttl" (with a TTL)
  wk,       \* the workers: step and limit reached, tenant, the second read
  granted,  \* history: permits given, by the keys they were counted under
  lapses,   \* history: how often a key was counted again after its TTL
  budget    \* what is left of the bounds

vars == <<now, count, ends, conc, key, wk, granted, lapses, budget>>

(* A worker that asks for no permit. *)
Idle == [step |-> "idle", kind |-> "second", user |-> "all", t |-> 0]

Init ==
  /\ now = 0
  /\ count = [k \in Keys |-> 0] /\ ends = [k \in Keys |-> 0]
  /\ conc = 0 /\ key = "absent"
  /\ wk = [w \in Workers |-> Idle]
  /\ granted = [k \in Keys |-> 0] /\ lapses = [k \in Keys |-> 0]
  /\ budget = [crashes |-> MaxCrashes, expiries |-> MaxExpiries,
               attempts |-> MaxAttempts]

(* The key under which w is counted for a limit. *)
KeyOf(w, kind) ==
  [kind |-> kind,
   user |-> IF kind = "tenant" THEN wk[w].user ELSE "all",
   at   |-> IF kind = "second" THEN wk[w].t ELSE MinuteOf(wk[w].t)]

(* INCR and DECR create a missing key, without a TTL. *)
AddToSlots(n) ==
  /\ conc' = conc + n
  /\ key' = IF key = "absent" THEN "bare" ELSE key

(* Once the permit is given or refused nobody looks at its keys again. *)
Goto(w, from, to) ==
  /\ wk[w].step = from
  /\ wk' = [wk EXCEPT ![w] = IF to \in {"idle", "undo", "send"}
                               THEN [Idle EXCEPT !.step = to] ELSE [@ EXCEPT !.step = to]]

-----------------------------------------------------------------------------
(* acquire_send_permit *)

(* now = int(time.time()): the clock is read once, the keys are fixed.     *)
Begin(w, u) ==
  /\ wk[w].step = "idle"
  /\ budget.attempts > 0
  /\ budget' = [budget EXCEPT !.attempts = @ - 1]
  /\ wk' = [wk EXCEPT ![w] = [step |-> "count", kind |-> "second", user |-> u, t |-> now]]
  /\ UNCHANGED <<now, count, ends, conc, key, granted, lapses>>

(* Within the limit: on to the next limit, after the last one to the slots. *)
Pass(w) ==
  \/ wk[w].kind = "second" /\ wk' = [wk EXCEPT ![w].kind = "minute", ![w].step = "count"]
  \/ wk[w].kind = "minute" /\ wk' = [wk EXCEPT ![w].kind = "tenant", ![w].step = "count"]
  \/ wk[w].kind = "tenant" /\ wk' = [wk EXCEPT ![w].step = "slot"]

(* INCR of a rate key.  A key that ran out, or never was, starts again     *)
(* without a TTL.                                                          *)
Incr(k) ==
  /\ count' = [count EXCEPT ![k] = @ + 1]
  /\ ends' = [ends EXCEPT ![k] = IF count[k] = 0 THEN 0 ELSE @]
  /\ lapses' = [lapses EXCEPT ![k] = IF count[k] = 0 /\ ends[k] # 0 THEN @ + 1 ELSE @]

(* Mutant: the counter is taken down instead of up. *)
CountDown(w) ==
  LET k == KeyOf(w, wk[w].kind) IN
  /\ wk[w].step = "count"
  /\ count' = [count EXCEPT ![k] = @ - 1]
  /\ Pass(w)
  /\ UNCHANGED <<now, ends, conc, key, granted, lapses, budget>>

(* Mutant: the count before the increment is compared with the limit. *)
CountLate(w) ==
  LET k == KeyOf(w, wk[w].kind) IN
  /\ wk[w].step = "count"
  /\ Incr(k)
  /\ \/ count[k] = 0 /\ Goto(w, "count", "expire")
     \/ count[k] # 0 /\ count[k] > Limit[k.kind] /\ Goto(w, "count", "idle")
     \/ count[k] # 0 /\ count[k] <= Limit[k.kind] /\ Pass(w)
  /\ UNCHANGED <<now, conc, key, granted, budget>>

(* Whoever counts to 1 sets the TTL next; one too many is refused, and its *)
(* INCRs stay counted.                                                     *)
Count(w) ==
  LET k == KeyOf(w, wk[w].kind) IN
  /\ wk[w].step = "count"
  /\ Incr(k)
  /\ \/ count[k] = 0 /\ Goto(w, "count", "expire")
     \/ count[k] # 0 /\ count[k] + 1 > Limit[k.kind] /\ Goto(w, "count", "idle")
     \/ count[k] # 0 /\ count[k] + 1 <= Limit[k.kind] /\ Pass(w)
  /\ UNCHANGED <<now, conc, key, granted, budget>>

(* EXPIRE of the rate key just created; the limits are at least 1. *)
SetTTL(w) ==
  LET k == KeyOf(w, wk[w].kind) IN
  /\ wk[w].step = "expire"
  /\ ends' = [ends EXCEPT ![k] = now + TTL[k.kind]]
  /\ Pass(w)
  /\ UNCHANGED <<now, count, conc, key, granted, lapses, budget>>

Grant(w) ==
  granted' = [k \in Keys |-> IF k = KeyOf(w, k.kind) THEN granted[k] + 1 ELSE granted[k]]

(* INCR wa:concurrent.  The TTL is set only by whoever counted to 1; an    *)
(* INCR too many is taken back by a DECR of its own.                       *)
TakeSlot(w) ==
  /\ AddToSlots(1)
  /\ \/ conc + 1 = 1 /\ Goto(w, "slot", "arm") /\ UNCHANGED granted
     \/ conc + 1 # 1 /\ conc + 1 > MaxConcurrent
        /\ Goto(w, "slot", "undo") /\ UNCHANGED granted
     \/ conc + 1 # 1 /\ conc + 1 <= MaxConcurrent
        /\ Goto(w, "slot", "send") /\ Grant(w)
  /\ UNCHANGED <<now, count, ends, lapses, budget>>

(* Mutant: the first holder sends without setting the TTL. *)
ArmForgets(w) ==
  /\ Goto(w, "arm", "send")
  /\ Grant(w)
  /\ UNCHANGED <<now, count, ends, conc, key, lapses, budget>>

(* EXPIRE wa:concurrent 120 *)
Arm(w) ==
  /\ Goto(w, "arm", "send")
  /\ key' = IF key = "absent" THEN "absent" ELSE "ttl"
  /\ Grant(w)
  /\ UNCHANGED <<now, count, ends, conc, lapses, budget>>

(* Mutant: a refused slot is given back twice. *)
UndoSlotTwice(w) ==
  /\ Goto(w, "undo", "idle")
  /\ AddToSlots(-2)
  /\ UNCHANGED <<now, count, ends, granted, lapses, budget>>

(* The refused slot is given back. *)
UndoSlot(w) ==
  /\ Goto(w, "undo", "idle")
  /\ AddToSlots(-1)
  /\ UNCHANGED <<now, count, ends, granted, lapses, budget>>

(* release_send_permit: a plain DECR, in the caller's finally block. *)
Release(w) ==
  /\ Goto(w, "send", "idle")
  /\ AddToSlots(-1)
  /\ UNCHANGED <<now, count, ends, granted, lapses, budget>>

-----------------------------------------------------------------------------
(* Time and failures *)

(* A rate key is gone once its TTL is over, even while a worker that read  *)
(* the clock before has yet to count under it.                             *)
Tick ==
  /\ now < LastSecond
  /\ now' = now + 1
  /\ count' = [k \in Keys |-> IF ends[k] # 0 /\ ends[k] <= now + 1 THEN 0 ELSE count[k]]
  /\ UNCHANGED <<ends, conc, key, wk, granted, lapses, budget>>

(* The 120 s TTL of wa:concurrent, counted from the last time the counter  *)
(* went from 0 to 1, runs out, whoever holds a slot then.                  *)
Expire ==
  /\ key = "ttl"
  /\ budget.expiries > 0
  /\ budget' = [budget EXCEPT !.expiries = @ - 1]
  /\ conc' = 0 /\ key' = "absent"
  /\ UNCHANGED <<now, count, ends, wk, granted, lapses>>

(* A worker dies without giving back what it counted. *)
Crash(w) ==
  /\ wk[w].step \in CrashSteps
  /\ budget.crashes > 0
  /\ budget' = [budget EXCEPT !.crashes = @ - 1]
  /\ wk' = [wk EXCEPT ![w] = Idle]
  /\ UNCHANGED <<now, count, ends, conc, key, granted, lapses>>

Acquire(w) == Count(w) \/ SetTTL(w) \/ TakeSlot(w) \/ Arm(w) \/ UndoSlot(w)

Next ==
  \/ \E w \in Workers :
       \/ \E u \in Tenants : Begin(w, u)
       \/ Acquire(w) \/ Release(w) \/ Crash(w)
  \/ Tick
  \/ Expire

Spec == Init /\ [][Next]_vars

-----------------------------------------------------------------------------
(* Properties *)

(* Every variable holds a value of its type. *)
TypeOK ==
  /\ now \in Seconds
  /\ count \in [Keys -> Nat] /\ ends \in [Keys -> Nat]
  /\ conc \in Int /\ key \in {"absent", "bare", "ttl"}
  /\ wk \in [Workers -> [step : Steps, kind : Kinds, user : Tenants \cup {"all"}, t : Seconds]]
  /\ granted \in [Keys -> Nat] /\ lapses \in [Keys -> Nat]
  /\ budget \in [crashes : Nat, expiries : Nat, attempts : Nat]

(* Workers that may be calling the provider. *)
Holders == {w \in Workers : wk[w].step \in {"arm", "send"}}

(* No more than MaxConcurrent sends run at the same time, whoever dies     *)
(* with a slot; once the counter's TTL has run out there may be more: the  *)
(* counter restarts at 0 while its slots are in use.                       *)
ConcurrencyLimit ==
  budget.expiries = MaxExpiries => Cardinality(Holders) <= MaxConcurrent

(* A slot that a dead worker left counted is freed in the end: a positive  *)
(* counter has a TTL, or the worker about to set it is still alive.  It    *)
(* needs that no worker dies at "arm", between INCR and EXPIRE.            *)
CountedSlotExpires ==
  conc > 0 => key = "ttl" \/ \E w \in Workers : wk[w].step = "arm"

(* No second, no minute and no tenant's minute gets more permits than its  *)
(* limit, although a permit is counted in four steps, other workers count  *)
(* in between and the clock moves on, until the key's TTL is over.  From   *)
(* then on there may be the limit once more for each whole TTL since the   *)
(* window began: a worker that had read the clock in the window and counts *)
(* late finds no key and starts it again.                                  *)
RateLimits ==
  \A k \in Keys :
    granted[k] <= Limit[k.kind] * (1 + (IF now < Start(k) THEN 0
                                        ELSE (now - Start(k)) \div TTL[k.kind]))

=============================================================================
