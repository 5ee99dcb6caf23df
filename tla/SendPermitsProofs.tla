--------------------------- MODULE SendPermitsProofs ---------------------------
(***************************************************************************)
(* Theorems about SendPermits, for any number of workers and tenants and   *)
(* any limits.                                                             *)
(***************************************************************************)
EXTENDS SendPermits, FiniteSetTheorems, TLAPS

(* The clock's minutes are those of its seconds. *)
LEMMA MinuteType ==
  ASSUME NEW t \in Seconds PROVE MinuteOf(t) \in Minutes
<1>1. t \in Int /\ LastSecond \in Int /\ SecondsPerMinute \in Int
      /\ 0 <= t /\ t <= LastSecond /\ SecondsPerMinute > 0
  BY LimitsAssumption DEF Seconds
<1>2. t \div SecondsPerMinute \in Int /\ LastSecond \div SecondsPerMinute \in Int
  BY <1>1
<1>3. 0 <= t \div SecondsPerMinute
  BY <1>1
<1>4. t \div SecondsPerMinute <= LastSecond \div SecondsPerMinute
  BY <1>1
<1> QED BY <1>2, <1>3, <1>4 DEF MinuteOf, Minutes

(* The key a worker is counted under is one of the keys. *)
LEMMA KeyType ==
  ASSUME TypeOK, NEW w \in Workers, wk[w].user \in Tenants, NEW kind \in Kinds
  PROVE  KeyOf(w, kind) \in Keys /\ KeyOf(w, kind).kind = kind
<1>1. wk[w].t \in Seconds /\ MinuteOf(wk[w].t) \in Minutes
  BY MinuteType DEF TypeOK
<1> QED BY <1>1 DEF KeyOf, Keys, Kinds

LEMMA ConstantTypes ==
  /\ \A k \in Keys : k.kind \in Kinds
  /\ \A kind \in Kinds : Limit[kind] \in Nat \ {0} /\ TTL[kind] \in Nat \ {0} /\ Rank[kind] \in Nat
  BY LimitsAssumption DEF Keys, Kinds, Limit, TTL, Rank

WorkerType == [step : Steps, kind : Kinds, user : Tenants \cup {"all"}, t : Seconds]

(* The three kinds of step a worker takes. *)
LEMMA GotoType ==
  ASSUME TypeOK, NEW w \in Workers, NEW from, NEW to \in Steps, Goto(w, from, to)
  PROVE  /\ wk' \in [Workers -> WorkerType]
         /\ wk[w].step = from /\ wk'[w].step = to
         /\ to \notin {"idle", "undo", "send"} =>
              wk'[w].kind = wk[w].kind /\ wk'[w].user = wk[w].user /\ wk'[w].t = wk[w].t
         /\ to = "idle" => wk'[w] = Idle
         /\ \A v \in Workers : v # w => wk'[v] = wk[v]
<1>1. 0 \in Seconds
  BY LimitsAssumption DEF Seconds
<1>2. wk \in [Workers -> WorkerType]
  BY DEF TypeOK, WorkerType
<1>3. CASE to \in {"idle", "undo", "send"}
  <2>1. wk' = [wk EXCEPT ![w] = [Idle EXCEPT !.step = to]]
    BY <1>3 DEF Goto
  <2>2. [Idle EXCEPT !.step = to] \in WorkerType /\ [Idle EXCEPT !.step = to].step = to
        /\ (to = "idle" => [Idle EXCEPT !.step = to] = Idle)
    BY <1>1, <1>3 DEF Idle, WorkerType, Kinds, Steps
  <2> QED BY <1>2, <1>3, <2>1, <2>2 DEF Goto
<1>4. CASE to \notin {"idle", "undo", "send"}
  <2>1. wk' = [wk EXCEPT ![w].step = to]
    BY <1>4 DEF Goto
  <2> QED BY <1>2, <1>4, <2>1 DEF Goto, WorkerType
<1> QED BY <1>3, <1>4

LEMMA PassType ==
  ASSUME TypeOK, NEW w \in Workers, Pass(w)
  PROVE  /\ wk' \in [Workers -> WorkerType]
         /\ wk'[w].user = wk[w].user /\ wk'[w].t = wk[w].t
         /\ \/ wk[w].kind = "second" /\ wk'[w].kind = "minute" /\ wk'[w].step = "count"
            \/ wk[w].kind = "minute" /\ wk'[w].kind = "tenant" /\ wk'[w].step = "count"
            \/ wk[w].kind = "tenant" /\ wk'[w].kind = "tenant" /\ wk'[w].step = "slot"
         /\ \A v \in Workers : v # w => wk'[v] = wk[v]
<1>1. wk \in [Workers -> WorkerType]
  BY DEF TypeOK, WorkerType
<1>2. CASE wk[w].kind = "second" /\ wk' = [wk EXCEPT ![w].kind = "minute", ![w].step = "count"]
  BY <1>1, <1>2 DEF WorkerType, Kinds, Steps
<1>3. CASE wk[w].kind = "minute" /\ wk' = [wk EXCEPT ![w].kind = "tenant", ![w].step = "count"]
  BY <1>1, <1>3 DEF WorkerType, Kinds, Steps
<1>4. CASE wk[w].kind = "tenant" /\ wk' = [wk EXCEPT ![w].step = "slot"]
  BY <1>1, <1>4 DEF WorkerType, Kinds, Steps
<1> QED BY <1>2, <1>3, <1>4 DEF Pass

LEMMA BeginType ==
  ASSUME TypeOK, NEW w \in Workers, NEW u \in Tenants, Begin(w, u)
  PROVE  /\ wk' \in [Workers -> WorkerType]
         /\ wk[w].step = "idle"
         /\ wk'[w] = [step |-> "count", kind |-> "second", user |-> u, t |-> now]
         /\ \A v \in Workers : v # w => wk'[v] = wk[v]
  BY DEF Begin, TypeOK, WorkerType, Kinds, Steps

LEMMA CrashType ==
  ASSUME TypeOK, NEW w \in Workers, Crash(w)
  PROVE  /\ wk' \in [Workers -> WorkerType]
         /\ wk'[w] = Idle
         /\ \A v \in Workers : v # w => wk'[v] = wk[v]
<1>1. 0 \in Seconds
  BY LimitsAssumption DEF Seconds
<1> QED BY <1>1 DEF Crash, TypeOK, WorkerType, Kinds, Steps, Idle

(* INCR of a key that exists adds one; of one that does not, starts it     *)
(* without a time to live.                                                 *)
LEMMA IncrCounts ==
  ASSUME TypeOK, NEW k \in Keys, Incr(k)
  PROVE  /\ count' \in [Keys -> Nat] /\ ends' \in [Keys -> Nat] /\ lapses' \in [Keys -> Nat]
         /\ count'[k] = count[k] + 1
         /\ ends'[k] = IF count[k] = 0 THEN 0 ELSE ends[k]
         /\ lapses'[k] = IF count[k] = 0 /\ ends[k] # 0 THEN lapses[k] + 1 ELSE lapses[k]
         /\ \A j \in Keys : j # k => count'[j] = count[j] /\ ends'[j] = ends[j]
                                     /\ lapses'[j] = lapses[j]
  BY DEF TypeOK, Incr

(* A permit counts under the keys of its second, its minute and its        *)
(* tenant's minute.                                                        *)
LEMMA GrantCounts ==
  ASSUME TypeOK, NEW w \in Workers, Grant(w)
  PROVE  /\ granted' \in [Keys -> Nat]
         /\ \A k \in Keys :
              granted'[k] = IF k = KeyOf(w, k.kind) THEN granted[k] + 1 ELSE granted[k]
  BY DEF TypeOK, Grant

-----------------------------------------------------------------------------
(* Types *)

(* Whoever asks for a permit asks for a tenant. *)
Asking == {"count", "expire", "slot", "arm"}
AskInv == \A w \in Workers : wk[w].step \in Asking => wk[w].user \in Tenants /\ wk[w].t <= now

TypeInv == TypeOK /\ AskInv

LEMMA InitType == Init => TypeInv
<1> SUFFICES ASSUME Init PROVE TypeInv
  OBVIOUS
<1>1. 0 \in Seconds
  BY LimitsAssumption DEF Seconds
<1>2. wk \in [Workers -> WorkerType] /\ AskInv
  BY <1>1 DEF Init, Idle, WorkerType, Steps, Kinds, AskInv, Asking
<1>3. budget \in [crashes : Nat, expiries : Nat, attempts : Nat]
  BY LimitsAssumption DEF Init
<1> QED BY <1>1, <1>2, <1>3 DEF Init, TypeOK, TypeInv, WorkerType

(* A worker that moves, and those that do not, still ask for a tenant. *)
LEMMA AskStep ==
  ASSUME TypeInv, NEW w \in Workers, now' = now,
         wk'[w].step \in Asking => wk'[w].user \in Tenants /\ wk'[w].t <= now,
         \A v \in Workers : v # w => wk'[v] = wk[v]
  PROVE  AskInv'
  BY DEF TypeInv, AskInv

(* Each step keeps the types. *)
LEMMA TypeStep == TypeInv /\ [Next]_vars => TypeInv'
<1> SUFFICES ASSUME TypeInv, [Next]_vars PROVE TypeInv'
  OBVIOUS
<1>a. TypeOK /\ AskInv
  BY DEF TypeInv
<1>1. ASSUME NEW w \in Workers, NEW u \in Tenants, Begin(w, u) PROVE TypeInv'
  <2>1. budget' \in [crashes : Nat, expiries : Nat, attempts : Nat]
    BY <1>1, <1>a DEF Begin, TypeOK
  <2>2. AskInv'
    <3>1. now <= now
      BY <1>a DEF TypeOK, Seconds
    <3> QED BY <1>1, <1>a, <3>1, BeginType, AskStep DEF Begin
  <2> QED BY <1>1, <1>a, <2>1, <2>2, BeginType DEF Begin, TypeOK, TypeInv, WorkerType
<1>2. ASSUME NEW w \in Workers, wk[w].step \in Asking
      PROVE  KeyOf(w, wk[w].kind) \in Keys /\ wk[w].kind \in Kinds
             /\ wk[w].user \in Tenants /\ wk[w].t <= now
  BY <1>2, <1>a, KeyType DEF AskInv, TypeOK
<1>3. ASSUME NEW w \in Workers, Count(w) PROVE TypeInv'
  <2>1. PICK k \in Keys : k = KeyOf(w, wk[w].kind)
    BY <1>2, <1>3 DEF Count, Asking
  <2>2. Incr(k) /\ UNCHANGED <<now, conc, key, granted, budget>>
    BY <1>3, <2>1 DEF Count
  <2>3. /\ wk' \in [Workers -> WorkerType]
        /\ wk'[w].step \in Asking => wk'[w].user = wk[w].user /\ wk'[w].t = wk[w].t
        /\ \A v \in Workers : v # w => wk'[v] = wk[v]
    <3>1. CASE Goto(w, "count", "expire")
      BY <1>a, <3>1, GotoType DEF Steps
    <3>2. CASE Goto(w, "count", "idle")
      BY <1>a, <3>2, GotoType DEF Steps, Asking
    <3>3. CASE Pass(w)
      BY <1>a, <3>3, PassType
    <3> QED BY <1>3, <3>1, <3>2, <3>3 DEF Count
  <2>4. AskInv'
    BY <1>2, <1>3, <2>2, <2>3, AskStep DEF Count, Asking
  <2> QED BY <1>a, <2>2, <2>3, <2>4, IncrCounts DEF TypeOK, TypeInv, WorkerType
<1>4. ASSUME NEW w \in Workers, SetTTL(w) PROVE TypeInv'
  <2>1. PICK k \in Keys : k = KeyOf(w, wk[w].kind)
    BY <1>2, <1>4 DEF SetTTL, Asking
  <2>2. now + TTL[k.kind] \in Nat
    BY <1>a, ConstantTypes DEF TypeOK, Seconds
  <2>3. ends' \in [Keys -> Nat]
    BY <1>4, <1>a, <2>1, <2>2 DEF SetTTL, TypeOK
  <2>4. AskInv'
    BY <1>2, <1>4, <1>a, PassType, AskStep DEF SetTTL, Asking
  <2> QED BY <1>4, <1>a, <2>3, <2>4, PassType DEF SetTTL, TypeOK, TypeInv, WorkerType
<1>5. ASSUME NEW w \in Workers, TakeSlot(w) PROVE TypeInv'
  <2>1. PICK to \in {"arm", "undo", "send"} : Goto(w, "slot", to) /\ (UNCHANGED granted \/ Grant(w))
    BY <1>5 DEF TakeSlot
  <2>2. AskInv'
    BY <1>2, <1>5, <1>a, <2>1, GotoType, AskStep DEF TakeSlot, Steps, Asking
  <2>3. granted' \in [Keys -> Nat]
    BY <1>a, <2>1, GrantCounts DEF TypeOK
  <2> QED BY <1>5, <1>a, <2>1, <2>2, <2>3, GotoType
    DEF TakeSlot, AddToSlots, TypeOK, TypeInv, WorkerType, Steps
<1>6. ASSUME NEW w \in Workers, Arm(w) PROVE TypeInv'
  <2>1. AskInv'
    BY <1>6, <1>a, GotoType, AskStep DEF Arm, Steps, Asking
  <2> QED BY <1>6, <1>a, <2>1, GotoType, GrantCounts DEF Arm, TypeOK, TypeInv, WorkerType, Steps
<1>7. ASSUME NEW w \in Workers, UndoSlot(w) \/ Release(w) PROVE TypeInv'
  <2>1. AskInv'
    BY <1>7, <1>a, GotoType, AskStep DEF UndoSlot, Release, Steps, Asking
  <2> QED BY <1>7, <1>a, <2>1, GotoType
    DEF UndoSlot, Release, AddToSlots, TypeOK, TypeInv, WorkerType, Steps
<1>8. ASSUME NEW w \in Workers, Crash(w) PROVE TypeInv'
  <2>1. budget' \in [crashes : Nat, expiries : Nat, attempts : Nat]
    BY <1>8, <1>a DEF Crash, TypeOK
  <2>2. AskInv'
    BY <1>8, <1>a, CrashType, AskStep DEF Crash, Asking, Idle
  <2> QED BY <1>8, <1>a, <2>1, <2>2, CrashType DEF Crash, TypeOK, TypeInv, WorkerType
<1>9. CASE Tick
  <2>1. now' \in Seconds /\ now <= now' /\ now \in Int /\ now' \in Int
    BY <1>9, <1>a, LimitsAssumption DEF Tick, TypeOK, Seconds
  <2>2. count' \in [Keys -> Nat]
    BY <1>9, <1>a DEF Tick, TypeOK
  <2>3. \A w \in Workers : wk[w].t \in Int
    BY <1>a DEF TypeOK, Seconds
  <2>4. AskInv'
    BY <1>9, <1>a, <2>1, <2>3 DEF Tick, AskInv
  <2> QED BY <1>9, <1>a, <2>1, <2>2, <2>4 DEF Tick, TypeOK, TypeInv
<1>10. CASE Expire
  <2>1. budget' \in [crashes : Nat, expiries : Nat, attempts : Nat]
    BY <1>10, <1>a DEF Expire, TypeOK
  <2> QED BY <1>10, <1>a, <2>1 DEF Expire, TypeOK, TypeInv, AskInv
<1>11. CASE UNCHANGED vars
  BY <1>11, <1>a DEF vars, TypeOK, TypeInv, AskInv
<1> QED BY <1>1, <1>3, <1>4, <1>5, <1>6, <1>7, <1>8, <1>9, <1>10, <1>11
  DEF Next, Acquire

(* The counters stay natural numbers, wa:concurrent an integer: a DECR     *)
(* after its expiry takes it below zero.                                   *)
THEOREM TypeCorrect == Spec => []TypeOK
<1>1. Init => TypeInv BY InitType
<1>2. TypeInv /\ [Next]_vars => TypeInv' BY TypeStep
<1>3. TypeInv => TypeOK BY DEF TypeInv
<1> QED BY <1>1, <1>2, <1>3, PTL DEF Spec

-----------------------------------------------------------------------------
(* The counter against the slots taken *)

(* Workers whose INCR was not taken back. *)
Takers == {w \in Workers : wk[w].step \in {"arm", "send", "undo"}}

(* The counter is never below the number of the workers that counted       *)
(* themselves: one that died leaves it too high.                           *)
SlotInv ==
  /\ budget.expiries <= MaxExpiries
  /\ budget.expiries = MaxExpiries =>
       /\ Cardinality(Takers) <= conc
       /\ Cardinality(Holders) <= MaxConcurrent

LEMMA SetsFinite ==
  /\ IsFiniteSet(Takers) /\ IsFiniteSet(Holders)
  /\ Cardinality(Takers) \in Nat /\ Cardinality(Holders) \in Nat
  /\ Cardinality(Holders) <= Cardinality(Takers)
<1>1. IsFiniteSet(Takers) /\ IsFiniteSet(Holders)
  BY WorkersAssumption, FS_Subset DEF Takers, Holders
<1>2. Holders \subseteq Takers
  BY DEF Holders, Takers
<1> QED BY <1>1, <1>2, FS_CardinalityType, FS_Subset

LEMMA SlotInit == Init => SlotInv
<1> SUFFICES ASSUME Init PROVE SlotInv
  OBVIOUS
<1>1. Takers = {} /\ Holders = {}
  BY DEF Init, Idle, Takers, Holders
<1> QED BY <1>1, FS_EmptySet, LimitsAssumption DEF Init, SlotInv

(* A step of a worker that neither takes nor gives back a slot. *)
LEMMA SlotFrame ==
  ASSUME TypeOK, SlotInv, conc' = conc, budget'.expiries = budget.expiries,
         Takers' \subseteq Takers, Holders' \subseteq Holders
  PROVE  SlotInv'
<1>1. /\ IsFiniteSet(Takers) /\ IsFiniteSet(Holders)
      /\ Cardinality(Takers) \in Nat /\ Cardinality(Holders) \in Nat
  BY SetsFinite
<1>2. Cardinality(Takers') <= Cardinality(Takers) /\ Cardinality(Takers') \in Nat
  BY <1>1, FS_Subset, FS_CardinalityType
<1>3. Cardinality(Holders') <= Cardinality(Holders) /\ Cardinality(Holders') \in Nat
  BY <1>1, FS_Subset, FS_CardinalityType
<1> QED BY <1>1, <1>2, <1>3, LimitsAssumption DEF SlotInv, TypeOK

LEMMA SlotTaken ==
  ASSUME TypeOK, SlotInv, NEW w \in Workers, TakeSlot(w)
  PROVE  SlotInv'
<1> SUFFICES ASSUME budget.expiries = MaxExpiries
             PROVE  /\ Cardinality(Takers') <= conc'
                    /\ Cardinality(Holders') <= MaxConcurrent
  BY DEF SlotInv, TakeSlot
<1>1. /\ IsFiniteSet(Takers) /\ Cardinality(Takers) \in Nat
      /\ Cardinality(Takers) <= conc /\ conc \in Int /\ conc' = conc + 1
      /\ Cardinality(Holders) <= MaxConcurrent
  BY SetsFinite DEF SlotInv, TakeSlot, AddToSlots, TypeOK
<1>2. w \notin Takers /\ Takers' = Takers \cup {w}
  <2>1. PICK to \in {"arm", "undo", "send"} : Goto(w, "slot", to)
    BY DEF TakeSlot
  <2> QED BY <2>1, GotoType DEF Takers, Steps
<1>3. Cardinality(Takers') = Cardinality(Takers) + 1 /\ IsFiniteSet(Takers')
  BY <1>1, <1>2, FS_AddElement
<1>4. CASE conc + 1 # 1 /\ conc + 1 > MaxConcurrent /\ Goto(w, "slot", "undo")
  <2>1. Holders' = Holders
    BY <1>4, GotoType DEF Holders, Steps
  <2> QED BY <1>1, <1>3, <2>1
<1>5. CASE conc + 1 <= MaxConcurrent
  <2>1. Holders' \subseteq Takers'
    BY DEF Holders, Takers
  <2>2. Cardinality(Holders') <= Cardinality(Takers') /\ Cardinality(Holders') \in Nat
    BY <1>3, <2>1, FS_Subset, FS_CardinalityType
  <2> QED BY <1>1, <1>3, <1>5, <2>2, LimitsAssumption
<1> QED BY <1>1, <1>4, <1>5, LimitsAssumption DEF TakeSlot

LEMMA SlotGivenBack ==
  ASSUME TypeOK, SlotInv, NEW w \in Workers, UndoSlot(w) \/ Release(w)
  PROVE  SlotInv'
<1> SUFFICES ASSUME budget.expiries = MaxExpiries
             PROVE  /\ Cardinality(Takers') <= conc'
                    /\ Cardinality(Holders') <= MaxConcurrent
  BY DEF SlotInv, UndoSlot, Release
<1>1. /\ IsFiniteSet(Takers) /\ Cardinality(Takers) \in Nat
      /\ IsFiniteSet(Holders) /\ Cardinality(Holders) \in Nat
      /\ Cardinality(Takers) <= conc /\ conc \in Int /\ conc' = conc - 1
      /\ Cardinality(Holders) <= MaxConcurrent
  BY SetsFinite DEF SlotInv, UndoSlot, Release, AddToSlots, TypeOK
<1>2. w \in Takers /\ Takers' = Takers \ {w} /\ Holders' \subseteq Holders
  BY GotoType DEF UndoSlot, Release, Takers, Holders, Steps
<1>3. Cardinality(Takers') = Cardinality(Takers) - 1
  BY <1>1, <1>2, FS_RemoveElement
<1>4. Cardinality(Holders') <= Cardinality(Holders) /\ Cardinality(Holders') \in Nat
  BY <1>1, <1>2, FS_Subset, FS_CardinalityType
<1> QED BY <1>1, <1>3, <1>4, LimitsAssumption

LEMMA SlotStep == TypeOK /\ SlotInv /\ [Next]_vars => SlotInv'
<1> SUFFICES ASSUME TypeOK, SlotInv, [Next]_vars PROVE SlotInv'
  OBVIOUS
<1>1. ASSUME NEW w \in Workers, NEW u \in Tenants, Begin(w, u) PROVE SlotInv'
  <2>1. Takers' \subseteq Takers /\ Holders' \subseteq Holders
    <3>0. /\ wk'[w] = [step |-> "count", kind |-> "second", user |-> u, t |-> now]
          /\ \A v \in Workers : v # w => wk'[v] = wk[v]
      BY <1>1, BeginType
    <3>1. wk'[w].step = "count" /\ \A v \in Workers : v # w => wk'[v] = wk[v]
      BY <3>0
    <3> QED BY <3>1 DEF Takers, Holders
  <2> QED BY <1>1, <2>1, SlotFrame DEF Begin, TypeOK
<1>2. ASSUME NEW w \in Workers, Count(w) \/ SetTTL(w) \/ Arm(w) PROVE SlotInv'
  <2>1. Takers' \subseteq Takers /\ Holders' \subseteq Holders
    <3>1. CASE Goto(w, "count", "expire") \/ Goto(w, "count", "idle") \/ Goto(w, "arm", "send")
      BY <3>1, GotoType DEF Takers, Holders, Steps
    <3>2. CASE Pass(w)
      BY <3>2, PassType DEF Takers, Holders
    <3> QED BY <1>2, <3>1, <3>2 DEF Count, SetTTL, Arm
  <2> QED BY <1>2, <2>1, SlotFrame DEF Count, SetTTL, Arm
<1>3. ASSUME NEW w \in Workers, Crash(w) PROVE SlotInv'
  <2>1. Takers' \subseteq Takers /\ Holders' \subseteq Holders
    BY <1>3, CrashType DEF Takers, Holders, Idle
  <2> QED BY <1>3, <2>1, SlotFrame DEF Crash, TypeOK
<1>4. CASE Tick \/ UNCHANGED vars
  BY <1>4, SlotFrame DEF Tick, vars, Takers, Holders
<1>5. CASE Expire
  <2>1. budget'.expiries = budget.expiries - 1 /\ budget.expiries \in Nat
    BY <1>5 DEF Expire, TypeOK
  <2> QED BY <2>1, LimitsAssumption DEF SlotInv
<1> QED BY <1>1, <1>2, <1>3, <1>4, <1>5, SlotTaken, SlotGivenBack DEF Next, Acquire

(* No more sends at the same time than MaxConcurrent, whatever dies, until *)
(* the counter's time to live runs out.                                    *)
THEOREM LimitKept == Spec => []ConcurrencyLimit
<1>1. Init => TypeInv /\ SlotInv BY InitType, SlotInit
<1>2. TypeInv /\ SlotInv /\ [Next]_vars => TypeInv' /\ SlotInv'
  BY TypeStep, SlotStep DEF TypeInv
<1>3. SlotInv => ConcurrencyLimit BY DEF SlotInv, ConcurrencyLimit
<1> QED BY <1>1, <1>2, <1>3, PTL DEF Spec

-----------------------------------------------------------------------------
(* The counter's time to live *)

(* A key that is gone counts nothing. *)
ExpiryInv == CountedSlotExpires /\ (key = "absent" => conc = 0)

LEMMA ExpiryStep ==
  ASSUME "arm" \notin CrashSteps
  PROVE  TypeOK /\ ExpiryInv /\ [Next]_vars => ExpiryInv'
<1> SUFFICES ASSUME TypeOK, ExpiryInv, [Next]_vars PROVE ExpiryInv'
  OBVIOUS
<1> USE DEF ExpiryInv, CountedSlotExpires
<1>1. ASSUME NEW w \in Workers, NEW u \in Tenants, Begin(w, u) PROVE ExpiryInv'
  BY <1>1, BeginType DEF Begin
<1>2. ASSUME NEW w \in Workers, Count(w) \/ SetTTL(w) PROVE ExpiryInv'
  <2>1. \A v \in Workers : wk[v].step = "arm" => wk'[v].step = "arm"
    <3>1. CASE Goto(w, "count", "expire") \/ Goto(w, "count", "idle")
      BY <3>1, GotoType DEF Steps
    <3>2. CASE Pass(w) /\ wk[w].step # "arm"
      BY <3>2, PassType
    <3> QED BY <1>2, <3>1, <3>2 DEF Count, SetTTL
  <2> QED BY <1>2, <2>1 DEF Count, SetTTL
<1>3. ASSUME NEW w \in Workers, TakeSlot(w) PROVE ExpiryInv'
  <2>1. conc' = conc + 1 /\ key' # "absent" /\ (key = "ttl" => key' = "ttl") /\ wk[w].step = "slot"
         /\ conc \in Int
    BY <1>3 DEF TakeSlot, AddToSlots, Goto, TypeOK
  <2>2. CASE conc + 1 = 1 /\ Goto(w, "slot", "arm")
    BY <2>1, <2>2, GotoType DEF Steps
  <2>3. CASE conc + 1 # 1 /\ (Goto(w, "slot", "undo") \/ Goto(w, "slot", "send"))
    <3>1. \A v \in Workers : wk[v].step = "arm" => wk'[v].step = "arm"
      BY <2>1, <2>3, GotoType DEF Steps
    <3> QED BY <2>1, <2>3, <3>1
  <2> QED BY <1>3, <2>2, <2>3 DEF TakeSlot
<1>4. ASSUME NEW w \in Workers, Arm(w) PROVE ExpiryInv'
  <2>1. \A v \in Workers : v # w => wk'[v] = wk[v]
    BY <1>4, GotoType DEF Arm, Steps
  <2>2. key' = (IF key = "absent" THEN "absent" ELSE "ttl") /\ conc' = conc
    BY <1>4 DEF Arm
  <2> QED BY <2>1, <2>2
<1>5. ASSUME NEW w \in Workers, UndoSlot(w) \/ Release(w) PROVE ExpiryInv'
  <2>1. conc' = conc - 1 /\ key' # "absent" /\ (key = "ttl" => key' = "ttl") /\ conc \in Int
    BY <1>5 DEF UndoSlot, Release, AddToSlots, TypeOK
  <2>2. \A v \in Workers : wk[v].step = "arm" => wk'[v].step = "arm"
    BY <1>5, GotoType DEF UndoSlot, Release, Steps
  <2> QED BY <2>1, <2>2
<1>6. ASSUME NEW w \in Workers, Crash(w) PROVE ExpiryInv'
  <2>1. \A v \in Workers : wk[v].step = "arm" => wk'[v].step = "arm"
    BY <1>6, CrashType DEF Crash
  <2> QED BY <1>6, <2>1 DEF Crash
<1>7. CASE Tick \/ Expire \/ UNCHANGED vars
  BY <1>7 DEF Tick, Expire, vars
<1> QED BY <1>1, <1>2, <1>3, <1>4, <1>5, <1>6, <1>7 DEF Next, Acquire

(* A slot left behind by a worker that died is freed in the end, unless it *)
(* died between counting itself first and setting the time to live.        *)
THEOREM SlotExpires ==
  ASSUME "arm" \notin CrashSteps
  PROVE  Spec => []CountedSlotExpires
<1>1. Init => TypeInv /\ ExpiryInv
  BY InitType DEF Init, ExpiryInv, CountedSlotExpires
<1>2. TypeInv /\ ExpiryInv /\ [Next]_vars => TypeInv' /\ ExpiryInv'
  BY TypeStep, ExpiryStep DEF TypeInv
<1>3. ExpiryInv => CountedSlotExpires BY DEF ExpiryInv
<1> QED BY <1>1, <1>2, <1>3, PTL DEF Spec

-----------------------------------------------------------------------------
(* The rates *)

(* Workers that were counted under a key within its limit and may yet get  *)
(* their permit.                                                           *)
Passed(w, kind) ==
  \/ wk[w].step \in {"slot", "arm"}
  \/ wk[w].step = "count" /\ Rank[kind] < Rank[wk[w].kind]
  \/ wk[w].step = "expire" /\ Rank[kind] <= Rank[wk[w].kind]

Counted(k) == {w \in Workers : KeyOf(w, k.kind) = k /\ Passed(w, k.kind)}

(* Each of them, and each permit given, has a place of its own in one of   *)
(* the key's lives: l full lives before, and the n places counted in the   *)
(* present one (e = 0 as long as it has no TTL).                           *)
Within(past, given, n, e, l, limit) ==
  /\ IsFiniteSet(past)
  /\ Cardinality(past) + given <= limit * (1 + l)
  /\ n # 0 => Cardinality(past) + given <= limit * l + n
  /\ n = 0 /\ e = 0 => l = 0 /\ Cardinality(past) + given = 0

(* Each life lasts a whole TTL. *)
OnTime(start, n, e, l, ttl, t) ==
  /\ e # 0 => start + (l + 1) * ttl <= e
  /\ n = 0 /\ e # 0 => e <= t
  /\ l > 0 => start + l * ttl <= t

RateInv ==
  \A k \in Keys :
    /\ Within(Counted(k), granted[k], count[k], ends[k], lapses[k], Limit[k.kind])
    /\ OnTime(Start(k), count[k], ends[k], lapses[k], TTL[k.kind], now)

LEMMA KeyNumbers ==
  ASSUME TypeOK
  PROVE  /\ now \in Nat
         /\ \A k \in Keys : /\ Start(k) \in Nat
                            /\ count[k] \in Nat /\ ends[k] \in Nat
                            /\ granted[k] \in Nat /\ lapses[k] \in Nat
                            /\ Limit[k.kind] \in Nat \ {0} /\ TTL[k.kind] \in Nat \ {0}
<1>1. \A k \in Keys : k.at \in Nat
  BY DEF Keys, Seconds, Minutes
<1>2. \A k \in Keys : Start(k) \in Nat
  BY <1>1, LimitsAssumption DEF Start
<1>3. now \in Nat
  BY DEF TypeOK, Seconds
<1> QED BY <1>2, <1>3, ConstantTypes DEF TypeOK

(* A window has begun when a worker has read the clock in it. *)
LEMMA BegunBefore ==
  ASSUME NEW t \in Nat, NEW c \in Nat \ {0}
  PROVE  (t \div c) * c <= t
  OBVIOUS

LEMMA KeyBegun ==
  ASSUME TypeOK, NEW w \in Workers, NEW kind \in Kinds
  PROVE  Start(KeyOf(w, kind)) <= wk[w].t
<1>1. wk[w].t \in Nat /\ SecondsPerMinute \in Nat \ {0}
  BY LimitsAssumption DEF TypeOK, Seconds
<1>2. CASE kind = "second"
  BY <1>1, <1>2 DEF KeyOf, Start
<1>3. CASE kind # "second"
  <2>1. Start(KeyOf(w, kind)) = (wk[w].t \div SecondsPerMinute) * SecondsPerMinute
    BY <1>3 DEF KeyOf, Start, MinuteOf
  <2> QED BY <1>1, <2>1, BegunBefore
<1> QED BY <1>2, <1>3

(* Workers leave a key, or are counted under it without getting past it,   *)
(* or it gets its TTL, or its TTL is over;                                 *)
LEMMA KeyLeft ==
  ASSUME NEW P, NEW Q, NEW g \in Nat, NEW n \in Nat, NEW e \in Nat, NEW l \in Nat,
         NEW limit \in Nat, NEW i \in Nat, NEW f \in Nat,
         Within(P, g, n, e, l, limit), Q \subseteq P,
         \/ i = n /\ f = e
         \/ n # 0 /\ i >= n
         \/ i = 0 /\ f # 0
  PROVE  Within(Q, g, i, f, l, limit)
<1>1. IsFiniteSet(Q) /\ Cardinality(Q) <= Cardinality(P)
      /\ Cardinality(P) \in Nat /\ Cardinality(Q) \in Nat
  BY FS_Subset, FS_CardinalityType DEF Within
<1>2. limit * l \in Nat /\ limit * (1 + l) \in Nat
  OBVIOUS
<1> QED BY <1>1, <1>2 DEF Within

LEMMA OneMore ==
  ASSUME NEW P, NEW w, IsFiniteSet(P)
  PROVE  /\ IsFiniteSet(P \cup {w}) /\ Cardinality(P) \in Nat
         /\ Cardinality(P \cup {w}) \in Nat /\ Cardinality(P \cup {w}) <= Cardinality(P) + 1
<1>1. IsFiniteSet(P \cup {w})
      /\ (Cardinality(P \cup {w}) = Cardinality(P) \/ Cardinality(P \cup {w}) = Cardinality(P) + 1)
  BY FS_AddElement
<1>2. Cardinality(P) \in Nat /\ Cardinality(P \cup {w}) \in Nat
  BY <1>1, FS_CardinalityType
<1> QED BY <1>1, <1>2

(* one is counted first in a new life of the key,                          *)
LEMMA KeyStarted ==
  ASSUME NEW P, NEW Q, NEW g \in Nat, NEW e \in Nat, NEW l \in Nat, NEW limit \in Nat \ {0},
         NEW w, Within(P, g, 0, e, l, limit), Q \subseteq P \cup {w},
         NEW m \in Nat, m = IF e # 0 THEN l + 1 ELSE l
  PROVE  Within(Q, g, 1, 0, m, limit)
<1>1. IsFiniteSet(P \cup {w}) /\ Cardinality(P) \in Nat
      /\ Cardinality(P \cup {w}) <= Cardinality(P) + 1 /\ Cardinality(P \cup {w}) \in Nat
  BY OneMore DEF Within
<1>2. IsFiniteSet(Q) /\ Cardinality(Q) <= Cardinality(P \cup {w}) /\ Cardinality(Q) \in Nat
  BY <1>1, FS_Subset, FS_CardinalityType
<1>3. CASE e # 0
  <2>1. Cardinality(Q) + g <= limit * (1 + l) + 1
    BY <1>1, <1>2 DEF Within
  <2>2. limit * (1 + (l + 1)) = limit * (1 + l) + limit /\ limit * (1 + l) = limit * (l + 1)
        /\ limit * (1 + l) \in Nat
    OBVIOUS
  <2> QED BY <1>2, <1>3, <2>1, <2>2 DEF Within
<1>4. CASE e = 0
  <2>1. Cardinality(Q) + g <= 1 /\ l = 0
    BY <1>1, <1>2, <1>4 DEF Within
  <2> QED BY <1>2, <1>4, <2>1 DEF Within
<1> QED BY <1>3, <1>4

(* one is counted within the limit,                                        *)
LEMMA KeyEntered ==
  ASSUME NEW P, NEW Q, NEW g \in Nat, NEW n \in Nat \ {0}, NEW e \in Nat, NEW l \in Nat,
         NEW limit \in Nat, NEW w,
         Within(P, g, n, e, l, limit), Q \subseteq P \cup {w}, n + 1 <= limit
  PROVE  Within(Q, g, n + 1, e, l, limit)
<1>1. IsFiniteSet(P \cup {w}) /\ Cardinality(P) \in Nat
      /\ Cardinality(P \cup {w}) <= Cardinality(P) + 1 /\ Cardinality(P \cup {w}) \in Nat
  BY OneMore DEF Within
<1>2. IsFiniteSet(Q) /\ Cardinality(Q) <= Cardinality(P \cup {w}) /\ Cardinality(Q) \in Nat
  BY <1>1, FS_Subset, FS_CardinalityType
<1>3. limit * (1 + l) = limit * l + limit /\ limit * l \in Nat
  OBVIOUS
<1> QED BY <1>1, <1>2, <1>3 DEF Within

(* or one of those counted gets its permit. *)
LEMMA KeyUsed ==
  ASSUME NEW P, NEW Q, NEW g \in Nat, NEW n \in Nat, NEW e \in Nat, NEW l \in Nat,
         NEW limit \in Nat, NEW w \in P,
         Within(P, g, n, e, l, limit), Q \subseteq P \ {w}
  PROVE  Within(Q, g + 1, n, e, l, limit)
<1>1. IsFiniteSet(P \ {w}) /\ Cardinality(P) \in Nat
      /\ Cardinality(P \ {w}) = Cardinality(P) - 1
  BY FS_RemoveElement, FS_CardinalityType DEF Within
<1>2. IsFiniteSet(Q) /\ Cardinality(Q) <= Cardinality(P \ {w}) /\ Cardinality(Q) \in Nat
      /\ Cardinality(P \ {w}) \in Nat
  BY <1>1, FS_Subset, FS_CardinalityType
<1>3. limit * l \in Nat /\ limit * (1 + l) \in Nat
  OBVIOUS
<1>4. ~(n = 0 /\ e = 0)
  BY <1>1, <1>2 DEF Within
<1> QED BY <1>1, <1>2, <1>3, <1>4 DEF Within

(* Time only adds to what is on time. *)
LEMMA TimePasses ==
  ASSUME NEW start \in Nat, NEW n \in Nat, NEW e \in Nat, NEW l \in Nat, NEW ttl \in Nat,
         NEW t \in Nat, NEW u \in Nat,
         OnTime(start, n, e, l, ttl, t), t <= u
  PROVE  OnTime(start, n, e, l, ttl, u)
<1>1. start + l * ttl \in Nat
  OBVIOUS
<1> QED BY <1>1 DEF OnTime

(* A new life begins when the TTL of the one before is over. *)
LEMMA StartsOnTime ==
  ASSUME NEW start \in Nat, NEW e \in Nat, NEW l \in Nat, NEW ttl \in Nat, NEW t \in Nat,
         OnTime(start, 0, e, l, ttl, t), NEW m \in Nat, m = IF e # 0 THEN l + 1 ELSE l
  PROVE  OnTime(start, 1, 0, m, ttl, t)
<1>1. CASE e # 0
  <2>1. start + (l + 1) * ttl <= e /\ e <= t /\ start + (l + 1) * ttl \in Nat
    BY <1>1 DEF OnTime
  <2> QED BY <1>1, <2>1 DEF OnTime
<1>2. CASE e = 0
  BY <1>2 DEF OnTime
<1> QED BY <1>1, <1>2

(* The TTL is counted from now. *)
LEMMA TTLOnTime ==
  ASSUME NEW start \in Nat, NEW n \in Nat \ {0}, NEW e \in Nat, NEW l \in Nat, NEW ttl \in Nat,
         NEW t \in Nat, OnTime(start, n, e, l, ttl, t), start <= t
  PROVE  OnTime(start, n, t + ttl, l, ttl, t)
<1>1. (l + 1) * ttl = l * ttl + ttl /\ l * ttl \in Nat
  OBVIOUS
<1>2. start + l * ttl <= t
  <2>1. CASE l > 0 BY <2>1 DEF OnTime
  <2>2. CASE l = 0
    <3>1. l * ttl = 0 BY <2>2
    <3> QED BY <3>1
  <2> QED BY <2>1, <2>2
<1> QED BY <1>1, <1>2 DEF OnTime

LEMMA RateInit == Init => RateInv
<1> SUFFICES ASSUME Init, NEW k \in Keys
             PROVE  /\ Within(Counted(k), 0, 0, 0, 0, Limit[k.kind])
                    /\ OnTime(Start(k), 0, 0, 0, TTL[k.kind], 0)
  BY DEF Init, RateInv
<1>1. Counted(k) = {}
  BY DEF Init, Idle, Counted, Passed
<1>2. Limit[k.kind] \in Nat \ {0}
  BY ConstantTypes
<1>3. IsFiniteSet(Counted(k)) /\ Cardinality(Counted(k)) = 0
  BY <1>1, FS_EmptySet
<1> QED BY <1>2, <1>3 DEF Within, OnTime

(* A step by which no worker gets past a limit, and none gets a permit. *)
LEMMA RateFrame ==
  ASSUME TypeOK, RateInv, UNCHANGED <<granted, count, ends, lapses, now>>,
         \A k \in Keys : Counted(k)' \subseteq Counted(k)
  PROVE  RateInv'
<1> SUFFICES ASSUME NEW k \in Keys
             PROVE  Within(Counted(k)', granted[k], count[k], ends[k], lapses[k], Limit[k.kind])
  BY DEF RateInv
<1>1. /\ Within(Counted(k), granted[k], count[k], ends[k], lapses[k], Limit[k.kind])
      /\ Counted(k)' \subseteq Counted(k)
      /\ granted[k] \in Nat /\ count[k] \in Nat /\ ends[k] \in Nat /\ lapses[k] \in Nat
      /\ Limit[k.kind] \in Nat
  BY KeyNumbers DEF RateInv
<1> QED BY <1>1, KeyLeft

(* What a worker that does not move has passed stays. *)
LEMMA OthersStay ==
  ASSUME NEW w \in Workers, \A v \in Workers : v # w => wk'[v] = wk[v]
  PROVE  \A k \in Keys : /\ Counted(k)' \subseteq Counted(k) \cup {w}
                         /\ w \notin Counted(k)' => Counted(k)' \subseteq Counted(k) \ {w}
<1>1. \A v \in Workers, k \in Keys :
        v # w => (v \in Counted(k)' <=> v \in Counted(k))
  BY DEF Counted, Passed, KeyOf
<1>2. \A k \in Keys : Counted(k)' \subseteq Workers
  BY DEF Counted
<1> QED BY <1>1, <1>2

(* Where w does not change what it asks for, its keys stay the same. *)
LEMMA SameKeys ==
  ASSUME NEW w \in Workers, wk'[w].user = wk[w].user, wk'[w].t = wk[w].t
  PROVE  \A kind \in Kinds : KeyOf(w, kind)' = KeyOf(w, kind)
  BY DEF KeyOf

(* INCR of key j by a worker at its limit: it passes this one only. *)
LEMMA RateCounted ==
  ASSUME TypeInv, RateInv, NEW w \in Workers, Count(w)
  PROVE  RateInv'
<1>a. TypeOK /\ AskInv
  BY DEF TypeInv
<1>1. PICK j \in Keys : j = KeyOf(w, wk[w].kind) /\ j.kind = wk[w].kind
  BY <1>a, KeyType DEF Count, AskInv, Asking, TypeOK
<1>2. /\ wk[w].step = "count" /\ wk[w].kind \in Kinds /\ Incr(j) /\ UNCHANGED <<now, granted>>
      /\ \/ count[j] = 0 /\ Goto(w, "count", "expire")
         \/ count[j] # 0 /\ count[j] + 1 > Limit[j.kind] /\ Goto(w, "count", "idle")
         \/ count[j] # 0 /\ count[j] + 1 <= Limit[j.kind] /\ Pass(w)
  BY <1>1, <1>a DEF Count, TypeOK
<1>3. \A v \in Workers : v # w => wk'[v] = wk[v]
  BY <1>2, <1>a, GotoType, PassType DEF Steps
<1>4. \A k \in Keys : k # j => Counted(k)' \subseteq Counted(k)
  <2> SUFFICES ASSUME NEW k \in Keys, k # j, w \in Counted(k)' PROVE w \in Counted(k)
    BY <1>3, OthersStay
  <2>1. k.kind \in Kinds
    BY ConstantTypes
  <2>2. wk'[w].step # "idle"
    BY DEF Counted, Passed
  <2>3. wk'[w].user = wk[w].user /\ wk'[w].t = wk[w].t
        /\ (\/ wk'[w].step = "expire" /\ wk'[w].kind = wk[w].kind
            \/ wk'[w].step = "count" /\ wk[w].kind = "second" /\ wk'[w].kind = "minute"
            \/ wk'[w].step = "count" /\ wk[w].kind = "minute" /\ wk'[w].kind = "tenant"
            \/ wk'[w].step = "slot" /\ wk[w].kind = "tenant")
    BY <1>2, <1>a, <2>2, GotoType, PassType DEF Steps
  <2>4. KeyOf(w, k.kind) = k /\ k.kind # wk[w].kind
    BY <1>1, <2>1, <2>3, SameKeys DEF Counted
  <2>5. Rank[k.kind] < Rank[wk[w].kind]
    <3>1. Passed(w, k.kind)'
      BY DEF Counted
    <3> QED BY <1>2, <2>1, <2>3, <2>4, <3>1 DEF Passed, Rank, Kinds
  <2> QED BY <1>2, <2>4, <2>5 DEF Counted, Passed
<1> SUFFICES ASSUME NEW k \in Keys
             PROVE  /\ Within(Counted(k)', granted[k], count'[k], ends'[k], lapses'[k],
                              Limit[k.kind])
                    /\ OnTime(Start(k), count'[k], ends'[k], lapses'[k], TTL[k.kind], now)
  BY <1>2 DEF RateInv
<1>5. /\ Within(Counted(k), granted[k], count[k], ends[k], lapses[k], Limit[k.kind])
      /\ OnTime(Start(k), count[k], ends[k], lapses[k], TTL[k.kind], now)
      /\ now \in Nat /\ Start(k) \in Nat
      /\ count[k] \in Nat /\ ends[k] \in Nat /\ granted[k] \in Nat /\ lapses[k] \in Nat
      /\ Limit[k.kind] \in Nat \ {0} /\ TTL[k.kind] \in Nat \ {0}
  BY <1>a, KeyNumbers DEF RateInv
<1>6. CASE k # j
  <2>1. count'[k] = count[k] /\ ends'[k] = ends[k] /\ lapses'[k] = lapses[k]
    BY <1>2, <1>6, <1>a, IncrCounts
  <2> QED BY <1>4, <1>5, <1>6, <2>1, KeyLeft
<1>7. CASE k = j
  <2>1. /\ count'[k] = count[k] + 1
        /\ ends'[k] = IF count[k] = 0 THEN 0 ELSE ends[k]
        /\ lapses'[k] = IF count[k] = 0 /\ ends[k] # 0 THEN lapses[k] + 1 ELSE lapses[k]
    BY <1>2, <1>7, <1>a, IncrCounts
  <2>2. Counted(k)' \subseteq Counted(k) \cup {w}
    BY <1>3, OthersStay
  <2>3. CASE count[k] = 0
    <3>1. count'[k] = 1 /\ ends'[k] = 0
          /\ lapses'[k] = IF ends[k] # 0 THEN lapses[k] + 1 ELSE lapses[k]
      BY <1>5, <2>1, <2>3
    <3>2. Within(Counted(k), granted[k], 0, ends[k], lapses[k], Limit[k.kind])
          /\ OnTime(Start(k), 0, ends[k], lapses[k], TTL[k.kind], now)
      BY <1>5, <2>3
    <3>a. lapses'[k] \in Nat
      BY <1>5, <3>1
    <3>3. Within(Counted(k)', granted[k], 1, 0, lapses'[k], Limit[k.kind])
      BY <1>5, <2>2, <3>1, <3>2, <3>a, KeyStarted
    <3>4. OnTime(Start(k), 1, 0, lapses'[k], TTL[k.kind], now)
      BY <1>5, <3>1, <3>2, <3>a, StartsOnTime
    <3> QED BY <3>1, <3>3, <3>4
  <2>4. CASE count[k] # 0
    <3>1. ends'[k] = ends[k] /\ lapses'[k] = lapses[k] /\ count'[k] \in Nat /\ count'[k] # 0
          /\ count'[k] >= count[k]
      BY <1>5, <2>1, <2>4
    <3>2. OnTime(Start(k), count'[k], ends[k], lapses[k], TTL[k.kind], now)
      BY <1>5, <2>4, <3>1 DEF OnTime
    <3>3. CASE Goto(w, "count", "idle")
      <4>1. w \notin Counted(k)'
        BY <1>a, <3>3, GotoType DEF Counted, Passed, Idle, Steps
      <4>2. Counted(k)' \subseteq Counted(k)
        BY <1>3, <4>1, OthersStay
      <4> QED BY <1>5, <2>4, <3>1, <3>2, <4>2, KeyLeft
    <3>4. CASE count[k] + 1 <= Limit[k.kind]
      <4>1. Within(Counted(k)', granted[k], count[k] + 1, ends[k], lapses[k], Limit[k.kind])
        BY <1>5, <2>2, <2>4, <3>4, KeyEntered
      <4> QED BY <2>1, <3>1, <3>2, <4>1
    <3> QED BY <1>2, <1>7, <2>4, <3>3, <3>4
  <2> QED BY <2>3, <2>4
<1> QED BY <1>6, <1>7

(* A key that waits for its TTL is there: without one it does not run out, *)
(* and only the worker that created it is about to set it.                 *)
ArmedInv ==
  \A w \in Workers : wk[w].step = "expire" =>
    /\ count[KeyOf(w, wk[w].kind)] # 0
    /\ ends[KeyOf(w, wk[w].kind)] = 0
    /\ \A v \in Workers : v # w /\ wk[v].step = "expire" =>
         KeyOf(v, wk[v].kind) # KeyOf(w, wk[w].kind)

(* The TTL of key j is set, and its worker goes on to the next limit. *)
LEMMA RateTTLSet ==
  ASSUME TypeInv, RateInv, NEW w \in Workers, SetTTL(w), ArmedInv
  PROVE  RateInv'
<1>a. TypeOK /\ AskInv
  BY DEF TypeInv
<1>1. PICK j \in Keys : j = KeyOf(w, wk[w].kind) /\ j.kind = wk[w].kind /\ wk[w].t <= now
  BY <1>a, KeyType DEF SetTTL, AskInv, Asking, TypeOK
<1>2. /\ wk[w].step = "expire" /\ wk[w].kind \in Kinds /\ Pass(w)
      /\ ends' = [ends EXCEPT ![j] = now + TTL[j.kind]]
      /\ UNCHANGED <<now, count, granted, lapses>>
  BY <1>1, <1>a DEF SetTTL, TypeOK
<1>3. \A k \in Keys : Counted(k)' \subseteq Counted(k)
  <2> SUFFICES ASSUME NEW k \in Keys, w \in Counted(k)' PROVE w \in Counted(k)
    BY <1>2, <1>a, PassType, OthersStay
  <2>1. k.kind \in Kinds
    BY ConstantTypes
  <2>2. wk'[w].user = wk[w].user /\ wk'[w].t = wk[w].t
        /\ (\/ wk'[w].step = "count" /\ wk[w].kind = "second" /\ wk'[w].kind = "minute"
            \/ wk'[w].step = "count" /\ wk[w].kind = "minute" /\ wk'[w].kind = "tenant"
            \/ wk'[w].step = "slot" /\ wk[w].kind = "tenant")
    BY <1>2, <1>a, PassType
  <2>3. KeyOf(w, k.kind) = k
    BY <2>1, <2>2, SameKeys DEF Counted
  <2>4. Rank[k.kind] <= Rank[wk[w].kind]
    <3>1. Passed(w, k.kind)'
      BY DEF Counted
    <3> QED BY <2>1, <2>2, <3>1 DEF Passed, Rank, Kinds
  <2> QED BY <1>2, <2>3, <2>4 DEF Counted, Passed
<1> SUFFICES ASSUME NEW k \in Keys
             PROVE  /\ Within(Counted(k)', granted[k], count[k], ends'[k], lapses[k], Limit[k.kind])
                    /\ OnTime(Start(k), count[k], ends'[k], lapses[k], TTL[k.kind], now)
  BY <1>2 DEF RateInv
<1>4. /\ Within(Counted(k), granted[k], count[k], ends[k], lapses[k], Limit[k.kind])
      /\ OnTime(Start(k), count[k], ends[k], lapses[k], TTL[k.kind], now)
      /\ now \in Nat /\ Start(k) \in Nat
      /\ count[k] \in Nat /\ ends[k] \in Nat /\ granted[k] \in Nat /\ lapses[k] \in Nat
      /\ Limit[k.kind] \in Nat \ {0} /\ TTL[k.kind] \in Nat \ {0}
  BY <1>a, KeyNumbers DEF RateInv
<1>5. CASE k # j
  <2>1. ends'[k] = ends[k]
    BY <1>2, <1>5, <1>a DEF TypeOK
  <2> QED BY <1>3, <1>4, <2>1, KeyLeft
<1>6. CASE k = j
  <2>1. ends'[k] = now + TTL[k.kind] /\ ends'[k] \in Nat
    BY <1>2, <1>4, <1>6, <1>a DEF TypeOK
  <2>2. count[k] # 0
    BY <1>1, <1>2, <1>6 DEF ArmedInv
  <2>3. Within(Counted(k)', granted[k], count[k], ends'[k], lapses[k], Limit[k.kind])
    BY <1>3, <1>4, <2>1, <2>2, KeyLeft
  <2>4. Start(k) <= now
    <3>1. Start(k) <= wk[w].t /\ wk[w].t \in Nat
      BY <1>1, <1>2, <1>6, <1>a, KeyBegun DEF TypeOK, Seconds
    <3> QED BY <1>1, <1>4, <3>1
  <2>5. OnTime(Start(k), count[k], now + TTL[k.kind], lapses[k], TTL[k.kind], now)
    BY <1>4, <2>2, <2>4, TTLOnTime
  <2> QED BY <2>1, <2>3, <2>5
<1> QED BY <1>5, <1>6

(* The permit is given: the worker leaves all of its keys. *)
LEMMA PermitGiven ==
  ASSUME TypeInv, RateInv, NEW w \in Workers, NEW from \in {"slot", "arm"},
         Goto(w, from, "send"), Grant(w), UNCHANGED <<count, ends, lapses, now>>
  PROVE  RateInv'
<1>a. TypeOK
  BY DEF TypeInv
<1>1. /\ wk[w].step = from /\ wk'[w].step = "send"
      /\ \A v \in Workers : v # w => wk'[v] = wk[v]
  BY <1>a, GotoType DEF Steps
<1> SUFFICES ASSUME NEW k \in Keys
             PROVE  Within(Counted(k)', granted'[k], count[k], ends[k], lapses[k], Limit[k.kind])
  BY DEF RateInv
<1>2. /\ Within(Counted(k), granted[k], count[k], ends[k], lapses[k], Limit[k.kind])
      /\ count[k] \in Nat /\ ends[k] \in Nat /\ granted[k] \in Nat /\ lapses[k] \in Nat
      /\ Limit[k.kind] \in Nat
  BY <1>a, KeyNumbers DEF RateInv
<1>3. w \notin Counted(k)'
  BY <1>1 DEF Counted, Passed
<1>4. Counted(k)' \subseteq Counted(k) \ {w}
  BY <1>1, <1>3, OthersStay
<1>5. CASE k = KeyOf(w, k.kind)
  <2>1. w \in Counted(k)
    BY <1>1, <1>5 DEF Counted, Passed
  <2>2. granted'[k] = granted[k] + 1
    BY <1>5, <1>a, GrantCounts
  <2> QED BY <1>2, <1>4, <2>1, <2>2, KeyUsed
<1>6. CASE k # KeyOf(w, k.kind)
  <2>1. granted'[k] = granted[k] /\ Counted(k)' \subseteq Counted(k)
    BY <1>4, <1>6, <1>a, GrantCounts
  <2> QED BY <1>2, <2>1, KeyLeft
<1> QED BY <1>5, <1>6

(* The keys whose TTL is over are gone. *)
LEMMA RateTick ==
  ASSUME TypeInv, RateInv, Tick
  PROVE  RateInv'
<1>a. TypeOK
  BY DEF TypeInv
<1> SUFFICES ASSUME NEW k \in Keys
             PROVE  /\ Within(Counted(k), granted[k], count'[k], ends[k], lapses[k], Limit[k.kind])
                    /\ OnTime(Start(k), count'[k], ends[k], lapses[k], TTL[k.kind], now')
  <2>1. \A k \in Keys : Counted(k)' = Counted(k)
    BY DEF Tick, Counted, Passed, KeyOf
  <2> QED BY <2>1 DEF Tick, RateInv
<1>1. /\ Within(Counted(k), granted[k], count[k], ends[k], lapses[k], Limit[k.kind])
      /\ OnTime(Start(k), count[k], ends[k], lapses[k], TTL[k.kind], now)
      /\ now \in Nat /\ Start(k) \in Nat
      /\ count[k] \in Nat /\ ends[k] \in Nat /\ granted[k] \in Nat /\ lapses[k] \in Nat
      /\ Limit[k.kind] \in Nat /\ TTL[k.kind] \in Nat
  BY <1>a, KeyNumbers DEF RateInv
<1>2. /\ now' = now + 1 /\ now' \in Nat
      /\ count'[k] = IF ends[k] # 0 /\ ends[k] <= now + 1 THEN 0 ELSE count[k]
  BY <1>1 DEF Tick
<1>3. CASE ends[k] # 0 /\ ends[k] <= now + 1
  <2>1. Within(Counted(k), granted[k], 0, ends[k], lapses[k], Limit[k.kind])
    BY <1>1, <1>3, KeyLeft
  <2>2. OnTime(Start(k), 0, ends[k], lapses[k], TTL[k.kind], now')
    <3>1. ends[k] <= now' /\ now <= now'
      BY <1>1, <1>2, <1>3
    <3>2. Start(k) + lapses[k] * TTL[k.kind] \in Nat
      BY <1>1
    <3> QED BY <1>1, <1>2, <3>1, <3>2 DEF OnTime
  <2> QED BY <1>2, <1>3, <2>1, <2>2
<1>4. CASE ~(ends[k] # 0 /\ ends[k] <= now + 1)
  <2>1. OnTime(Start(k), count[k], ends[k], lapses[k], TTL[k.kind], now')
    <3>1. now <= now'
      BY <1>1, <1>2
    <3> QED BY <1>1, <1>2, <3>1, TimePasses
  <2> QED BY <1>1, <1>2, <1>4, <2>1
<1> QED BY <1>3, <1>4

LEMMA RateStep == TypeInv /\ ArmedInv /\ RateInv /\ [Next]_vars => RateInv'
<1> SUFFICES ASSUME TypeInv, ArmedInv, RateInv, [Next]_vars PROVE RateInv'
  OBVIOUS
<1>a. TypeOK
  BY DEF TypeInv
<1>1. ASSUME UNCHANGED <<granted, count, ends, lapses, now>>, NEW w \in Workers,
             \/ wk'[w].step \in {"idle", "undo", "send"}
             \/ wk'[w].step = "count" /\ wk'[w].kind = "second"
             \/ /\ wk[w].step = "slot" /\ wk'[w].step = "arm"
                /\ wk'[w].t = wk[w].t /\ wk'[w].user = wk[w].user,
             \A v \in Workers : v # w => wk'[v] = wk[v]
      PROVE  RateInv'
  <2>1. \A k \in Keys : Counted(k)' \subseteq Counted(k)
    <3> SUFFICES ASSUME NEW k \in Keys, w \in Counted(k)' PROVE w \in Counted(k)
      BY <1>1, OthersStay
    <3>1. k.kind \in Kinds
      BY ConstantTypes
    <3>2. Passed(w, k.kind)' /\ KeyOf(w, k.kind)' = k
      BY DEF Counted
    <3>3. CASE wk'[w].step \in {"idle", "undo", "send"}
      BY <3>2, <3>3 DEF Passed
    <3>4. CASE wk'[w].step = "count" /\ wk'[w].kind = "second"
      BY <3>1, <3>2, <3>4 DEF Passed, Rank, Kinds
    <3>5. CASE /\ wk[w].step = "slot" /\ wk'[w].step = "arm"
               /\ wk'[w].t = wk[w].t /\ wk'[w].user = wk[w].user
      BY <3>1, <3>2, <3>5, SameKeys DEF Passed, Counted
    <3> QED BY <1>1, <3>3, <3>4, <3>5
  <2> QED BY <1>1, <1>a, <2>1, RateFrame
<1>2. ASSUME NEW w \in Workers, NEW u \in Tenants, Begin(w, u) PROVE RateInv'
  <2>1. /\ wk'[w] = [step |-> "count", kind |-> "second", user |-> u, t |-> now]
        /\ \A v \in Workers : v # w => wk'[v] = wk[v]
    BY <1>2, <1>a, BeginType
  <2>2. wk'[w].step = "count" /\ wk'[w].kind = "second"
    BY <2>1
  <2> QED BY <1>1, <1>2, <2>1, <2>2 DEF Begin
<1>3. ASSUME NEW w \in Workers, TakeSlot(w) PROVE RateInv'
  <2>1. CASE Goto(w, "slot", "send") /\ Grant(w)
    BY <1>3, <2>1, PermitGiven DEF TakeSlot
  <2>2. ASSUME NEW to \in {"arm", "undo"}, Goto(w, "slot", to), UNCHANGED granted
        PROVE  RateInv'
    <3>1. /\ wk[w].step = "slot" /\ wk'[w].step = to
          /\ to = "arm" => wk'[w].t = wk[w].t /\ wk'[w].user = wk[w].user
          /\ \A v \in Workers : v # w => wk'[v] = wk[v]
      BY <1>a, <2>2, GotoType DEF Steps
    <3> QED BY <1>1, <1>3, <2>2, <3>1 DEF TakeSlot
  <2> QED BY <1>3, <2>1, <2>2 DEF TakeSlot
<1>4. ASSUME NEW w \in Workers, Arm(w) PROVE RateInv'
  BY <1>4, PermitGiven DEF Arm
<1>5. ASSUME NEW w \in Workers, UndoSlot(w) \/ Release(w) PROVE RateInv'
  <2>1. wk'[w].step = "idle" /\ \A v \in Workers : v # w => wk'[v] = wk[v]
    BY <1>5, <1>a, GotoType DEF UndoSlot, Release, Steps
  <2> QED BY <1>1, <1>5, <2>1 DEF UndoSlot, Release
<1>6. ASSUME NEW w \in Workers, Crash(w) PROVE RateInv'
  <2>1. wk'[w].step = "idle" /\ \A v \in Workers : v # w => wk'[v] = wk[v]
    BY <1>6, <1>a, CrashType DEF Idle
  <2> QED BY <1>1, <1>6, <2>1 DEF Crash
<1>7. CASE Expire \/ UNCHANGED vars
  <2>1. UNCHANGED <<wk, granted, count, ends, lapses, now>>
    BY <1>7 DEF Expire, vars
  <2>2. \A k \in Keys : Counted(k)' \subseteq Counted(k)
    BY <2>1 DEF Counted, Passed, KeyOf
  <2> QED BY <1>a, <2>1, <2>2, RateFrame
<1> QED BY <1>2, <1>3, <1>4, <1>5, <1>6, <1>7, RateCounted, RateTTLSet, RateTick
  DEF Next, Acquire

LEMMA ArmedStep == TypeInv /\ ArmedInv /\ [Next]_vars => ArmedInv'
<1> SUFFICES ASSUME TypeInv, ArmedInv, [Next]_vars PROVE ArmedInv'
  OBVIOUS
<1>a. TypeOK /\ AskInv
  BY DEF TypeInv
<1> DEFINE Own(w) == KeyOf(w, wk[w].kind)
<1>0. \A w \in Workers : wk[w].step \in Asking => Own(w) \in Keys
  BY <1>a, KeyType DEF AskInv, TypeOK
<1>1. ASSUME NEW w \in Workers, wk'[w].step # "expire", \A v \in Workers : v # w => wk'[v] = wk[v],
             \A v \in Workers : v # w /\ wk[v].step = "expire" =>
               /\ count[Own(v)] # 0 /\ ends[Own(v)] = 0 => count'[Own(v)] # 0 /\ ends'[Own(v)] = 0
      PROVE  ArmedInv'
  <2>1. \A v \in Workers : v # w => Own(v)' = Own(v)
    BY <1>1 DEF KeyOf
  <2> QED BY <1>1, <2>1 DEF ArmedInv
<1>2. ASSUME NEW w \in Workers, wk'[w].step # "expire", \A v \in Workers : v # w => wk'[v] = wk[v],
             UNCHANGED <<count, ends>>
      PROVE  ArmedInv'
  BY <1>1, <1>2
<1>3. ASSUME NEW w \in Workers, NEW u \in Tenants, Begin(w, u) PROVE ArmedInv'
  <2>1. /\ wk'[w] = [step |-> "count", kind |-> "second", user |-> u, t |-> now]
        /\ \A v \in Workers : v # w => wk'[v] = wk[v]
    BY <1>3, <1>a, BeginType
  <2>2. wk'[w].step # "expire"
    BY <2>1
  <2> QED BY <1>2, <1>3, <2>1, <2>2 DEF Begin
<1>4. ASSUME NEW w \in Workers, Count(w) PROVE ArmedInv'
  <2>1. PICK j \in Keys : j = Own(w)
    BY <1>0, <1>4 DEF Count, Asking
  <2>2. /\ Incr(j)
        /\ \/ count[j] = 0 /\ Goto(w, "count", "expire")
           \/ count[j] # 0 /\ Goto(w, "count", "idle")
           \/ count[j] # 0 /\ Pass(w)
    BY <1>4, <2>1 DEF Count
  <2>3. \A v \in Workers : v # w => wk'[v] = wk[v]
    BY <1>a, <2>2, GotoType, PassType DEF Steps
  <2>4. \A k \in Keys : /\ count[k] # 0 => count'[k] # 0 /\ ends'[k] = ends[k]
                        /\ count[k] = 0 /\ k = j => count'[k] # 0 /\ ends'[k] = 0
    <3>1. \A k \in Keys : count[k] \in Nat
      BY <1>a DEF TypeOK
    <3> QED BY <1>a, <2>2, <3>1, IncrCounts
  <2>5. \A v \in Workers : v # w => Own(v)' = Own(v)
    BY <2>3 DEF KeyOf
  <2>6. \A v \in Workers : wk[v].step = "expire" =>
          Own(v) \in Keys /\ count[Own(v)] # 0 /\ ends[Own(v)] = 0
    BY <1>0 DEF ArmedInv, Asking
  <2>7. CASE count[j] = 0 /\ Goto(w, "count", "expire")
    <3>1. wk'[w].user = wk[w].user /\ wk'[w].t = wk[w].t /\ wk'[w].kind = wk[w].kind
      BY <1>a, <2>7, GotoType DEF Steps
    <3>2. Own(w)' = j
      BY <2>1, <3>1 DEF KeyOf
    <3> QED BY <2>3, <2>4, <2>5, <2>6, <2>7, <3>2 DEF ArmedInv
  <2>8. CASE Goto(w, "count", "idle") \/ Pass(w)
    <3>1. wk'[w].step # "expire"
      BY <1>a, <2>8, GotoType, PassType DEF Steps
    <3> QED BY <1>1, <2>3, <2>4, <2>6, <3>1
  <2> QED BY <2>2, <2>7, <2>8
<1>5. ASSUME NEW w \in Workers, SetTTL(w) PROVE ArmedInv'
  <2>1. /\ wk'[w].step # "expire" /\ \A v \in Workers : v # w => wk'[v] = wk[v]
    BY <1>5, <1>a, PassType DEF SetTTL
  <2>2. Own(w) \in Keys /\ count' = count
        /\ \A k \in Keys : k # Own(w) => ends'[k] = ends[k]
    BY <1>0, <1>5, <1>a DEF SetTTL, TypeOK, Asking
  <2>3. \A v \in Workers : v # w /\ wk[v].step = "expire" => Own(v) # Own(w) /\ Own(v) \in Keys
    BY <1>0, <1>5 DEF ArmedInv, SetTTL, Asking
  <2> QED BY <1>1, <2>1, <2>2, <2>3
<1>6. ASSUME NEW w \in Workers, TakeSlot(w) \/ Arm(w) \/ UndoSlot(w) \/ Release(w) PROVE ArmedInv'
  <2>1. PICK from \in Steps, to \in {"arm", "undo", "send", "idle"} : Goto(w, from, to)
    BY <1>6 DEF TakeSlot, Arm, UndoSlot, Release, Steps
  <2>2. wk'[w].step # "expire" /\ \A v \in Workers : v # w => wk'[v] = wk[v]
    BY <1>a, <2>1, GotoType DEF Steps
  <2> QED BY <1>2, <1>6, <2>2 DEF TakeSlot, Arm, UndoSlot, Release
<1>7. ASSUME NEW w \in Workers, Crash(w) PROVE ArmedInv'
  <2>1. wk'[w].step # "expire" /\ \A v \in Workers : v # w => wk'[v] = wk[v]
    BY <1>7, <1>a, CrashType DEF Idle
  <2> QED BY <1>2, <1>7, <2>1 DEF Crash
<1>8. CASE Tick \/ Expire \/ UNCHANGED vars
  <2>1. wk' = wk /\ ends' = ends
    BY <1>8 DEF Tick, Expire, vars
  <2>2. \A k \in Keys : ends[k] = 0 => count'[k] = count[k]
    BY <1>8 DEF Tick, Expire, vars
  <2>3. \A w \in Workers : Own(w)' = Own(w) /\ (wk[w].step = "expire" => Own(w) \in Keys)
    BY <1>0, <2>1 DEF KeyOf, Asking
  <2> QED BY <2>1, <2>2, <2>3 DEF ArmedInv
<1> QED BY <1>3, <1>4, <1>5, <1>6, <1>7, <1>8 DEF Next, Acquire

LEMMA WholeTTLs ==
  ASSUME NEW a \in Nat, NEW b \in Nat \ {0}, NEW n \in Nat, n * b <= a
  PROVE  a \div b \in Nat /\ n <= a \div b
<1>1. a \div b \in Nat /\ a < ((a \div b) + 1) * b
  OBVIOUS
<1>2. PICK q \in Nat : q = (a \div b) + 1
  BY <1>1
<1>3. ASSUME n >= q PROVE FALSE
  <2>1. n * b >= q * b
    BY <1>3
  <2>2. n * b \in Nat /\ q * b \in Nat
    OBVIOUS
  <2> QED BY <1>1, <1>2, <2>1, <2>2
<1> QED BY <1>1, <1>2, <1>3

(* As long as a window's key lives, the window gets no more permits than   *)
(* its limit, however the four counting steps of many workers and the      *)
(* ticks of the clock interleave; each whole TTL that has passed since it  *)
(* began lets late workers start the key again once (acquire_send_permit). *)
THEOREM RatesKept == Spec => []RateLimits
<1>1. Init => TypeInv /\ ArmedInv /\ RateInv
  <2>1. Init => ArmedInv
    BY DEF Init, Idle, ArmedInv
  <2> QED BY <2>1, InitType, RateInit
<1>2. TypeInv /\ ArmedInv /\ RateInv /\ [Next]_vars => TypeInv' /\ ArmedInv' /\ RateInv'
  BY TypeStep, ArmedStep, RateStep
<1>3. TypeInv /\ RateInv => RateLimits
  <2> SUFFICES ASSUME TypeInv, RateInv, NEW k \in Keys
               PROVE  granted[k] <= Limit[k.kind] * (1 + (IF now < Start(k) THEN 0
                                       ELSE (now - Start(k)) \div TTL[k.kind]))
    BY DEF RateLimits
  <2>1. PICK g \in Nat, l \in Nat, limit \in Nat, ttl \in Nat \ {0}, start \in Nat, t \in Nat :
          /\ g = granted[k] /\ l = lapses[k] /\ limit = Limit[k.kind] /\ ttl = TTL[k.kind]
          /\ start = Start(k) /\ t = now
    BY KeyNumbers DEF TypeInv
  <2>2. g <= limit * (1 + l) /\ (l > 0 => start + l * ttl <= t)
    <3>1. /\ IsFiniteSet(Counted(k)) /\ Cardinality(Counted(k)) + g <= limit * (1 + l)
          /\ l > 0 => start + l * ttl <= t
      BY <2>1 DEF RateInv, Within, OnTime
    <3>2. Cardinality(Counted(k)) \in Nat
      BY <3>1, FS_CardinalityType
    <3>3. limit * (1 + l) \in Nat
      OBVIOUS
    <3> QED BY <3>1, <3>2, <3>3
  <2>3. CASE t < start
    <3>1. l = 0
      <4>1. l * ttl \in Nat
        OBVIOUS
      <4> QED BY <2>2, <2>3, <4>1
    <3> QED BY <2>1, <2>2, <2>3, <3>1
  <2>4. CASE t >= start
    <3>1. PICK d \in Nat : d = t - start
      BY <2>4
    <3>2. l * ttl <= d
      <4>1. CASE l = 0
        <5>1. l * ttl = 0
          BY <4>1
        <5> QED BY <3>1, <5>1
      <4>2. CASE l > 0
        <5>1. l * ttl \in Nat
          OBVIOUS
        <5> QED BY <2>2, <3>1, <4>2, <5>1
      <4> QED BY <4>1, <4>2
    <3>3. PICK q \in Nat : q = d \div ttl /\ l <= q
      BY <3>2, WholeTTLs
    <3>4. limit * (1 + l) <= limit * (1 + q)
      BY <3>3
    <3>5. g <= limit * (1 + q)
      <4>1. limit * (1 + l) \in Nat /\ limit * (1 + q) \in Nat
        OBVIOUS
      <4> QED BY <2>2, <3>4, <4>1
    <3> QED BY <2>1, <2>4, <3>1, <3>3, <3>5
  <2> QED BY <2>3, <2>4
<1> QED BY <1>1, <1>2, <1>3, PTL DEF Spec

=============================================================================
