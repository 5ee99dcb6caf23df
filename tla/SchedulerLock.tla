---------------------------- MODULE SchedulerLock ----------------------------
(***************************************************************************)
(* scheduler.py: several scheduler processes and the Redis lock by which   *)
(* one of them at a time is to run the periodic work.  _refresh_lock and   *)
(* _release_lock read the key and then act on what they read, and a tick   *)
(* may outlast the key's time to live: both are steps of their own here.   *)
(***************************************************************************)
EXTENDS Integers

CONSTANT Schedulers  \* processes, each with an _OWNER of its own

VARIABLES
  lock,    \* the key: its owner, "free", or "dead" (an owner that is gone)
  sch,     \* the processes: next step, and where a refresh leads
  lapsed,  \* history: processes whose key vanished since they last held it
  trouble  \* bound: processes still to be stopped, killed or too slow

lockVars == <<lock, sch, lapsed, trouble>>

SchedulerSteps ==
  {"get", "acquire", "renew", "tick", "reconcile", "sleep", "release_get",
   "release_delete"}

ASSUME SchedulersAssumption == {"free", "dead"} \cap Schedulers = {}

Start == [step |-> "get", then |-> "tick"]

LockInit ==
  /\ lock = "free"
  /\ sch = [s \in Schedulers |-> Start]
  /\ lapsed = {}

InStep(s, step) == sch[s].step = step
Go(s, step)     == sch' = [sch EXCEPT ![s].step = step]

(* The end of _refresh_lock; without the lock the process comes back to    *)
(* ask again, unless it asked in the middle of its sleep.                  *)
Refreshed(s, held) ==
  Go(s, IF held \/ sch[s].then = "sleep" THEN sch[s].then ELSE "get")

(* From the top of the loop; or the process that is started in place of    *)
(* one that is gone, with another _OWNER.                                  *)
Restart(s) == sch' = [sch EXCEPT ![s] = Start]

-----------------------------------------------------------------------------
(* Mutant: a lock that is gone is not taken over. *)
RefreshGetOnly(s) ==
  /\ InStep(s, "get")
  /\ IF lock = s THEN Go(s, "renew") ELSE Refreshed(s, FALSE)
  /\ UNCHANGED <<lock, lapsed, trouble>>

(* _refresh_lock: GET, and what it decides. *)
RefreshGet(s) ==
  /\ InStep(s, "get")
  /\ CASE lock = "free" -> Go(s, "acquire")
       [] lock = s      -> Go(s, "renew")
       [] OTHER         -> Refreshed(s, FALSE)
  /\ UNCHANGED <<lock, lapsed, trouble>>

(* Mutant: SET without NX. *)
AcquireAlways(s) ==
  /\ InStep(s, "acquire")
  /\ lock' = s /\ lapsed' = lapsed \ {s} /\ Refreshed(s, TRUE)
  /\ UNCHANGED trouble

(* _acquire_lock: SET NX EX. *)
Acquire(s) ==
  /\ InStep(s, "acquire")
  /\ IF lock = "free"
     THEN lock' = s /\ lapsed' = lapsed \ {s} /\ Refreshed(s, TRUE)
     ELSE Refreshed(s, FALSE) /\ UNCHANGED <<lock, lapsed>>
  /\ UNCHANGED trouble

(* EXPIRE renews whatever key is there by now, and its answer is not read. *)
Renew(s) ==
  /\ InStep(s, "renew")
  /\ Refreshed(s, TRUE)
  /\ lapsed' = IF lock = s THEN lapsed \ {s} ELSE lapsed
  /\ UNCHANGED <<lock, trouble>>

(* The enqueues of a tick; reconcile_stale_messages runs inside it. *)
Tick(s) ==
  /\ InStep(s, "tick") /\ Go(s, "reconcile")
  /\ UNCHANGED <<lock, lapsed, trouble>>

TickEnds(s) ==
  /\ InStep(s, "reconcile") /\ Go(s, "sleep")
  /\ UNCHANGED <<lock, lapsed, trouble>>

(* The sleep ends; before that, every twentieth second of it refreshes the *)
(* lock (once a sleep here).                                               *)
Wake(s) ==
  /\ InStep(s, "sleep")
  /\ \/ Restart(s)
     \/ sch[s].then = "tick"
        /\ sch' = [sch EXCEPT ![s] = [step |-> "get", then |-> "sleep"]]
  /\ UNCHANGED <<lock, lapsed, trouble>>

(* SIGTERM ends the loop after the tick; _release_lock. *)
Stop(s) ==
  /\ InStep(s, "sleep") /\ trouble > 0
  /\ trouble' = trouble - 1
  /\ Go(s, "release_get")
  /\ UNCHANGED <<lock, lapsed>>

Disown(s) == IF lock = s THEN "dead" ELSE lock

ReleaseGet(s) ==
  /\ InStep(s, "release_get")
  /\ IF lock = s THEN Go(s, "release_delete") ELSE Restart(s)
  /\ UNCHANGED <<lock, lapsed, trouble>>

(* DELETE removes whatever key is there by now. *)
ReleaseDelete(s) ==
  /\ InStep(s, "release_delete")
  /\ lock' = "free" /\ Restart(s)
  /\ lapsed' = (lapsed \cup ({lock} \cap Schedulers)) \ {s}
  /\ UNCHANGED trouble

Die(s) ==
  /\ trouble > 0 /\ trouble' = trouble - 1
  /\ lock' = Disown(s) /\ Restart(s)
  /\ lapsed' = lapsed \ {s}

(* The time to live ends: the owner is dead, *)
DeadLockExpires ==
  /\ lock = "dead" /\ lock' = "free"
  /\ UNCHANGED <<sch, lapsed, trouble>>

(* or its tick took longer than that. *)
SlowLockExpires ==
  /\ lock \in Schedulers /\ lock' = "free"
  /\ lapsed' = lapsed \cup {lock}
  /\ trouble > 0 /\ trouble' = trouble - 1
  /\ UNCHANGED sch

-----------------------------------------------------------------------------
(* What a tick may rely on *)

LockTypeOK ==
  /\ lock \in Schedulers \cup {"free", "dead"}
  /\ sch \in [Schedulers -> [step : SchedulerSteps, then : {"tick", "sleep"}]]
  /\ lapsed \subseteq Schedulers /\ trouble \in Nat

InTick(s) == sch[s].step \in {"tick", "reconcile"}

(* "single active instance": two processes run a tick at the same time     *)
(* only if the lock of one of them vanished since it last held it.         *)
SingleActive ==
  \A s, t \in Schedulers :
    InTick(s) /\ InTick(t) /\ s # t => s \in lapsed \/ t \in lapsed

=============================================================================
