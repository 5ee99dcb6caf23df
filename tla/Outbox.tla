-------------------------------- MODULE Outbox --------------------------------
(***************************************************************************)
(* The outgoing side of the live chat as a whole: OutboundMessage, with    *)
(* its reconciliation run by the scheduler processes of SchedulerLock,     *)
(* which compete for the lock, outlive it, stop and die.                   *)
(***************************************************************************)
EXTENDS SchedulerLock, OutboundMessage

ASSUME OutboxAssumption == Reconcilers = Schedulers

vars == <<lockVars, messageVars>>

Init ==
  /\ MessageInit /\ LockInit
  /\ trouble = scenario.trouble

(* A tick enqueues its jobs, then reconciles before it sleeps. *)
BeginReconcile(s) ==
  /\ Tick(s)
  /\ rec' = [rec EXCEPT ![s].step = "scan"]
  /\ UNCHANGED <<msg, recRest>>

EndReconcile(s) ==
  /\ rec[s] = NoRec /\ TickEnds(s)
  /\ UNCHANGED messageVars

LockStep(s) ==
  /\ \/ RefreshGet(s) \/ Acquire(s) \/ Renew(s) \/ Wake(s) \/ Stop(s)
     \/ ReleaseGet(s) \/ ReleaseDelete(s)
  /\ UNCHANGED messageVars

SchedulerDies(s) ==
  /\ Die(s)
  /\ rec' = [rec EXCEPT ![s] = NoRec]
  /\ UNCHANGED <<msg, recRest>>

SchedulerStep(s) ==
  \/ BeginReconcile(s) \/ EndReconcile(s)
  \/ LockStep(s)
  \/ Reconcile(s) /\ UNCHANGED lockVars

MessageStep ==
  /\ \/ \E c \in Clients : send_message(c) \/ Handle(c) \/ ApiCrash(c)
     \/ \E w \in Workers : JobStep(w) \/ SendFault(w) \/ WorkerCrash(w)
     \/ \E m \in Messages : Advance(m) \/ Report(m) \/ Age(m)
  /\ UNCHANGED lockVars

Next ==
  \/ MessageStep
  \/ \E s \in scenario.running : SchedulerStep(s) \/ SchedulerDies(s)
  \/ (DeadLockExpires \/ SlowLockExpires) /\ UNCHANGED messageVars

Spec == Init /\ [][Next]_vars

(* Requests and jobs run on, time passes, a key that nobody renews for its *)
(* time to live expires, and a scheduler that wakes up goes on.            *)
FairSpec ==
  /\ Spec
  /\ \A c \in Clients : WF_vars(Handle(c) /\ UNCHANGED lockVars)
  /\ \A w \in Workers : WF_vars(JobStep(w) /\ UNCHANGED lockVars)
  /\ \A m \in Messages : WF_vars(Age(m) /\ UNCHANGED lockVars)
  /\ \A s \in Schedulers : WF_vars(s \in scenario.running /\ SchedulerStep(s))
  /\ WF_vars(DeadLockExpires /\ UNCHANGED messageVars)

-----------------------------------------------------------------------------
(* Properties *)

(* Every variable of both halves holds a value of its type. *)
TypeOK == LockTypeOK /\ MessageTypeOK

Promise == INSTANCE SendPromise WITH Targets <- Messages

(* A customer gets a message of the chat once: a second one only if the    *)
(* system could not know of the first, in spite of retries, jobs that were *)
(* put off, reconciliation and workers that die.                           *)
KeepsPromise == Promise!PromiseSpec

(* No step takes back what reached the customer, see DeliveredStays.       *)
NotTakenBack == [][DeliveredStays]_vars

(* No message is left hanging: one that waits, is being sent, was put off, *)
(* whose job or request died before it was enqueued, or whose report never *)
(* came, is shown in the end as sent or failed.                            *)
NoMessageHangs ==
  \A m \in Messages : msg[m].status \in Unsent ~> msg[m].status \notin Unsent

(* The periodic work goes on: whoever holds the lock dies or stops, some   *)
(* process runs another tick.                                              *)
TicksGoOn == []<>(\E s \in Schedulers : InTick(s))

=============================================================================
