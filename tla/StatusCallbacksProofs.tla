------------------------ MODULE StatusCallbacksProofs ------------------------
(***************************************************************************)
(* Proofs about StatusCallbacks: as long as the handlers do not overlap, a *)
(* message and its recipient never move backwards and no report that was   *)
(* handled is forgotten, for any number of handlers, any settings, reports *)
(* in any order and any number of times, and dying handlers; and what the  *)
(* callbacks count of a blast is right.                                    *)
(***************************************************************************)
EXTENDS StatusCallbacks, TLAPS

-----------------------------------------------------------------------------
(* The status rules. *)

LEMMA Statuses ==
  /\ ReportStatuses \subseteq CanonicalStatuses
  /\ "absent" \notin CanonicalStatuses
  /\ \A s \in CanonicalStatuses : SuccessRank(s) \in Int
BY DEF ReportStatuses, CanonicalStatuses, SuccessPath, FailureStatuses, SuccessRank

LEMMA CoversRefl == \A s \in CanonicalStatuses : Covers(s, s)
BY DEF Covers, is_failure_status, SuccessRank, CanonicalStatuses, SuccessPath, FailureStatuses

LEMMA CoversTrans ==
  ASSUME NEW a \in CanonicalStatuses, NEW b \in CanonicalStatuses,
         NEW c \in CanonicalStatuses, Covers(c, b), Covers(b, a)
  PROVE  Covers(c, a)
BY Statuses DEF Covers, is_failure_status

(* A status that replaces another covers it ...                            *)
LEMMA AppliedCovers ==
  ASSUME NEW cur \in CanonicalStatuses, NEW s \in CanonicalStatuses,
         should_apply_status(cur, s)
  PROVE  Covers(s, cur)
<1>1. normalize_status(cur) = cur /\ cur # "none"
  BY DEF normalize_status, CanonicalStatuses, SuccessPath, FailureStatuses
<1>. QED
  BY <1>1, Statuses DEF should_apply_status, Covers, is_failure_status

(* ... and one that does not is covered by it. *)
LEMMA RefusedCovered ==
  ASSUME NEW cur \in CanonicalStatuses, NEW s \in CanonicalStatuses,
         ~should_apply_status(cur, s)
  PROVE  Covers(cur, s)
<1>1. normalize_status(cur) = cur /\ cur # "none"
  BY DEF normalize_status, CanonicalStatuses, SuccessPath, FailureStatuses
<1>. QED
  BY <1>1, Statuses, CoversRefl DEF should_apply_status, Covers, is_failure_status

(* The statuses delivery reports can give to a campaign's recipient. *)
CampaignReported == {"sent", "delivered", "read", "failed"}

(* The same two facts for the campaign's own rule and vocabulary. *)
LEMMA CampaignRule ==
  ASSUME NEW cur \in CampaignReported, NEW s \in ReportStatuses
  PROVE  LET m == MapProviderStatus(s) IN
         /\ m \in CampaignReported
         /\ Covers(m, s)
         /\ recipient_should_apply(cur, m) => Covers(m, cur)
         /\ ~recipient_should_apply(cur, m) => Covers(cur, s)
BY DEF CampaignReported, ReportStatuses, MapProviderStatus, recipient_should_apply,
       Covers, is_failure_status, FailureStatuses, SuccessRank, SuccessStatuses, Rank

-----------------------------------------------------------------------------
(* The inductive invariant. *)

(* Which documents are there follows from how far the worker got; a        *)
(* handler only ever read one that is there.                               *)
Documents ==
  /\ (msg = "absent") <=> (sender = "insert")
  /\ (rcp = "absent") <=> (sender \in {"insert", "mark"})
  /\ setting.parent = "campaign" => rcp \in CampaignReported \cup {"absent"}
  /\ \A h \in Handlers :
       /\ hs[h].msg # "absent" => msg # "absent"
       /\ hs[h].rcp # "absent" => rcp # "absent"

Alone == \A g, h \in Handlers : ~At(g, "idle") /\ ~At(h, "idle") => g = h

(* The steps between the read and the write of each document, and after    *)
(* the write of the message.                                               *)
HoldsMessage(h) ==
  \/ At(h, "write_message")
  \/ setting.provider = "meta" /\ At(h, "read_recipient")
HoldsRecipient(h) ==
  \/ At(h, "write_recipient")
  \/ setting.provider = "meta" /\ At(h, "write_message")
WroteMessage(h) ==
  \/ At(h, "write_recipient") \/ At(h, "count")
  \/ setting.provider = "twilio" /\ At(h, "read_recipient")

(* A snapshot still shows the document, or the document was not there yet. *)
FreshSnapshots ==
  \A h \in Handlers :
    /\ HoldsMessage(h) => hs[h].msg \in {"absent", msg}
    /\ HoldsRecipient(h) => hs[h].rcp \in {"absent", rcp}
    /\ ~hs[h].early /\ ~At(h, "idle") =>
         /\ rcp # "absent"
         /\ HoldsMessage(h) => hs[h].msg # "absent"
         /\ HoldsRecipient(h) => hs[h].rcp # "absent"

Fresh == ~setting.overlap => Alone /\ FreshSnapshots

(* What a report has reached, after and while it is handled. *)
HandledReached == \A s \in handled : rcp # "absent" /\ Covers(msg, s) /\ Covers(rcp, s)

InHand(h) ==
  ~hs[h].early =>
    /\ WroteMessage(h) => Covers(msg, hs[h].s)
    /\ At(h, "count") => Covers(rcp, hs[h].s)

Reached ==
  ~setting.overlap =>
    HandledReached /\ \A h \in Handlers : InHand(h)

Consistent == TypeOK /\ Documents /\ Fresh

CallbackInv == Consistent /\ Reached

LEMMA Setting ==
  ASSUME TypeOK
  PROVE  /\ setting.provider \in {"twilio", "meta"}
         /\ setting.parent \in {"campaign", "blast"}
         /\ setting.overlap \in BOOLEAN
BY SettingsAssumption DEF TypeOK, SettingTypes

LEMMA Steps ==
  ASSUME TypeOK
  PROVE  \A step \in {"read_message", "write_message", "read_recipient"} :
           StepAfter(step) \in HandlerSteps
BY DEF StepAfter, HandlerSteps

LEMMA DocsTyped ==
  ASSUME TypeOK
  PROVE  msg \in DocStatuses /\ rcp \in DocStatuses
BY DEF TypeOK, DocStatuses

LEMMA ReceivedTyped ==
  ASSUME TypeOK, NEW s \in ReportStatuses
  PROVE  /\ Received(s) \in [step : HandlerSteps, s : ReportStatuses, early : BOOLEAN,
                             msg : DocStatuses, rcp : DocStatuses]
         /\ Received(s).step = "read_message" /\ Received(s).s = s
         /\ Received(s).early <=> (rcp = "absent")
         /\ Received(s).msg = "absent" /\ Received(s).rcp = "absent"
BY DEF Received, IdleHandler, HandlerSteps, DocStatuses

LEMMA InitConsistent == Init => Consistent
<1>. SUFFICES ASSUME Init PROVE Consistent  OBVIOUS
<1>1. TypeOK
  <2>1. budget \in [callbacks : Nat, crashes : Nat]
    BY SettingsAssumption DEF Init, SettingTypes
  <2>. QED
    BY <2>1 DEF Init, TypeOK, IdleHandler, ReportStatuses, SenderSteps, HandlerSteps,
                DocStatuses, CanonicalStatuses, SuccessPath
<1>2. Documents
  BY DEF Init, Documents, IdleHandler
<1>3. Fresh
  BY DEF Init, Fresh, Alone, FreshSnapshots, At, IdleHandler, HoldsMessage, HoldsRecipient
<1>. QED
  BY <1>1, <1>2, <1>3 DEF Consistent

LEMMA WorkerConsistent ==
  ASSUME Consistent,
         Advance \/ InsertMessage \/ MarkRecipient \/ RecountRead \/ RecountWrite
  PROVE  Consistent'
<1>. USE DEF Consistent, TypeOK, external, worker, docs
<1>1. TypeOK'
  <2>1. CASE Advance
    <3>1. truth' \in ReportStatuses
      BY <2>1 DEF Advance, NextStatuses, ReportStatuses
    <3>. QED
      BY <2>1, <3>1 DEF Advance
  <2>2. CASE InsertMessage
    BY <2>2 DEF InsertMessage, SenderSteps, CanonicalStatuses, SuccessPath
  <2>3. CASE MarkRecipient
    BY <2>3 DEF MarkRecipient, SenderSteps, CanonicalStatuses, SuccessPath,
                RecipientStatuses, RECIPIENT_OPEN, RECIPIENT_TERMINAL
  <2>4. CASE RecountRead
    BY <2>4 DEF RecountRead, SenderSteps
  <2>5. CASE RecountWrite
    BY <2>5 DEF RecountWrite, SenderSteps, Counters
  <2>. QED
    BY <2>1, <2>2, <2>3, <2>4, <2>5
<1>2. Documents'
  BY DEF Consistent, Documents, TypeOK, Advance, InsertMessage, MarkRecipient,
         RecountRead, RecountWrite, external, worker, docs, CampaignReported
<1>3. Fresh'
  BY DEF Consistent, Documents, Fresh, Alone, FreshSnapshots, HoldsMessage,
         HoldsRecipient, At, Advance, InsertMessage, MarkRecipient, RecountRead,
         RecountWrite, external, worker, docs
<1>. QED
  BY <1>1, <1>2, <1>3 DEF Consistent

(* Steps that leave the documents alone: a handler comes, reads or dies.   *)
LEMMA ReadConsistent ==
  ASSUME Consistent, NEW h \in Handlers,
         \/ \E s \in ReportStatuses : Receive(h, s)
         \/ ReadMessage(h) \/ ReadRecipient(h) \/ Crash(h)
  PROVE  Consistent'
<1>. USE DEF Consistent, TypeOK, external, worker, docs
<1>0. setting.provider \in {"twilio", "meta"} /\ setting.overlap \in BOOLEAN
  BY Setting
<1>1. TypeOK'
  <2>1. ASSUME NEW s \in ReportStatuses, Receive(h, s)  PROVE TypeOK'
    BY <2>1, ReceivedTyped DEF Receive
  <2>2. CASE ReadMessage(h)
    <3>1. msg \in DocStatuses /\ StepAfter("read_message") \in HandlerSteps
      BY Steps, DocsTyped
    <3>2. hs' = [hs EXCEPT ![h] = [hs[h] EXCEPT !.msg = msg, !.step = StepAfter("read_message")]]
      BY <2>2 DEF ReadMessage
    <3>. QED
      BY <2>2, <3>1, <3>2 DEF ReadMessage
  <2>3. CASE ReadRecipient(h)
    <3>1. rcp \in DocStatuses /\ StepAfter("read_recipient") \in HandlerSteps
      BY Steps, DocsTyped
    <3>2. hs' = [hs EXCEPT ![h] = [hs[h] EXCEPT !.rcp = rcp, !.step = StepAfter("read_recipient")]]
      BY <2>3 DEF ReadRecipient
    <3>. QED
      BY <2>3, <3>1, <3>2 DEF ReadRecipient
  <2>4. CASE Crash(h)
    <3>1. IdleHandler \in [step : HandlerSteps, s : ReportStatuses,
                           early : BOOLEAN, msg : DocStatuses, rcp : DocStatuses]
      BY DEF IdleHandler, ReportStatuses, HandlerSteps, DocStatuses
    <3>. QED
      BY <2>4, <3>1 DEF Crash
  <2>. QED
    BY <2>1, <2>2, <2>3, <2>4
<1>2. Documents'
  <2>1. UNCHANGED <<setting, sender, msg, rcp>>
    BY DEF Receive, ReadMessage, ReadRecipient, Crash
  <2>2. ASSUME NEW g \in Handlers
        PROVE  /\ hs'[g].msg \in {"absent", hs[g].msg, msg}
               /\ hs'[g].rcp \in {"absent", hs[g].rcp, rcp}
    BY ReceivedTyped DEF Receive, ReadMessage, ReadRecipient, Crash, IdleHandler
  <2>. QED
    BY <2>1, <2>2 DEF Documents
<1>3. Fresh'
  <2>. SUFFICES ASSUME ~setting.overlap, Alone, FreshSnapshots
                PROVE  Alone' /\ FreshSnapshots'
    BY DEF Fresh, Receive, ReadMessage, ReadRecipient, Crash
  <2>. USE DEF Alone, FreshSnapshots, HoldsMessage, HoldsRecipient, At, IdleHandler
  <2>1. ASSUME NEW s \in ReportStatuses, Receive(h, s)
        PROVE  Alone' /\ FreshSnapshots'
    BY <2>1, ReceivedTyped DEF Receive
  <2>2. CASE ReadMessage(h)
    BY <2>2, <1>0 DEF ReadMessage, StepAfter, Documents
  <2>3. CASE ReadRecipient(h)
    BY <2>3, <1>0 DEF ReadRecipient, StepAfter, Documents
  <2>4. CASE Crash(h)
    BY <2>4 DEF Crash
  <2>. QED
    BY <2>1, <2>2, <2>3, <2>4
<1>. QED
  BY <1>1, <1>2, <1>3

LEMMA FinishConsistent ==
  ASSUME Consistent, NEW h \in Handlers, Finish(h),
         UNCHANGED <<external, worker, msg, rcp, budget>>, counts' \in [Counters -> Nat]
  PROVE  Consistent'
<1>. USE DEF Consistent, TypeOK, external, worker, docs
<1>1. TypeOK'
  BY DEF Finish, IdleHandler, ReportStatuses, HandlerSteps, DocStatuses
<1>2. Documents'
  BY DEF Documents, Finish, IdleHandler
<1>3. Fresh'
  BY DEF Fresh, Finish, Alone, FreshSnapshots, HoldsMessage, HoldsRecipient, At, IdleHandler
<1>. QED
  BY <1>1, <1>2, <1>3

LEMMA MessageConsistent ==
  ASSUME Consistent, NEW h \in Handlers, WriteMessage(h)
  PROVE  Consistent'
<1>. USE DEF Consistent, TypeOK, external, worker, docs
<1>0. setting.provider \in {"twilio", "meta"} /\ setting.overlap \in BOOLEAN
  BY Setting
<1>1. hs[h].s \in CanonicalStatuses /\ hs[h].s # "absent"
  BY Statuses
<1>2. TypeOK'
  <2>1. StepAfter("write_message") \in HandlerSteps
    BY Steps
  <2>2. msg' \in CanonicalStatuses \cup {"absent"}
    BY <1>1 DEF WriteMessage
  <2>. QED
    BY <2>1, <2>2 DEF WriteMessage
<1>3. Documents'
  <2>1. msg # "absent" => msg' # "absent"
    BY <1>1 DEF WriteMessage
  <2>. QED
    BY <2>1, <1>1 DEF WriteMessage, Documents
<1>4. Fresh'
  <2>. SUFFICES ASSUME ~setting.overlap, Alone, FreshSnapshots
                PROVE  Alone' /\ FreshSnapshots'
    BY DEF Fresh, WriteMessage
  <2>. USE DEF Alone, FreshSnapshots, HoldsMessage, HoldsRecipient, At
  <2>. QED
    BY <1>0 DEF WriteMessage, StepAfter
<1>. QED
  BY <1>2, <1>3, <1>4

(* What the recipient can be given, and how that compares to what it has.  *)
Reported == IF setting.parent = "campaign" THEN CampaignReported ELSE CanonicalStatuses

LEMMA IncomingCovers ==
  ASSUME NEW s \in ReportStatuses
  PROVE  Incoming(s) \in Reported /\ Covers(Incoming(s), s)
<1>1. CASE setting.parent = "campaign"
  <2>1. "sent" \in CampaignReported
    BY DEF CampaignReported
  <2>. QED
    BY <1>1, <2>1, CampaignRule DEF Incoming, Reported
<1>2. CASE setting.parent # "campaign"
  BY <1>2, Statuses, CoversRefl DEF Incoming, Reported
<1>. QED
  BY <1>1, <1>2

LEMMA AppliesCovers ==
  ASSUME NEW s \in ReportStatuses, NEW cur \in Reported, Applies(cur, s)
  PROVE  Covers(Incoming(s), cur)
<1>1. CASE setting.parent = "campaign"
  <2>1. cur \in CampaignReported /\ recipient_should_apply(cur, MapProviderStatus(s))
    BY <1>1 DEF Reported, Applies, Incoming
  <2>. QED
    BY <1>1, <2>1, CampaignRule DEF Incoming
<1>2. CASE setting.parent # "campaign"
  <2>1. cur \in CanonicalStatuses /\ should_apply_status(cur, s) /\ s \in CanonicalStatuses
    BY <1>2, Statuses DEF Reported, Applies
  <2>. QED
    BY <1>2, <2>1, AppliedCovers DEF Incoming
<1>. QED
  BY <1>1, <1>2

LEMMA RefusedCovers ==
  ASSUME NEW s \in ReportStatuses, NEW cur \in Reported, ~Applies(cur, s)
  PROVE  Covers(cur, s)
<1>0. cur # "absent"
  BY Statuses DEF Reported, CampaignReported
<1>1. CASE setting.parent = "campaign"
  <2>1. cur \in CampaignReported /\ ~recipient_should_apply(cur, MapProviderStatus(s))
    BY <1>0, <1>1 DEF Reported, Applies, Incoming
  <2>. QED
    BY <2>1, CampaignRule
<1>2. CASE setting.parent # "campaign"
  <2>1. cur \in CanonicalStatuses /\ ~should_apply_status(cur, s) /\ s \in CanonicalStatuses
    BY <1>0, <1>2, Statuses DEF Reported, Applies
  <2>. QED
    BY <2>1, RefusedCovered
<1>. QED
  BY <1>1, <1>2

LEMMA RecipientConsistent ==
  ASSUME Consistent, NEW h \in Handlers, WriteRecipient(h)
  PROVE  Consistent'
<1>. USE DEF Consistent, TypeOK, external, worker, docs
<1>1. CASE ~Applies(hs[h].rcp, hs[h].s)
  <2>1. Finish(h) /\ UNCHANGED <<external, worker, msg, rcp, counts, budget>>
    BY <1>1 DEF WriteRecipient
  <2>. QED
    BY <2>1, FinishConsistent
<1>2. CASE Applies(hs[h].rcp, hs[h].s)
  <2>0. /\ rcp' = Incoming(hs[h].s)
        /\ hs' = [hs EXCEPT ![h].step = "count"]
        /\ UNCHANGED <<handled, external, worker, msg, counts, budget>>
    BY <1>2 DEF WriteRecipient
  <2>1. rcp # "absent" /\ rcp' # "absent" /\ rcp' \in Reported
    <3>1. rcp # "absent"
      BY <1>2 DEF Documents, Applies
    <3>2. rcp' \in Reported
      BY <2>0, IncomingCovers
    <3>3. "absent" \notin Reported
      BY Statuses DEF Reported, CampaignReported
    <3>. QED
      BY <3>1, <3>2, <3>3
  <2>2. TypeOK'
    <3>1. CampaignReported \subseteq RecipientStatuses /\ "count" \in HandlerSteps
      BY DEF CampaignReported, RecipientStatuses, RECIPIENT_TERMINAL, HandlerSteps
    <3>. QED
      BY <2>0, <2>1, <3>1 DEF Reported
  <2>3. Documents'
    BY <2>0, <2>1 DEF Documents, Reported
  <2>4. Fresh'
    <3>. SUFFICES ASSUME ~setting.overlap, Alone, FreshSnapshots
                  PROVE  Alone' /\ FreshSnapshots'
      BY <2>0 DEF Fresh
    <3>. QED
      BY <2>0, <2>1, <1>2, Setting
      DEF WriteRecipient, Alone, FreshSnapshots, HoldsMessage, HoldsRecipient, At
  <2>. QED
    BY <2>2, <2>3, <2>4
<1>. QED
  BY <1>1, <1>2

LEMMA CountConsistent ==
  ASSUME Consistent, NEW h \in Handlers, CountChange(h)
  PROVE  Consistent'
<1>1. counts' \in [Counters -> Nat]
  BY DEF Consistent, TypeOK, CountChange
<1>. QED
  BY <1>1, FinishConsistent DEF CountChange

LEMMA NextConsistent == Consistent /\ [Next]_vars => Consistent'
<1>. SUFFICES ASSUME Consistent, [Next]_vars  PROVE Consistent'
  OBVIOUS
<1>1. CASE UNCHANGED vars
  BY <1>1 DEF vars, external, worker, docs, Consistent, TypeOK, Documents, Fresh, Alone,
     FreshSnapshots, HoldsMessage, HoldsRecipient, At
<1>2. CASE Advance \/ InsertMessage \/ MarkRecipient \/ RecountRead \/ RecountWrite
  BY <1>2, WorkerConsistent
<1>3. ASSUME NEW h \in Handlers,
             Handle(h) \/ Crash(h) \/ \E s \in ReportStatuses : Receive(h, s)
      PROVE  Consistent'
  BY <1>3, ReadConsistent, MessageConsistent, RecipientConsistent, CountConsistent DEF Handle
<1>. QED
  BY <1>1, <1>2, <1>3 DEF Next

-----------------------------------------------------------------------------
(* Forwards, and what it keeps. *)

(* A snapshot of the recipient that is not "absent" can be written back.   *)
LEMMA SnapshotReported ==
  ASSUME Consistent, rcp # "absent"
  PROVE  rcp \in Reported
BY DEF Consistent, TypeOK, Documents, Reported

LEMMA MessageForwards ==
  ASSUME Consistent, ~setting.overlap, msg # "absent", [Next]_vars
  PROVE  msg' \in CanonicalStatuses /\ Covers(msg', msg)
<1>1. msg \in CanonicalStatuses /\ Covers(msg, msg)
  BY CoversRefl DEF Consistent, TypeOK
<1>2. ASSUME NEW h \in Handlers, WriteMessage(h)
      PROVE  msg' \in CanonicalStatuses /\ Covers(msg', msg)
  <2>1. hs[h].s \in CanonicalStatuses
    BY Statuses DEF Consistent, TypeOK
  <2>2. hs[h].msg \in {"absent", msg}
    BY <1>2 DEF WriteMessage, Consistent, Fresh, FreshSnapshots, HoldsMessage
  <2>3. CASE hs[h].msg # "absent" /\ should_apply_status(hs[h].msg, hs[h].s)
    <3>1. msg' = hs[h].s /\ should_apply_status(msg, hs[h].s)
      BY <1>2, <2>2, <2>3 DEF WriteMessage
    <3>. QED
      BY <1>1, <2>1, <3>1, AppliedCovers
  <2>4. CASE ~(hs[h].msg # "absent" /\ should_apply_status(hs[h].msg, hs[h].s))
    BY <1>1, <1>2, <2>4 DEF WriteMessage
  <2>. QED
    BY <2>3, <2>4
<1>3. CASE \A h \in Handlers : ~WriteMessage(h)
  <2>1. msg' = msg
    BY <1>3 DEF Next, vars, docs, external, worker, Handle, Advance, InsertMessage,
       MarkRecipient, RecountRead, RecountWrite, Receive, ReadMessage, ReadRecipient,
       WriteRecipient, CountChange, Crash, Consistent, Documents
  <2>. QED
    BY <1>1, <2>1
<1>. QED
  BY <1>2, <1>3

LEMMA RecipientForwards ==
  ASSUME Consistent, ~setting.overlap, rcp # "absent", [Next]_vars
  PROVE  rcp' \in CanonicalStatuses /\ Covers(rcp', rcp)
<1>0. Reported \subseteq CanonicalStatuses
  BY DEF Reported, CampaignReported, CanonicalStatuses, SuccessPath, FailureStatuses
<1>1. rcp \in Reported /\ rcp \in CanonicalStatuses /\ Covers(rcp, rcp)
  BY <1>0, SnapshotReported, CoversRefl
<1>2. ASSUME NEW h \in Handlers, WriteRecipient(h)
      PROVE  rcp' \in CanonicalStatuses /\ Covers(rcp', rcp)
  <2>1. hs[h].s \in ReportStatuses
    BY DEF Consistent, TypeOK
  <2>2. hs[h].rcp \in {"absent", rcp}
    BY <1>2 DEF WriteRecipient, Consistent, Fresh, FreshSnapshots, HoldsRecipient
  <2>3. CASE Applies(hs[h].rcp, hs[h].s)
    <3>1. hs[h].rcp = rcp
      BY <2>2, <2>3 DEF Applies
    <3>2. rcp' = Incoming(hs[h].s) /\ Applies(rcp, hs[h].s)
      BY <1>2, <2>3, <3>1 DEF WriteRecipient
    <3>. QED
      BY <1>0, <1>1, <2>1, <3>2, IncomingCovers, AppliesCovers
  <2>4. CASE ~Applies(hs[h].rcp, hs[h].s)
    BY <1>1, <1>2, <2>4 DEF WriteRecipient
  <2>. QED
    BY <2>3, <2>4
<1>3. CASE \A h \in Handlers : ~WriteRecipient(h)
  <2>1. rcp' = rcp
    BY <1>3 DEF Next, vars, docs, external, worker, Handle, Advance, InsertMessage,
       MarkRecipient, RecountRead, RecountWrite, Receive, ReadMessage, ReadRecipient,
       WriteMessage, CountChange, Crash, Consistent, Documents
  <2>. QED
    BY <1>1, <2>1
<1>. QED
  BY <1>2, <1>3

(* Every variable keeps its type, for any number of handlers and settings. *)
THEOREM TypeCorrect == Spec => []TypeOK
<1>1. Consistent => TypeOK
  BY DEF Consistent
<1>. QED
  BY <1>1, InitConsistent, NextConsistent, PTL DEF Spec

(* Neither the message nor the recipient of a report handled alone ever    *)
(* moves backwards: the single read-then-write of each handler is enough   *)
(* as long as no two of them overlap, whatever the worker does meanwhile.  *)
THEOREM OneByOne == Spec => ForwardsOneByOne
<1>1. Consistent /\ [Next]_vars => [~setting.overlap => Forwards]_vars
  BY MessageForwards, RecipientForwards DEF Forwards
<1>. QED
  BY <1>1, InitConsistent, NextConsistent, PTL DEF Spec, ForwardsOneByOne

-----------------------------------------------------------------------------
(* What a report has reached stays reached. *)

LEMMA AbsentCoversNothing == \A s \in ReportStatuses : ~Covers("absent", s)
BY DEF Covers, ReportStatuses, FailureStatuses, is_failure_status, SuccessRank

LEMMA StaysReached ==
  ASSUME Consistent, ~setting.overlap, [Next]_vars, NEW s \in ReportStatuses
  PROVE  /\ rcp # "absent" => rcp' # "absent"
         /\ Covers(msg, s) => Covers(msg', s)
         /\ Covers(rcp, s) => Covers(rcp', s)
<1>0. s \in CanonicalStatuses
  BY Statuses
<1>1. rcp # "absent" => rcp' # "absent"
  BY RecipientForwards, Statuses
<1>2. ASSUME Covers(msg, s)  PROVE Covers(msg', s)
  <2>1. msg \in CanonicalStatuses /\ msg # "absent"
    BY <1>2, AbsentCoversNothing DEF Consistent, TypeOK
  <2>. QED
    BY <1>0, <1>2, <2>1, MessageForwards, CoversTrans
<1>3. ASSUME Covers(rcp, s)  PROVE Covers(rcp', s)
  <2>1. rcp # "absent"
    BY <1>3, AbsentCoversNothing
  <2>2. rcp \in CanonicalStatuses
    BY <2>1, SnapshotReported
    DEF Reported, CampaignReported, CanonicalStatuses, SuccessPath, FailureStatuses
  <2>. QED
    BY <1>0, <1>3, <2>1, <2>2, RecipientForwards, CoversTrans
<1>. QED
  BY <1>1, <1>2, <1>3

(* A handler that takes no step keeps its half. *)
LEMMA OthersInHand ==
  ASSUME Consistent, ~setting.overlap, [Next]_vars, NEW g \in Handlers, InHand(g),
         hs'[g] = hs[g], setting' = setting
  PROVE  InHand(g)'
<1>1. hs[g].s \in ReportStatuses
  BY DEF Consistent, TypeOK
<1>2. /\ Covers(msg, hs[g].s) => Covers(msg', hs[g].s)
      /\ Covers(rcp, hs[g].s) => Covers(rcp', hs[g].s)
  BY <1>1, StaysReached
<1>. QED
  BY <1>2 DEF InHand, WroteMessage, At

LEMMA HandledStays ==
  ASSUME Consistent, ~setting.overlap, [Next]_vars, HandledReached, handled' = handled
  PROVE  HandledReached'
<1>1. \A s \in handled : /\ rcp' # "absent" /\ Covers(msg', s) /\ Covers(rcp', s)
  BY StaysReached DEF HandledReached, Consistent, TypeOK
<1>. QED
  BY <1>1 DEF HandledReached

LEMMA FinishReached ==
  ASSUME Consistent, ~setting.overlap, [Next]_vars, HandledReached,
         NEW h \in Handlers, Finish(h), UNCHANGED <<setting, msg, rcp>>,
         \A g \in Handlers : InHand(g),
         ~hs[h].early => Covers(msg, hs[h].s) /\ Covers(rcp, hs[h].s)
  PROVE  HandledReached' /\ \A g \in Handlers : InHand(g)'
<1>0. hs \in [Handlers -> [step : HandlerSteps, s : ReportStatuses, early : BOOLEAN,
                           msg : DocStatuses, rcp : DocStatuses]]
  BY DEF Consistent, TypeOK
<1>1. ~hs[h].early => rcp # "absent"
  BY <1>0, AbsentCoversNothing
<1>2. HandledReached'
  BY <1>1 DEF HandledReached, Finish
<1>3. ASSUME NEW g \in Handlers  PROVE InHand(g)'
  <2>1. CASE g = h
    BY <1>0, <2>1 DEF Finish, InHand, WroteMessage, At, IdleHandler
  <2>2. CASE g # h
    <3>1. hs'[g] = hs[g]
      BY <1>0, <2>2 DEF Finish
    <3>. QED
      BY <3>1, OthersInHand
  <2>. QED
    BY <2>1, <2>2
<1>. QED
  BY <1>2, <1>3

LEMMA SettingStays == [Next]_vars => setting' = setting
<1>1. UNCHANGED vars => setting' = setting
  BY DEF vars, external
<1>2. Advance \/ InsertMessage \/ MarkRecipient \/ RecountRead \/ RecountWrite
        => setting' = setting
  BY DEF Advance, InsertMessage, MarkRecipient, RecountRead, RecountWrite, external
<1>3. ASSUME NEW h \in Handlers,
             Handle(h) \/ Crash(h) \/ \E s \in ReportStatuses : Receive(h, s)
      PROVE  setting' = setting
  BY <1>3 DEF Handle, Receive, ReadMessage, WriteMessage, ReadRecipient, WriteRecipient,
              CountChange, Crash, external
<1>. QED
  BY <1>1, <1>2, <1>3 DEF Next

LEMMA NextReached == Consistent /\ Reached /\ [Next]_vars => Reached'
<1>. SUFFICES ASSUME Consistent, Reached, [Next]_vars, ~setting.overlap,
                     setting' = setting
              PROVE  HandledReached' /\ \A g \in Handlers : InHand(g)'
  BY SettingStays DEF Reached
<1>0. /\ HandledReached /\ \A g \in Handlers : InHand(g)
      /\ Alone /\ FreshSnapshots
      /\ setting.provider \in {"twilio", "meta"}
      /\ hs \in [Handlers -> [step : HandlerSteps, s : ReportStatuses, early : BOOLEAN,
                              msg : DocStatuses, rcp : DocStatuses]]
  BY Setting DEF Reached, Consistent, Fresh, TypeOK
<1>1. CASE UNCHANGED hs /\ UNCHANGED handled
  BY <1>0, <1>1, OthersInHand, HandledStays
<1>2. ASSUME NEW h \in Handlers, UNCHANGED handled, InHand(h)',
             \A g \in Handlers : g # h => hs'[g] = hs[g]
      PROVE  HandledReached' /\ \A g \in Handlers : InHand(g)'
  BY <1>0, <1>2, OthersInHand, HandledStays
<1>3. ASSUME NEW h \in Handlers, NEW s \in ReportStatuses, Receive(h, s)
      PROVE  HandledReached' /\ \A g \in Handlers : InHand(g)'
  <2>1. InHand(h)'
    BY <1>0, <1>3, ReceivedTyped DEF Consistent, Receive, InHand, WroteMessage, At
  <2>. QED
    BY <1>0, <1>2, <1>3, <2>1 DEF Receive
<1>4. ASSUME NEW h \in Handlers, Crash(h)
      PROVE  HandledReached' /\ \A g \in Handlers : InHand(g)'
  <2>1. InHand(h)'
    BY <1>0, <1>4 DEF Crash, InHand, WroteMessage, At, IdleHandler
  <2>. QED
    BY <1>0, <1>2, <1>4, <2>1 DEF Crash
<1>5. ASSUME NEW h \in Handlers, ReadMessage(h)
      PROVE  HandledReached' /\ \A g \in Handlers : InHand(g)'
  <2>1. InHand(h)'
    BY <1>0, <1>5 DEF ReadMessage, InHand, WroteMessage, At, StepAfter, external
  <2>. QED
    BY <1>0, <1>2, <1>5, <2>1 DEF ReadMessage
<1>6. ASSUME NEW h \in Handlers, ReadRecipient(h)
      PROVE  HandledReached' /\ \A g \in Handlers : InHand(g)'
  <2>1. InHand(h)'
    BY <1>0, <1>6
    DEF ReadRecipient, InHand, WroteMessage, At, StepAfter, external, docs
  <2>. QED
    BY <1>0, <1>2, <1>6, <2>1 DEF ReadRecipient
<1>7. ASSUME NEW h \in Handlers, WriteMessage(h)
      PROVE  HandledReached' /\ \A g \in Handlers : InHand(g)'
  <2>1. hs[h].s \in CanonicalStatuses
    BY <1>0, Statuses
  <2>2. ASSUME ~hs[h].early  PROVE Covers(msg', hs[h].s)
    <3>1. hs[h].msg = msg /\ msg # "absent"
      BY <1>0, <1>7, <2>2 DEF WriteMessage, FreshSnapshots, HoldsMessage, At, Consistent,
         Documents
    <3>2. msg \in CanonicalStatuses
      BY <3>1 DEF Consistent, TypeOK
    <3>3. CASE should_apply_status(msg, hs[h].s)
      BY <1>7, <2>1, <3>1, <3>3, CoversRefl DEF WriteMessage
    <3>4. CASE ~should_apply_status(msg, hs[h].s)
      BY <1>7, <2>1, <3>1, <3>2, <3>4, RefusedCovered DEF WriteMessage
    <3>. QED
      BY <3>3, <3>4
  <2>3. hs'[h].s = hs[h].s /\ hs'[h].early = hs[h].early /\ hs'[h].step # "count"
    BY <1>0, <1>7 DEF WriteMessage, StepAfter
  <2>4. InHand(h)'
    BY <2>2, <2>3 DEF InHand, At
  <2>. QED
    BY <1>0, <1>2, <1>7, <2>4 DEF WriteMessage
<1>8. ASSUME NEW h \in Handlers, WriteRecipient(h)
      PROVE  HandledReached' /\ \A g \in Handlers : InHand(g)'
  <2>1. ~hs[h].early => /\ Covers(msg, hs[h].s)
                        /\ hs[h].rcp = rcp /\ rcp # "absent"
    BY <1>0, <1>8 DEF WriteRecipient, InHand, WroteMessage, At, FreshSnapshots,
       HoldsRecipient
  <2>2. CASE Applies(hs[h].rcp, hs[h].s)
    <3>1. /\ rcp' = Incoming(hs[h].s) /\ hs' = [hs EXCEPT ![h].step = "count"]
          /\ UNCHANGED <<msg, handled>>
      BY <1>8, <2>2 DEF WriteRecipient
    <3>2. Covers(rcp', hs[h].s)
      BY <1>0, <3>1, IncomingCovers
    <3>3. hs'[h].s = hs[h].s /\ hs'[h].early = hs[h].early
      BY <1>0, <3>1
    <3>4. InHand(h)'
      BY <2>1, <3>1, <3>2, <3>3 DEF InHand
    <3>. QED
      BY <1>0, <1>2, <3>1, <3>4
  <2>3. CASE ~Applies(hs[h].rcp, hs[h].s)
    <3>1. Finish(h) /\ UNCHANGED <<msg, rcp>>
      BY <1>8, <2>3 DEF WriteRecipient
    <3>2. ~hs[h].early => Covers(rcp, hs[h].s)
      BY <1>0, <2>1, <2>3, SnapshotReported, RefusedCovers
    <3>. QED
      BY <1>0, <2>1, <3>1, <3>2, FinishReached
  <2>. QED
    BY <2>2, <2>3
<1>9. ASSUME NEW h \in Handlers, CountChange(h)
      PROVE  HandledReached' /\ \A g \in Handlers : InHand(g)'
  <2>1. ~hs[h].early => Covers(msg, hs[h].s) /\ Covers(rcp, hs[h].s)
    BY <1>0, <1>9 DEF CountChange, InHand, WroteMessage, At
  <2>2. Finish(h) /\ UNCHANGED <<setting, msg, rcp>>
    BY <1>9 DEF CountChange, external
  <2>. QED
    BY <1>0, <1>9, <2>1, <2>2, FinishReached
<1>10. CASE \/ UNCHANGED vars
            \/ Advance \/ InsertMessage \/ MarkRecipient \/ RecountRead \/ RecountWrite
  BY <1>1, <1>10 DEF vars, Advance, InsertMessage, MarkRecipient, RecountRead, RecountWrite
<1>. QED
  BY <1>3, <1>4, <1>5, <1>6, <1>7, <1>8, <1>9, <1>10 DEF Next, Handle

LEMMA InitReached == Init => Reached
BY DEF Init, Reached, HandledReached, InHand, WroteMessage, At, IdleHandler

(* Once the handlers are through, message and recipient are not behind any *)
(* report that was handled after the recipient was marked: whatever the    *)
(* order of the reports, no later one overwrites what it should not and no *)
(* earlier one is lost.                                                    *)
THEOREM NoneForgotten == Spec => []NoReportForgotten
<1>1. CallbackInv => NoReportForgotten
  BY DEF CallbackInv, Reached, HandledReached, NoReportForgotten
<1>2. Init => CallbackInv
  BY InitConsistent, InitReached DEF CallbackInv
<1>3. CallbackInv /\ [Next]_vars => CallbackInv'
  BY NextConsistent, NextReached DEF CallbackInv
<1>. QED
  BY <1>1, <1>2, <1>3, PTL DEF Spec

-----------------------------------------------------------------------------
(* The counters. *)

(* The counters only callbacks write, and the statuses each stands for. *)
CallbackCounters == {"delivered", "read", "undelivered"}

Worth(c) == IF c = "delivered" THEN {"delivered", "read"} ELSE {c}

(* Counted, or about to be by a handler that wrote the recipient.          *)
Counted(c) ==
  \/ counts[c] >= 1
  \/ \E h \in Handlers : At(h, "count") /\ c \in MetricInc(hs[h].rcp, hs[h].s)

CountedSetting == setting.parent = "blast" /\ setting.crashes = 0

(* A status the recipient has, or a handler saw it have, is counted.       *)
CountedInv ==
  CountedSetting =>
    /\ budget.crashes = 0
    /\ \A c \in CallbackCounters :
         /\ rcp \in Worth(c) => Counted(c)
         /\ \A h \in Handlers : hs[h].rcp \in Worth(c) => Counted(c)

(* The statuses the provider has reported when it got as far as t; "sent"  *)
(* is also what the worker writes.                                         *)
Trail(t) == {"queued", "sent"} \cup (IF t = "read" THEN {"delivered", "read"} ELSE {t})

TrailInv ==
  /\ emitted \subseteq Trail(truth)
  /\ \A h \in Handlers : ~At(h, "idle") => hs[h].s \in emitted
  /\ setting.parent = "blast" =>
       /\ rcp \in Trail(truth) \cup {"absent"}
       /\ \A h \in Handlers : hs[h].rcp \in Trail(truth) \cup {"absent"}

(* Handled one after the other, the counters say how the recipient stands, *)
(* or stood before the handler that is about to count it.                  *)
Bit(b) == IF b THEN 1 ELSE 0

MatchInv ==
  CountedSetting /\ ~setting.overlap =>
    \A c \in CallbackCounters :
      /\ (\A h \in Handlers : ~At(h, "count")) => counts[c] = Bit(rcp \in Worth(c))
      /\ \A h \in Handlers : At(h, "count") =>
           /\ rcp = hs[h].s
           /\ counts[c] = Bit(hs[h].rcp \in Worth(c))
           /\ hs[h].rcp \in Worth(c) => hs[h].s \in Worth(c)

LEMMA Metrics ==
  ASSUME NEW c \in CallbackCounters, NEW old, NEW new
  PROVE  c \in MetricInc(old, new) <=> new \in Worth(c) /\ old \notin Worth(c)
BY DEF CallbackCounters, Worth, MetricInc, Counters

LEMMA WorthNames ==
  ASSUME NEW c \in CallbackCounters
  PROVE  /\ c \in Counters /\ c # "failed"
         /\ "absent" \notin Worth(c) /\ "sent" \notin Worth(c)
BY DEF CallbackCounters, Worth, Counters

(* What a step may do to the counters that only callbacks write, to the    *)
(* budget and to the recipient.                                            *)
LEMMA CountsBy ==
  ASSUME TypeOK, [Next]_vars, NEW c \in CallbackCounters,
         \A h \in Handlers : ~CountChange(h)
  PROVE  counts'[c] = counts[c]
<1>0. c # "failed" /\ c \in Counters /\ counts \in [Counters -> Nat]
  BY WorthNames DEF TypeOK
<1>1. CASE RecountWrite
  BY <1>0, <1>1 DEF RecountWrite
<1>. QED
  BY <1>1 DEF Next, vars, docs, external, worker, Handle, Advance, InsertMessage,
     MarkRecipient, RecountRead, Receive, ReadMessage, ReadRecipient,
     WriteMessage, WriteRecipient, CountChange, Crash, Finish

LEMMA CountedOne ==
  ASSUME TypeOK, CountedSetting, NEW h \in Handlers, CountChange(h),
         NEW c \in CallbackCounters
  PROVE  counts'[c] = IF c \in MetricInc(hs[h].rcp, hs[h].s) THEN counts[c] + 1 ELSE counts[c]
BY WorthNames DEF CountChange, CountedSetting

LEMMA BudgetBy ==
  ASSUME TypeOK, [Next]_vars, budget.crashes = 0
  PROVE  budget'.crashes = 0
<1>1. ASSUME NEW h \in Handlers, NEW s \in ReportStatuses, Receive(h, s)
      PROVE  budget'.crashes = 0
  BY <1>1 DEF Receive, TypeOK
<1>2. ASSUME NEW h \in Handlers, Crash(h)  PROVE FALSE
  BY <1>2 DEF Crash
<1>. QED
  BY <1>1, <1>2 DEF Next, vars, docs, external, worker, Handle, Advance, InsertMessage,
     MarkRecipient, RecountRead, RecountWrite, ReadMessage, ReadRecipient,
     WriteMessage, WriteRecipient, CountChange

LEMMA RecipientBy ==
  ASSUME [Next]_vars
  PROVE  \/ rcp' = rcp
         \/ MarkRecipient /\ rcp' = "sent" /\ hs' = hs
         \/ \E h \in Handlers : /\ WriteRecipient(h)
                                /\ Applies(hs[h].rcp, hs[h].s)
                                /\ rcp' = Incoming(hs[h].s)
                                /\ hs' = [hs EXCEPT ![h].step = "count"]
<1>1. ASSUME NEW h \in Handlers, WriteRecipient(h)
      PROVE  \/ rcp' = rcp
             \/ /\ Applies(hs[h].rcp, hs[h].s) /\ rcp' = Incoming(hs[h].s)
                /\ hs' = [hs EXCEPT ![h].step = "count"]
  BY <1>1 DEF WriteRecipient
<1>2. MarkRecipient => rcp' = "sent" /\ hs' = hs
  BY DEF MarkRecipient
<1>. QED
  BY <1>1, <1>2 DEF Next, vars, docs, external, worker, Handle, Advance, InsertMessage,
     RecountRead, RecountWrite, Receive, ReadMessage, ReadRecipient,
     WriteMessage, CountChange, Crash

(* A handler between its write and its count only counts.                  *)
LEMMA PendingBy ==
  ASSUME TypeOK, [Next]_vars, budget.crashes = 0, NEW h \in Handlers, At(h, "count")
  PROVE  hs'[h] = hs[h] \/ CountChange(h)
<1>0. DOMAIN hs = Handlers
  BY DEF TypeOK
<1>1. ASSUME NEW g \in Handlers, CountChange(g), g # h  PROVE hs'[h] = hs[h]
  BY <1>0, <1>1 DEF CountChange, Finish
<1>2. ASSUME NEW g \in Handlers, ~CountChange(g), Handle(g)  PROVE hs'[h] = hs[h]
  <2>1. g # h
    BY <1>2 DEF Handle, ReadMessage, ReadRecipient, WriteMessage, WriteRecipient, At
  <2>. QED
    BY <1>0, <1>2, <2>1
    DEF Handle, ReadMessage, ReadRecipient, WriteMessage, WriteRecipient, Finish
<1>3. ASSUME NEW g \in Handlers, NEW s \in ReportStatuses, Receive(g, s)
      PROVE  hs'[h] = hs[h]
  BY <1>0, <1>3 DEF Receive, At
<1>4. ASSUME NEW g \in Handlers, Crash(g)  PROVE FALSE
  BY <1>4 DEF Crash
<1>5. UNCHANGED vars \/ Advance \/ InsertMessage \/ MarkRecipient \/ RecountRead
        \/ RecountWrite => hs' = hs
  BY DEF vars, Advance, InsertMessage, MarkRecipient, RecountRead, RecountWrite
<1>. QED
  BY <1>1, <1>2, <1>3, <1>4, <1>5 DEF Next

(* ... and any other comes to the count only by writing the recipient.  A  *)
(* snapshot of the recipient is what it was, what the recipient is, or     *)
(* gone; the status stays from the arrival to the end.                     *)
LEMMA HandlerBy ==
  ASSUME TypeOK, [Next]_vars, NEW h \in Handlers
  PROVE  /\ hs'[h].rcp \in {hs[h].rcp, rcp, "absent"}
         /\ ~At(h, "idle")' => \/ ~At(h, "idle") /\ hs'[h].s = hs[h].s
                               \/ hs'[h].s \in emitted
         /\ At(h, "count")' => \/ hs'[h] = hs[h]
                               \/ WriteRecipient(h) /\ Applies(hs[h].rcp, hs[h].s)
<1>. USE DEF At
<1>0. DOMAIN hs = Handlers /\ {"step", "s", "rcp", "msg"} \subseteq DOMAIN hs[h]
  BY DEF TypeOK
<1>1. ASSUME hs'[h] = IdleHandler
      PROVE  hs'[h].rcp = "absent" /\ hs'[h].step = "idle"
  BY <1>1 DEF IdleHandler
<1>2. ASSUME NEW g \in Handlers, NEW s \in ReportStatuses, Receive(g, s), g = h
      PROVE  hs'[h].rcp = "absent" /\ hs'[h].s \in emitted /\ hs'[h].step # "count"
  BY <1>0, <1>2, ReceivedTyped DEF Receive
<1>3. CASE ReadMessage(h)
  BY <1>0, <1>3, Setting DEF ReadMessage, StepAfter
<1>4. CASE ReadRecipient(h)
  BY <1>0, <1>4, Setting DEF ReadRecipient, StepAfter
<1>5. CASE WriteMessage(h)
  BY <1>0, <1>5, Setting DEF WriteMessage, StepAfter
<1>6. CASE WriteRecipient(h)
  BY <1>0, <1>1, <1>6 DEF WriteRecipient, Finish
<1>7. CASE CountChange(h) \/ Crash(h)
  BY <1>0, <1>1, <1>7 DEF CountChange, Crash, Finish
<1>8. ASSUME hs'[h] = hs[h]
      PROVE  /\ hs'[h].rcp \in {hs[h].rcp, rcp, "absent"}
             /\ ~At(h, "idle")' => ~At(h, "idle") /\ hs'[h].s = hs[h].s
  BY <1>8
<1>9. ASSUME NEW g \in Handlers, g # h,
             Handle(g) \/ Crash(g) \/ \E s \in ReportStatuses : Receive(g, s)
      PROVE  hs'[h] = hs[h]
  BY <1>0, <1>9 DEF Handle, ReadMessage, ReadRecipient, WriteMessage, WriteRecipient,
     CountChange, Finish, Crash, Receive
<1>10. UNCHANGED vars \/ Advance \/ InsertMessage \/ MarkRecipient \/ RecountRead
         \/ RecountWrite => hs' = hs
  BY DEF vars, Advance, InsertMessage, MarkRecipient, RecountRead, RecountWrite
<1>. QED
  BY <1>2, <1>3, <1>4, <1>5, <1>6, <1>7, <1>8, <1>9, <1>10 DEF Next, Handle

(* What is counted, or about to be, stays so unless the handler dies.      *)
LEMMA CountedStays ==
  ASSUME TypeOK, CountedSetting, budget.crashes = 0, [Next]_vars,
         NEW c \in CallbackCounters, Counted(c)
  PROVE  Counted(c)'
<1>0. counts[c] \in Nat
  BY WorthNames DEF TypeOK
<1>1. CASE counts[c] >= 1
  BY <1>0, <1>1, CountsBy, CountedOne DEF Counted
<1>2. ASSUME NEW h \in Handlers, At(h, "count"), c \in MetricInc(hs[h].rcp, hs[h].s)
      PROVE  Counted(c)'
  <2>1. CASE CountChange(h)
    BY <1>0, <1>2, <2>1, CountedOne DEF Counted
  <2>2. CASE hs'[h] = hs[h]
    BY <1>2, <2>2 DEF Counted, At
  <2>. QED
    BY <1>2, <2>1, <2>2, PendingBy
<1>. QED
  BY <1>1, <1>2 DEF Counted

LEMMA CountedNext == TypeOK /\ CountedInv /\ [Next]_vars => CountedInv'
<1>. SUFFICES ASSUME TypeOK, CountedInv, [Next]_vars, CountedSetting
              PROVE  /\ budget'.crashes = 0
                     /\ \A c \in CallbackCounters :
                          /\ rcp' \in Worth(c) => Counted(c)'
                          /\ \A h \in Handlers : hs'[h].rcp \in Worth(c) => Counted(c)'
  BY SettingStays DEF CountedInv, CountedSetting
<1>0. budget.crashes = 0 /\ budget'.crashes = 0
  BY BudgetBy DEF CountedInv
<1>1. ASSUME NEW c \in CallbackCounters, rcp' \in Worth(c)  PROVE Counted(c)'
  <2>1. CASE rcp' = rcp
    BY <1>0, <1>1, <2>1, CountedStays DEF CountedInv
  <2>2. CASE rcp' = "sent"
    BY <1>1, <2>2, WorthNames
  <2>3. ASSUME NEW h \in Handlers, rcp' = Incoming(hs[h].s),
               hs' = [hs EXCEPT ![h].step = "count"]
        PROVE  Counted(c)'
    <3>1. CASE hs[h].rcp \in Worth(c)
      BY <1>0, <3>1, CountedStays DEF CountedInv
    <3>2. CASE hs[h].rcp \notin Worth(c)
      <4>1. hs'[h].step = "count" /\ hs'[h].rcp = hs[h].rcp /\ hs'[h].s = hs[h].s
        BY <2>3 DEF TypeOK
      <4>2. rcp' = hs[h].s
        BY <2>3 DEF Incoming, CountedSetting
      <4>. QED
        BY <1>1, <3>2, <4>1, <4>2, Metrics DEF Counted, At
    <3>. QED
      BY <3>1, <3>2
  <2>. QED
    BY <2>1, <2>2, <2>3, RecipientBy
<1>2. ASSUME NEW c \in CallbackCounters, NEW h \in Handlers, hs'[h].rcp \in Worth(c)
      PROVE  Counted(c)'
  BY <1>0, <1>2, HandlerBy, WorthNames, CountedStays DEF CountedInv
<1>. QED
  BY <1>0, <1>1, <1>2

LEMMA InitCounted == Init => CountedInv
<1>. SUFFICES ASSUME Init, CountedSetting PROVE CountedInv
  BY DEF CountedInv
<1>1. budget.crashes = 0
  BY DEF Init, CountedSetting
<1>2. rcp = "absent" /\ \A h \in Handlers : hs[h].rcp = "absent"
  BY DEF Init, IdleHandler
<1>. QED
  BY <1>1, <1>2, WorthNames DEF CountedInv

(* Once the handlers are through, the counter of the status the recipient  *)
(* shows is never too low, however the handlers overlapped: who writes a   *)
(* status over a snapshot that lacked it counts it, and nothing takes an   *)
(* increment back.                                                         *)
THEOREM NeverTooLow == Spec => []NeverUndercounted
<1>1. CountedInv => NeverUndercounted
  <2>. SUFFICES ASSUME CountedInv, CountedSetting, Quiet  PROVE NeverUndercounted
    BY DEF NeverUndercounted, CountedBlast, CountedSetting
  <2>1. \A c \in CallbackCounters : rcp \in Worth(c) => counts[c] >= 1
    BY DEF CountedInv, Counted, Quiet, At
  <2>. QED
    BY <2>1 DEF NeverUndercounted, CallbackCounters, Worth
<1>2. Consistent => TypeOK
  BY DEF Consistent
<1>. QED
  BY <1>1, <1>2, InitConsistent, NextConsistent, InitCounted, CountedNext, PTL DEF Spec

(* The provider goes one way: what it may report only grows, and of two    *)
(* statuses on its way the rules only let the later one replace the other. *)
LEMMA TrailGrows ==
  ASSUME TypeOK, Advance
  PROVE  truth' \in Trail(truth') /\ Trail(truth) \subseteq Trail(truth')
BY DEF TypeOK, Advance, NextStatuses, Trail, ReportStatuses

LEMMA PathOrder ==
  ASSUME NEW t \in ReportStatuses, NEW cur \in Trail(t), NEW s \in Trail(t),
         should_apply_status(cur, s), NEW c \in CallbackCounters, cur \in Worth(c)
  PROVE  s \in Worth(c)
<1>1. normalize_status(cur) = cur
  BY DEF Trail, ReportStatuses, normalize_status, CanonicalStatuses, SuccessPath, FailureStatuses
<1>. QED
  BY <1>1 DEF should_apply_status, Trail, ReportStatuses, CallbackCounters, Worth,
     is_failure_status, FailureStatuses, SuccessRank

LEMMA TruthBy ==
  ASSUME TypeOK, [Next]_vars
  PROVE  \/ Advance
         \/ truth' = truth /\ emitted' = emitted
BY DEF Next, vars, docs, external, worker, Handle, InsertMessage, MarkRecipient,
   RecountRead, RecountWrite, Receive, ReadMessage, ReadRecipient,
   WriteMessage, WriteRecipient, CountChange, Crash

LEMMA TrailNext == TypeOK /\ TrailInv /\ [Next]_vars => TrailInv'
<1>. SUFFICES ASSUME TypeOK, TrailInv, [Next]_vars  PROVE TrailInv'
  OBVIOUS
<1>1. /\ Trail(truth) \subseteq Trail(truth') /\ emitted \subseteq emitted'
      /\ emitted' \subseteq Trail(truth')
  <2>1. CASE Advance
    <3>1. emitted' = emitted \cup {truth'}
      BY <2>1 DEF Advance
    <3>. QED
      BY <2>1, <3>1, TrailGrows DEF TrailInv
  <2>2. CASE truth' = truth /\ emitted' = emitted
    BY <2>2 DEF TrailInv
  <2>. QED
    BY <2>1, <2>2, TruthBy
<1>2. ASSUME NEW h \in Handlers, ~At(h, "idle")'  PROVE hs'[h].s \in emitted'
  BY <1>1, <1>2, HandlerBy DEF TrailInv
<1>3. ASSUME setting.parent = "blast"
      PROVE  rcp' \in Trail(truth') \cup {"absent"}
  <2>1. ASSUME NEW h \in Handlers, WriteRecipient(h), rcp' = Incoming(hs[h].s)
        PROVE  rcp' \in Trail(truth')
    <3>1. rcp' = hs[h].s /\ hs[h].s \in emitted
      BY <1>3, <2>1 DEF Incoming, WriteRecipient, At, TrailInv
    <3>. QED
      BY <1>1, <3>1
  <2>2. "sent" \in Trail(truth')
    BY DEF Trail
  <2>. QED
    BY <1>1, <1>3, <2>1, <2>2, RecipientBy DEF TrailInv
<1>4. ASSUME setting.parent = "blast", NEW h \in Handlers
      PROVE  hs'[h].rcp \in Trail(truth') \cup {"absent"}
  BY <1>1, <1>4, HandlerBy DEF TrailInv
<1>. QED
  BY <1>1, <1>2, <1>3, <1>4, SettingStays DEF TrailInv

LEMMA InitTrail == Init => TrailInv
BY DEF Init, TrailInv, Trail, At, IdleHandler

(* Nobody is at the count when somebody else is at another step.           *)
LEMMA MatchNext ==
  Consistent /\ CountedInv /\ TrailInv /\ MatchInv /\ [Next]_vars => MatchInv'
<1>. SUFFICES ASSUME Consistent, CountedInv, TrailInv, MatchInv, [Next]_vars,
                     CountedSetting, ~setting.overlap, NEW c \in CallbackCounters
              PROVE  /\ (\A h \in Handlers : ~At(h, "count")')
                          => counts'[c] = Bit(rcp' \in Worth(c))
                     /\ \A h \in Handlers : At(h, "count")' =>
                          /\ rcp' = hs'[h].s
                          /\ counts'[c] = Bit(hs'[h].rcp \in Worth(c))
                          /\ hs'[h].rcp \in Worth(c) => hs'[h].s \in Worth(c)
  BY SettingStays DEF MatchInv, CountedSetting
<1>0. /\ TypeOK /\ budget.crashes = 0 /\ Alone /\ FreshSnapshots /\ counts[c] \in Nat
      /\ setting.parent = "blast" /\ DOMAIN hs = Handlers
  BY WorthNames DEF Consistent, TypeOK, Fresh, CountedInv, CountedSetting
<1>1. (\A h \in Handlers : ~At(h, "count")) => counts[c] = Bit(rcp \in Worth(c))
  BY DEF MatchInv
<1>2. ASSUME NEW h \in Handlers, At(h, "count")
      PROVE  /\ rcp = hs[h].s
             /\ counts[c] = Bit(hs[h].rcp \in Worth(c))
             /\ hs[h].rcp \in Worth(c) => hs[h].s \in Worth(c)
  BY <1>2 DEF MatchInv
<1>3. ASSUME NEW h \in Handlers, WriteRecipient(h), Applies(hs[h].rcp, hs[h].s)
      PROVE  /\ At(h, "count")' /\ rcp' = hs'[h].s
             /\ counts'[c] = Bit(hs'[h].rcp \in Worth(c))
             /\ hs'[h].rcp \in Worth(c) => hs'[h].s \in Worth(c)
             /\ \A g \in Handlers : At(g, "count")' => g = h
  <2>1. /\ rcp' = hs[h].s /\ hs' = [hs EXCEPT ![h].step = "count"]
        /\ counts' = counts
    BY <1>0, <1>3 DEF WriteRecipient, Incoming, docs
  <2>2. hs'[h].step = "count" /\ hs'[h].rcp = hs[h].rcp /\ hs'[h].s = hs[h].s
    BY <1>0, <2>1 DEF TypeOK
  <2>3. \A g \in Handlers : ~At(g, "count")
    BY <1>0, <1>3 DEF Alone, WriteRecipient, At
  <2>4. hs[h].rcp = rcp /\ should_apply_status(rcp, hs[h].s) /\ rcp # "absent"
    BY <1>0, <1>3 DEF FreshSnapshots, HoldsRecipient, WriteRecipient, Applies
  <2>5. hs[h].rcp \in Worth(c) => hs[h].s \in Worth(c)
    <3>1. hs[h].s \in Trail(truth) /\ rcp \in Trail(truth)
      BY <1>0, <1>3, <2>4 DEF TrailInv, WriteRecipient, At
    <3>2. truth \in ReportStatuses
      BY <1>0 DEF TypeOK
    <3>. QED
      BY <2>4, <3>1, <3>2, PathOrder
  <2>6. ASSUME NEW g \in Handlers, At(g, "count")'  PROVE g = h
    BY <1>0, <2>1, <2>3, <2>6 DEF At
  <2>. QED
    BY <1>1, <2>1, <2>2, <2>3, <2>4, <2>5, <2>6 DEF At
<1>4. ASSUME NEW h \in Handlers, CountChange(h)
      PROVE  /\ \A g \in Handlers : ~At(g, "count")'
             /\ counts'[c] = Bit(rcp' \in Worth(c))
  <2>1. At(h, "count") /\ hs' = [hs EXCEPT ![h] = IdleHandler] /\ rcp' = rcp
    BY <1>4 DEF CountChange, Finish
  <2>2. \A g \in Handlers : At(g, "count") => g = h
    BY <1>0, <2>1 DEF Alone, At
  <2>3. \A g \in Handlers : ~At(g, "count")'
    BY <1>0, <2>1, <2>2 DEF At, IdleHandler
  <2>4. counts'[c] = IF hs[h].s \in Worth(c) /\ hs[h].rcp \notin Worth(c)
                     THEN counts[c] + 1 ELSE counts[c]
    BY <1>0, <1>4, CountedOne, Metrics
  <2>5. /\ rcp = hs[h].s /\ counts[c] = Bit(hs[h].rcp \in Worth(c))
        /\ hs[h].rcp \in Worth(c) => hs[h].s \in Worth(c)
    BY <1>2, <2>1
  <2>6. counts'[c] = Bit(rcp' \in Worth(c))
    <3>1. CASE hs[h].rcp \in Worth(c)
      BY <2>1, <2>4, <2>5, <3>1 DEF Bit
    <3>2. CASE hs[h].rcp \notin Worth(c)
      BY <2>1, <2>4, <2>5, <3>2 DEF Bit
    <3>. QED
      BY <3>1, <3>2
  <2>. QED
    BY <2>3, <2>6
<1>5. CASE \A h \in Handlers : ~CountChange(h) /\ ~(WriteRecipient(h) /\ Applies(hs[h].rcp, hs[h].s))
  <2>1. counts'[c] = counts[c]
    BY <1>0, <1>5, CountsBy
  <2>2. \A h \in Handlers : At(h, "count")' => At(h, "count") /\ hs'[h] = hs[h]
    BY <1>0, <1>5, HandlerBy DEF At
  <2>3. \A h \in Handlers : At(h, "count") => At(h, "count")'
    BY <1>0, <1>5, PendingBy DEF At
  <2>4. CASE rcp' = rcp
    BY <1>1, <1>2, <2>1, <2>2, <2>3, <2>4
  <2>5. CASE MarkRecipient /\ rcp' = "sent" /\ hs' = hs
    <3>1. rcp = "absent"
      BY <2>5 DEF MarkRecipient, Consistent, Documents
    <3>2. ASSUME NEW h \in Handlers, At(h, "count")  PROVE FALSE
      <4>1. hs[h].s = "absent" /\ hs[h].s \in ReportStatuses
        BY <1>0, <1>2, <3>1, <3>2 DEF TypeOK
      <4>. QED
        BY <4>1, Statuses
    <3>3. counts[c] = 0 /\ Bit("sent" \in Worth(c)) = 0
      BY <1>1, <3>1, <3>2, WorthNames DEF Bit
    <3>. QED
      BY <2>1, <2>2, <2>5, <3>2, <3>3
  <2>. QED
    BY <1>5, <2>4, <2>5, RecipientBy
<1>. QED
  BY <1>3, <1>4, <1>5

LEMMA InitMatch == Init => MatchInv
<1>. SUFFICES ASSUME Init, NEW c \in CallbackCounters
              PROVE  counts[c] = Bit(rcp \in Worth(c)) /\ \A h \in Handlers : ~At(h, "count")
  BY DEF MatchInv
<1>1. counts[c] = 0 /\ rcp = "absent"
  BY WorthNames DEF Init
<1>2. Bit("absent" \in Worth(c)) = 0
  BY WorthNames DEF Bit
<1>. QED
  BY <1>1, <1>2 DEF Init, At, IdleHandler

(* Handled one after the other, in whatever order and however often, the   *)
(* reports leave the counters only callbacks write at what the recipient   *)
(* shows: no report is counted twice, none is left out.                    *)
THEOREM CountersAreRight == Spec => []CountersMatch
<1>. DEFINE Inv == Consistent /\ CountedInv /\ TrailInv /\ MatchInv
<1>1. Inv => CountersMatch
  <2>. SUFFICES ASSUME Inv, CountedSetting, Quiet, ~setting.overlap  PROVE CountersMatch
    BY DEF CountersMatch, CountedBlast, CountedSetting
  <2>1. \A c \in CallbackCounters : counts[c] = Bit(rcp \in Worth(c))
    BY DEF MatchInv, Quiet, At
  <2>. QED
    BY <2>1 DEF CountersMatch, CallbackCounters, Worth, Bit
<1>2. Init => Inv
  BY InitConsistent, InitCounted, InitTrail, InitMatch
<1>3. Inv /\ [Next]_vars => Inv'
  BY NextConsistent, CountedNext, TrailNext, MatchNext DEF Consistent
<1>. QED
  BY <1>1, <1>2, <1>3, PTL DEF Spec

=============================================================================
