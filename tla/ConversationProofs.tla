-------------------------- MODULE ConversationProofs --------------------------
(***************************************************************************)
(* Theorems about Conversation, for any handlers, workers, scans, number   *)
(* of messages and scenarios.                                              *)
(***************************************************************************)
EXTENDS Conversation, TLAPS

-----------------------------------------------------------------------------
(* Bags and sequences *)

LEMMA Added ==
  ASSUME NEW B, NEW x, IsABag(B)
  PROVE  /\ IsABag(BagAdd(B, x)) /\ DOMAIN BagAdd(B, x) = DOMAIN B \cup {x}
         /\ \A y \in DOMAIN B : y # x => BagAdd(B, x)[y] = B[y]
         /\ x \notin DOMAIN B => BagAdd(B, x)[x] = 1
  BY DEF IsABag, BagAdd

LEMMA Removed ==
  ASSUME NEW B, NEW x, IsABag(B)
  PROVE  /\ IsABag(BagRemove(B, x)) /\ DOMAIN BagRemove(B, x) \subseteq DOMAIN B
         /\ \A y \in DOMAIN B : y # x => /\ y \in DOMAIN BagRemove(B, x)
                                         /\ BagRemove(B, x)[y] = B[y]
         /\ x \in DOMAIN B /\ B[x] = 1 => x \notin DOMAIN BagRemove(B, x)
<1>1. CASE x \notin DOMAIN B
  BY <1>1 DEF BagRemove
<1>2. CASE x \in DOMAIN B /\ B[x] = 1
  BY <1>2 DEF BagRemove, IsABag
<1>3. CASE x \in DOMAIN B /\ B[x] # 1
  <2>1. BagRemove(B, x) = [e \in DOMAIN B |-> IF e = x THEN B[e] - 1 ELSE B[e]]
    BY <1>3 DEF BagRemove
  <2>2. \A e \in DOMAIN B : B[e] \in Nat /\ B[e] > 0
    BY DEF IsABag
  <2> QED BY <1>3, <2>1, <2>2 DEF IsABag
<1> QED BY <1>1, <1>2, <1>3

LEMMA Joined ==
  ASSUME NEW B, NEW S, IsABag(B)
  PROVE  /\ IsABag(B (+) SetToBag(S)) /\ DOMAIN (B (+) SetToBag(S)) = DOMAIN B \cup S
         /\ \A y \in DOMAIN B : y \notin S => (B (+) SetToBag(S))[y] = B[y]
  BY DEF IsABag, SetToBag, (+)

LEMMA Appended ==
  ASSUME NEW S, NEW q \in Seq(S), NEW x
  PROVE  /\ Len(Append(q, x)) = Len(q) + 1 /\ DOMAIN Append(q, x) = 1..Len(q) + 1
         /\ Append(q, x)[Len(q) + 1] = x
         /\ \A d \in DOMAIN q : Append(q, x)[d] = q[d] /\ d \in DOMAIN Append(q, x)
  OBVIOUS


-----------------------------------------------------------------------------
(* The invariant, first part: what requests, jobs and scans refer to *)

Job(k, m) == [kind |-> k, m |-> m]
IsAi(d)   == d \in DOMAIN chat /\ chat[d].from = "ai"

Held     == {"confirm", "call", "store", "except"}
HasInbound == {"window", "consent", "blacklist", "confirm", "enqueue"}

(* Every reply comes after the message it answers. *)
ChatInv ==
  /\ \A d \in DOMAIN chat : chat[d].from = "customer" => chat[d].trigger \in Inbound
  /\ \A d \in DOMAIN chat : chat[d].from = "ai" =>
       \E e \in DOMAIN chat : e < d /\ Holds(e, chat[d].trigger)

RequestInv == \A h \in Handlers :
  /\ hd[h].step # "idle" => hd[h].m \in Inbound
  /\ hd[h].step \in HasInbound => Stored(hd[h].m)

ScanInv == \A s \in Scanners :
  sc[s].step \in {"write", "enqueue"} => sc[s].m \in Inbound /\ Stored(sc[s].m)

QueueInv == \A j \in DOMAIN queue :
  IF Handed(j) THEN IsAi(j.m) ELSE j.kind = "welcome" \/ Stored(j.m)

WorkInv == \A w \in Workers :
  /\ wk[w].step = "idle" => wk[w] = NoJob
  /\ wk[w].step \in {"generate", "fallback"} =>
       wk[w].job.kind \in {"ai", "catch"} /\ Stored(wk[w].job.m)
  /\ wk[w].step \in Held \cup {"flags"} => IsAi(wk[w].doc)

ShapeInv == /\ TypeOK /\ Len(scenario.kinds) <= MaxInbound
            /\ ChatInv /\ RequestInv /\ ScanInv /\ QueueInv /\ WorkInv

-----------------------------------------------------------------------------
(* Initially *)

LEMMA ShapeInit == Init => ShapeInv
<1> SUFFICES ASSUME Init PROVE ShapeInv
  OBVIOUS
<1>1. scenario \in ScenarioTypes /\ Len(scenario.kinds) <= MaxInbound
  <2>1. scenario \in Scenarios
    BY DEF Init
  <2> QED BY <2>1, ConversationScenariosAssumption
<1>2. MaxInbound \in Nat /\ 1 \in Inbound /\ 0 \in 0..MaxInbound /\ 1 \in 0..MaxInbound
  BY ConversationBoundsAssumption DEF Inbound
<1>3. NotMissed \in Missed /\ NoLead \in Lead
  BY <1>2 DEF NotMissed, Missed, NoLead, Lead
<1>4. NoRequest \in [step : HandlerSteps, m : 0..MaxInbound, new : BOOLEAN]
  BY <1>2 DEF NoRequest, HandlerSteps
<1>5. NoJob \in [step : WorkerSteps, job : Jobs, doc : Nat]
  BY DEF NoJob, WorkerSteps, Jobs
<1>6. NoScan \in [step : ScanSteps, m : 0..MaxInbound, prev : Missed, suppressed : BOOLEAN]
  BY <1>2, <1>3 DEF NoScan, ScanSteps
<1>7. Received(1) \in Doc /\ chat \in Seq(Doc)
  <2>1. Received(1) \in Doc
    BY <1>2 DEF Received, Doc
  <2>2. chat = <<Received(1)>> \/ chat = <<>>
    BY DEF Init
  <2>3. \A D : <<>> \in Seq(D) /\ \A x \in D : <<x>> \in Seq(D)
    OBVIOUS
  <2> QED BY <2>1, <2>2, <2>3
<1>8. lead \in Lead
  BY <1>2, <1>3 DEF Init, Lead
<1>9. IsABag(queue) /\ BagToSet(queue) \subseteq Jobs
  BY <1>2 DEF Init, IsABag, SetToBag, BagToSet, Jobs
<1>10. TypeOK
  <2>1. hd \in [Handlers -> [step : HandlerSteps, m : 0..MaxInbound, new : BOOLEAN]]
    BY <1>4 DEF Init
  <2>2. wk \in [Workers -> [step : WorkerSteps, job : Jobs, doc : Nat]]
    BY <1>5 DEF Init
  <2>3. sc \in [Scanners -> [step : ScanSteps, m : 0..MaxInbound, prev : Missed,
                             suppressed : BOOLEAN]]
    BY <1>6 DEF Init
  <2>4. /\ blacklist \in BOOLEAN /\ events \subseteq Inbound /\ claims \subseteq Jobs
        /\ holding \in BOOLEAN /\ written \in 0..MaxInbound /\ age \in [Inbound -> Ages]
        /\ missing \subseteq Inbound /\ faded \subseteq Inbound
        /\ answers \in [0..MaxInbound -> Nat] /\ excused \subseteq Inbound /\ dropped \subseteq Inbound /\ grace \subseteq Workers
    BY <1>2 DEF Init, Ages
  <2> QED BY <1>1, <1>7, <1>8, <1>9, <2>1, <2>2, <2>3, <2>4 DEF TypeOK
<1>11. ChatInv
  BY <1>2 DEF Init, ChatInv, Received, Holds
<1>12. RequestInv /\ ScanInv
  BY DEF Init, RequestInv, ScanInv, NoRequest, NoScan, HasInbound
<1>13. QueueInv
  BY DEF Init, QueueInv, SetToBag, Handed, Stored, Holds, Received
<1>14. WorkInv
  BY DEF Init, WorkInv, NoJob, Held
<1> QED BY <1>1, <1>10, <1>11, <1>12, <1>13, <1>14 DEF ShapeInv

-----------------------------------------------------------------------------
(* What a step may do to the chat *)

TeamReply   == [from |-> "team", trigger |-> 0, catchup |-> FALSE,
                fallback |-> FALSE, status |-> "sent"]
ReplyOf(w)  == [from |-> "ai", trigger |-> wk[w].job.m, catchup |-> IsCatchUp(w),
                fallback |-> InJob(w, "fallback"), status |-> "queued"]
Outcomes    == {"queued", "sent", "failed", "canceled"}

Arrives(h) == /\ hd[h].step = "insert" /\ ~Stored(hd[h].m)
              /\ chat' = Append(chat, Received(hd[h].m))
Replies(w) == /\ wk[w].step \in {"generate", "fallback"}
              /\ chat' = Append(chat, ReplyOf(w))
Marked     == \E d \in DOMAIN chat, s \in Outcomes : SetStatus(d, s)
OursAlone  == \E x \in {TeamReply, Notice} : chat' = Append(chat, x)
ChatMoves  == \/ chat' = chat \/ OursAlone \/ Marked
              \/ (\E h \in Handlers : Arrives(h)) \/ \E w \in Workers : Replies(w)

LEMMA ChatByJob ==
  ASSUME ShapeInv, NEW w \in Workers, JobStep(w) \/ WorkerCrash(w)
  PROVE  chat' = chat \/ OursAlone \/ Replies(w) \/ Marked
<1>1. wk[w].step \in Held => wk[w].doc \in DOMAIN chat
  BY DEF ShapeInv, WorkInv, IsAi
<1>2. ASSUME NEW j \in BagToSet(queue),
             Decline(w, j) \/ TakeUp(w, j) \/ OutboundEnds(w, j) \/ StartWelcome(w, j)
      PROVE  chat' = chat
  BY <1>2 DEF Decline, TakeUp, OutboundEnds, StartWelcome, AnswerOf
<1>3. ASSUME NEW j \in BagToSet(queue), Outbound(w, j) PROVE chat' = chat \/ Marked
  <2>1. j.m \in DOMAIN chat
    BY <1>3 DEF Outbound, ShapeInv, QueueInv, IsAi, BagToSet
  <2>2. chat' = chat \/ SetStatus(j.m, "failed")
    BY <1>3 DEF Outbound
  <2> QED BY <2>1, <2>2 DEF Outcomes, Marked
<1>4. ASSUME \/ GenerateFails(w) \/ Flags(w) \/ Except(w) \/ WorkerCrash(w) \/ StoreSent(w)
             \/ Confirm(w) \/ \E answer : ProviderCall(w, answer)
      PROVE chat' = chat \/ Marked
  <2>1. chat' = chat \/ (wk[w].step \in Held /\ \E s \in Outcomes : SetStatus(wk[w].doc, s))
    BY <1>4 DEF GenerateFails, Flags, Except, WorkerCrash, StoreSent, Confirm, ProviderCall,
       InJob, Held, Outcomes
  <2> QED BY <1>1, <2>1 DEF Marked
<1>5. CASE InsertReply(w)
  <2>1. wk[w].step \in {"generate", "fallback"} /\ (chat' = chat \/ chat' = Append(chat, ReplyOf(w)))
    BY <1>5, Zenon DEF InsertReply, ReplyOf
  <2> QED BY <2>1 DEF Replies
<1>6. SendWelcome(w) => chat' = chat \/ OursAlone
  BY DEF SendWelcome, OursAlone
<1> QED BY <1>2, <1>3, <1>4, <1>5, <1>6 DEF JobStep

LEMMA ChatBy ==
  ASSUME ShapeInv, [Next]_vars
  PROVE  ChatMoves
<1>1. CASE UNCHANGED vars
  BY <1>1 DEF vars, ChatMoves
<1>2. ASSUME NEW h \in Handlers, Deliver(h) \/ RequestStep(h) \/ RequestCrash(h)
      PROVE  chat' = chat \/ OursAlone \/ Arrives(h)
  BY <1>2 DEF Deliver, RequestStep, RequestCrash, ClaimEvent, Screen, FindLead, InsertInbound,
     Window, Consent, ConsentBlacklist, ConfirmOptOut, Enqueue, InReq, Arrives, OursAlone
<1>3. ASSUME NEW op, TeamCall(op) PROVE chat' = chat \/ OursAlone
  BY <1>3 DEF TeamCall, TeamReply, OursAlone
<1>4. ASSUME NEW s, ScanStep(s) \/ ScanCrash(s) PROVE chat' = chat
  BY <1>4 DEF ScanStep, ScanCrash, Scan, ScanWait, ScanRetry, EnqueueCatchUp, ScanClear, scanRest
<1>5. ASSUME \/ Write \/ ListMissing \/ Replay \/ CoolDown
             \/ \E m \in Inbound : Older(m) \/ Fade(m)
      PROVE  chat' = chat
  BY <1>5 DEF Write, ListMissing, Replay, CoolDown, Older, Fade, scanRest
<1>6. FailStale => Marked
  BY DEF FailStale, Outcomes, Marked
<1> QED BY <1>1, <1>2, <1>3, <1>4, <1>5, <1>6, ChatByJob DEF Next, Step, ChatMoves

(* The chat only grows, and its documents keep all but their status.       *)
SameDoc(d) == /\ chat'[d].from = chat[d].from /\ chat'[d].trigger = chat[d].trigger
              /\ chat'[d].catchup = chat[d].catchup /\ chat'[d].fallback = chat[d].fallback

LEMMA ChatGrows ==
  ASSUME ShapeInv, [Next]_vars
  PROVE  /\ chat' \in Seq(Doc) /\ \A d \in DOMAIN chat : d \in DOMAIN chat' /\ SameDoc(d)
         /\ \A m : Stored(m) => Stored(m)'
         /\ \A d : IsAi(d) => IsAi(d)'
<1>1. chat \in Seq(Doc) /\ wk \in [Workers -> [step : WorkerSteps, job : Jobs, doc : Nat]]
      /\ hd \in [Handlers -> [step : HandlerSteps, m : 0..MaxInbound, new : BOOLEAN]]
  BY DEF ShapeInv, TypeOK
<1>2. ASSUME NEW x \in Doc, chat' = Append(chat, x)
      PROVE  chat' \in Seq(Doc) /\ \A d \in DOMAIN chat : d \in DOMAIN chat' /\ SameDoc(d)
  BY <1>1, <1>2, Appended DEF SameDoc
<1>3. ASSUME NEW d \in DOMAIN chat, NEW s \in Outcomes, chat' = [chat EXCEPT ![d].status = s]
      PROVE  chat' \in Seq(Doc) /\ \A e \in DOMAIN chat : e \in DOMAIN chat' /\ SameDoc(e)
  <2>0. chat[d] \in Doc
    BY <1>1
  <2>1. [chat[d] EXCEPT !.status = s] \in Doc
    BY <2>0 DEF Doc, Outcomes
  <2>2. chat' = [chat EXCEPT ![d] = [chat[d] EXCEPT !.status = s]]
    BY <1>3
  <2>3. chat' \in Seq(Doc)
    BY <1>1, <2>1, <2>2
  <2>4. \A e \in DOMAIN chat : e \in DOMAIN chat' /\ SameDoc(e)
    BY <1>1, <2>2 DEF SameDoc, Doc
  <2> QED BY <2>3, <2>4
<1>4. {TeamReply, Notice} \subseteq Doc /\ \A h \in Handlers : Received(hd[h].m) \in Doc
  BY <1>1, ConversationBoundsAssumption DEF TeamReply, Notice, Received, Doc
<1>5. ASSUME NEW w \in Workers, wk[w].step \in {"generate", "fallback"} PROVE ReplyOf(w) \in Doc
  <2>1. wk[w].job \in Jobs /\ wk[w].job.kind \in {"ai", "catch"}
    BY <1>1, <1>5 DEF ShapeInv, WorkInv
  <2>2. wk[w].job.m \in 0..MaxInbound
    BY <2>1, ConversationBoundsAssumption DEF Jobs, Inbound
  <2>3. \A t \in 0..MaxInbound, b, c \in BOOLEAN :
          [from |-> "ai", trigger |-> t, catchup |-> b, fallback |-> c, status |-> "queued"] \in Doc
    BY DEF Doc
  <2>4. IsCatchUp(w) \in BOOLEAN /\ InJob(w, "fallback") \in BOOLEAN
    BY DEF IsCatchUp, InJob
  <2> QED BY <2>2, <2>3, <2>4, Zenon DEF ReplyOf
<1>6. chat' \in Seq(Doc) /\ \A d \in DOMAIN chat : d \in DOMAIN chat' /\ SameDoc(d)
  <2>1. chat' = chat => chat' \in Seq(Doc) /\ \A d \in DOMAIN chat : d \in DOMAIN chat' /\ SameDoc(d)
    BY <1>1 DEF SameDoc
  <2> QED BY <1>2, <1>3, <1>4, <1>5, <2>1, ChatBy DEF ChatMoves, OursAlone, Marked, Arrives, Replies, SetStatus
<1> QED BY <1>6 DEF Stored, Holds, IsAi, SameDoc
-----------------------------------------------------------------------------
(* The first part of the invariant is kept *)

ReqType  == [step : HandlerSteps, m : 0..MaxInbound, new : BOOLEAN]
WorkType == [step : WorkerSteps, job : Jobs, doc : Nat]
ScanType == [step : ScanSteps, m : 0..MaxInbound, prev : Missed, suppressed : BOOLEAN]

(* Steps that are none of a request's.                                     *)
LEMMA OtherRequests ==
  ASSUME [Next]_vars
  PROVE  \/ UNCHANGED <<hd, events>>
         \/ \E h \in Handlers : Deliver(h) \/ RequestStep(h) \/ RequestCrash(h)
         \/ Replay
<1>1. ASSUME NEW w \in Workers, JobStep(w) \/ WorkerCrash(w) PROVE UNCHANGED <<hd, events>>
  BY <1>1 DEF JobStep, WorkerCrash, Decline, TakeUp, Outbound, OutboundEnds, StartWelcome,
     AnswerOf, GenerateFails, InsertReply, Confirm, ProviderCall, StoreSent, Flags, Except,
     SendWelcome, jobRest, envVars
<1>2. ASSUME NEW s, ScanStep(s) \/ ScanCrash(s) PROVE UNCHANGED <<hd, events>>
  BY <1>2 DEF ScanStep, ScanCrash, Scan, ScanWait, ScanRetry, EnqueueCatchUp, ScanClear, scanRest
<1>3. ASSUME Write \/ ListMissing \/ CoolDown \/ FailStale \/ \E m \in Inbound : Older(m) \/ Fade(m)
      PROVE  UNCHANGED <<hd, events>>
  BY <1>3 DEF Write, ListMissing, CoolDown, FailStale, Older, Fade, scanRest, envVars
<1>4. ASSUME NEW op, TeamCall(op) PROVE UNCHANGED <<hd, events>>
  BY <1>4 DEF TeamCall
<1> QED BY <1>1, <1>2, <1>3, <1>4 DEF Next, Step, vars

LEMMA RequestKeeps ==
  ASSUME ShapeInv, [Next]_vars
  PROVE  hd' \in [Handlers -> ReqType] /\ events' \subseteq Inbound /\ RequestInv'
<1>1. /\ hd \in [Handlers -> ReqType] /\ events \subseteq Inbound /\ written \in 0..MaxInbound
      /\ RequestInv /\ missing \subseteq Inbound /\ 1..written \subseteq Inbound
      /\ Inbound \subseteq 0..MaxInbound /\ chat \in Seq(Doc) /\ Replayer \in Handlers
  BY ConversationBoundsAssumption DEF ShapeInv, TypeOK, ReqType, Inbound
<1>2. NoRequest \in ReqType
  BY ConversationBoundsAssumption DEF NoRequest, ReqType, HandlerSteps
<1>3. \A m : Stored(m) => Stored(m)'
  BY ChatGrows
<1>4. ASSUME NEW h \in Handlers, NEW r \in ReqType, hd' = [hd EXCEPT ![h] = r],
             r.step # "idle" => r.m \in Inbound, r.step \in HasInbound => Stored(r.m)'
      PROVE  hd' \in [Handlers -> ReqType] /\ RequestInv'
  BY <1>1, <1>3, <1>4 DEF RequestInv
<1>5. ASSUME NEW h \in Handlers, hd' = [hd EXCEPT ![h] = NoRequest]
      PROVE  hd' \in [Handlers -> ReqType] /\ RequestInv'
  BY <1>2, <1>4, <1>5 DEF NoRequest, HasInbound
<1>6. ASSUME NEW h \in Handlers, NEW step \in HandlerSteps, ReqTo(h, step),
             NEW m \in Inbound, hd[h].m = m, step \in HasInbound => Stored(m)'
      PROVE  hd' \in [Handlers -> ReqType] /\ RequestInv'
  <2>1. [hd[h] EXCEPT !.step = step] \in ReqType
    BY <1>1 DEF ReqType
  <2>2. hd' = [hd EXCEPT ![h] = [hd[h] EXCEPT !.step = step]]
    BY <1>6 DEF ReqTo
  <2>3. [hd[h] EXCEPT !.step = step].m = m /\ [hd[h] EXCEPT !.step = step].step = step
    BY <1>1, <1>6 DEF ReqType
  <2> QED BY <1>4, <1>6, <2>1, <2>2, <2>3
<1>7. ASSUME NEW h \in Handlers, NEW m \in Inbound, Receive(h, m)
      PROVE  hd' \in [Handlers -> ReqType] /\ RequestInv'
  <2> DEFINE r == [NoRequest EXCEPT !.step = "claim", !.m = m]
  <2>2. r \in ReqType /\ r.m = m /\ r.step = "claim"
    BY <1>1, <1>2 DEF ReqType, HandlerSteps
  <2> QED BY <1>4, <1>7, <2>2 DEF Receive, HasInbound
<1>8. ASSUME NEW h \in Handlers, Deliver(h) \/ RequestCrash(h)
      PROVE  hd' \in [Handlers -> ReqType] /\ events' \subseteq Inbound /\ RequestInv'
  BY <1>1, <1>5, <1>7, <1>8 DEF Deliver, RequestCrash, ReqEnds
<1>9. CASE Replay
  BY <1>1, <1>7, <1>9 DEF Replay
<1>10. ASSUME NEW h \in Handlers, RequestStep(h)
       PROVE  hd' \in [Handlers -> ReqType] /\ events' \subseteq Inbound /\ RequestInv'
  <2>1. ASSUME NEW step \in {"claim", "screen", "lead", "insert"}, ReqTo(h, step),
               hd[h].step # "idle"
        PROVE  hd' \in [Handlers -> ReqType] /\ RequestInv'
    <3>1. PICK m \in Inbound : hd[h].m = m
      BY <1>1, <2>1 DEF RequestInv
    <3>2. step \in HandlerSteps /\ step \notin HasInbound
      BY DEF HandlerSteps, HasInbound
    <3> QED BY <1>6, <2>1, <3>1, <3>2, Zenon
  <2>2. ASSUME NEW step \in HasInbound, ReqTo(h, step), hd[h].step \in HasInbound
        PROVE  hd' \in [Handlers -> ReqType] /\ RequestInv'
    <3>1. PICK m \in Inbound : hd[h].m = m /\ Stored(m)
      BY <1>1, <2>2 DEF RequestInv, HasInbound
    <3>2. step \in HandlerSteps /\ Stored(m)'
      BY <1>3, <3>1 DEF HandlerSteps, HasInbound
    <3> QED BY <1>6, <2>2, <3>1, <3>2, Zenon
  <2>3. CASE ClaimEvent(h)
    <3>1. hd[h].step = "claim" /\ hd[h].m \in Inbound
      BY <1>1, <2>3 DEF ClaimEvent, InReq, RequestInv
    <3> QED BY <1>1, <1>5, <2>1, <2>3, <3>1 DEF ClaimEvent, ReqEnds
  <2>4. CASE Screen(h)
    <3>1. events' = events /\ hd[h].step = "screen"
      BY <2>4 DEF Screen, InReq
    <3>2. CASE ReqEnds(h)
      BY <1>1, <1>5, <3>1, <3>2 DEF ReqEnds
    <3>3. CASE hd' = [hd EXCEPT ![h].step = "lead", ![h].new = ~lead.exists]
      <4> DEFINE r == [hd[h] EXCEPT !.step = "lead", !.new = ~lead.exists]
      <4>1. hd' = [hd EXCEPT ![h] = r]
        BY <3>3
      <4>2. hd[h] \in ReqType /\ hd[h].m \in Inbound /\ (~lead.exists) \in BOOLEAN
        BY <1>1, <3>1 DEF RequestInv
      <4>3. r \in ReqType /\ r.m = hd[h].m /\ r.step = "lead"
        BY <4>2 DEF ReqType, HandlerSteps
      <4> QED BY <1>1, <1>4, <3>1, <4>1, <4>2, <4>3 DEF HasInbound
    <3> QED BY <2>4, <3>2, <3>3 DEF Screen
  <2>5. CASE FindLead(h)
    BY <1>1, <2>1, <2>5 DEF FindLead, InReq
  <2>6. CASE InsertInbound(h)
    <3>1. events' = events /\ hd[h].step = "insert"
      BY <2>6 DEF InsertInbound, InReq
    <3>2. CASE ReqEnds(h)
      BY <1>1, <1>5, <3>1, <3>2 DEF ReqEnds
    <3>3. CASE chat' = Append(chat, Received(hd[h].m)) /\ ReqTo(h, "window")
      <4>1. PICK m \in Inbound : hd[h].m = m
        BY <1>1, <3>1 DEF RequestInv
      <4>2. chat'[Len(chat) + 1] = Received(m) /\ Len(chat) + 1 \in DOMAIN chat'
        BY <1>1, <3>3, <4>1, Appended
      <4>3. Stored(m)'
        BY <4>2 DEF Received, Stored, Holds
      <4>4. "window" \in HandlerSteps
        BY DEF HandlerSteps
      <4>5. hd' \in [Handlers -> ReqType] /\ RequestInv'
        BY <1>6, <3>3, <4>1, <4>3, <4>4, Zenon
      <4> QED BY <1>1, <3>1, <4>5
    <3> QED BY <2>6, <3>2, <3>3 DEF InsertInbound
  <2>7. CASE Window(h) \/ Consent(h) \/ ConsentBlacklist(h) \/ ConfirmOptOut(h) \/ Enqueue(h)
    <3>1. events' = events /\ hd[h].step \in HasInbound
      BY <2>7 DEF Window, Consent, ConsentBlacklist, ConfirmOptOut, Enqueue, InReq, HasInbound
    <3>2. ReqEnds(h) \/ \E step \in HasInbound : ReqTo(h, step)
      BY <2>7 DEF Window, Consent, ConsentBlacklist, ConfirmOptOut, Enqueue, InReq, HasInbound
    <3> QED BY <1>1, <1>5, <2>2, <3>1, <3>2 DEF ReqEnds
  <2> QED BY <1>10, <2>3, <2>4, <2>5, <2>6, <2>7 DEF RequestStep
<1>11. CASE UNCHANGED <<hd, events>>
  BY <1>1, <1>3, <1>11 DEF RequestInv
<1> QED BY <1>8, <1>9, <1>10, <1>11, OtherRequests

LEMMA UnansweredIs ==
  ASSUME ShapeInv
  PROVE  Unanswered = 0 \/ (Unanswered \in Inbound /\ Stored(Unanswered))
<1>1. CASE \E d \in DOMAIN chat : Ends(d)
  <2> DEFINE d == CHOOSE e \in DOMAIN chat : Ends(e)
  <2>1. d \in DOMAIN chat /\ Ends(d)
    BY <1>1
  <2>2. Unanswered = chat[d].trigger
    BY <1>1 DEF Unanswered
  <2> HIDE DEF d
  <2> QED BY <2>1, <2>2 DEF ShapeInv, ChatInv, Ends, Stored, Holds
<1>2. CASE ~\E d \in DOMAIN chat : Ends(d)
  BY <1>2 DEF Unanswered
<1> QED BY <1>1, <1>2

LEMMA OtherScans ==
  ASSUME [Next]_vars
  PROVE  UNCHANGED sc \/ \E s \in Scanners : ScanStep(s) \/ ScanCrash(s)
<1>1. ASSUME NEW w \in Workers, JobStep(w) \/ WorkerCrash(w) PROVE sc' = sc
  BY <1>1 DEF JobStep, WorkerCrash, Decline, TakeUp, Outbound, OutboundEnds, StartWelcome,
     AnswerOf, GenerateFails, InsertReply, Confirm, ProviderCall, StoreSent, Flags, Except,
     SendWelcome, jobRest, envVars
<1>2. ASSUME NEW h \in Handlers, Deliver(h) \/ RequestStep(h) \/ RequestCrash(h) PROVE sc' = sc
  BY <1>2 DEF Deliver, RequestStep, RequestCrash, ClaimEvent, Screen, FindLead, InsertInbound,
     Window, Consent, ConsentBlacklist, ConfirmOptOut, Enqueue, reqRest, jobVars
<1>3. ASSUME \/ Write \/ ListMissing \/ Replay \/ CoolDown \/ FailStale
             \/ \E m \in Inbound : Older(m) \/ Fade(m)
      PROVE  sc' = sc
  BY <1>3 DEF Write, ListMissing, Replay, CoolDown, FailStale, Older, Fade, jobVars, envVars
<1>4. ASSUME NEW op, TeamCall(op) PROVE sc' = sc
  BY <1>4 DEF TeamCall
<1> QED BY <1>1, <1>2, <1>3, <1>4 DEF Next, Step, vars

LEMMA ScanKeeps ==
  ASSUME ShapeInv, [Next]_vars
  PROVE  sc' \in [Scanners -> ScanType] /\ ScanInv'
<1>1. /\ sc \in [Scanners -> ScanType] /\ ScanInv /\ lead \in Lead
      /\ Inbound \subseteq 0..MaxInbound
  BY ConversationBoundsAssumption DEF ShapeInv, TypeOK, ScanType, Inbound
<1>2. NoScan \in ScanType /\ NoScan.step = "idle" /\ NotMissed \in Missed
  BY ConversationBoundsAssumption DEF NoScan, NotMissed, Missed, ScanType, ScanSteps
<1>3. \A m : Stored(m) => Stored(m)'
  BY ChatGrows
<1>4. ASSUME NEW s \in Scanners, NEW r \in ScanType, sc' = [sc EXCEPT ![s] = r],
             r.step \in {"write", "enqueue"} => r.m \in Inbound /\ Stored(r.m)'
      PROVE  sc' \in [Scanners -> ScanType] /\ ScanInv'
  BY <1>1, <1>3, <1>4 DEF ScanInv
<1>5. ASSUME NEW s \in Scanners, ScanEnds(s)
      PROVE  sc' \in [Scanners -> ScanType] /\ ScanInv'
  BY <1>2, <1>4, <1>5 DEF ScanEnds
<1>6. ASSUME NEW s \in Scanners, Scan(s)
      PROVE  sc' \in [Scanners -> ScanType] /\ ScanInv'
  <2> DEFINE m == Unanswered
             found == /\ m # 0 /\ age[m] # "fresh"
                      /\ lead.exists /\ ~consent_blocked(lead)
             r == IF found THEN [step |-> "write", m |-> m, prev |-> lead.missed,
                                 suppressed |-> ai_suppressed(lead)]
                           ELSE [NoScan EXCEPT !.step = "clear"]
  <2>1. sc' = [sc EXCEPT ![s] = r]
    BY <1>6 DEF Scan
  <2>2. CASE found
    <3>1. m \in Inbound /\ Stored(m)
      BY <2>2, UnansweredIs
    <3>2. lead.missed \in Missed /\ ai_suppressed(lead) \in BOOLEAN
      BY <1>1 DEF Lead, ai_suppressed
    <3> HIDE DEF m
    <3>3. r \in ScanType /\ r.m = m
      <4>1. r = [step |-> "write", m |-> m, prev |-> lead.missed,
                 suppressed |-> ai_suppressed(lead)]
        BY <2>2
      <4>2. "write" \in ScanSteps /\ m \in 0..MaxInbound
        BY <1>1, <3>1 DEF ScanSteps
      <4> QED BY <3>2, <4>1, <4>2 DEF ScanType
    <3>4. PICK n \in Inbound : n = m /\ Stored(n)
      BY <3>1
    <3>5. PICK q \in ScanType : q = r /\ q.m = n
      BY <3>3, <3>4
    <3> HIDE DEF r
    <3>6. sc' = [sc EXCEPT ![s] = q] /\ Stored(n)'
      BY <1>3, <2>1, <3>4, <3>5
    <3> QED BY <1>4, <3>5, <3>6
  <2>3. CASE ~found
    <3>1. r = [NoScan EXCEPT !.step = "clear"]
      BY <2>3
    <3>2. [NoScan EXCEPT !.step = "clear"] \in ScanType
          /\ [NoScan EXCEPT !.step = "clear"].step = "clear"
      BY <1>2 DEF ScanType, ScanSteps
    <3> QED BY <1>4, <2>1, <3>1, <3>2
  <2> QED BY <2>2, <2>3
<1>7. ASSUME NEW s \in Scanners, ScanRetry(s)
      PROVE  sc' \in [Scanners -> ScanType] /\ ScanInv'
  <2>1. sc[s] \in ScanType /\ sc[s].step = "write" /\ sc' = [sc EXCEPT ![s] = [sc[s] EXCEPT !.step = "enqueue"]]
    BY <1>1, <1>7 DEF ScanRetry, InScan
  <2>2. [sc[s] EXCEPT !.step = "enqueue"] \in ScanType /\ [sc[s] EXCEPT !.step = "enqueue"].m = sc[s].m
    BY <2>1 DEF ScanType, ScanSteps
  <2>3. PICK n \in Inbound : n = sc[s].m /\ Stored(n)
    BY <1>1, <2>1 DEF ScanInv
  <2>4. PICK q \in ScanType : q = [sc[s] EXCEPT !.step = "enqueue"] /\ q.m = n
    BY <2>2, <2>3
  <2> QED BY <1>3, <1>4, <2>1, <2>3, <2>4
<1>8. ASSUME NEW s \in Scanners, ScanStep(s) \/ ScanCrash(s)
      PROVE  sc' \in [Scanners -> ScanType] /\ ScanInv'
  <2>1. ScanWait(s) \/ EnqueueCatchUp(s) \/ ScanClear(s) \/ ScanCrash(s) => ScanEnds(s)
    BY DEF ScanWait, EnqueueCatchUp, ScanClear, ScanCrash
  <2> QED BY <1>5, <1>6, <1>7, <1>8, <2>1 DEF ScanStep
<1>9. CASE UNCHANGED sc
  BY <1>1, <1>3, <1>9 DEF ScanInv
<1> QED BY <1>8, <1>9, OtherScans

(* The lead *)
LEMMA LeadKeeps ==
  ASSUME ShapeInv, [Next]_vars
  PROVE  lead' \in Lead
<1>1. /\ lead \in Lead /\ sc \in [Scanners -> ScanType] /\ hd \in [Handlers -> ReqType]
  BY DEF ShapeInv, TypeOK, ScanType, ReqType
<1>2. NotMissed \in Missed
  BY ConversationBoundsAssumption DEF NotMissed, Missed
<1>3. ASSUME NEW h \in Handlers, Deliver(h) \/ RequestStep(h) \/ RequestCrash(h) PROVE lead' \in Lead
  <2>1. CASE FindLead(h) \/ Window(h) \/ Consent(h)
    BY <1>1, <2>1 DEF FindLead, Window, Consent, OptIn, OptOut, Lead, ReqType
  <2> QED BY <1>1, <1>3, <2>1 DEF Deliver, RequestStep, RequestCrash, ClaimEvent, Screen,
           InsertInbound, ConsentBlacklist, ConfirmOptOut, Enqueue
<1>4. ASSUME NEW w \in Workers, JobStep(w) \/ WorkerCrash(w) PROVE lead' \in Lead
  <2>1. NeedsHuman => lead' \in Lead
    BY <1>1 DEF NeedsHuman, Lead
  <2>2. Flags(w) => lead' \in Lead
    BY <1>1, <1>2 DEF Flags, Lead
  <2>3. \A j : StartWelcome(w, j) => lead' \in Lead
    BY <1>1 DEF StartWelcome, Lead
  <2>4. SendWelcome(w) => lead' \in Lead
    BY <1>1 DEF SendWelcome, Lead
  <2>5. \A j : Decline(w, j) => lead' \in Lead
    BY <1>1, <2>1 DEF Decline
  <2>6. GenerateFails(w) => lead' \in Lead
    BY <1>1, <2>1 DEF GenerateFails
  <2>7. \A j : TakeUp(w, j) \/ Outbound(w, j) \/ OutboundEnds(w, j) => lead' = lead
    BY DEF TakeUp, Outbound, OutboundEnds
  <2>8. InsertReply(w) \/ Confirm(w) \/ (\E answer : ProviderCall(w, answer)) \/ StoreSent(w)
          \/ Except(w) \/ WorkerCrash(w) => lead' = lead
    BY DEF InsertReply, Confirm, ProviderCall, StoreSent, Except, WorkerCrash
  <2> QED BY <1>1, <1>4, <2>2, <2>3, <2>4, <2>5, <2>6, <2>7, <2>8 DEF JobStep
<1>5. ASSUME NEW op, TeamCall(op) PROVE lead' \in Lead
  BY <1>1, <1>5 DEF TeamCall, Controls, OptIn, OptOut, Lead
<1>6. ASSUME NEW s \in Scanners, ScanStep(s) \/ ScanCrash(s) PROVE lead' \in Lead
  <2>1. sc[s] \in ScanType
    BY <1>1
  <2>2. State(s) \in Missed
    BY <1>2, <2>1 DEF State, ScanType, Missed
  <2>3. Freed(s) \in Lead
    BY <1>1 DEF Freed, Lead
  <2>4. \A l \in Lead, x \in Missed : [l EXCEPT !.missed = x] \in Lead
          /\ [l EXCEPT !.missed = x, !.needs = TRUE] \in Lead
    BY DEF Lead
  <2>5. [State(s) EXCEPT !.tries = @ + 1, !.recent = TRUE] \in Missed
    <3>1. ASSUME NEW x \in Missed PROVE [x EXCEPT !.tries = x.tries + 1, !.recent = TRUE] \in Missed
      <4>1. x.tries + 1 \in Nat
        BY DEF Missed
      <4> QED BY <4>1 DEF Missed
    <3> QED BY <2>2, <3>1
  <2>6. ScanWait(s) => lead' \in Lead
    BY <1>1, <2>2, <2>3, <2>4 DEF ScanWait
  <2>7. ScanRetry(s) => lead' \in Lead
    BY <2>3, <2>4, <2>5 DEF ScanRetry
  <2>8. ScanClear(s) => lead' \in Lead
    BY <1>1, <1>2, <2>4 DEF ScanClear
  <2> QED BY <1>1, <1>6, <2>6, <2>7, <2>8 DEF ScanStep, ScanCrash, Scan, EnqueueCatchUp
<1>7. CASE CoolDown
  <2>1. [lead.missed EXCEPT !.recent = FALSE] \in Missed
    BY <1>1 DEF Lead, Missed
  <2>2. lead' = [lead EXCEPT !.missed = [lead.missed EXCEPT !.recent = FALSE]]
    BY <1>7 DEF CoolDown
  <2> QED BY <1>1, <2>1, <2>2 DEF Lead
<1>8. ASSUME \/ Write \/ ListMissing \/ Replay \/ FailStale
             \/ \E m \in Inbound : Older(m) \/ Fade(m)
      PROVE  lead' \in Lead
  BY <1>1, <1>8 DEF Write, ListMissing, Replay, FailStale, Older, Fade
<1> QED BY <1>1, <1>3, <1>4, <1>5, <1>6, <1>7, <1>8 DEF Next, Step, vars

-----------------------------------------------------------------------------
(* The queue *)

AnswerJobs(j) == j.kind \in {"ai", "catch"}

(* What may come into the queue: a job whose document or message is there. *)
Due(j) == /\ j \in Jobs
          /\ IF Handed(j) THEN IsAi(j.m) ELSE j.kind = "welcome" \/ Stored(j.m)

QueueMoves == \/ queue' = queue \/ (\E j \in DOMAIN queue : queue' = BagRemove(queue, j))
              \/ (\E j : Due(j) /\ queue' = BagAdd(queue, j))
              \/ (\E S : (\A j \in S : Due(j) /\ ~Handed(j)) /\ queue' = queue (+) SetToBag(S))

LEMMA QueueBy ==
  ASSUME ShapeInv, [Next]_vars
  PROVE  QueueMoves
<1>1. \A d : IsAi(d) => d \in Nat \ {0}
  BY DEF ShapeInv, TypeOK, IsAi
<1>2. ASSUME NEW h \in Handlers, Deliver(h) \/ RequestStep(h) \/ RequestCrash(h)
      PROVE  queue' = queue \/ \E S : (\A j \in S : Due(j) /\ ~Handed(j)) /\ queue' = queue (+) SetToBag(S)
  <2>1. CASE Enqueue(h)
    <3> DEFINE welcome == IF hd[h].new /\ scenario.twilio THEN {[kind |-> "welcome", m |-> 0]} ELSE {}
               ai      == IF ~ai_suppressed(lead) /\ ~consent_blocked(lead)
                          THEN {[kind |-> "ai", m |-> hd[h].m]} ELSE {}
    <3>1. queue' = queue (+) SetToBag(welcome \cup ai)
      BY <2>1 DEF Enqueue
    <3>2. hd[h].m \in Inbound /\ Stored(hd[h].m)
      BY <2>1 DEF Enqueue, InReq, ShapeInv, RequestInv, HasInbound
    <3>3. \A j \in welcome \cup ai : Due(j) /\ ~Handed(j)
      BY <3>2 DEF Due, Handed, Jobs
    <3> HIDE DEF welcome, ai
    <3> QED BY <3>1, <3>3
  <2> QED BY <1>2, <2>1 DEF Deliver, RequestStep, RequestCrash, ClaimEvent, Screen, FindLead,
          InsertInbound, Window, Consent, ConsentBlacklist, ConfirmOptOut
<1>3. ASSUME NEW w \in Workers, JobStep(w) \/ WorkerCrash(w) PROVE QueueMoves
  <2>1. ASSUME NEW j \in BagToSet(queue),
               Decline(w, j) \/ TakeUp(w, j) \/ Outbound(w, j) \/ OutboundEnds(w, j) \/ StartWelcome(w, j)
        PROVE  queue' = queue \/ (j \in DOMAIN queue /\ queue' = BagRemove(queue, j))
    BY <2>1 DEF Decline, TakeUp, Outbound, OutboundEnds, StartWelcome, AnswerOf, Take, BagToSet
  <2>2. CASE Confirm(w) \/ Except(w)
    <3>1. IsAi(wk[w].doc)
      BY <2>2 DEF Confirm, Except, InJob, ShapeInv, WorkInv, Held
    <3>2. \A k \in {"send", "resend"} : Due([kind |-> k, m |-> wk[w].doc])
      BY <1>1, <3>1 DEF Due, Handed, Jobs
    <3>3. queue' = queue \/ \E k \in {"send", "resend"} : queue' = BagAdd(queue, [kind |-> k, m |-> wk[w].doc])
      BY <2>2 DEF Confirm, Except, Put
    <3> QED BY <3>2, <3>3 DEF QueueMoves
  <2>3. CASE \/ GenerateFails(w) \/ InsertReply(w) \/ (\E answer : ProviderCall(w, answer))
             \/ StoreSent(w) \/ Flags(w) \/ SendWelcome(w) \/ WorkerCrash(w)
    BY <2>3 DEF GenerateFails, InsertReply, ProviderCall, StoreSent, Flags, SendWelcome, WorkerCrash,
       QueueMoves
  <2> QED BY <1>3, <2>1, <2>2, <2>3 DEF JobStep, QueueMoves
<1>4. ASSUME NEW op, TeamCall(op) PROVE queue' = queue
  BY <1>4 DEF TeamCall
<1>5. ASSUME NEW s \in Scanners, ScanStep(s) \/ ScanCrash(s) PROVE QueueMoves
  <2>1. CASE EnqueueCatchUp(s)
    <3>1. sc[s].m \in Inbound /\ Stored(sc[s].m)
      BY <2>1 DEF EnqueueCatchUp, InScan, ShapeInv, ScanInv
    <3>2. Due([kind |-> "catch", m |-> sc[s].m])
      BY <3>1 DEF Due, Jobs, Handed
    <3> QED BY <2>1, <3>2 DEF EnqueueCatchUp, Put, QueueMoves
  <2> QED BY <1>5, <2>1 DEF ScanStep, ScanCrash, Scan, ScanWait, ScanRetry, ScanClear, QueueMoves
<1>6. ASSUME \/ Write \/ ListMissing \/ Replay \/ CoolDown \/ FailStale
             \/ \E m \in Inbound : Older(m) \/ Fade(m)
      PROVE  queue' = queue
  BY <1>6 DEF Write, ListMissing, Replay, CoolDown, FailStale, Older, Fade
<1>7. UNCHANGED vars => queue' = queue
  BY DEF vars
<1> QED BY <1>2, <1>3, <1>4, <1>5, <1>6, <1>7 DEF Next, Step, QueueMoves

LEMMA QueueKeeps ==
  ASSUME ShapeInv, [Next]_vars
  PROVE  IsABag(queue') /\ BagToSet(queue') \subseteq Jobs /\ QueueInv'
<1>1. IsABag(queue) /\ BagToSet(queue) \subseteq Jobs /\ QueueInv
  BY DEF ShapeInv, TypeOK
<1>2. \A j : Due(j) => j \in Jobs /\ (IF Handed(j) THEN IsAi(j.m)' ELSE j.kind = "welcome" \/ Stored(j.m)')
  BY ChatGrows DEF Due
<1>3. \A j \in DOMAIN queue : Due(j)
  BY <1>1 DEF QueueInv, Due, BagToSet
<1>4. IsABag(queue') /\ \A j \in DOMAIN queue' : Due(j)
  <2>1. CASE queue' = queue
    BY <1>1, <1>3, <2>1
  <2>2. CASE \E j \in DOMAIN queue : queue' = BagRemove(queue, j)
    <3>1. PICK j \in DOMAIN queue : queue' = BagRemove(queue, j)
      BY <2>2
    <3>2. IsABag(queue') /\ DOMAIN queue' \subseteq DOMAIN queue
      BY <1>1, <3>1, Removed
    <3> QED BY <1>3, <3>2
  <2>3. CASE \E j : Due(j) /\ queue' = BagAdd(queue, j)
    <3>1. PICK j : Due(j) /\ queue' = BagAdd(queue, j)
      BY <2>3
    <3>2. IsABag(queue') /\ DOMAIN queue' = DOMAIN queue \cup {j}
      BY <1>1, <3>1, Added
    <3> QED BY <1>3, <3>1, <3>2
  <2>4. CASE \E S : (\A j \in S : Due(j) /\ ~Handed(j)) /\ queue' = queue (+) SetToBag(S)
    <3>1. PICK S : (\A j \in S : Due(j) /\ ~Handed(j)) /\ queue' = queue (+) SetToBag(S)
      BY <2>4
    <3>2. IsABag(queue') /\ DOMAIN queue' = DOMAIN queue \cup S
      BY <1>1, <3>1, Joined
    <3> QED BY <1>3, <3>1, <3>2
  <2> QED BY <2>1, <2>2, <2>3, <2>4, QueueBy DEF QueueMoves
<1> QED BY <1>2, <1>4 DEF QueueInv, BagToSet, Handed

-----------------------------------------------------------------------------
(* The workers *)

jobState == <<wk, claims, answers, holding, excused>>

LEMMA OtherJobs ==
  ASSUME [Next]_vars
  PROVE  UNCHANGED jobState \/ \E w \in Workers : JobStep(w) \/ WorkerCrash(w)
<1>1. ASSUME NEW h \in Handlers, Deliver(h) \/ RequestStep(h) \/ RequestCrash(h)
      PROVE  UNCHANGED jobState
  BY <1>1 DEF Deliver, RequestStep, RequestCrash, ClaimEvent, Screen, FindLead, InsertInbound,
     Window, Consent, ConsentBlacklist, ConfirmOptOut, Enqueue, reqRest, jobVars, jobState
<1>2. ASSUME NEW s, ScanStep(s) \/ ScanCrash(s) PROVE UNCHANGED jobState
  BY <1>2 DEF ScanStep, ScanCrash, Scan, ScanWait, ScanRetry, EnqueueCatchUp, ScanClear, scanRest,
     jobState
<1>3. ASSUME \/ Write \/ ListMissing \/ Replay \/ CoolDown \/ FailStale
             \/ \E m \in Inbound : Older(m) \/ Fade(m)
      PROVE  UNCHANGED jobState
  BY <1>3 DEF Write, ListMissing, Replay, CoolDown, FailStale, Older, Fade, jobVars, scanRest, jobState
<1>4. ASSUME NEW op, TeamCall(op) PROVE UNCHANGED jobState
  BY <1>4 DEF TeamCall, jobState
<1>5. UNCHANGED vars => UNCHANGED jobState
  BY DEF vars, jobState
<1> QED BY <1>1, <1>2, <1>3, <1>4, <1>5 DEF Next, Step

(* What is true of a worker when it takes a step.                          *)
Sound(r) == /\ r.step = "idle" => r = NoJob
            /\ r.step \in {"generate", "fallback"} => r.job.kind \in {"ai", "catch"} /\ Stored(r.job.m)
            /\ r.step \in Held \cup {"flags"} => IsAi(r.doc)

LEMMA WorkSet ==
  ASSUME ShapeInv, [Next]_vars, NEW w \in Workers, NEW r \in WorkType,
         wk' = [wk EXCEPT ![w] = r], Sound(r)'
  PROVE  wk' \in [Workers -> WorkType] /\ WorkInv'
<1>1. wk \in [Workers -> WorkType] /\ WorkInv
  BY DEF ShapeInv, TypeOK, WorkType
<1>2. (\A m : Stored(m) => Stored(m)') /\ \A d : IsAi(d) => IsAi(d)'
  BY ChatGrows
<1>3. wk' \in [Workers -> WorkType]
  BY <1>1
<1>4. ASSUME NEW v \in Workers, v # w
      PROVE  \A x : x = wk[v] => Sound(x)'
  <2>1. \A x : x = wk[v] => Sound(x)
    BY <1>1 DEF WorkInv, Sound
  <2> QED BY <1>2, <2>1 DEF Sound
<1>5. ASSUME NEW v \in Workers PROVE \A x : x = wk'[v] => Sound(x)'
  BY <1>1, <1>4
<1> QED BY <1>3, <1>5 DEF Sound, WorkInv

LEMMA WorkBegins ==
  ASSUME ShapeInv, [Next]_vars, NEW w \in Workers, NEW j \in DOMAIN queue,
         NEW step \in {"generate", "call", "welcome"}, Begin(w, j, step),
         step = "generate" => j.kind \in {"ai", "catch"}, step = "call" => Handed(j)
  PROVE  wk' \in [Workers -> WorkType] /\ WorkInv'
<1>1. j \in Jobs /\ (IF Handed(j) THEN IsAi(j.m) ELSE j.kind = "welcome" \/ Stored(j.m))
  BY DEF ShapeInv, TypeOK, QueueInv, BagToSet
<1> DEFINE r == [step |-> step, job |-> j, doc |-> IF Handed(j) THEN j.m ELSE 0]
<1>2. r \in WorkType
  BY <1>1 DEF WorkType, WorkerSteps, Jobs, Inbound, Handed
<1>3. (\A m : Stored(m) => Stored(m)') /\ \A d : IsAi(d) => IsAi(d)'
  BY ChatGrows
<1>4. (step = "generate" => Stored(j.m)') /\ (step = "call" => IsAi(j.m)')
  BY <1>1, <1>3 DEF Handed
<1>5. r.step = step /\ r.job = j /\ (step = "call" => r.doc = j.m)
  OBVIOUS
<1>6. wk' = [wk EXCEPT ![w] = r]
  BY DEF Begin
<1>7. Sound(r)'
  <2> HIDE DEF r
  <2> QED BY <1>4, <1>5 DEF Sound, Held
<1> HIDE DEF r
<1> QED BY <1>2, <1>6, <1>7, WorkSet

LEMMA WorkGoesOn ==
  ASSUME ShapeInv, [Next]_vars, NEW w \in Workers, NEW step \in WorkerSteps \ {"idle"},
         JobTo(w, step),
         step \in {"generate", "fallback"} => wk[w].step \in {"generate", "fallback"},
         step \in Held \cup {"flags"} => wk[w].step \in Held
  PROVE  wk' \in [Workers -> WorkType] /\ WorkInv'
<1>1. wk[w] \in WorkType /\ WorkInv
  BY DEF ShapeInv, TypeOK, WorkType
<1>2. (\A m : Stored(m) => Stored(m)') /\ \A d : IsAi(d) => IsAi(d)'
  BY ChatGrows
<1>3. PICK x \in WorkType : x = wk[w]
  BY <1>1
<1> DEFINE r == [x EXCEPT !.step = step]
<1>4. r \in WorkType /\ r.step = step /\ r.job = x.job /\ r.doc = x.doc
  BY DEF WorkType
<1>5. wk' = [wk EXCEPT ![w] = r]
  BY <1>3 DEF JobTo
<1>6. Sound(x)
  BY <1>1, <1>3 DEF Sound, WorkInv
<1> HIDE DEF r
<1>7. Sound(r)'
  BY <1>2, <1>3, <1>4, <1>6 DEF Sound, Held
<1> QED BY <1>4, <1>5, <1>7, WorkSet

LEMMA WorkEnds ==
  ASSUME ShapeInv, [Next]_vars, NEW w \in Workers, JobEnds(w)
  PROVE  wk' \in [Workers -> WorkType] /\ WorkInv'
<1>1. NoJob \in WorkType /\ NoJob.step = "idle"
  BY DEF NoJob, WorkType, WorkerSteps, Jobs
<1>2. Sound(NoJob)'
  BY <1>1 DEF Sound, Held
<1> QED BY <1>1, <1>2, WorkSet DEF JobEnds

LEMMA WorkReplies ==
  ASSUME ShapeInv, [Next]_vars, NEW w \in Workers, InsertReply(w), ~JobEnds(w)
  PROVE  wk' \in [Workers -> WorkType] /\ WorkInv'
<1>1. /\ wk[w] \in WorkType /\ chat \in Seq(Doc) /\ chat' = Append(chat, ReplyOf(w))
      /\ wk' = [wk EXCEPT ![w].step = "confirm", ![w].doc = Len(chat')]
  <2>1. wk[w] \in WorkType /\ chat \in Seq(Doc)
    BY DEF ShapeInv, TypeOK, WorkType
  <2> QED BY <2>1, Zenon DEF InsertReply, ReplyOf
<1>2. /\ Len(chat') = Len(chat) + 1 /\ Len(chat') \in DOMAIN chat' /\ Len(chat') \in Nat
      /\ chat'[Len(chat')].from = "ai"
  BY <1>1, Appended DEF ReplyOf
<1>3. PICK n \in Nat : n = Len(chat')
  BY <1>2
<1>4. IsAi(n)'
  BY <1>2, <1>3 DEF IsAi
<1>5. PICK x \in WorkType : x = wk[w]
  BY <1>1
<1> DEFINE r == [x EXCEPT !.step = "confirm", !.doc = n]
<1>6. r \in WorkType /\ r.step = "confirm" /\ r.doc = n
  BY DEF WorkType, WorkerSteps
<1>7. wk' = [wk EXCEPT ![w] = r]
  BY <1>1, <1>3, <1>5
<1> HIDE DEF r
<1>8. Sound(r)'
  BY <1>4, <1>6 DEF Sound
<1> QED BY <1>6, <1>7, <1>8, WorkSet

LEMMA WorkKeeps ==
  ASSUME ShapeInv, [Next]_vars
  PROVE  wk' \in [Workers -> WorkType] /\ WorkInv'
<1> DEFINE Goal == wk' \in [Workers -> WorkType] /\ WorkInv'
<1>1. CASE UNCHANGED jobState
  <2>1. wk' = wk /\ wk \in [Workers -> WorkType] /\ WorkInv
    BY <1>1 DEF jobState, ShapeInv, TypeOK, WorkType
  <2>2. (\A m : Stored(m) => Stored(m)') /\ \A d : IsAi(d) => IsAi(d)'
    BY ChatGrows
  <2> QED BY <2>1, <2>2 DEF WorkInv
<1>2. ASSUME NEW w \in Workers, JobStep(w) \/ WorkerCrash(w) PROVE Goal
  <2>1. wk' = wk => Goal
    <3>1. wk \in [Workers -> WorkType] /\ WorkInv
      BY DEF ShapeInv, TypeOK, WorkType
    <3>2. (\A m : Stored(m) => Stored(m)') /\ \A d : IsAi(d) => IsAi(d)'
      BY ChatGrows
    <3> QED BY <3>1, <3>2 DEF WorkInv
  <2>2. JobEnds(w) => Goal
    BY WorkEnds
  <2>3. ASSUME NEW j \in BagToSet(queue),
               Decline(w, j) \/ TakeUp(w, j) \/ Outbound(w, j) \/ OutboundEnds(w, j) \/ StartWelcome(w, j)
        PROVE  Goal
    <3>0. j \in DOMAIN queue
      BY DEF BagToSet
    <3>1. CASE TakeUp(w, j)
      <4>1. wk' = wk \/ (Begin(w, j, "generate") /\ j.kind \in {"ai", "catch"})
        BY <3>1 DEF TakeUp, AnswerOf
      <4> QED BY <2>1, <3>0, <4>1, WorkBegins
    <3>2. CASE Outbound(w, j)
      <4>1. wk' = wk \/ (Begin(w, j, "call") /\ Handed(j))
        BY <3>2 DEF Outbound
      <4> QED BY <2>1, <3>0, <4>1, WorkBegins
    <3>3. CASE StartWelcome(w, j)
      <4>1. wk' = wk \/ Begin(w, j, "welcome")
        BY <3>3 DEF StartWelcome
      <4> QED BY <2>1, <3>0, <4>1, WorkBegins
    <3>4. Decline(w, j) \/ OutboundEnds(w, j) => wk' = wk
      BY DEF Decline, OutboundEnds
    <3> QED BY <2>1, <2>3, <3>1, <3>2, <3>3, <3>4
  <2>4. CASE GenerateFails(w)
    <3>1. wk' = wk \/ JobEnds(w) \/ (InJob(w, "generate") /\ JobTo(w, "fallback"))
      BY <2>4 DEF GenerateFails
    <3> QED BY <2>1, <2>2, <3>1, WorkGoesOn DEF InJob, WorkerSteps, Held
  <2>5. CASE Confirm(w)
    <3>1. JobEnds(w) \/ (InJob(w, "confirm") /\ JobTo(w, "call"))
      BY <2>5 DEF Confirm
    <3> QED BY <2>2, <3>1, WorkGoesOn DEF InJob, WorkerSteps, Held
  <2>6. ASSUME NEW answer, ProviderCall(w, answer) PROVE Goal
    <3>1. JobEnds(w) \/ (InJob(w, "call") /\ (JobTo(w, "store") \/ JobTo(w, "except")))
      BY <2>6 DEF ProviderCall
    <3> QED BY <2>2, <3>1, WorkGoesOn DEF InJob, WorkerSteps, Held
  <2>7. CASE StoreSent(w)
    <3>1. JobEnds(w) \/ (InJob(w, "store") /\ JobTo(w, "flags"))
      BY <2>7 DEF StoreSent
    <3> QED BY <2>2, <3>1, WorkGoesOn DEF InJob, WorkerSteps, Held
  <2>8. CASE InsertReply(w)
    BY <2>2, <2>8, WorkReplies
  <2>9. Flags(w) \/ Except(w) \/ SendWelcome(w) \/ WorkerCrash(w) => JobEnds(w)
    BY DEF Flags, Except, SendWelcome, WorkerCrash
  <2> QED BY <1>2, <2>2, <2>3, <2>4, <2>5, <2>6, <2>7, <2>8, <2>9 DEF JobStep
<1> QED BY <1>1, <1>2, OtherJobs

-----------------------------------------------------------------------------
(* The other variables *)

LEMMA ChatInvKeeps ==
  ASSUME ShapeInv, [Next]_vars
  PROVE  ChatInv'
<1>1. /\ chat \in Seq(Doc) /\ ChatInv /\ RequestInv /\ WorkInv
      /\ \A d \in DOMAIN chat : d \in DOMAIN chat' /\ SameDoc(d)
  BY ChatGrows DEF ShapeInv, TypeOK
<1>2. ASSUME NEW x, chat' = Append(chat, x), x.from = "customer" => x.trigger \in Inbound,
             x.from = "ai" => Stored(x.trigger)
      PROVE  ChatInv'
  <2>1. /\ DOMAIN chat' = DOMAIN chat \cup {Len(chat) + 1} /\ chat'[Len(chat) + 1] = x
        /\ \A d \in DOMAIN chat : chat'[d] = chat[d] /\ d < Len(chat) + 1
    BY <1>1, <1>2, Appended
  <2> QED BY <1>1, <1>2, <2>1 DEF ChatInv, Holds, Stored
<1>3. ASSUME DOMAIN chat' = DOMAIN chat PROVE ChatInv'
  BY <1>1, <1>3 DEF ChatInv, Holds, SameDoc
<1>4. ASSUME NEW h \in Handlers, Arrives(h) PROVE ChatInv'
  <2>1. hd[h].m \in Inbound /\ Received(hd[h].m).from = "customer" /\ Received(hd[h].m).trigger = hd[h].m
    BY <1>1, <1>4 DEF Arrives, RequestInv, Received
  <2> QED BY <1>2, <1>4, <2>1 DEF Arrives
<1>5. ASSUME NEW w \in Workers, Replies(w) PROVE ChatInv'
  <2>1. Stored(wk[w].job.m) /\ ReplyOf(w).from = "ai" /\ ReplyOf(w).trigger = wk[w].job.m
    BY <1>1, <1>5 DEF Replies, WorkInv, ReplyOf
  <2> QED BY <1>2, <1>5, <2>1 DEF Replies
<1>6. OursAlone => ChatInv'
  BY <1>2 DEF OursAlone, TeamReply, Notice
<1>7. Marked => DOMAIN chat' = DOMAIN chat
  BY <1>1 DEF Marked, SetStatus
<1> QED BY <1>3, <1>4, <1>5, <1>6, <1>7, ChatBy DEF ChatMoves

LEMMA ScenarioKeeps ==
  ASSUME ShapeInv, [Next]_vars
  PROVE  scenario' \in ScenarioTypes /\ scenario'.kinds = scenario.kinds
<1>1. scenario \in ScenarioTypes
  BY DEF ShapeInv, TypeOK
<1>2. ASSUME NEW b \in {"deliveries", "crashes", "calls", "time"}, Spend(b)
      PROVE  scenario' \in ScenarioTypes /\ scenario'.kinds = scenario.kinds
  BY <1>1, <1>2 DEF Spend, ScenarioTypes
<1>3. \A h \in Handlers : Deliver(h) => Spend("deliveries")
  BY DEF Deliver
<1>4. \A x : RequestCrash(x) \/ WorkerCrash(x) \/ ScanCrash(x) => Spend("crashes")
  BY DEF RequestCrash, WorkerCrash, ScanCrash
<1>5. \A x : TeamCall(x) => Spend("calls")
  BY DEF TeamCall
<1>6. \A x : Older(x) => Spend("time")
  BY DEF Older
<1>7. ASSUME NEW h \in Handlers, RequestStep(h) PROVE scenario' = scenario
  BY <1>7 DEF RequestStep, ClaimEvent, Screen, FindLead, InsertInbound, Window, Consent,
     ConsentBlacklist, ConfirmOptOut, Enqueue
<1>8. ASSUME NEW w \in Workers, JobStep(w) PROVE scenario' = scenario
  BY <1>8 DEF JobStep, Decline, TakeUp, Outbound, OutboundEnds, StartWelcome, AnswerOf,
     GenerateFails, InsertReply, Confirm, ProviderCall, StoreSent, Flags, Except, SendWelcome, jobRest
<1>9. ASSUME NEW s, ScanStep(s) PROVE scenario' = scenario
  BY <1>9 DEF ScanStep, Scan, ScanWait, ScanRetry, EnqueueCatchUp, ScanClear
<1>10. Write \/ ListMissing \/ Replay \/ CoolDown \/ FailStale \/ (\E m : Fade(m))
         => scenario' = scenario
  BY DEF Write, ListMissing, Fade, Replay, CoolDown, FailStale
<1>11. UNCHANGED vars => scenario' = scenario
  BY DEF vars
<1>12. scenario' = scenario \/ \E b \in {"deliveries", "crashes", "calls", "time"} : Spend(b)
  BY <1>3, <1>4, <1>5, <1>6, <1>7, <1>8, <1>9, <1>10, <1>11 DEF Next, Step
<1> QED BY <1>1, <1>2, <1>12

(* What the jobs keep *)
LEMMA JobStateKeeps ==
  ASSUME ShapeInv, [Next]_vars
  PROVE  /\ claims' \subseteq Jobs /\ answers' \in [0..MaxInbound -> Nat]
         /\ holding' \in BOOLEAN /\ excused' \subseteq Inbound
<1>1. /\ claims \subseteq Jobs /\ answers \in [0..MaxInbound -> Nat] /\ holding \in BOOLEAN
      /\ excused \subseteq Inbound /\ BagToSet(queue) \subseteq Jobs
      /\ 0 \in 0..MaxInbound /\ Inbound \subseteq 0..MaxInbound
  BY ConversationBoundsAssumption DEF ShapeInv, TypeOK, Inbound
<1>2. \A d : IsAi(d) => chat[d].trigger \in Inbound
  BY DEF ShapeInv, ChatInv, IsAi, Holds
<1>3. ASSUME NEW w \in Workers, wk[w].step \in Held PROVE chat[wk[w].doc].trigger \in Inbound
  BY <1>2, <1>3 DEF ShapeInv, WorkInv
<1>4. ASSUME NEW w \in Workers, JobStep(w) \/ WorkerCrash(w) PROVE claims' \subseteq Jobs
  BY <1>1, <1>4 DEF JobStep, WorkerCrash, Decline, TakeUp, Outbound, OutboundEnds, StartWelcome,
     AnswerOf, GenerateFails, InsertReply, Confirm, ProviderCall, StoreSent, Flags, Except, SendWelcome
<1>5. ASSUME NEW w \in Workers, JobStep(w) \/ WorkerCrash(w) PROVE holding' \in BOOLEAN
  BY <1>1, <1>5 DEF JobStep, WorkerCrash, Decline, TakeUp, Outbound, OutboundEnds, StartWelcome,
     AnswerOf, GenerateFails, InsertReply, Confirm, ProviderCall, StoreSent, Flags, Except, SendWelcome
<1>6. ASSUME NEW w \in Workers, JobStep(w) \/ WorkerCrash(w) PROVE answers' \in [0..MaxInbound -> Nat]
  <2>1. ASSUME NEW answer, ProviderCall(w, answer) PROVE answers' \in [0..MaxInbound -> Nat]
    <3>1. chat[wk[w].doc].trigger \in 0..MaxInbound
      BY <1>1, <1>3, <2>1 DEF ProviderCall, InJob, Held
    <3> QED BY <1>1, <2>1, <3>1 DEF ProviderCall
  <2>2. SendWelcome(w) => answers' \in [0..MaxInbound -> Nat]
    BY <1>1 DEF SendWelcome
  <2> QED BY <1>1, <1>6, <2>1, <2>2 DEF JobStep, WorkerCrash, Decline, TakeUp, Outbound, OutboundEnds,
           StartWelcome, AnswerOf, GenerateFails, InsertReply, Confirm, StoreSent, Flags, Except
<1>7. ASSUME NEW w \in Workers, JobStep(w) \/ WorkerCrash(w) PROVE excused' \subseteq Inbound
  <2>1. ASSUME NEW answer, ProviderCall(w, answer) PROVE excused' \subseteq Inbound
    BY <1>1, <1>3, <2>1 DEF ProviderCall, InJob, Held
  <2>2. WorkerCrash(w) => excused' \subseteq Inbound
    BY <1>1, <1>3 DEF WorkerCrash, InJob, Held
  <2>3. ASSUME NEW j \in BagToSet(queue), TakeUp(w, j) PROVE excused' \subseteq Inbound
    <3>1. j.m \in Inbound
      BY <1>1, <2>3 DEF TakeUp, AnswerOf, Jobs
    <3> QED BY <1>1, <2>3, <3>1 DEF TakeUp
  <2> QED BY <1>1, <1>7, <2>1, <2>2, <2>3 DEF JobStep, Decline, Outbound, OutboundEnds,
           StartWelcome, AnswerOf, GenerateFails, InsertReply, Confirm, StoreSent, Flags, Except, SendWelcome
<1>8. UNCHANGED jobState => /\ claims' \subseteq Jobs /\ answers' \in [0..MaxInbound -> Nat]
                            /\ holding' \in BOOLEAN /\ excused' \subseteq Inbound
  BY <1>1 DEF jobState
<1> QED BY <1>4, <1>5, <1>6, <1>7, <1>8, OtherJobs

LEMMA RestKeeps ==
  ASSUME ShapeInv, [Next]_vars
  PROVE  /\ blacklist' \in BOOLEAN /\ written' \in 0..MaxInbound /\ age' \in [Inbound -> Ages]
         /\ missing' \subseteq Inbound /\ faded' \subseteq Inbound
         /\ dropped' \subseteq Inbound /\ grace' \subseteq Workers
<1>1. /\ blacklist \in BOOLEAN /\ written \in 0..MaxInbound /\ age \in [Inbound -> Ages]
      /\ missing \subseteq Inbound /\ faded \subseteq Inbound
      /\ dropped \subseteq Inbound /\ grace \subseteq Workers
      /\ MaxInbound \in Nat /\ Len(scenario.kinds) <= MaxInbound /\ RequestInv
      /\ Len(scenario.kinds) \in Nat /\ 1..written \subseteq Inbound
  BY ConversationBoundsAssumption DEF ShapeInv, TypeOK, ScenarioTypes, Inbound
<1> DEFINE rest == <<blacklist, written, age, missing, faded, dropped>>
           Good == /\ blacklist' \in BOOLEAN /\ written' \in 0..MaxInbound /\ age' \in [Inbound -> Ages]
                   /\ missing' \subseteq Inbound /\ faded' \subseteq Inbound
                   /\ dropped' \subseteq Inbound
<1>2. UNCHANGED rest => Good
  BY <1>1
<1>3. ASSUME NEW w \in Workers, JobStep(w) \/ WorkerCrash(w) PROVE UNCHANGED rest
  BY <1>3 DEF JobStep, WorkerCrash, Decline, TakeUp, Outbound, OutboundEnds, StartWelcome,
     AnswerOf, GenerateFails, InsertReply, Confirm, ProviderCall, StoreSent, Flags, Except,
     SendWelcome, jobRest, envVars
<1>4. ASSUME NEW h \in Handlers, RequestStep(h) \/ RequestCrash(h) \/ Deliver(h) PROVE Good
  <2>1. hd[h].step # "idle" => hd[h].m \in Inbound
    BY <1>1 DEF RequestInv
  <2>2. CASE Screen(h)
    BY <1>1, <2>1, <2>2 DEF Screen, InReq, jobVars
  <2>3. CASE RequestCrash(h)
    BY <1>1, <2>1, <2>3 DEF RequestCrash, InReq, jobVars
  <2>4. CASE ConsentBlacklist(h)
    BY <1>1, <2>4 DEF ConsentBlacklist, reqRest
  <2>5. CASE ClaimEvent(h) \/ FindLead(h) \/ InsertInbound(h) \/ Window(h) \/ Consent(h)
             \/ ConfirmOptOut(h) \/ Enqueue(h) \/ Deliver(h)
    BY <1>2, <2>5 DEF ClaimEvent, FindLead, InsertInbound, Window, Consent, ConfirmOptOut,
       Enqueue, Deliver, reqRest
  <2> QED BY <1>4, <2>2, <2>3, <2>4, <2>5 DEF RequestStep
<1>5. ASSUME NEW s, ScanStep(s) \/ ScanCrash(s) PROVE UNCHANGED rest
  BY <1>5 DEF ScanStep, ScanCrash, Scan, ScanWait, ScanRetry, EnqueueCatchUp, ScanClear, scanRest
<1>6. ASSUME NEW op, TeamCall(op) PROVE Good
  BY <1>1, <1>6 DEF TeamCall, Blacklisted
<1>7. ASSUME Write PROVE Good
  BY <1>1, <1>7 DEF Write, jobVars
<1>8. ASSUME ListMissing \/ \E m \in Inbound : Fade(m) PROVE Good
  BY <1>1, <1>8 DEF ListMissing, Fade, jobVars
<1>9. ASSUME Replay PROVE Good
  BY <1>1, <1>9 DEF Replay
<1>10. ASSUME CoolDown \/ FailStale PROVE Good
  BY <1>2, <1>10 DEF CoolDown, FailStale, scanRest, envVars
<1>11. ASSUME NEW m \in Inbound, Older(m) PROVE Good
  <2>1. NextAge(age[m]) \in Ages
    BY DEF NextAge, Ages
  <2> QED BY <1>1, <1>11, <2>1 DEF Older, Fade, scanRest
<1>12. UNCHANGED vars => UNCHANGED rest
  BY DEF vars
<1>13. Good
  <2> HIDE DEF Good, rest
  <2> QED BY <1>2, <1>3, <1>4, <1>5, <1>6, <1>7, <1>8, <1>9, <1>10, <1>11, <1>12 DEF Next, Step
<1>14. grace' \subseteq Workers
  BY <1>1 DEF Next, Watch, vars
<1> QED BY <1>13, <1>14

LEMMA ShapeStep == ShapeInv /\ [Next]_vars => ShapeInv'
<1> SUFFICES ASSUME ShapeInv, [Next]_vars PROVE ShapeInv'
  OBVIOUS
<1>1. chat' \in Seq(Doc)
  BY ChatGrows
<1>2. TypeOK'
  BY <1>1, RequestKeeps, ScanKeeps, LeadKeeps, QueueKeeps, WorkKeeps, ScenarioKeeps, JobStateKeeps,
     RestKeeps DEF TypeOK, ReqType, ScanType, WorkType
<1>3. Len(scenario'.kinds) <= MaxInbound
  BY ScenarioKeeps DEF ShapeInv
<1> QED BY <1>2, <1>3, ChatInvKeeps, RequestKeeps, ScanKeeps, QueueKeeps, WorkKeeps DEF ShapeInv

(* Every variable of the chat holds a value of its type, for any handlers, *)
(* workers, scans, messages and scenarios: above all, every job, reply and *)
(* scan refers to a message or document that is in the chat.               *)
THEOREM TypeCorrect == Spec => []TypeOK
<1>1. ShapeInv => TypeOK
  BY DEF ShapeInv
<1> QED BY <1>1, ShapeInit, ShapeStep, PTL DEF Spec

-----------------------------------------------------------------------------
(* The last look at the lead *)

(* Who is past its last look has leave to send.                            *)
GraceInv == \A w \in Workers : wk[w].step = "call" => w \in grace

LEMMA OnlyOwn ==
  ASSUME ShapeInv, NEW v \in Workers, JobStep(v) \/ WorkerCrash(v)
  PROVE  \A w \in Workers : w # v => wk'[w] = wk[w]
<1>1. wk \in [Workers -> WorkType]
  BY DEF ShapeInv, TypeOK, WorkType
<1>2. /\ \A step : JobTo(v, step) => \A w \in Workers : w # v => wk'[w] = wk[w]
      /\ \A j, step : Begin(v, j, step) => \A w \in Workers : w # v => wk'[w] = wk[w]
      /\ JobEnds(v) => \A w \in Workers : w # v => wk'[w] = wk[w]
  BY <1>1 DEF JobTo, Begin, JobEnds
<1>3. InsertReply(v) => \A w \in Workers : w # v => wk'[w] = wk[w]
  BY <1>1, <1>2 DEF InsertReply
<1>4. \/ wk' = wk \/ JobEnds(v) \/ (\E step : JobTo(v, step)) \/ (\E j, step : Begin(v, j, step))
      \/ InsertReply(v)
  <2>1. ASSUME NEW j \in BagToSet(queue),
               Decline(v, j) \/ TakeUp(v, j) \/ Outbound(v, j) \/ OutboundEnds(v, j) \/ StartWelcome(v, j)
        PROVE  wk' = wk \/ \E i, step : Begin(v, i, step)
    BY <2>1 DEF Decline, TakeUp, Outbound, OutboundEnds, StartWelcome, AnswerOf
  <2>2. ASSUME GenerateFails(v) \/ Confirm(v) \/ (\E answer : ProviderCall(v, answer)) \/ StoreSent(v)
        PROVE  wk' = wk \/ JobEnds(v) \/ \E step : JobTo(v, step)
    BY <2>2 DEF GenerateFails, Confirm, ProviderCall, StoreSent
  <2>3. Flags(v) \/ Except(v) \/ SendWelcome(v) \/ WorkerCrash(v) => JobEnds(v)
    BY DEF Flags, Except, SendWelcome, WorkerCrash
  <2> QED BY <2>1, <2>2, <2>3 DEF JobStep
<1> QED BY <1>2, <1>3, <1>4

(* A worker gets past its last look only when the lead as read allows it.  *)
LEMMA Entered ==
  ASSUME ShapeInv, [Next]_vars, NEW w \in Workers, wk'[w].step = "call", wk[w].step # "call"
  PROVE  ~Stopped(w, lead)
<1>1. wk \in [Workers -> WorkType] /\ WorkInv
  BY DEF ShapeInv, TypeOK, WorkType
<1>2. JobStep(w) \/ WorkerCrash(w)
  BY OtherJobs, OnlyOwn DEF jobState
<1>3. ~JobEnds(w) /\ \A step : JobTo(w, step) => step = "call"
  BY <1>1 DEF JobEnds, NoJob, JobTo, WorkType
<1>4. \A j, step : Begin(w, j, step) => step = "call"
  BY <1>1 DEF Begin
<1>5. (\E j \in BagToSet(queue) : Outbound(w, j)) \/ Confirm(w)
  <2>1. ASSUME NEW j \in BagToSet(queue),
               Decline(w, j) \/ TakeUp(w, j) \/ OutboundEnds(w, j) \/ StartWelcome(w, j)
        PROVE  FALSE
    <3>1. wk' = wk \/ Begin(w, j, "generate") \/ Begin(w, j, "welcome")
      BY <2>1 DEF Decline, TakeUp, OutboundEnds, StartWelcome, AnswerOf
    <3> QED BY <1>4, <3>1
  <2>2. ASSUME GenerateFails(w) \/ (\E answer : ProviderCall(w, answer)) \/ StoreSent(w)
        PROVE  FALSE
    <3>1. wk' = wk \/ JobEnds(w) \/ JobTo(w, "fallback") \/ JobTo(w, "store") \/ JobTo(w, "except")
          \/ JobTo(w, "flags")
      BY <2>2 DEF GenerateFails, ProviderCall, StoreSent
    <3> QED BY <1>3, <3>1
  <2>3. Flags(w) \/ Except(w) \/ SendWelcome(w) \/ WorkerCrash(w) => JobEnds(w)
    BY DEF Flags, Except, SendWelcome, WorkerCrash
  <2>4. ~InsertReply(w)
    <3>1. InsertReply(w) => JobEnds(w)
            \/ wk' = [wk EXCEPT ![w].step = "confirm", ![w].doc = Len(chat')]
      BY DEF InsertReply
    <3>2. wk[w] \in WorkType
      BY <1>1
    <3>3. \A n : wk' = [wk EXCEPT ![w].step = "confirm", ![w].doc = n] => wk'[w].step = "confirm"
      BY <1>1, <3>2 DEF WorkType
    <3> QED BY <1>3, <3>1, <3>3
  <2> QED BY <1>2, <1>3, <2>1, <2>2, <2>3, <2>4 DEF JobStep
<1>6. CASE Confirm(w)
  <2>1. MaySend(lead) /\ ~ai_suppressed(lead)
    BY <1>3, <1>6 DEF Confirm
  <2> QED BY <2>1 DEF MaySend, Stopped
<1>7. ASSUME NEW j \in BagToSet(queue), Outbound(w, j) PROVE ~Stopped(w, lead)
  <2>1. MaySend(lead) /\ wk[w].step = "idle"
    BY <1>7 DEF Outbound, InJob
  <2> QED BY <1>1, <2>1 DEF MaySend, Stopped, WorkInv, NoJob
<1> QED BY <1>5, <1>6, <1>7

LEMMA GraceStep == ShapeInv /\ GraceInv /\ [Next]_vars => GraceInv'
<1> SUFFICES ASSUME ShapeInv, GraceInv, [Next]_vars, NEW w \in Workers, wk'[w].step = "call"
             PROVE  w \in grace'
  BY DEF GraceInv
<1>1. CASE UNCHANGED vars
  BY <1>1 DEF vars, GraceInv
<1>2. CASE Watch
  BY <1>2, Entered DEF Watch, Past, GraceInv
<1> QED BY <1>1, <1>2 DEF Next

(* Once the team has taken a chat over, or the customer has opted out, no  *)
(* job sends but one that had looked at the lead before: the look and what *)
(* leads to the call are one step, for generate_and_send_ai_reply and for  *)
(* send_outbound_message.                                                  *)
THEOREM TeamHasTheWord == Spec => NobodyTalkedOver
<1>1. Init => GraceInv
  BY DEF Init, GraceInv, NoJob
<1>2. ASSUME ShapeInv, GraceInv
      PROVE  [\A w \in Workers : wk[w].step = "call" /\ wk'[w].step \in {"store", "except"} =>
                 w \in grace \/ ~Stopped(w, lead)]_vars
  BY <1>2 DEF GraceInv
<1> QED BY <1>1, <1>2, ShapeInit, ShapeStep, GraceStep, PTL DEF Spec, NobodyTalkedOver

-----------------------------------------------------------------------------
(* Keys that are claimed stay claimed (for their time to live) *)

StoredOnce == \A d, e \in DOMAIN chat :
  /\ chat[d].from = "customer" /\ chat[e].from = "customer"
  /\ chat[d].trigger = chat[e].trigger
  => d = e

(* A real reply of the original job is there, or being made, only if the   *)
(* job's key is claimed.                                                   *)
KeyInv ==
  /\ \A d \in DOMAIN chat :
       chat[d].from = "ai" /\ ~chat[d].fallback /\ ~chat[d].catchup
         => Job("ai", chat[d].trigger) \in claims
  /\ \A w \in Workers : wk[w].step = "generate" => wk[w].job \in claims

Welcome == Job("welcome", 0)

WelcomeInv ==
  /\ answers[0] <= 1 /\ (Welcome \notin claims => answers[0] = 0)
  /\ \A w \in Workers : wk[w].step = "welcome" =>
       /\ answers[0] = 0 /\ Welcome \in claims
       /\ \A v \in Workers : wk[v].step = "welcome" => v = w

LEMMA ClaimsGrow ==
  ASSUME [Next]_vars
  PROVE  claims \subseteq claims'
<1>1. ASSUME NEW w \in Workers, JobStep(w) \/ WorkerCrash(w) PROVE claims \subseteq claims'
  BY <1>1 DEF JobStep, WorkerCrash, Decline, TakeUp, Outbound, OutboundEnds, StartWelcome,
     AnswerOf, GenerateFails, InsertReply, Confirm, ProviderCall, StoreSent, Flags, Except, SendWelcome
<1> QED BY <1>1, OtherJobs DEF jobState

(* A worker that generates has generated before, or just claimed its key.  *)
LEMMA GeneratesBy ==
  ASSUME ShapeInv, [Next]_vars, NEW w \in Workers, wk'[w].step = "generate"
  PROVE  \/ wk[w].step = "generate" /\ wk'[w].job = wk[w].job
         \/ \E j \in DOMAIN queue : TakeUp(w, j) /\ Begin(w, j, "generate")
<1>1. wk \in [Workers -> WorkType]
  BY DEF ShapeInv, TypeOK, WorkType
<1>2. CASE UNCHANGED jobState
  BY <1>2 DEF jobState
<1>3. CASE JobStep(w) \/ WorkerCrash(w)
  <2>1. ~JobEnds(w) /\ \A step : JobTo(w, step) => step = "generate"
    BY <1>1 DEF JobEnds, NoJob, JobTo, WorkType
  <2>2. \A j, step : Begin(w, j, step) => step = "generate"
    BY <1>1 DEF Begin
  <2>3. ASSUME NEW j \in BagToSet(queue),
               Decline(w, j) \/ Outbound(w, j) \/ OutboundEnds(w, j) \/ StartWelcome(w, j)
        PROVE  wk' = wk
    <3>1. wk' = wk \/ Begin(w, j, "call") \/ Begin(w, j, "welcome")
      BY <2>3 DEF Decline, Outbound, OutboundEnds, StartWelcome
    <3> QED BY <2>2, <3>1
  <2>4. ASSUME Confirm(w) \/ (\E answer : ProviderCall(w, answer)) \/ StoreSent(w)
        PROVE  FALSE
    <3>1. JobEnds(w) \/ JobTo(w, "call") \/ JobTo(w, "store") \/ JobTo(w, "except")
          \/ JobTo(w, "flags")
      BY <2>4 DEF Confirm, ProviderCall, StoreSent
    <3> QED BY <2>1, <3>1
  <2>5. ASSUME GenerateFails(w) PROVE wk' = wk
    <3>1. wk' = wk \/ JobEnds(w) \/ JobTo(w, "fallback")
      BY <2>5 DEF GenerateFails
    <3> QED BY <2>1, <3>1
  <2>6. Flags(w) \/ Except(w) \/ SendWelcome(w) \/ WorkerCrash(w) => JobEnds(w)
    BY DEF Flags, Except, SendWelcome, WorkerCrash
  <2>7. ~InsertReply(w)
    <3>1. InsertReply(w) => JobEnds(w)
            \/ wk' = [wk EXCEPT ![w].step = "confirm", ![w].doc = Len(chat')]
      BY DEF InsertReply
    <3>2. wk[w] \in WorkType
      BY <1>1
    <3>3. \A n : wk' = [wk EXCEPT ![w].step = "confirm", ![w].doc = n] => wk'[w].step = "confirm"
      BY <1>1, <3>2 DEF WorkType
    <3> QED BY <2>1, <3>1, <3>3
  <2>8. ASSUME NEW j \in BagToSet(queue), TakeUp(w, j)
        PROVE  wk' = wk \/ Begin(w, j, "generate")
    BY <2>8 DEF TakeUp
  <2> QED BY <1>3, <2>1, <2>3, <2>4, <2>5, <2>6, <2>7, <2>8 DEF JobStep, BagToSet
<1> QED BY <1>2, <1>3, OtherJobs, OnlyOwn

LEMMA OnceStep == ShapeInv /\ StoredOnce /\ [Next]_vars => StoredOnce'
<1> SUFFICES ASSUME ShapeInv, StoredOnce, [Next]_vars PROVE StoredOnce'
  OBVIOUS
<1>1. chat \in Seq(Doc) /\ \A d \in DOMAIN chat : d \in DOMAIN chat' /\ SameDoc(d)
  BY ChatGrows DEF ShapeInv, TypeOK
<1>2. ASSUME NEW x, chat' = Append(chat, x), x.from = "customer" => ~Stored(x.trigger)
      PROVE  StoredOnce'
  <2>1. /\ DOMAIN chat' = DOMAIN chat \cup {Len(chat) + 1} /\ chat'[Len(chat) + 1] = x
        /\ \A d \in DOMAIN chat : chat'[d] = chat[d]
    BY <1>1, <1>2, Appended
  <2> QED BY <1>2, <2>1 DEF StoredOnce, Stored, Holds
<1>3. ASSUME DOMAIN chat' = DOMAIN chat PROVE StoredOnce'
  BY <1>1, <1>3 DEF StoredOnce, SameDoc
<1>4. ASSUME NEW h \in Handlers, Arrives(h) PROVE StoredOnce'
  BY <1>2, <1>4 DEF Arrives, Received
<1>5. ASSUME NEW w \in Workers, Replies(w) PROVE StoredOnce'
  BY <1>2, <1>5 DEF Replies, ReplyOf
<1>6. OursAlone => StoredOnce'
  BY <1>2 DEF OursAlone, TeamReply, Notice
<1>7. Marked => DOMAIN chat' = DOMAIN chat
  BY <1>1 DEF Marked, SetStatus
<1> QED BY <1>3, <1>4, <1>5, <1>6, <1>7, ChatBy DEF ChatMoves

LEMMA KeyStep == ShapeInv /\ KeyInv /\ [Next]_vars => KeyInv'
<1> SUFFICES ASSUME ShapeInv, KeyInv, [Next]_vars PROVE KeyInv'
  OBVIOUS
<1>1. chat \in Seq(Doc) /\ \A d \in DOMAIN chat : d \in DOMAIN chat' /\ SameDoc(d)
  BY ChatGrows DEF ShapeInv, TypeOK
<1>2. \A w \in Workers : wk'[w].step = "generate" => wk'[w].job \in claims'
  <2>1. wk \in [Workers -> WorkType]
    BY DEF ShapeInv, TypeOK, WorkType
  <2>2. ASSUME NEW w \in Workers, NEW j \in DOMAIN queue, TakeUp(w, j), Begin(w, j, "generate")
        PROVE  wk'[w].job \in claims'
    <3>1. wk'[w].job = j
      BY <2>1, <2>2 DEF Begin
    <3> QED BY <2>2, <3>1 DEF TakeUp
  <2> QED BY <2>2, GeneratesBy, ClaimsGrow DEF KeyInv
<1> DEFINE Keyed(d) == chat'[d].from = "ai" /\ ~chat'[d].fallback /\ ~chat'[d].catchup
                         => Job("ai", chat'[d].trigger) \in claims'
<1>3. \A d \in DOMAIN chat : Keyed(d)
  BY <1>1, ClaimsGrow DEF KeyInv, SameDoc
<1>4. ASSUME NEW x, chat' = Append(chat, x),
             x.from = "ai" /\ ~x.fallback /\ ~x.catchup => Job("ai", x.trigger) \in claims
      PROVE  \A d \in DOMAIN chat' : Keyed(d)
  <2>1. DOMAIN chat' = DOMAIN chat \cup {Len(chat) + 1} /\ chat'[Len(chat) + 1] = x
    BY <1>1, <1>4, Appended
  <2> QED BY <1>3, <1>4, <2>1, ClaimsGrow
<1>5. ASSUME NEW w \in Workers, Replies(w) PROVE \A d \in DOMAIN chat' : Keyed(d)
  <2>1. wk[w].job \in Jobs /\ WorkInv
    BY DEF ShapeInv, TypeOK
  <2>2. CASE wk[w].step = "generate" /\ wk[w].job.kind # "catch"
    <3>1. wk[w].job \in claims /\ wk[w].job.kind = "ai"
      BY <2>1, <2>2 DEF KeyInv, WorkInv
    <3>2. wk[w].job = Job("ai", wk[w].job.m)
      BY <2>1, <3>1 DEF Jobs, Job
    <3>3. ReplyOf(w).trigger = wk[w].job.m
      BY DEF ReplyOf
    <3> HIDE DEF Keyed
    <3> QED BY <1>4, <1>5, <3>1, <3>2, <3>3 DEF Replies
  <2>3. CASE wk[w].job.kind = "catch"
    <3>1. ReplyOf(w).catchup
      BY <2>3 DEF ReplyOf, IsCatchUp
    <3> HIDE DEF Keyed
    <3> QED BY <1>4, <1>5, <3>1 DEF Replies
  <2>4. CASE wk[w].step = "fallback"
    <3>1. ReplyOf(w).fallback
      BY <2>4 DEF ReplyOf, InJob
    <3> HIDE DEF Keyed
    <3> QED BY <1>4, <1>5, <3>1 DEF Replies
  <2> QED BY <1>5, <2>2, <2>3, <2>4 DEF Replies
<1>6. ASSUME NEW h \in Handlers, Arrives(h) PROVE \A d \in DOMAIN chat' : Keyed(d)
  BY <1>4, <1>6 DEF Arrives, Received
<1>7. OursAlone => \A d \in DOMAIN chat' : Keyed(d)
  BY <1>4 DEF OursAlone, TeamReply, Notice
<1>8. Marked => DOMAIN chat' = DOMAIN chat
  BY <1>1 DEF Marked, SetStatus
<1>9. \A d \in DOMAIN chat' : Keyed(d)
  BY <1>3, <1>5, <1>6, <1>7, <1>8, ChatBy DEF ChatMoves
<1> QED BY <1>2, <1>9 DEF KeyInv

LEMMA WelcomeStep == ShapeInv /\ WelcomeInv /\ [Next]_vars => WelcomeInv'
<1> SUFFICES ASSUME ShapeInv, WelcomeInv, [Next]_vars PROVE WelcomeInv'
  OBVIOUS
<1>1. /\ wk \in [Workers -> WorkType] /\ answers \in [0..MaxInbound -> Nat]
      /\ 0 \in 0..MaxInbound /\ wk' \in [Workers -> WorkType]
  <2>1. wk \in [Workers -> WorkType] /\ answers \in [0..MaxInbound -> Nat] /\ 0 \in 0..MaxInbound
    BY ConversationBoundsAssumption DEF ShapeInv, TypeOK, WorkType
  <2> QED BY <2>1, WorkKeeps
<1>2. ASSUME answers'[0] = answers[0],
             \A w \in Workers : wk'[w].step = "welcome" => wk[w].step = "welcome"
      PROVE  WelcomeInv'
  BY <1>2, ClaimsGrow DEF WelcomeInv
<1>3. CASE UNCHANGED jobState
  BY <1>2, <1>3 DEF jobState
<1>4. ASSUME NEW w \in Workers, JobStep(w) \/ WorkerCrash(w) PROVE WelcomeInv'
  <2>1. \A v \in Workers : v # w => wk'[v] = wk[v]
    BY <1>4, OnlyOwn
  <2>2. JobEnds(w) => wk'[w].step # "welcome"
    BY <1>1 DEF JobEnds, NoJob
  <2>3. \A step : JobTo(w, step) => wk'[w].step = step
    BY <1>1 DEF JobTo, WorkType
  <2>4. \A j, step : Begin(w, j, step) => wk'[w].step = step
    BY <1>1 DEF Begin
  <2>5. ASSUME NEW j \in BagToSet(queue),
               Decline(w, j) \/ TakeUp(w, j) \/ Outbound(w, j) \/ OutboundEnds(w, j)
        PROVE  WelcomeInv'
    <3>1. wk' = wk \/ Begin(w, j, "generate") \/ Begin(w, j, "call")
      BY <2>5 DEF Decline, TakeUp, Outbound, OutboundEnds
    <3>2. answers' = answers
      BY <2>5 DEF Decline, TakeUp, Outbound, OutboundEnds, AnswerOf
    <3> QED BY <1>2, <2>1, <2>4, <3>1, <3>2
  <2>6. ASSUME GenerateFails(w) \/ Confirm(w) \/ StoreSent(w) \/ Flags(w) \/ Except(w) \/ WorkerCrash(w)
        PROVE  WelcomeInv'
    <3>1. wk' = wk \/ JobEnds(w) \/ \E step : step # "welcome" /\ JobTo(w, step)
      BY <2>6 DEF GenerateFails, Confirm, StoreSent, Flags, Except, WorkerCrash
    <3>2. answers' = answers
      BY <2>6 DEF GenerateFails, Confirm, StoreSent, Flags, Except, WorkerCrash
    <3> QED BY <1>2, <2>1, <2>2, <2>3, <3>1, <3>2
  <2>7. ASSUME NEW answer, ProviderCall(w, answer) PROVE WelcomeInv'
    <3>1. JobEnds(w) \/ JobTo(w, "store") \/ JobTo(w, "except")
      BY <2>7 DEF ProviderCall
    <3>2. chat[wk[w].doc].trigger # 0
      BY <2>7, ConversationBoundsAssumption
         DEF ProviderCall, InJob, Held, ShapeInv, WorkInv, ChatInv, IsAi, Holds, Inbound
    <3>3. answers'[0] = answers[0]
      BY <1>1, <2>7, <3>2 DEF ProviderCall
    <3> QED BY <1>2, <2>1, <2>2, <2>3, <3>1, <3>3
  <2>8. CASE InsertReply(w)
    <3>1. answers' = answers
      BY <2>8 DEF InsertReply
    <3>2. wk' = [wk EXCEPT ![w].step = "confirm", ![w].doc = Len(chat')] => wk'[w].step = "confirm"
      BY <1>1 DEF WorkType
    <3>3. JobEnds(w) \/ wk' = [wk EXCEPT ![w].step = "confirm", ![w].doc = Len(chat')]
      BY <2>8 DEF InsertReply
    <3> QED BY <1>2, <2>1, <2>2, <3>1, <3>2, <3>3
  <2>9. ASSUME NEW j \in BagToSet(queue), StartWelcome(w, j) PROVE WelcomeInv'
    <3>1. j \in Jobs /\ j.kind = "welcome" /\ answers' = answers
      BY <2>9 DEF StartWelcome, ShapeInv, TypeOK
    <3>2. j = Welcome
      BY <3>1 DEF Jobs, Welcome, Job
    <3>3. CASE wk' = wk
      BY <1>2, <3>1, <3>3
    <3>4. CASE j \notin claims /\ claims' = claims \cup {j} /\ Begin(w, j, "welcome")
      <4>1. answers[0] = 0 /\ \A v \in Workers : wk[v].step # "welcome"
        BY <3>2, <3>4 DEF WelcomeInv
      <4>2. \A v \in Workers : wk'[v].step = "welcome" => v = w
        BY <2>1, <4>1
      <4> QED BY <3>1, <3>2, <3>4, <4>1, <4>2 DEF WelcomeInv
    <3> QED BY <2>9, <3>3, <3>4 DEF StartWelcome
  <2>10. CASE SendWelcome(w)
    <3>1. answers[0] = 0 /\ Welcome \in claims /\ \A v \in Workers : wk[v].step = "welcome" => v = w
      BY <2>10 DEF SendWelcome, InJob, WelcomeInv
    <3>2. JobEnds(w) /\ claims' = claims /\ (answers'[0] = answers[0] \/ answers'[0] = answers[0] + 1)
      BY <1>1, <2>10 DEF SendWelcome
    <3>3. \A v \in Workers : wk'[v].step # "welcome"
      BY <2>1, <2>2, <3>1, <3>2
    <3> QED BY <3>1, <3>2, <3>3 DEF WelcomeInv
  <2> QED BY <1>4, <2>5, <2>6, <2>7, <2>8, <2>9, <2>10 DEF JobStep
<1> QED BY <1>3, <1>4, OtherJobs

-----------------------------------------------------------------------------
(* One attempt at a time *)

Tries(w, d) == wk[w].step \in Held /\ wk[w].doc = d
Sends(d)    == Job("send", d) \in DOMAIN queue /\ Job("send", d) \notin claims
Resends(d)  == Job("resend", d) \in DOMAIN queue

(* A worker that has the document, a first attempt that may still claim    *)
(* its key, or a retry: there is at most one, and then it is queued.       *)
OneTry(d) ==
  /\ \A v, w \in Workers : Tries(v, d) /\ Tries(w, d) => v = w
  /\ \A w \in Workers : Tries(w, d) => ~Sends(d) /\ ~Resends(d)
  /\ Sends(d) => ~Resends(d)
  /\ Resends(d) => queue[Job("resend", d)] = 1
  /\ (Sends(d) \/ Resends(d) \/ \E w \in Workers : Tries(w, d)) => chat[d].status = "queued"

OneAttempt == \A d \in DOMAIN chat : OneTry(d)

(* A step has nothing to do with a document's attempts.                    *)
SameTries(d) ==
  /\ chat'[d].status = chat[d].status
  /\ \A w \in Workers : Tries(w, d)' <=> Tries(w, d)
  /\ Sends(d)' <=> Sends(d)
  /\ Resends(d)' <=> Resends(d)
  /\ Resends(d) => queue'[Job("resend", d)] = queue[Job("resend", d)]

LEMMA OneTrySame ==
  ASSUME NEW d, OneTry(d), SameTries(d)
  PROVE  OneTry(d)'
  BY DEF OneTry, SameTries, Resends

(* Nobody has a document that is not there.                                *)
LEMMA NobodyHasNew ==
  ASSUME ShapeInv, NEW d, d \notin DOMAIN chat
  PROVE  /\ \A w \in Workers : ~Tries(w, d)
         /\ Job("send", d) \notin DOMAIN queue /\ Job("resend", d) \notin DOMAIN queue
<1>1. \A w \in Workers : ~Tries(w, d)
  BY DEF ShapeInv, WorkInv, Tries, IsAi
<1>2. \A k \in {"send", "resend"} : Job(k, d) \notin DOMAIN queue
  BY DEF ShapeInv, QueueInv, Handed, IsAi, Job
<1> QED BY <1>1, <1>2

(* The jobs for a document are the same as before.                         *)
SameJobs(d) ==
  /\ \A k \in {"send", "resend"} : Job(k, d) \in DOMAIN queue' <=> Job(k, d) \in DOMAIN queue
  /\ Resends(d) => queue'[Job("resend", d)] = queue[Job("resend", d)]

LEMMA SameJobsBy ==
  ASSUME ShapeInv, NEW d,
         \/ queue' = queue
         \/ \E j : /\ \A k \in {"send", "resend"} : j # Job(k, d)
                   /\ queue' = BagRemove(queue, j) \/ queue' = BagAdd(queue, j)
         \/ \E S : (\A j \in S : ~Handed(j)) /\ queue' = queue (+) SetToBag(S)
  PROVE  SameJobs(d)
<1>1. IsABag(queue)
  BY DEF ShapeInv, TypeOK
<1>2. CASE queue' = queue
  BY <1>2 DEF SameJobs
<1>3. ASSUME NEW j, \A k \in {"send", "resend"} : j # Job(k, d), queue' = BagRemove(queue, j)
      PROVE  SameJobs(d)
  BY <1>1, <1>3, Removed DEF SameJobs, Resends
<1>4. ASSUME NEW j, \A k \in {"send", "resend"} : j # Job(k, d), queue' = BagAdd(queue, j)
      PROVE  SameJobs(d)
  <2>1. /\ DOMAIN queue' = DOMAIN queue \cup {j}
        /\ \A y \in DOMAIN queue : y # j => queue'[y] = queue[y]
    BY <1>1, <1>4, Added
  <2> QED BY <1>4, <2>1 DEF SameJobs, Resends
<1>5. ASSUME NEW S, \A j \in S : ~Handed(j), queue' = queue (+) SetToBag(S)
      PROVE  SameJobs(d)
  <2>1. \A k \in {"send", "resend"} : Job(k, d) \notin S
    BY <1>5 DEF Handed, Job
  <2>2. /\ DOMAIN queue' = DOMAIN queue \cup S
        /\ \A y \in DOMAIN queue : y \notin S => queue'[y] = queue[y]
    BY <1>1, <1>5, Joined
  <2> QED BY <2>1, <2>2 DEF SameJobs, Resends
<1> QED BY <1>2, <1>3, <1>4, <1>5

LEMMA SameTriesBy ==
  ASSUME NEW d, SameJobs(d), chat'[d].status = chat[d].status,
         \A w \in Workers : wk'[w] = wk[w] \/ ~(Tries(w, d) \/ Tries(w, d)'),
         Job("send", d) \in claims' <=> Job("send", d) \in claims
  PROVE  SameTries(d)
<1>1. \A w \in Workers : Tries(w, d)' <=> Tries(w, d)
  BY DEF Tries
<1>2. (Sends(d)' <=> Sends(d)) /\ (Resends(d)' <=> Resends(d))
  BY DEF SameJobs, Sends, Resends, Job
<1> QED BY <1>1, <1>2, Zenon DEF SameTries, SameJobs

(* Steps of nobody's job *)
QuietQueue == \/ queue' = queue \/ (\E j : ~Handed(j) /\ queue' = BagAdd(queue, j))
              \/ \E S : (\A j \in S : ~Handed(j)) /\ queue' = queue (+) SetToBag(S)

LEMMA NoJobStep ==
  ASSUME ShapeInv, [Next]_vars
  PROVE  \/ \E w \in Workers : JobStep(w) \/ WorkerCrash(w)
         \/ /\ UNCHANGED jobState /\ QuietQueue
            /\ FailStale \/ chat' = chat \/ OursAlone
               \/ \E h \in Handlers : Arrives(h)
<1>1. ASSUME NEW h \in Handlers, Deliver(h) \/ RequestStep(h) \/ RequestCrash(h)
      PROVE  UNCHANGED jobState /\ QuietQueue /\ (chat' = chat \/ OursAlone \/ Arrives(h))
  <2>1. UNCHANGED jobState
    BY <1>1 DEF Deliver, RequestStep, RequestCrash, ClaimEvent, Screen, FindLead, InsertInbound,
       Window, Consent, ConsentBlacklist, ConfirmOptOut, Enqueue, reqRest, jobVars, jobState
  <2>2. chat' = chat \/ OursAlone \/ Arrives(h)
    BY <1>1 DEF Deliver, RequestStep, RequestCrash, ClaimEvent, Screen, FindLead, InsertInbound,
       Window, Consent, ConsentBlacklist, ConfirmOptOut, Enqueue, InReq, Arrives, OursAlone
  <2>3. queue' = queue \/ Enqueue(h)
    BY <1>1 DEF Deliver, RequestStep, RequestCrash, ClaimEvent, Screen, FindLead, InsertInbound,
       Window, Consent, ConsentBlacklist, ConfirmOptOut
  <2>4. ASSUME Enqueue(h) PROVE QuietQueue
    <3> DEFINE welcome == IF hd[h].new /\ scenario.twilio THEN {[kind |-> "welcome", m |-> 0]} ELSE {}
               ai      == IF ~ai_suppressed(lead) /\ ~consent_blocked(lead)
                          THEN {[kind |-> "ai", m |-> hd[h].m]} ELSE {}
    <3>1. queue' = queue (+) SetToBag(welcome \cup ai)
      BY <2>4 DEF Enqueue
    <3>2. \A j \in welcome \cup ai : ~Handed(j)
      BY DEF Handed
    <3> HIDE DEF welcome, ai
    <3> QED BY <3>1, <3>2 DEF QuietQueue
  <2> QED BY <2>1, <2>2, <2>3, <2>4 DEF QuietQueue
<1>2. ASSUME NEW s \in Scanners, ScanStep(s) \/ ScanCrash(s)
      PROVE  UNCHANGED jobState /\ QuietQueue /\ chat' = chat
  <2>1. UNCHANGED jobState /\ chat' = chat
    BY <1>2 DEF ScanStep, ScanCrash, Scan, ScanWait, ScanRetry, EnqueueCatchUp, ScanClear, scanRest,
       jobState
  <2>2. queue' = queue \/ queue' = BagAdd(queue, [kind |-> "catch", m |-> sc[s].m])
    BY <1>2 DEF ScanStep, ScanCrash, Scan, ScanWait, ScanRetry, EnqueueCatchUp, ScanClear, Put
  <2>3. ~Handed([kind |-> "catch", m |-> sc[s].m])
    BY DEF Handed
  <2> QED BY <2>1, <2>2, <2>3 DEF QuietQueue
<1>3. ASSUME Write \/ ListMissing \/ Replay \/ CoolDown \/ \E m \in Inbound : Older(m) \/ Fade(m)
      PROVE  UNCHANGED jobState /\ queue' = queue /\ chat' = chat
  BY <1>3 DEF Write, ListMissing, Replay, CoolDown, Older, Fade, jobVars, scanRest, jobState
<1>4. FailStale => UNCHANGED jobState /\ queue' = queue
  BY DEF FailStale, jobVars, jobState
<1>5. ASSUME NEW op, TeamCall(op)
      PROVE  /\ UNCHANGED jobState /\ queue' = queue
             /\ chat' = chat \/ OursAlone
  BY <1>5 DEF TeamCall, jobState, TeamReply, OursAlone
<1>6. UNCHANGED vars => UNCHANGED jobState /\ queue' = queue /\ chat' = chat
  BY DEF vars, jobState
<1> QED BY <1>1, <1>2, <1>3, <1>4, <1>5, <1>6 DEF Next, Step, QuietQueue

LEMMA OneTryOthers ==
  ASSUME ShapeInv, OneAttempt, UNCHANGED jobState, QuietQueue,
         FailStale \/ chat' = chat \/ (\E x : chat' = Append(chat, x))
  PROVE  OneAttempt'
<1>1. chat \in Seq(Doc)
  BY DEF ShapeInv, TypeOK
<1>2. ASSUME NEW d PROVE SameJobs(d)
  <2>1. \A j : ~Handed(j) => \A k \in {"send", "resend"} : j # Job(k, d)
    BY DEF Handed, Job
  <2> QED BY <2>1, SameJobsBy DEF QuietQueue
<1>3. ASSUME NEW d \in DOMAIN chat, chat'[d].status = chat[d].status PROVE OneTry(d)'
  <2>1. SameTries(d)
    BY <1>2, <1>3, SameTriesBy DEF jobState
  <2> QED BY <2>1, OneTrySame DEF OneAttempt
<1>4. ASSUME NEW d, \A w \in Workers : ~Tries(w, d), Job("send", d) \notin DOMAIN queue,
             Job("resend", d) \notin DOMAIN queue
      PROVE  OneTry(d)'
  <2>1. \A w \in Workers : ~Tries(w, d)'
    BY <1>4 DEF Tries, jobState
  <2>2. ~Sends(d)' /\ ~Resends(d)'
    BY <1>2, <1>4 DEF SameJobs, Sends, Resends, Job
  <2> QED BY <2>1, <2>2, Zenon DEF OneTry
<1>5. CASE chat' = chat
  BY <1>3, <1>5 DEF OneAttempt
<1>6. ASSUME NEW x, chat' = Append(chat, x) PROVE OneAttempt'
  <2>1. DOMAIN chat' = 1..Len(chat) + 1 /\ \A d \in DOMAIN chat : chat'[d] = chat[d]
    BY <1>1, <1>6, Appended
  <2>2. ASSUME NEW d \in DOMAIN chat' PROVE OneTry(d)'
    BY <1>3, <1>4, <2>1, NobodyHasNew
  <2> QED BY <2>2 DEF OneAttempt
<1>7. CASE FailStale
  <2>1. PICK d \in DOMAIN chat : /\ \A w \in Workers : wk[w].doc # d
                                 /\ \A k \in {"send", "resend"} : Job(k, d) \notin DOMAIN queue
                                 /\ chat' = [chat EXCEPT ![d].status = "failed"]
    BY <1>7 DEF FailStale, SetStatus, BagIn, BagToSet, Job
  <2>2. DOMAIN chat' = DOMAIN chat /\ \A e \in DOMAIN chat : e # d => chat'[e] = chat[e]
    BY <1>1, <2>1
  <2>3. OneTry(d)'
    BY <1>4, <2>1 DEF Tries
  <2>4. \A e \in DOMAIN chat' : OneTry(e)'
    BY <1>3, <2>2, <2>3
  <2> QED BY <2>4 DEF OneAttempt
<1> QED BY <1>5, <1>6, <1>7

(* A step of worker w that touches the attempts of one document at most.   *)
LEMMA OneTryOwn ==
  ASSUME ShapeInv, OneAttempt, NEW w \in Workers, JobStep(w) \/ WorkerCrash(w), NEW d0,
         \A d \in DOMAIN chat' : d # d0 => d \in DOMAIN chat /\ chat'[d].status = chat[d].status,
         \A d \in DOMAIN chat : d # d0 => /\ SameJobs(d) /\ ~Tries(w, d) /\ ~Tries(w, d)'
                                          /\ Job("send", d) \in claims' <=> Job("send", d) \in claims,
         d0 \in DOMAIN chat' => OneTry(d0)'
  PROVE  OneAttempt'
<1>1. \A v \in Workers : v # w => wk'[v] = wk[v]
  BY OnlyOwn
<1>2. ASSUME NEW d \in DOMAIN chat', d # d0 PROVE OneTry(d)'
  <2>1. d \in DOMAIN chat /\ chat'[d].status = chat[d].status /\ SameJobs(d)
        /\ (Job("send", d) \in claims' <=> Job("send", d) \in claims)
        /\ ~Tries(w, d) /\ ~Tries(w, d)'
    BY <1>2
  <2>2. \A v \in Workers : wk'[v] = wk[v] \/ ~(Tries(v, d) \/ Tries(v, d)')
    BY <1>1, <2>1
  <2>3. SameTries(d)
    BY <2>1, <2>2, SameTriesBy
  <2> QED BY <2>1, <2>3, OneTrySame DEF OneAttempt
<1> QED BY <1>2 DEF OneAttempt

(* The document nobody has an attempt for any more.                        *)
LEMMA OneTryOver ==
  ASSUME NEW d, \A v \in Workers : ~Tries(v, d)', ~Sends(d)', ~Resends(d)'
  PROVE  OneTry(d)'
  BY Zenon DEF OneTry

(* The document whose attempt w has now.                                   *)
LEMMA OneTryHas ==
  ASSUME NEW d, NEW w \in Workers, \A v \in Workers : Tries(v, d)' => v = w,
         ~Sends(d)', ~Resends(d)', chat'[d].status = "queued"
  PROVE  OneTry(d)'
  BY Zenon DEF OneTry

LEMMA Docs ==
  ASSUME ShapeInv
  PROVE  chat \in Seq(Doc) /\ wk \in [Workers -> WorkType]
  BY DEF ShapeInv, TypeOK, WorkType

(* What w tries: the document it holds, and then nothing waits for it.     *)
LEMMA HeldBy ==
  ASSUME ShapeInv, OneAttempt, NEW w \in Workers, wk[w].step \in Held
  PROVE  /\ wk[w].doc \in DOMAIN chat /\ Tries(w, wk[w].doc)
         /\ \A d \in DOMAIN chat : d # wk[w].doc => ~Tries(w, d)
         /\ \A v \in Workers : Tries(v, wk[w].doc) => v = w
         /\ ~Sends(wk[w].doc) /\ ~Resends(wk[w].doc) /\ chat[wk[w].doc].status = "queued"
<1>1. wk[w].doc \in DOMAIN chat /\ Tries(w, wk[w].doc)
  BY DEF ShapeInv, WorkInv, IsAi, Tries
<1>2. OneTry(wk[w].doc)
  BY <1>1 DEF OneAttempt
<1> QED BY <1>1, <1>2 DEF OneTry, Tries

(* w gives its document up, sets its status or leaves it to a job.         *)
LEMMA GivenUp ==
  ASSUME ShapeInv, OneAttempt, NEW w \in Workers, JobStep(w) \/ WorkerCrash(w),
         wk[w].step \in Held, wk'[w].step \notin Held, UNCHANGED <<queue, claims>>,
         chat' = chat \/ \E s : SetStatus(wk[w].doc, s)
  PROVE  OneAttempt'
<1>1. chat \in Seq(Doc) /\ DOMAIN chat' = DOMAIN chat
      /\ \A d \in DOMAIN chat : d # wk[w].doc => chat'[d] = chat[d]
  BY Docs DEF SetStatus
<1>2. \A d : SameJobs(d)
  BY DEF SameJobs
<1>3. /\ \A d \in DOMAIN chat : d # wk[w].doc => ~Tries(w, d)
      /\ \A v \in Workers : Tries(v, wk[w].doc) => v = w
      /\ ~Sends(wk[w].doc) /\ ~Resends(wk[w].doc)
  BY HeldBy
<1>4. \A d : ~Tries(w, d)'
  BY DEF Tries
<1>5. \A v \in Workers : v # w => wk'[v] = wk[v]
  BY OnlyOwn
<1>6. PICK d0 : d0 = wk[w].doc
  OBVIOUS
<1>7. \A v \in Workers : ~Tries(v, d0)'
  BY <1>3, <1>4, <1>5, <1>6 DEF Tries
<1>8. ~Sends(d0)' /\ ~Resends(d0)'
  BY <1>3, <1>6 DEF Sends, Resends, Job
<1>9. OneTry(d0)'
  BY <1>7, <1>8, OneTryOver
<1> QED BY <1>1, <1>2, <1>3, <1>4, <1>6, <1>9, OneTryOwn

(* w goes on with its document, or has none before and after.              *)
LEMMA GoesOn ==
  ASSUME ShapeInv, OneAttempt, NEW w \in Workers, JobStep(w) \/ WorkerCrash(w), chat' = chat,
         \A d \in DOMAIN chat : SameJobs(d) /\ (Tries(w, d)' <=> Tries(w, d))
              /\ (Job("send", d) \in claims' <=> Job("send", d) \in claims)
  PROVE  OneAttempt'
<1>1. \A v \in Workers : v # w => wk'[v] = wk[v]
  BY OnlyOwn
<1>2. ASSUME NEW d \in DOMAIN chat PROVE OneTry(d)'
  <2>1. \A v \in Workers : Tries(v, d)' <=> Tries(v, d)
    BY <1>1 DEF Tries
  <2>2. (Sends(d)' <=> Sends(d)) /\ (Resends(d)' <=> Resends(d))
    BY DEF SameJobs, Sends, Resends, Job
  <2>3. SameTries(d)
    BY <2>1, <2>2, Zenon DEF SameTries, SameJobs
  <2> QED BY <2>3, OneTrySame DEF OneAttempt
<1> QED BY <1>2 DEF OneAttempt

(* w leaves its document, as queued, to a job.                             *)
LEMMA HandedOver ==
  ASSUME ShapeInv, OneAttempt, NEW w \in Workers, JobStep(w) \/ WorkerCrash(w),
         wk[w].step \in Held, wk'[w].step \notin Held, claims' = claims,
         NEW k \in {"send", "resend"}, queue' = BagAdd(queue, Job(k, wk[w].doc)),
         chat' = chat \/ SetStatus(wk[w].doc, "queued")
  PROVE  OneAttempt'
<1>1. chat \in Seq(Doc) /\ DOMAIN chat' = DOMAIN chat
      /\ \A d \in DOMAIN chat : d # wk[w].doc => chat'[d] = chat[d]
  BY Docs DEF SetStatus
<1>2. ASSUME NEW d, d # wk[w].doc PROVE SameJobs(d)
  <2>1. \A i \in {"send", "resend"} : Job(k, wk[w].doc) # Job(i, d)
    BY <1>2 DEF Job
  <2> QED BY <2>1, SameJobsBy
<1>3. /\ wk[w].doc \in DOMAIN chat
      /\ \A d \in DOMAIN chat : d # wk[w].doc => ~Tries(w, d)
      /\ \A v \in Workers : Tries(v, wk[w].doc) => v = w
      /\ ~Sends(wk[w].doc) /\ ~Resends(wk[w].doc) /\ chat[wk[w].doc].status = "queued"
  BY HeldBy
<1>4. \A d : ~Tries(w, d)'
  BY DEF Tries
<1>5. \A v \in Workers : v # w => wk'[v] = wk[v]
  BY OnlyOwn
<1>6. PICK d0 \in DOMAIN chat : d0 = wk[w].doc
  BY <1>3
<1>7. \A v \in Workers : ~Tries(v, d0)'
  BY <1>3, <1>4, <1>5, <1>6 DEF Tries
<1>8. chat'[d0].status = "queued"
  <2>1. chat[d0] \in Doc
    BY <1>1
  <2> QED BY <1>1, <1>3, <1>6, <2>1 DEF SetStatus, Doc
<1>9. /\ DOMAIN queue' = DOMAIN queue \cup {Job(k, d0)}
      /\ Job(k, d0) \notin DOMAIN queue => queue'[Job(k, d0)] = 1
  <2>1. IsABag(queue)
    BY DEF ShapeInv, TypeOK
  <2> QED BY <1>6, <2>1, Added
<1>10. Job("send", d0) # Job("resend", d0)
  BY DEF Job
<1>11. ASSUME k = "send" PROVE OneTry(d0)'
  <2>1. ~Resends(d0)'
    BY <1>3, <1>6, <1>9, <1>10, <1>11 DEF Resends, Job
  <2> QED BY <1>7, <1>8, <2>1, Zenon DEF OneTry
<1>12. ASSUME k = "resend" PROVE OneTry(d0)'
  <2>1. ~Sends(d0)'
    BY <1>3, <1>6, <1>9, <1>10, <1>12 DEF Sends, Job
  <2>2. queue'[Job("resend", d0)] = 1
    BY <1>3, <1>6, <1>9, <1>12 DEF Resends
  <2>3. \A i, j : Job(i, j)' = Job(i, j)
    BY DEF Job
  <2> QED BY <1>7, <1>8, <2>1, <2>2, <2>3, Zenon DEF OneTry
<1>13. OneTry(d0)' => OneAttempt'
  BY <1>1, <1>2, <1>3, <1>4, <1>6, OneTryOwn
<1> QED BY <1>11, <1>12, <1>13

LEMMA QuietJobs ==
  ASSUME ShapeInv, OneAttempt, NEW w \in Workers, JobStep(w) \/ WorkerCrash(w), chat' = chat,
         wk' = wk \/ (wk[w].step \notin Held /\ wk'[w].step \notin Held),
         queue' = queue \/ (\E j : ~Handed(j) /\ queue' = BagRemove(queue, j)),
         claims' = claims \/ (\E j : ~Handed(j) /\ claims' = claims \cup {j})
  PROVE  OneAttempt'
<1>1. \A j : ~Handed(j) => \A k \in {"send", "resend"} : \A d : j # Job(k, d)
  BY DEF Handed, Job
<1>2. \A d : SameJobs(d)
  BY <1>1, SameJobsBy
<1>3. \A d : Job("send", d) \in claims' <=> Job("send", d) \in claims
  BY <1>1
<1>4. \A d : Tries(w, d)' <=> Tries(w, d)
  BY DEF Tries
<1> QED BY <1>2, <1>3, <1>4, GoesOn

LEMMA StepTo ==
  ASSUME ShapeInv, NEW w \in Workers
  PROVE  /\ JobEnds(w) => wk'[w].step = "idle"
         /\ \A step : JobTo(w, step) => wk'[w].step = step /\ wk'[w].doc = wk[w].doc
         /\ \A j, step : Begin(w, j, step) =>
              wk'[w].step = step /\ wk'[w].job = j /\ (Handed(j) => wk'[w].doc = j.m)
         /\ \A n : wk' = [wk EXCEPT ![w].step = "confirm", ![w].doc = n] =>
              wk'[w].step = "confirm" /\ wk'[w].doc = n
<1>1. wk \in [Workers -> WorkType] /\ wk[w] \in WorkType
  BY Docs
<1>2. JobEnds(w) => wk'[w].step = "idle"
  BY <1>1 DEF JobEnds, NoJob
<1>3. \A step : JobTo(w, step) => wk'[w].step = step /\ wk'[w].doc = wk[w].doc
  BY <1>1 DEF JobTo, WorkType
<1>4. \A j, step : Begin(w, j, step) =>
        wk'[w].step = step /\ wk'[w].job = j /\ (Handed(j) => wk'[w].doc = j.m)
  BY <1>1 DEF Begin
<1>5. \A n : wk' = [wk EXCEPT ![w].step = "confirm", ![w].doc = n] =>
        wk'[w].step = "confirm" /\ wk'[w].doc = n
  BY <1>1 DEF WorkType
<1> QED BY <1>2, <1>3, <1>4, <1>5

LEMMA OneTryInsert ==
  ASSUME ShapeInv, OneAttempt, [Next]_vars, NEW w \in Workers, InsertReply(w)
  PROVE  OneAttempt'
<1>1. JobStep(w) /\ wk[w].step \notin Held /\ UNCHANGED <<queue, claims>>
  BY DEF InsertReply, JobStep, Held
<1>2. CASE JobEnds(w) /\ chat' = chat
  <2>1. wk'[w].step \notin Held
    BY <1>2, StepTo DEF Held
  <2> QED BY <1>1, <1>2, <2>1, QuietJobs
<1>3. CASE chat' = Append(chat, ReplyOf(w)) /\ wk' = [wk EXCEPT ![w].step = "confirm", ![w].doc = Len(chat')]
  <2>1. PICK d0 : d0 = Len(chat) + 1
    OBVIOUS
  <2>2. /\ DOMAIN chat' = DOMAIN chat \cup {d0} /\ d0 \notin DOMAIN chat /\ Len(chat') = d0
        /\ chat'[d0] = ReplyOf(w) /\ \A d \in DOMAIN chat : chat'[d] = chat[d]
    BY <1>3, <2>1, Docs, Appended
  <2>3. wk'[w].doc = d0
    BY <1>3, <2>2, StepTo
  <2>4. \A v \in Workers : v # w => wk'[v] = wk[v]
    BY <1>1, OnlyOwn
  <2>5. \A d : SameJobs(d)
    BY <1>1 DEF SameJobs
  <2>6. \A d : d # d0 => ~Tries(w, d) /\ ~Tries(w, d)'
    BY <1>1, <2>3 DEF Tries
  <2>7. OneTry(d0)'
    <3>1. \A v \in Workers : Tries(v, d0)' => v = w
      BY <2>2, <2>4, NobodyHasNew DEF Tries
    <3>2. ~Sends(d0)' /\ ~Resends(d0)'
      BY <1>1, <2>2, NobodyHasNew DEF Sends, Resends, Job
    <3>3. chat'[d0].status = "queued"
      BY <2>2 DEF ReplyOf
    <3> QED BY <3>1, <3>2, <3>3, OneTryHas
  <2> QED BY <1>1, <2>2, <2>5, <2>6, <2>7, OneTryOwn
<1> QED BY <1>2, <1>3, Zenon DEF InsertReply, ReplyOf

(* The system's own message has no attempts.                               *)
LEMMA OneTryWelcome ==
  ASSUME ShapeInv, OneAttempt, [Next]_vars, NEW w \in Workers, SendWelcome(w)
  PROVE  OneAttempt'
<1>1. /\ JobStep(w) /\ wk[w].step \notin Held /\ wk'[w].step \notin Held
      /\ UNCHANGED <<queue, claims>>
  BY StepTo DEF SendWelcome, JobStep, InJob, Held
<1>2. CASE chat' = chat
  BY <1>1, <1>2, QuietJobs
<1>3. CASE chat' = Append(chat, Notice)
  <2>1. PICK d0 : d0 = Len(chat) + 1
    OBVIOUS
  <2>2. /\ DOMAIN chat' = DOMAIN chat \cup {d0} /\ d0 \notin DOMAIN chat
        /\ \A d \in DOMAIN chat : chat'[d] = chat[d]
    BY <1>3, <2>1, Docs, Appended
  <2>3. \A v \in Workers : v # w => wk'[v] = wk[v]
    BY <1>1, OnlyOwn
  <2>4. \A d : SameJobs(d) /\ ~Tries(w, d) /\ ~Tries(w, d)'
    BY <1>1 DEF SameJobs, Tries
  <2>5. OneTry(d0)'
    <3>1. \A v \in Workers : ~Tries(v, d0)'
      BY <2>2, <2>3, <2>4, NobodyHasNew DEF Tries
    <3>2. ~Sends(d0)' /\ ~Resends(d0)'
      BY <1>1, <2>2, NobodyHasNew DEF Sends, Resends, Job
    <3> QED BY <3>1, <3>2, OneTryOver
  <2> QED BY <1>1, <2>2, <2>4, <2>5, OneTryOwn
<1> QED BY <1>2, <1>3 DEF SendWelcome

LEMMA OneTryOutbound ==
  ASSUME ShapeInv, OneAttempt, NEW w \in Workers, NEW j \in BagToSet(queue), Outbound(w, j)
  PROVE  OneAttempt'
<1>1. /\ JobStep(w) /\ Handed(j) /\ j \in DOMAIN queue /\ j \in Jobs /\ j \notin claims
      /\ wk[w].step \notin Held /\ chat[j.m].status = "queued"
  BY DEF Outbound, JobStep, InJob, Held, BagToSet, ShapeInv, TypeOK
<1>2. PICK k \in {"send", "resend"}, d0 \in DOMAIN chat : j = Job(k, d0)
  <2>1. IsAi(j.m)
    BY <1>1 DEF ShapeInv, QueueInv
  <2>2. j = Job(j.kind, j.m) /\ j.kind \in {"send", "resend"}
    BY <1>1 DEF Jobs, Job, Handed
  <2> QED BY <2>1, <2>2 DEF IsAi
<1>3. j.m = d0 /\ j.kind = k /\ \A i, d : Job(i, d) = j => i = k /\ d = d0
  BY <1>2 DEF Job
<1>4. /\ OneTry(d0) /\ (k = "send" => Sends(d0)) /\ (k = "resend" => Resends(d0) /\ queue[j] = 1)
  BY <1>1, <1>2 DEF OneAttempt, OneTry, Sends, Resends
<1>5. /\ \A v \in Workers : ~Tries(v, d0)
      /\ (k = "send" => ~Resends(d0)) /\ (k = "resend" => ~Sends(d0))
  BY <1>2, <1>4 DEF OneTry
<1>6. /\ Job("send", d0) \in claims' <=> (k = "send" \/ Job("send", d0) \in claims)
      /\ \A d : d # d0 => (Job("send", d) \in claims' <=> Job("send", d) \in claims)
  BY <1>2, <1>3 DEF Outbound
<1>7. IsABag(queue) /\ \A v \in Workers : v # w => wk'[v] = wk[v]
  BY <1>1, OnlyOwn DEF ShapeInv, TypeOK
<1>8. ASSUME queue' = BagRemove(queue, j)
      PROVE  ~Sends(d0)' /\ ~Resends(d0)' /\ \A d : d # d0 => SameJobs(d)
  <2>1. DOMAIN queue' \subseteq DOMAIN queue /\ (queue[j] = 1 => j \notin DOMAIN queue')
    BY <1>1, <1>7, <1>8, Removed
  <2>2. \A d : d # d0 => \A i \in {"send", "resend"} : j # Job(i, d)
    BY <1>3
  <2>3. \A d : d # d0 => SameJobs(d)
    BY <1>8, <2>2, SameJobsBy
  <2>4. ~Sends(d0)'
    BY <1>5, <1>6, <2>1, <1>2 DEF Sends, Job
  <2>5. ~Resends(d0)'
    BY <1>2, <1>4, <1>5, <2>1 DEF Resends, Job
  <2> QED BY <2>3, <2>4, <2>5
<1>9. CASE Begin(w, j, "call") /\ chat' = chat /\ queue' = BagRemove(queue, j)
  <2>1. wk'[w].doc = d0
    BY <1>1, <1>3, <1>9, StepTo
  <2>2. \A d : d # d0 => ~Tries(w, d) /\ ~Tries(w, d)'
    BY <1>1, <2>1 DEF Tries
  <2>3. \A v \in Workers : Tries(v, d0)' => v = w
    BY <1>5, <1>7 DEF Tries
  <2>4. chat'[d0].status = "queued"
    BY <1>1, <1>3, <1>9
  <2>5. OneTry(d0)'
    BY <1>8, <1>9, <2>3, <2>4, OneTryHas
  <2> QED BY <1>1, <1>6, <1>8, <1>9, <2>2, <2>5, OneTryOwn
<1>10. CASE SetStatus(j.m, "failed") /\ wk' = wk /\ queue' = BagRemove(queue, j)
  <2>1. DOMAIN chat' = DOMAIN chat /\ \A d \in DOMAIN chat : d # d0 => chat'[d] = chat[d]
    BY <1>3, <1>10, Docs DEF SetStatus
  <2>2. \A d : ~Tries(w, d) /\ ~Tries(w, d)'
    BY <1>1, <1>10 DEF Tries
  <2>3. \A v \in Workers : ~Tries(v, d0)'
    BY <1>5, <1>10 DEF Tries
  <2>4. OneTry(d0)'
    BY <1>8, <1>10, <2>3, OneTryOver
  <2> QED BY <1>1, <1>6, <1>8, <1>10, <2>1, <2>2, <2>4, OneTryOwn
<1>11. CASE UNCHANGED <<chat, wk, queue>>
  <2>1. (\A d : SameJobs(d)) /\ \A v \in Workers : \A d : Tries(v, d)' <=> Tries(v, d)
    BY <1>11 DEF SameJobs, Tries
  <2>2. \A d : ~Tries(w, d) /\ ~Tries(w, d)'
    BY <1>1, <1>11 DEF Tries
  <2>3. (Resends(d0)' <=> Resends(d0)) /\ ~Sends(d0)'
    BY <1>5, <1>6, <1>11, <1>2 DEF Resends, Sends, Job
  <2>4. CASE k = "send"
    <3>1. OneTry(d0)'
      BY <1>5, <2>1, <2>3, <2>4, OneTryOver
    <3> QED BY <1>1, <1>6, <1>11, <2>1, <2>2, <3>1, OneTryOwn
  <2>5. CASE k = "resend"
    <3>1. \A d \in DOMAIN chat : Job("send", d) \in claims' <=> Job("send", d) \in claims
      BY <1>6, <2>5
    <3> QED BY <1>1, <1>11, <2>1, <3>1, GoesOn
  <2> QED BY <2>4, <2>5
<1> QED BY <1>9, <1>10, <1>11 DEF Outbound

LEMMA OneTryEnds ==
  ASSUME ShapeInv, OneAttempt, NEW w \in Workers, NEW j \in BagToSet(queue), OutboundEnds(w, j)
  PROVE  OneAttempt'
<1>1. /\ JobStep(w) /\ Handed(j) /\ j \in DOMAIN queue /\ j \in Jobs
      /\ chat[j.m].status # "queued" \/ j \in claims
      /\ UNCHANGED <<chat, wk, claims>> /\ queue' = BagRemove(queue, j)
  BY DEF OutboundEnds, JobStep, Take, BagToSet, ShapeInv, TypeOK
<1>2. PICK k \in {"send", "resend"}, d0 \in DOMAIN chat : j = Job(k, d0)
  <2>1. IsAi(j.m)
    BY <1>1 DEF ShapeInv, QueueInv
  <2>2. j = Job(j.kind, j.m) /\ j.kind \in {"send", "resend"}
    BY <1>1 DEF Jobs, Job, Handed
  <2> QED BY <2>1, <2>2 DEF IsAi
<1>3. j.m = d0 /\ j.kind = k /\ \A i, d : Job(i, d) = j => i = k /\ d = d0
  BY <1>2 DEF Job
<1>4. IsABag(queue) /\ \A v \in Workers : \A d : Tries(v, d)' <=> Tries(v, d)
  BY <1>1 DEF ShapeInv, TypeOK, Tries
<1>5. wk[w].step \notin Held
  BY DEF OutboundEnds, Take, InJob, Held
<1>6. \A d : ~Tries(w, d) /\ ~Tries(w, d)'
  BY <1>1, <1>5 DEF Tries
<1>7. \A d : d # d0 => SameJobs(d)
  <2>1. \A d : d # d0 => \A i \in {"send", "resend"} : j # Job(i, d)
    BY <1>3
  <2> QED BY <1>1, <2>1, SameJobsBy
<1>8. /\ DOMAIN queue' \subseteq DOMAIN queue
      /\ \A y \in DOMAIN queue : y # j => y \in DOMAIN queue' /\ queue'[y] = queue[y]
      /\ queue[j] = 1 => j \notin DOMAIN queue'
  BY <1>1, <1>4, Removed
<1>9. OneTry(d0)
  BY DEF OneAttempt
<1>10. ASSUME k = "send" PROVE OneTry(d0)'
  <2>1. ~Sends(d0)
    BY <1>1, <1>2, <1>3, <1>9, <1>10 DEF OneTry, Sends
  <2>2. ~Sends(d0)'
    BY <1>1, <1>8, <2>1 DEF Sends, Job
  <2>3. Job("resend", d0) # j
    BY <1>3, <1>10
  <2>4. (Resends(d0)' <=> Resends(d0)) /\ (Resends(d0) => queue'[Job("resend", d0)] = queue[Job("resend", d0)])
    BY <1>8, <2>3 DEF Resends, Job
  <2>5. SameTries(d0)
    BY <1>1, <1>4, <2>1, <2>2, <2>4, Zenon DEF SameTries
  <2> QED BY <1>9, <2>5, OneTrySame
<1>11. ASSUME k = "resend" PROVE OneTry(d0)'
  <2>1. Resends(d0) /\ queue[j] = 1
    BY <1>1, <1>2, <1>9, <1>11 DEF OneTry, Resends
  <2>2. (\A v \in Workers : ~Tries(v, d0)') /\ ~Sends(d0)
    BY <1>4, <1>9, <2>1 DEF OneTry
  <2>3. ~Sends(d0)'
    BY <1>1, <1>8, <2>2 DEF Sends, Job
  <2>4. ~Resends(d0)'
    BY <1>2, <1>8, <1>11, <2>1 DEF Resends, Job
  <2> QED BY <2>2, <2>3, <2>4, OneTryOver
<1> QED BY <1>1, <1>6, <1>7, <1>10, <1>11, OneTryOwn

LEMMA OneTryStep == ShapeInv /\ OneAttempt /\ [Next]_vars => OneAttempt'
<1> SUFFICES ASSUME ShapeInv, OneAttempt, [Next]_vars PROVE OneAttempt'
  OBVIOUS
<1>1. ASSUME NEW w \in Workers, JobStep(w) \/ WorkerCrash(w) PROVE OneAttempt'
  <2>1. ASSUME NEW j \in BagToSet(queue), Decline(w, j) \/ TakeUp(w, j) PROVE OneAttempt'
    <3>1. /\ JobStep(w) /\ chat' = chat /\ ~Handed(j) /\ wk[w].step \notin Held
          /\ queue' = BagRemove(queue, j)
      BY <2>1 DEF Decline, TakeUp, AnswerOf, Take, InJob, Handed, Held, JobStep
    <3>2. wk' = wk \/ Begin(w, j, "generate")
      BY <2>1 DEF Decline, TakeUp
    <3>3. claims' = claims \/ claims' = claims \cup {j}
      BY <2>1 DEF Decline, TakeUp
    <3>4. wk' = wk \/ wk'[w].step \notin Held
      <4>1. Begin(w, j, "generate") => wk'[w].step = "generate"
        BY Docs DEF Begin
      <4> QED BY <3>2, <4>1 DEF Held
    <3> QED BY <3>1, <3>3, <3>4, QuietJobs
  <2>2. ASSUME NEW j \in BagToSet(queue), StartWelcome(w, j) PROVE OneAttempt'
    <3>1. /\ JobStep(w) /\ chat' = chat /\ ~Handed(j) /\ wk[w].step \notin Held
          /\ queue' = BagRemove(queue, j)
      BY <2>2 DEF StartWelcome, Take, InJob, Handed, Held, JobStep
    <3>2. wk' = wk \/ Begin(w, j, "welcome")
      BY <2>2 DEF StartWelcome
    <3>3. claims' = claims \/ claims' = claims \cup {j}
      BY <2>2 DEF StartWelcome
    <3>4. wk' = wk \/ wk'[w].step \notin Held
      <4>1. Begin(w, j, "welcome") => wk'[w].step = "welcome"
        BY Docs DEF Begin
      <4> QED BY <3>2, <4>1 DEF Held
    <3> QED BY <3>1, <3>3, <3>4, QuietJobs
  <2>3. CASE GenerateFails(w) \/ Flags(w)
    <3>1. chat' = chat /\ queue' = queue /\ claims' = claims /\ wk[w].step \notin Held /\ JobStep(w)
      BY <2>3 DEF GenerateFails, Flags, InJob, Held, JobStep
    <3>2. wk' = wk \/ JobEnds(w) \/ JobTo(w, "fallback")
      BY <2>3 DEF GenerateFails, Flags
    <3>3. wk' = wk \/ wk'[w].step \notin Held
      <4>1. /\ JobEnds(w) => wk'[w].step = "idle"
            /\ JobTo(w, "fallback") => wk'[w].step = "fallback"
        BY StepTo
      <4> QED BY <3>2, <4>1 DEF Held
    <3> QED BY <3>1, <3>3, QuietJobs
  <2>4. CASE Confirm(w)
    <3>1. wk[w].step \in Held /\ claims' = claims /\ JobStep(w)
      BY <2>4 DEF Confirm, InJob, Held, JobStep
    <3>2. CASE JobTo(w, "call") /\ queue' = queue /\ chat' = chat
      <4>1. wk'[w].step \in Held /\ wk'[w].doc = wk[w].doc
        BY <3>2, StepTo DEF Held
      <4>2. \A d : SameJobs(d) /\ (Tries(w, d)' <=> Tries(w, d))
        BY <3>1, <3>2, <4>1 DEF SameJobs, Tries
      <4> QED BY <3>1, <3>2, <4>2, GoesOn
    <3>3. CASE JobEnds(w) /\ queue' = Put([kind |-> "send", m |-> wk[w].doc]) /\ chat' = chat
      <4>1. wk'[w].step \notin Held
        BY <3>3, StepTo DEF Held
      <4>2. queue' = BagAdd(queue, Job("send", wk[w].doc))
        BY <3>3 DEF Put, Job
      <4> QED BY <3>1, <3>3, <4>1, <4>2, HandedOver
    <3>4. CASE SetStatus(wk[w].doc, "canceled") /\ JobEnds(w) /\ queue' = queue
      <4>1. wk'[w].step \notin Held
        BY <3>4, StepTo DEF Held
      <4> QED BY <3>1, <3>4, <4>1, GivenUp
    <3> QED BY <2>4, <3>2, <3>3, <3>4 DEF Confirm
  <2>5. ASSUME NEW j \in BagToSet(queue), Outbound(w, j) \/ OutboundEnds(w, j) PROVE OneAttempt'
    BY <2>5, OneTryOutbound, OneTryEnds
  <2>6. ASSUME NEW answer \in {"sent", "lost", "retryable", "permanent"}, ProviderCall(w, answer)
        PROVE  OneAttempt'
    <3>1. wk[w].step \in Held /\ claims' = claims /\ queue' = queue /\ JobStep(w)
      BY <2>6 DEF ProviderCall, InJob, Held, JobStep
    <3>2. CASE SetStatus(wk[w].doc, "failed") /\ JobEnds(w)
      <4>1. wk'[w].step \notin Held
        BY <3>2, StepTo DEF Held
      <4> QED BY <3>1, <3>2, <4>1, GivenUp
    <3>3. CASE (JobTo(w, "store") \/ JobTo(w, "except")) /\ chat' = chat
      <4>1. wk'[w].step \in Held /\ wk'[w].doc = wk[w].doc
        BY <3>3, StepTo DEF Held
      <4>2. \A d : SameJobs(d) /\ (Tries(w, d)' <=> Tries(w, d))
        BY <3>1, <3>3, <4>1 DEF SameJobs, Tries
      <4> QED BY <3>1, <3>3, <4>2, GoesOn
    <3> QED BY <2>6, <3>2, <3>3 DEF ProviderCall
  <2>7. CASE StoreSent(w)
    <3>1. /\ wk[w].step \in Held /\ claims' = claims /\ queue' = queue /\ JobStep(w)
          /\ SetStatus(wk[w].doc, "sent") /\ (JobEnds(w) \/ JobTo(w, "flags"))
      BY <2>7 DEF StoreSent, InJob, Held, JobStep
    <3>2. wk'[w].step \notin Held
      <4>1. /\ JobEnds(w) => wk'[w].step = "idle"
            /\ JobTo(w, "flags") => wk'[w].step = "flags"
        BY StepTo
      <4> QED BY <3>1, <4>1 DEF Held
    <3> QED BY <3>1, <3>2, GivenUp
  <2>8. CASE Except(w)
    <3>1. wk[w].step \in Held /\ claims' = claims /\ JobStep(w) /\ JobEnds(w)
      BY <2>8 DEF Except, InJob, Held, JobStep
    <3>2. wk'[w].step \notin Held
      BY <3>1, StepTo DEF Held
    <3>3. CASE wk[w].job.kind = "resend"
      <4>1. queue' = queue /\ SetStatus(wk[w].doc, "failed")
        BY <2>8, <3>3 DEF Except
      <4> QED BY <3>1, <3>2, <4>1, GivenUp
    <3>4. CASE wk[w].job.kind # "resend"
      <4>1. PICK k \in {"send", "resend"} : queue' = BagAdd(queue, Job(k, wk[w].doc))
        BY <2>8, <3>4 DEF Except, Put, Job
      <4>2. SetStatus(wk[w].doc, "queued")
        BY <2>8, <3>4 DEF Except
      <4> QED BY <3>1, <3>2, <4>1, <4>2, HandedOver
    <3> QED BY <3>3, <3>4
  <2>9. CASE WorkerCrash(w)
    <3>1. chat' = chat /\ queue' = queue /\ claims' = claims /\ JobEnds(w)
      BY <2>9 DEF WorkerCrash
    <3>2. wk'[w].step \notin Held
      BY <3>1, StepTo DEF Held
    <3> QED BY <2>9, <3>1, <3>2, GivenUp, QuietJobs
  <2> QED BY <1>1, <2>1, <2>2, <2>3, <2>4, <2>5, <2>6, <2>7, <2>8, <2>9, OneTryInsert,
     OneTryWelcome DEF JobStep
<1>2. OursAlone \/ (\E h \in Handlers : Arrives(h)) => \E x : chat' = Append(chat, x)
  BY DEF Arrives, OursAlone
<1> QED BY <1>1, <1>2, NoJobStep, OneTryOthers

-----------------------------------------------------------------------------
(* One answer *)

Reply(d, m)     == IsAi(d) /\ ~chat[d].fallback /\ chat[d].trigger = m
Live(d)         == chat[d].status \in {"queued", "sent"}
Generates(w, m) == wk[w].step = "generate" /\ wk[w].job.m = m
Stores(w, d)    == wk[w].step = "store" /\ wk[w].doc = d
Accepted(d)     == chat[d].status = "sent" \/ \E w \in Workers : Stores(w, d)

(* A message whose answers no crash and no lost report hides, and whose    *)
(* jobs do not overlap: who makes a reply for it is alone, and has found   *)
(* none that is under way or sent; there is one of these at most, and what *)
(* the provider accepted is that one.                                      *)
AnsweredOk(m) ==
  /\ \A v, w \in Workers : Generates(v, m) /\ Generates(w, m) => v = w
  /\ \A w \in Workers : Generates(w, m) => \A d : Reply(d, m) => ~Live(d)
  /\ \A d, e : Reply(d, m) /\ Live(d) /\ Reply(e, m) /\ Live(e) => d = e
  /\ answers[m] <= 1
  /\ answers[m] = 1 => \E d : Reply(d, m) /\ Accepted(d)

AnswerInv == \A m \in Inbound \ excused : AnsweredOk(m)

ReplyInv == /\ ShapeInv /\ StoredOnce /\ KeyInv /\ OneAttempt /\ AnswerInv

(* The status of a document changes while it is queued only, and to "sent" *)
(* by the worker that stores it.                                           *)
LEMMA StatusBy ==
  ASSUME ShapeInv, OneAttempt, [Next]_vars, NEW d \in DOMAIN chat, chat'[d].status # chat[d].status
  PROVE  chat[d].status = "queued" /\ \A w \in Workers : Stores(w, d) => StoreSent(w)
<1>1. chat \in Seq(Doc)
  BY Docs
<1>2. \A e, s : SetStatus(e, s) => e = d
  BY <1>1 DEF SetStatus
<1>3. \A x : chat' # Append(chat, x)
  BY <1>1, Appended
<1>4. ASSUME NEW w \in Workers, wk[w].step \in Held, wk[w].doc = d
      PROVE  chat[d].status = "queued" /\ \A v \in Workers : Stores(v, d) => v = w
  <2>1. chat[d].status = "queued" /\ \A v \in Workers : Tries(v, d) => v = w
    BY <1>4, HeldBy
  <2> QED BY <2>1 DEF Stores, Tries, Held
<1>5. ASSUME NEW w \in Workers, JobStep(w) \/ WorkerCrash(w)
      PROVE  chat[d].status = "queued" /\ \A v \in Workers : Stores(v, d) => StoreSent(v)
  <2>1. ASSUME NEW j \in BagToSet(queue), Outbound(w, j)
        PROVE  chat[d].status = "queued" /\ \A v \in Workers : ~Stores(v, d)
    <3>1. j.m = d /\ chat[d].status = "queued" /\ Handed(j) /\ j \in DOMAIN queue /\ j \in Jobs /\ j \notin claims
      BY <1>2, <2>1 DEF Outbound, ShapeInv, TypeOK, BagToSet
    <3>2. j = Job("send", d) \/ j = Job("resend", d)
      BY <3>1 DEF Jobs, Job, Handed
    <3>3. Sends(d) \/ Resends(d)
      BY <3>1, <3>2 DEF Sends, Resends
    <3>4. OneTry(d)
      BY DEF OneAttempt
    <3>5. \A v \in Workers : ~Tries(v, d)
      BY <3>3, <3>4 DEF OneTry
    <3> QED BY <3>1, <3>5 DEF Stores, Tries, Held
  <2>2. ASSUME Confirm(w) \/ Except(w) \/ (\E answer : ProviderCall(w, answer))
        PROVE  chat[d].status = "queued" /\ \A v \in Workers : ~Stores(v, d)
    <3>1. wk[w].step \in Held /\ wk[w].step # "store"
      BY <2>2 DEF Confirm, Except, ProviderCall, InJob, Held
    <3>2. chat' = chat \/ \E s : SetStatus(wk[w].doc, s)
      BY <2>2 DEF Confirm, Except, ProviderCall
    <3>3. wk[w].doc = d
      BY <1>2, <3>2
    <3> QED BY <1>4, <3>1, <3>3 DEF Stores
  <2>3. ASSUME StoreSent(w) PROVE chat[d].status = "queued" /\ \A v \in Workers : Stores(v, d) => v = w
    <3>1. wk[w].step \in Held /\ SetStatus(wk[w].doc, "sent")
      BY <2>3 DEF StoreSent, InJob, Held
    <3>2. wk[w].doc = d
      BY <1>2, <3>1
    <3> QED BY <1>4, <3>1, <3>2
  <2>4. ASSUME NEW j \in BagToSet(queue),
               Decline(w, j) \/ TakeUp(w, j) \/ OutboundEnds(w, j) \/ StartWelcome(w, j)
        PROVE  FALSE
    BY <2>4 DEF Decline, TakeUp, OutboundEnds, StartWelcome, AnswerOf
  <2>5. ~(GenerateFails(w) \/ Flags(w) \/ SendWelcome(w) \/ WorkerCrash(w))
    BY <1>3 DEF GenerateFails, Flags, SendWelcome, WorkerCrash
  <2>6. ~InsertReply(w)
    BY <1>3 DEF InsertReply
  <2> QED BY <1>5, <2>1, <2>2, <2>3, <2>4, <2>5, <2>6 DEF JobStep
<1>6. ASSUME FailStale PROVE chat[d].status = "queued" /\ \A v \in Workers : ~Stores(v, d)
  <2>1. PICK e \in DOMAIN chat : chat[e].status = "queued" /\ (\A w \in Workers : wk[w].doc # e)
                                 /\ SetStatus(e, "failed")
    BY <1>6 DEF FailStale
  <2> QED BY <1>2, <2>1 DEF Stores
<1>7. ~OursAlone /\ ~\E h \in Handlers : Arrives(h)
  BY <1>3 DEF Arrives, OursAlone
<1> QED BY <1>3, <1>5, <1>6, <1>7, NoJobStep

(* Nobody tries what is settled: a document of which a worker stores the   *)
(* success is still queued.                                                *)
LEMMA AcceptedLives ==
  ASSUME ShapeInv, OneAttempt, NEW d \in DOMAIN chat, Accepted(d)
  PROVE  Live(d)
<1>1. ASSUME NEW w \in Workers, Stores(w, d) PROVE chat[d].status = "queued"
  BY <1>1, HeldBy DEF Stores, Held
<1> QED BY <1>1 DEF Accepted, Live

(* What the provider accepted stays accepted, unless the worker dies that  *)
(* was to store it.                                                        *)
LEMMA AcceptedStays ==
  ASSUME ShapeInv, OneAttempt, [Next]_vars, NEW d \in DOMAIN chat, Accepted(d),
         chat[d].trigger \notin excused'
  PROVE  Accepted(d)'
<1>1. ASSUME NEW w \in Workers, StoreSent(w), wk[w].doc = d PROVE chat'[d].status = "sent"
  <2>1. chat \in Seq(Doc) /\ chat[d] \in Doc
    BY Docs
  <2> QED BY <1>1, <2>1 DEF StoreSent, SetStatus, Doc
<1>2. CASE chat[d].status = "sent"
  BY <1>2, StatusBy DEF Accepted
<1>3. ASSUME NEW w \in Workers, Stores(w, d) PROVE Accepted(d)'
  <2>1. CASE wk'[w] = wk[w]
    BY <1>3, <2>1 DEF Accepted, Stores
  <2>2. CASE wk'[w] # wk[w]
    <3>1. JobStep(w) \/ WorkerCrash(w)
      BY <2>2, OtherJobs, OnlyOwn DEF jobState
    <3>2. ~WorkerCrash(w)
      BY <1>3 DEF WorkerCrash, InJob, Stores
    <3>3. JobStep(w) => StoreSent(w)
      BY <1>3 DEF Stores, JobStep, Decline, TakeUp, Outbound, OutboundEnds, StartWelcome, AnswerOf,
         Take, GenerateFails, InsertReply, Confirm, ProviderCall, Flags, Except, SendWelcome, InJob
    <3> QED BY <1>1, <1>3, <3>1, <3>2, <3>3 DEF Stores, Accepted
  <2> QED BY <2>1, <2>2
<1> QED BY <1>2, <1>3 DEF Accepted

LEMMA ExcusedGrow ==
  ASSUME [Next]_vars
  PROVE  excused \subseteq excused'
<1>1. ASSUME NEW w \in Workers, JobStep(w) \/ WorkerCrash(w) PROVE excused \subseteq excused'
  BY <1>1 DEF JobStep, WorkerCrash, Decline, TakeUp, Outbound, OutboundEnds, StartWelcome,
     AnswerOf, GenerateFails, InsertReply, Confirm, ProviderCall, StoreSent, Flags, Except, SendWelcome
<1> QED BY <1>1, OtherJobs DEF jobState

(* A reply that is under way was so before, or has just been inserted.     *)
LEMMA LiveBy ==
  ASSUME ShapeInv, OneAttempt, [Next]_vars, NEW m, NEW d, Reply(d, m)', Live(d)'
  PROVE  \/ d \in DOMAIN chat /\ Reply(d, m) /\ Live(d)
         \/ \E w \in Workers : Generates(w, m) /\ Replies(w) /\ d = Len(chat) + 1
<1>1. /\ chat \in Seq(Doc) /\ d \in DOMAIN chat' /\ chat'[d].from = "ai"
      /\ ~chat'[d].fallback /\ chat'[d].trigger = m
  BY Docs DEF Reply, IsAi
<1>2. CASE d \in DOMAIN chat
  <2>1. Reply(d, m)
    BY <1>1, <1>2, ChatGrows DEF SameDoc, Reply, IsAi
  <2>2. Live(d)
    BY <1>2, StatusBy DEF Live
  <2> QED BY <1>2, <2>1, <2>2
<1>3. CASE d \notin DOMAIN chat
  <2>1. ASSUME NEW x, chat' = Append(chat, x) PROVE d = Len(chat) + 1 /\ chat'[d] = x
    BY <1>1, <1>3, <2>1, Appended
  <2>2. chat' # chat /\ ~Marked
    BY <1>1, <1>3 DEF Marked, SetStatus
  <2>3. ~OursAlone /\ \A h \in Handlers : ~Arrives(h)
    BY <1>1, <2>1 DEF OursAlone, TeamReply, Notice, Arrives, Received
  <2>4. PICK w \in Workers : Replies(w)
    BY <2>2, <2>3, ChatBy DEF ChatMoves
  <2>5. d = Len(chat) + 1 /\ chat'[d] = ReplyOf(w)
    BY <2>1, <2>4 DEF Replies
  <2>6. ReplyOf(w).fallback = InJob(w, "fallback") /\ ReplyOf(w).trigger = wk[w].job.m
    BY DEF ReplyOf
  <2>7. Generates(w, m)
    BY <1>1, <2>4, <2>5, <2>6 DEF Replies, Generates, InJob
  <2> QED BY <2>4, <2>5, <2>7
<1> QED BY <1>2, <1>3

(* An answer is counted when the provider accepts a real reply.            *)
LEMMA AnswersBy ==
  ASSUME ShapeInv, OneAttempt, [Next]_vars, NEW m \in Inbound, m \notin excused',
         answers'[m] # answers[m]
  PROVE  \E w \in Workers : \E d : /\ wk[w].step = "call" /\ wk[w].doc = d /\ Reply(d, m)
                                   /\ answers'[m] = answers[m] + 1 /\ Stores(w, d)'
<1>1. answers \in [0..MaxInbound -> Nat] /\ m \in 0..MaxInbound /\ m # 0
  BY ConversationBoundsAssumption DEF ShapeInv, TypeOK, Inbound
<1>2. PICK w \in Workers : JobStep(w) \/ WorkerCrash(w)
  BY OtherJobs DEF jobState
<1>3. ~SendWelcome(w)
  BY <1>1 DEF SendWelcome
<1>4. \E answer : ProviderCall(w, answer)
  BY <1>2, <1>3 DEF JobStep, WorkerCrash, Decline, TakeUp, Outbound, OutboundEnds, StartWelcome,
     AnswerOf, GenerateFails, InsertReply, Confirm, StoreSent, Flags, Except
<1>5. PICK answer : ProviderCall(w, answer)
  BY <1>4
<1>6. wk[w].step = "call" /\ IsAi(wk[w].doc)
  BY <1>5 DEF ProviderCall, InJob, ShapeInv, WorkInv, Held
<1>7. /\ chat[wk[w].doc].trigger = m /\ answer \in {"sent", "lost"} /\ ~chat[wk[w].doc].fallback
      /\ answers'[m] = answers[m] + 1
  BY <1>1, <1>5, Zenon DEF ProviderCall
<1>8. answer = "sent"
  BY <1>5, <1>7 DEF ProviderCall
<1>9. JobTo(w, "store")
  BY <1>5, <1>8 DEF ProviderCall
<1>10. wk'[w].step = "store" /\ wk'[w].doc = wk[w].doc
  BY <1>9, StepTo
<1>11. PICK d : d = wk[w].doc
  OBVIOUS
<1>12. Reply(d, m) /\ Stores(w, d)'
  BY <1>6, <1>7, <1>10, <1>11 DEF Reply, Stores
<1> QED BY <1>6, <1>7, <1>11, <1>12

(* The check a job makes before it generates, with the keys, sees every    *)
(* reply that is under way or sent.                                        *)
LEMMA TakenUp ==
  ASSUME ReplyInv, NEW w \in Workers, NEW j \in DOMAIN queue, TakeUp(w, j), wk' # wk,
         j.m \notin excused'
  PROVE  /\ \A v \in Workers : Generates(v, j.m) => v = w
         /\ \A d : Reply(d, j.m) => ~Live(d)
         /\ chat' = chat
<1>1. /\ j \notin claims /\ ~answered_after(j.m, j.kind = "catch") /\ ~Overlaps(w, j.m)
      /\ chat' = chat /\ j.kind \in {"ai", "catch"}
  BY DEF TakeUp, AnswerOf
<1>2. \A v \in Workers : Generates(v, j.m) => v = w
  BY <1>1 DEF Overlaps, Generates
<1>3. ASSUME NEW d, Reply(d, j.m), Live(d) PROVE FALSE
  <2>1. d \in DOMAIN chat /\ chat[d].from = "ai" /\ ~chat[d].fallback /\ chat[d].trigger = j.m
    BY <1>3 DEF Reply, IsAi
  <2>2. PICK e \in DOMAIN chat : e < d /\ Holds(e, j.m)
    BY <2>1 DEF ReplyInv, ShapeInv, ChatInv
  <2>3. \A f \in DOMAIN chat : Holds(f, j.m) => f = e
    BY <2>2 DEF ReplyInv, StoredOnce, Holds
  <2> DEFINE since == CHOOSE f \in DOMAIN chat : Holds(f, j.m)
  <2>4. since = e
    BY <2>2, <2>3
  <2>5. d \in since + 1..Len(chat)
    <3>1. chat \in Seq(Doc)
      BY Docs DEF ReplyInv
    <3>2. d \in e + 1..Len(chat)
      BY <2>1, <2>2, <3>1
    <3> HIDE DEF since
    <3> QED BY <2>4, <3>2
  <2>6. chat[d].from # "customer" /\ Counts(d)
    BY <1>3, <2>1 DEF Counts, Live
  <2>7. j.kind = "catch" => answered_after(j.m, j.kind = "catch")
    BY <2>5, <2>6 DEF answered_after
  <2>8. chat[d].catchup => answered_after(j.m, j.kind = "catch")
    BY <2>1, <2>5, <2>6 DEF answered_after
  <2>9. j.kind = "ai" /\ ~chat[d].catchup
    BY <1>1, <2>7, <2>8
  <2>10. j \in Jobs /\ Job("ai", j.m) \in claims
    BY <2>1, <2>9 DEF ReplyInv, KeyInv, ShapeInv, TypeOK, BagToSet
  <2>11. j = Job("ai", j.m)
    BY <2>9, <2>10 DEF Jobs, Job
  <2> QED BY <1>1, <2>10, <2>11
<1> QED BY <1>1, <1>2, <1>3

(* A reply is inserted by its worker, which then confirms it.              *)
LEMMA InsertedBy ==
  ASSUME ShapeInv, [Next]_vars, NEW w \in Workers, Replies(w)
  PROVE  \E u \in Workers : /\ Replies(u) /\ wk'[u].step = "confirm"
                            /\ wk[u].job.m = wk[w].job.m
                            /\ InJob(u, "fallback") = InJob(w, "fallback")
<1>1. /\ chat \in Seq(Doc) /\ DOMAIN chat' # DOMAIN chat /\ chat'[Len(chat) + 1] = ReplyOf(w)
      /\ \A x : chat' = Append(chat, x) => x = ReplyOf(w)
  BY Docs, Appended DEF Replies
<1>2. \A d, s : ~SetStatus(d, s)
  BY <1>1 DEF SetStatus
<1>3. PICK u \in Workers : JobStep(u) \/ WorkerCrash(u)
  <2>1. chat' # chat /\ ~FailStale
    BY <1>1, <1>2 DEF FailStale
  <2>2. ~OursAlone /\ \A h \in Handlers : ~Arrives(h)
    BY <1>1 DEF OursAlone, TeamReply, Notice, ReplyOf, Arrives, Received
  <2> QED BY <2>1, <2>2, NoJobStep
<1>4. InsertReply(u)
  <2>1. chat' # Append(chat, Notice)
    BY <1>1 DEF Notice, ReplyOf
  <2> QED BY <1>1, <1>2, <1>3, <2>1 DEF JobStep, WorkerCrash, Decline, TakeUp, Outbound,
     OutboundEnds, StartWelcome, AnswerOf, GenerateFails, Confirm, ProviderCall, StoreSent, Flags,
     Except, SendWelcome
<1>5. /\ wk[u].step \in {"generate", "fallback"} /\ chat' = Append(chat, ReplyOf(u))
      /\ wk' = [wk EXCEPT ![u].step = "confirm", ![u].doc = Len(chat')]
  BY <1>1, <1>4, Zenon DEF InsertReply, ReplyOf
<1>6. wk'[u].step = "confirm"
  BY <1>5, StepTo
<1>7. ReplyOf(u) = ReplyOf(w)
  BY <1>1, <1>5
<1>8. wk[u].job.m = wk[w].job.m /\ InJob(u, "fallback") = InJob(w, "fallback")
  <2>1. /\ ReplyOf(u).trigger = wk[u].job.m /\ ReplyOf(u).fallback = InJob(u, "fallback")
        /\ ReplyOf(w).trigger = wk[w].job.m /\ ReplyOf(w).fallback = InJob(w, "fallback")
    BY DEF ReplyOf
  <2> QED BY <1>7, <2>1
<1> QED BY <1>5, <1>6, <1>8 DEF Replies

LEMMA AnswerStep == ReplyInv /\ [Next]_vars => AnswerInv'
<1> SUFFICES ASSUME ReplyInv, [Next]_vars, NEW m \in Inbound, m \notin excused'
             PROVE  AnsweredOk(m)'
  BY DEF AnswerInv
<1>1. ShapeInv /\ OneAttempt /\ AnsweredOk(m)
  BY ExcusedGrow DEF ReplyInv, AnswerInv
<1>2. chat \in Seq(Doc) /\ wk \in [Workers -> WorkType]
  BY <1>1, Docs
<1>3. \A w \in Workers : Generates(w, m)' =>
        \/ Generates(w, m)
        \/ \E j \in DOMAIN queue : j.m = m /\ TakeUp(w, j) /\ Begin(w, j, "generate")
  <2>1. \A w \in Workers : \A j : Begin(w, j, "generate") => wk'[w].job = j
    BY <1>2 DEF Begin
  <2> QED BY <1>1, <2>1, GeneratesBy DEF Generates
<1>4. ASSUME NEW w \in Workers, NEW j \in DOMAIN queue, j.m = m, TakeUp(w, j), Begin(w, j, "generate")
      PROVE  /\ \A v \in Workers : Generates(v, m) => v = w
             /\ \A d : Reply(d, m) => ~Live(d)
             /\ chat' = chat /\ \A v \in Workers : v # w => wk'[v] = wk[v]
  <2>1. wk'[w].step = "generate" /\ wk[w].step = "idle"
    BY <1>2, <1>4 DEF Begin, TakeUp, AnswerOf, Take, InJob
  <2>2. wk' # wk /\ JobStep(w)
    BY <1>4, <2>1 DEF JobStep, BagToSet
  <2> QED BY <1>1, <1>4, <2>2, TakenUp, OnlyOwn
<1>5. ASSUME NEW v \in Workers, NEW w \in Workers, Generates(v, m)', Generates(w, m)'
      PROVE  v = w
  <2>1. ASSUME NEW a \in Workers, NEW b \in Workers, Generates(a, m)', Generates(b, m)',
               ~Generates(a, m)
        PROVE  a = b
    <3>1. PICK j \in DOMAIN queue : j.m = m /\ TakeUp(a, j) /\ Begin(a, j, "generate")
      BY <1>3, <2>1
    <3>2. a # b => wk'[b] = wk[b]
      BY <1>4, <3>1
    <3>3. a # b => Generates(b, m)
      BY <2>1, <3>2 DEF Generates
    <3> QED BY <1>4, <3>1, <3>3
  <2>2. CASE Generates(v, m) /\ Generates(w, m)
    BY <1>1, <2>2 DEF AnsweredOk
  <2> QED BY <1>5, <2>1, <2>2
<1>6. ASSUME NEW w \in Workers, Generates(w, m), Replies(w)
      PROVE  /\ \A d : Reply(d, m) => ~Live(d)
             /\ \A v \in Workers : ~Generates(v, m)'
  <2>1. \A d : Reply(d, m) => ~Live(d)
    BY <1>1, <1>6 DEF AnsweredOk
  <2>2. chat' # chat
    BY <1>2, <1>6, Appended DEF Replies
  <2>3. ASSUME NEW v \in Workers, Generates(v, m)' PROVE FALSE
    <3>1. Generates(v, m)
      BY <1>3, <1>4, <2>2, <2>3
    <3>2. v = w
      BY <1>1, <1>6, <3>1 DEF AnsweredOk
    <3>3. PICK u \in Workers : /\ Replies(u) /\ wk'[u].step = "confirm"
                               /\ wk[u].job.m = wk[w].job.m
                               /\ InJob(u, "fallback") = InJob(w, "fallback")
      BY <1>1, <1>6, InsertedBy
    <3>4. Generates(u, m)
      BY <1>6, <3>3 DEF Generates, Replies, InJob
    <3>5. u = v
      BY <1>1, <3>1, <3>4 DEF AnsweredOk
    <3> QED BY <2>3, <3>3, <3>5 DEF Generates
  <2> QED BY <2>1, <2>3
<1>7. ASSUME NEW d, Reply(d, m)', Live(d)'
      PROVE  \/ d \in DOMAIN chat /\ Reply(d, m) /\ Live(d)
             \/ /\ d = Len(chat) + 1 /\ (\A e : Reply(e, m) => ~Live(e))
                /\ \A v \in Workers : ~Generates(v, m)'
  BY <1>1, <1>6, <1>7, LiveBy
<1>8. ASSUME NEW w \in Workers, Generates(w, m)', NEW d, Reply(d, m)', Live(d)' PROVE FALSE
  <2>1. d \in DOMAIN chat /\ Reply(d, m) /\ Live(d)
    BY <1>7, <1>8
  <2>2. ~Generates(w, m)
    BY <1>1, <2>1 DEF AnsweredOk
  <2> QED BY <1>3, <1>4, <1>8, <2>1, <2>2
<1>9. ASSUME NEW d, NEW e, Reply(d, m)', Live(d)', Reply(e, m)', Live(e)' PROVE d = e
  BY <1>1, <1>7, <1>9 DEF AnsweredOk
<1>10. answers \in [0..MaxInbound -> Nat] /\ m \in 0..MaxInbound
  BY <1>1, ConversationBoundsAssumption DEF ShapeInv, TypeOK, Inbound
<1>11. ASSUME NEW d, Reply(d, m), Accepted(d) PROVE Reply(d, m)' /\ Accepted(d)'
  <2>1. d \in DOMAIN chat /\ chat[d].trigger = m
    BY <1>11 DEF Reply, IsAi
  <2>2. Accepted(d)'
    BY <1>1, <1>11, <2>1, AcceptedStays
  <2>3. Reply(d, m)'
    BY <1>1, <1>11, <2>1, ChatGrows DEF Reply, SameDoc
  <2> QED BY <2>2, <2>3
<1>12. answers'[m] <= 1 /\ (answers'[m] = 1 => \E d : Reply(d, m)' /\ Accepted(d)')
  <2>1. CASE answers'[m] = answers[m]
    BY <1>1, <1>11, <2>1 DEF AnsweredOk
  <2>2. CASE answers'[m] # answers[m]
    <3>0. PICK w \in Workers :
            \E d : /\ wk[w].step = "call" /\ wk[w].doc = d /\ Reply(d, m)
                   /\ answers'[m] = answers[m] + 1 /\ Stores(w, d)'
      BY <1>1, <2>2, AnswersBy
    <3>1. PICK d : /\ wk[w].step = "call" /\ wk[w].doc = d /\ Reply(d, m)
                   /\ answers'[m] = answers[m] + 1 /\ Stores(w, d)'
      BY <3>0
    <3>2. /\ d \in DOMAIN chat /\ chat[d].status = "queued"
          /\ \A v \in Workers : Tries(v, d) => v = w
      BY <1>1, <3>1, HeldBy DEF Held
    <3>3. ~Accepted(d)
      BY <3>1, <3>2 DEF Accepted, Stores, Tries, Held
    <3>4. ASSUME NEW e, Reply(e, m), Accepted(e) PROVE FALSE
      <4>1. Live(e) /\ Live(d)
        BY <1>1, <3>2, <3>4, AcceptedLives DEF Live, Reply, IsAi
      <4>2. d = e
        BY <1>1, <3>1, <3>4, <4>1 DEF AnsweredOk
      <4> QED BY <3>3, <3>4, <4>2
    <3>5. answers[m] = 0
      BY <1>1, <1>10, <3>4 DEF AnsweredOk
    <3>6. Reply(d, m)' /\ Accepted(d)'
      <4>1. Reply(d, m)'
        BY <1>1, <3>1, <3>2, ChatGrows DEF Reply, SameDoc
      <4> QED BY <3>1, <4>1 DEF Accepted
    <3> QED BY <3>1, <3>5, <3>6
  <2> QED BY <2>1, <2>2
<1> QED BY <1>5, <1>8, <1>9, <1>12, Zenon DEF AnsweredOk

(* Every message is stored once, however often it is delivered, replayed   *)
(* and looked for; a new customer is welcomed once; and unless a crash or  *)
(* a lost report hid an answer, or two jobs overlapped, the AI answers it  *)
(* once, by its own job or by a catch-up, whatever attempts that takes.    *)
THEOREM AnsweredOnce == Spec => []OnceOnly
<1>1. Init => ReplyInv /\ WelcomeInv
  <2> SUFFICES ASSUME Init PROVE ReplyInv /\ WelcomeInv
    OBVIOUS
  <2>1. ShapeInv /\ wk = [w \in Workers |-> NoJob] /\ answers = [m \in 0..MaxInbound |-> 0]
    BY ShapeInit DEF Init
  <2>2. /\ 0 \in 0..MaxInbound /\ Inbound \subseteq 0..MaxInbound
        /\ chat = <<>> \/ chat = <<Received(1)>>
    BY ConversationBoundsAssumption DEF Init, Inbound
  <2>3. \A w \in Workers : wk[w].step = "idle"
    BY <2>1 DEF NoJob
  <2>4. \A d \in DOMAIN chat : d = 1 /\ chat[d].from = "customer"
    BY <2>2 DEF Received
  <2>5. StoredOnce /\ KeyInv
    BY <2>3, <2>4 DEF StoredOnce, KeyInv
  <2>6. WelcomeInv
    BY <2>1, <2>2, <2>3 DEF WelcomeInv
  <2>7. OneAttempt
    <3>1. \A j \in DOMAIN queue : ~Handed(j)
      BY DEF Init, SetToBag, Handed
    <3>2. \A d : ~Sends(d) /\ ~Resends(d)
      BY <3>1 DEF Sends, Resends, Job, Handed
    <3> QED BY <2>3, <3>2 DEF OneAttempt, OneTry, Tries, Held
  <2>8. AnswerInv
    BY <2>1, <2>2, <2>3, <2>4 DEF AnswerInv, AnsweredOk, Generates, Reply, IsAi
  <2> QED BY <2>1, <2>5, <2>6, <2>7, <2>8 DEF ReplyInv
<1>2. ReplyInv /\ WelcomeInv /\ [Next]_vars => ReplyInv' /\ WelcomeInv'
  <2>1. ReplyInv /\ WelcomeInv /\ [Next]_vars =>
          ShapeInv' /\ StoredOnce' /\ KeyInv' /\ OneAttempt' /\ AnswerInv' /\ WelcomeInv'
    BY ShapeStep, OnceStep, KeyStep, OneTryStep, AnswerStep, WelcomeStep DEF ReplyInv
  <2> QED BY <2>1 DEF ReplyInv
<1>3. ReplyInv /\ WelcomeInv => OnceOnly
  <2> SUFFICES ASSUME ReplyInv, WelcomeInv PROVE OnceOnly
    OBVIOUS
  <2>1. \A m \in Inbound : answers[m] \in Nat
    BY ConversationBoundsAssumption DEF ReplyInv, ShapeInv, TypeOK, Inbound
  <2>2. \A m \in Inbound : answers[m] > 1 => m \in excused
    BY <2>1 DEF ReplyInv, AnswerInv, AnsweredOk
  <2>3. \A m \in Inbound : \A d, e \in DOMAIN chat : Holds(d, m) /\ Holds(e, m) => d = e
    BY DEF ReplyInv, StoredOnce, Holds
  <2> QED BY <2>2, <2>3 DEF WelcomeInv, OnceOnly
<1> QED BY <1>1, <1>2, <1>3, PTL DEF Spec

=============================================================================
