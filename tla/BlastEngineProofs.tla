--------------------------- MODULE BlastEngineProofs ---------------------------
(***************************************************************************)
(* Theorems about BlastEngine, for any recipients, workers, clients,       *)
(* bounds and scenarios.                                                   *)
(***************************************************************************)
EXTENDS BlastEngine, FiniteSetTheorems, TLAPS

-----------------------------------------------------------------------------
(* The invariant *)

(* What worker w is about to do with recipient r, once it has taken it. *)
HandSteps == {"meta_sent", "attempt", "mark", "put_back", "except"}
Holding(w, r) == IF wk[w].r = r /\ wk[w].step \in HandSteps THEN wk[w].step ELSE "none"

InNoHand(r) == \A w \in Workers : Holding(w, r) = "none"

(* Workers that may yet send to r or have it sent to again, and those that *)
(* have sent and are about to note it.                                     *)
Draws(r) == {w \in Workers : Holding(w, r) \notin {"none", "mark"}}
Marks(r) == {w \in Workers : Holding(w, r) = "mark"}

(* 1 if a job, or a request, may give r to another worker. *)
Waiting(r) ==
  IF \/ rstat[r] \in {"pending", "retrying", "failed"}
     \/ rstat[r] = "processing" /\ InNoHand(r)
  THEN 1 ELSE 0

(* 1 if a report may take the message of r back. *)
Noted(r) == IF rstat[r] = "sent" /\ scenario.provider = "twilio" THEN 1 ELSE 0

(* Each chance of another message is paid for: the first by the recipient, *)
(* every further one by a message that was lost or reported failed.        *)
WithinBudget(r) == live[r] + Cardinality(Draws(r)) + Waiting(r) <= lost[r] + 1

(* Who is about to note a message, and what was noted on Twilio, has one.  *)
HasMessage(r) == Cardinality(Marks(r)) + Noted(r) <= live[r]

(* Two workers have the same recipient only after a fault that noted the   *)
(* message id.                                                             *)
Alone(r) ==
  ~sid[r] \/ lost[r] = 0 =>
    \A w \in Workers : Holding(w, r) # "none" =>
      /\ rstat[r] \in {"processing", "cancelled", "none"}
      /\ \A v \in Workers : Holding(v, r) # "none" => v = w

(* On Meta nobody sends to a recipient that has a message id. *)
MetaSkips(r) ==
  \A w \in Workers :
    /\ Holding(w, r) = "meta_sent" => scenario.provider = "meta" /\ sid[r]
    /\ scenario.provider = "meta" /\ sid[r] => Holding(w, r) \notin {"attempt", "mark"}

AttemptsCounted(r) ==
  lost[r] = 0 => /\ attempts[r] >= 0
                 /\ InNoHand(r) \/ attempts[r] >= 1

RecipientInv(r) ==
  WithinBudget(r) /\ HasMessage(r) /\ Alone(r) /\ MetaSkips(r) /\ AttemptsCounted(r)

(* The rows are made once: until then there is nobody to write to. *)
Blank(r) == rstat[r] = "none" /\ live[r] = 0 /\ InNoHand(r)
MadeOnce ==
  /\ bstat = "none" \/ (\E c \in Clients : At(c, "create_rows"))
       => \A r \in Recipients : Blank(r)
  /\ \A c \in Clients : At(c, "create_rows") =>
       bstat # "none" /\ \A d \in Clients : At(d, "create_rows") => d = c

HasRecipient ==
  \A w \in Workers : wk[w].step \in HandSteps \cup {"win"} => wk[w].r \in Recipients

BlastInv ==
  /\ VariablesOK /\ HasRecipient /\ MadeOnce
  /\ \A r \in Recipients : RecipientInv(r)

-----------------------------------------------------------------------------
(* Counting *)

One(b) == IF b THEN 1 ELSE 0
IsDraw(h) == h \notin {"none", "mark"}

LEMMA CountWithout ==
  ASSUME NEW S, IsFiniteSet(S), NEW w
  PROVE  Cardinality(S) = Cardinality(S \ {w}) + One(w \in S)
<1>1. CASE w \in S
  <2>1. Cardinality(S \ {w}) = Cardinality(S) - 1
    BY <1>1, FS_RemoveElement
  <2> QED BY <1>1, <2>1, FS_CardinalityType DEF One
<1>2. CASE w \notin S
  <2>1. Cardinality(S \ {w}) = Cardinality(S)
    BY <1>2, FS_RemoveElement
  <2> QED BY <1>2, <2>1, FS_CardinalityType DEF One
<1> QED BY <1>1, <1>2

LEMMA HandsAreFinite ==
  ASSUME NEW r
  PROVE  /\ IsFiniteSet(Draws(r)) /\ Cardinality(Draws(r)) \in Nat
         /\ IsFiniteSet(Marks(r)) /\ Cardinality(Marks(r)) \in Nat
<1>1. Draws(r) \in SUBSET Workers /\ Marks(r) \in SUBSET Workers
  BY DEF Draws, Marks
<1>2. IsFiniteSet(Draws(r)) /\ IsFiniteSet(Marks(r))
  BY <1>1, BlastBoundsAssumption, FS_Subset
<1> QED BY <1>2, FS_CardinalityType

(* No worker's hold on r changes; worker w's does, from h to h2. *)
SameHands(r) == \A w \in Workers : Holding(w, r)' = Holding(w, r)
Hand(w, r, h, h2) ==
  /\ Holding(w, r) = h /\ Holding(w, r)' = h2
  /\ \A v \in Workers \ {w} : Holding(v, r)' = Holding(v, r)

LEMMA SameCounts ==
  ASSUME NEW r, SameHands(r)
  PROVE  /\ Cardinality(Draws(r))' = Cardinality(Draws(r))
         /\ Cardinality(Marks(r))' = Cardinality(Marks(r))
         /\ InNoHand(r)' = InNoHand(r)
<1>1. Draws(r)' = Draws(r) /\ Marks(r)' = Marks(r)
  BY DEF Draws, Marks, SameHands
<1>2. InNoHand(r)' = InNoHand(r)
  BY DEF InNoHand, SameHands
<1> QED BY <1>1, <1>2

LEMMA HandCounts ==
  ASSUME NEW w \in Workers, NEW r, NEW h, NEW h2, Hand(w, r, h, h2)
  PROVE  /\ Cardinality(Draws(r))' = Cardinality(Draws(r)) - One(IsDraw(h)) + One(IsDraw(h2))
         /\ Cardinality(Marks(r))' = Cardinality(Marks(r)) - One(h = "mark") + One(h2 = "mark")
<1>1. /\ IsFiniteSet(Draws(r)) /\ IsFiniteSet(Marks(r))
      /\ IsFiniteSet(Draws(r)') /\ IsFiniteSet(Marks(r)')
  <2>1. /\ Draws(r) \in SUBSET Workers /\ Marks(r) \in SUBSET Workers
        /\ Draws(r)' \in SUBSET Workers /\ Marks(r)' \in SUBSET Workers
    BY DEF Draws, Marks
  <2> QED BY <2>1, BlastBoundsAssumption, FS_Subset
<1>2. /\ Draws(r)' \ {w} = Draws(r) \ {w} /\ Marks(r)' \ {w} = Marks(r) \ {w}
      /\ (w \in Draws(r)) = IsDraw(h) /\ (w \in Draws(r)') = IsDraw(h2)
      /\ (w \in Marks(r)) = (h = "mark") /\ (w \in Marks(r)') = (h2 = "mark")
  BY DEF Draws, Marks, Hand, IsDraw
<1>3. /\ Cardinality(Draws(r)) = Cardinality(Draws(r) \ {w}) + One(IsDraw(h))
      /\ Cardinality(Marks(r)) = Cardinality(Marks(r) \ {w}) + One(h = "mark")
  BY <1>1, <1>2, CountWithout
<1>4. /\ Cardinality(Draws(r))' = Cardinality(Draws(r) \ {w}) + One(IsDraw(h2))
      /\ Cardinality(Marks(r))' = Cardinality(Marks(r) \ {w}) + One(h2 = "mark")
  BY <1>1, <1>2, CountWithout
<1>5. Cardinality(Draws(r) \ {w}) \in Nat /\ Cardinality(Marks(r) \ {w}) \in Nat
  BY <1>1, FS_RemoveElement, FS_CardinalityType
<1> QED BY <1>3, <1>4, <1>5 DEF One

-----------------------------------------------------------------------------
(* What a step may do to one recipient *)

Kept(r) == RecipientInv(r)' /\ (Blank(r) => Blank(r)')

(* Steps in which no worker takes r up or lets it go. *)
RowChange(r) ==
  /\ sid'[r] = sid[r] /\ lost'[r] = lost[r]
  /\ \/ live'[r] = live[r] - 1 /\ live[r] > 0 /\ sid[r]
        /\ rstat[r] = "sent" /\ rstat'[r] = "failed" /\ attempts'[r] = attempts[r]
     \/ /\ live'[r] = live[r]
        /\ \/ attempts'[r] = attempts[r]
              /\ \/ rstat'[r] \in {rstat[r], "none"}
                 \/ rstat[r] # "none" /\ rstat'[r] = "cancelled"
                 \/ rstat[r] = "sent" /\ rstat'[r] = "delivered"
                 \/ rstat[r] = "processing" /\ InNoHand(r) /\ rstat'[r] = "pending"
           \/ rstat[r] = "failed" /\ rstat'[r] = "pending" /\ attempts'[r] = 0

LEMMA UntouchedKeeps ==
  ASSUME VariablesOK, NEW r \in Recipients, RecipientInv(r),
         scenario'.provider = scenario.provider, SameHands(r), RowChange(r)
  PROVE  Kept(r)
<1>0. /\ live[r] \in Nat /\ lost[r] \in Nat /\ sid[r] \in BOOLEAN /\ attempts[r] \in Int
      /\ scenario.provider \in {"twilio", "meta"}
      /\ Cardinality(Draws(r)) \in Nat /\ Cardinality(Marks(r)) \in Nat
      /\ InNoHand(r) \in BOOLEAN
  BY HandsAreFinite DEF VariablesOK, ScenarioTypes, InNoHand
<1>1. /\ Cardinality(Draws(r))' = Cardinality(Draws(r))
      /\ Cardinality(Marks(r))' = Cardinality(Marks(r))
      /\ InNoHand(r)' = InNoHand(r)
  BY SameCounts
<1>2. WithinBudget(r)'
  BY <1>0, <1>1 DEF RecipientInv, WithinBudget, RowChange, Waiting
<1>3. HasMessage(r)'
  <2>1. CASE live'[r] = live[r]
    BY <1>0, <1>1, <2>1 DEF RecipientInv, HasMessage, RowChange, Noted
  <2>2. CASE live'[r] # live[r] /\ scenario.provider = "twilio"
    BY <1>0, <1>1, <2>2 DEF RecipientInv, HasMessage, RowChange, Noted
  <2>3. CASE live'[r] # live[r] /\ scenario.provider = "meta"
    <3>1. Marks(r) = {}
      BY <2>3 DEF RecipientInv, MetaSkips, RowChange, Marks
    <3>2. Cardinality(Marks(r)) = 0
      BY <3>1, FS_EmptySet
    <3> QED BY <1>0, <1>1, <2>3, <3>2 DEF HasMessage, RowChange, Noted
  <2> QED BY <1>0, <2>1, <2>2, <2>3
<1>4. Alone(r)'
  BY <1>0, <1>1 DEF RecipientInv, Alone, RowChange, SameHands, InNoHand
<1>5. MetaSkips(r)'
  BY DEF RecipientInv, MetaSkips, RowChange, SameHands
<1>6. AttemptsCounted(r)'
  <2>1. CASE attempts'[r] = attempts[r]
    BY <1>1, <2>1 DEF RecipientInv, AttemptsCounted, RowChange
  <2>2. CASE attempts'[r] # attempts[r]
    <3>1. lost[r] = 0 => InNoHand(r)
      BY <2>2 DEF RecipientInv, Alone, RowChange, InNoHand
    <3> QED BY <1>1, <2>2, <3>1 DEF AttemptsCounted, RowChange
  <2> QED BY <2>1, <2>2
<1>7. Blank(r) => Blank(r)'
  BY <1>0, <1>1 DEF Blank, RowChange
<1> QED BY <1>2, <1>3, <1>4, <1>5, <1>6, <1>7 DEF Kept, RecipientInv

(* Steps of the worker that takes r up, has it or lets it go, from h to h2.*)
NewStatus(r, s) == rstat'[r] = IF rstat[r] = "none" THEN "none" ELSE s
Ledger(r, dlive, dlost) == live'[r] = live[r] + dlive /\ lost'[r] = lost[r] + dlost

HandChange(r, h, h2) ==
  \/ (* Win *)
     /\ h = "none" /\ h2 = IF scenario.provider = "meta" /\ sid[r] THEN "meta_sent" ELSE "attempt"
     /\ rstat[r] \in {"pending", "retrying"} /\ rstat'[r] = "processing"
     /\ attempts'[r] = attempts[r] + 1 /\ sid'[r] = sid[r] /\ Ledger(r, 0, 0)
  \/ (* MetaSent *)
     /\ h = "meta_sent" /\ h2 = "none" /\ NewStatus(r, "sent")
     /\ attempts'[r] = attempts[r] /\ sid'[r] = sid[r] /\ Ledger(r, 0, 0)
  \/ (* Attempt *)
     /\ h = "attempt" /\ rstat'[r] = rstat[r]
     /\ attempts'[r] = attempts[r] /\ sid'[r] = sid[r]
     /\ \/ h2 = "mark" /\ Ledger(r, 1, 0)
        \/ h2 = "except" /\ Ledger(r, 1, 1)
        \/ h2 \in {"put_back", "except"} /\ Ledger(r, 0, 0)
  \/ (* Mark, Fault *)
     /\ h = "mark" /\ attempts'[r] = attempts[r]
     /\ \/ h2 = "none" /\ Ledger(r, 0, 0)
        \/ h2 = "except" /\ Ledger(r, 0, 1)
     /\ \/ NewStatus(r, "sent") /\ sid'[r] = TRUE
        \/ h2 = "except" /\ rstat'[r] = rstat[r] /\ sid'[r] = sid[r]
  \/ (* PutBack, Except *)
     /\ h \in {"put_back", "except"} /\ h2 = "none" /\ sid'[r] = sid[r] /\ Ledger(r, 0, 0)
     /\ \/ h = "put_back" /\ NewStatus(r, "pending") /\ attempts'[r] = attempts[r] - 1
        \/ /\ h = "except" /\ attempts'[r] = attempts[r]
           /\ NewStatus(r, "retrying") \/ NewStatus(r, "failed")
  \/ (* Crash *)
     /\ h \in HandSteps /\ h2 = "none" /\ rstat'[r] = rstat[r]
     /\ attempts'[r] = attempts[r] /\ sid'[r] = sid[r] /\ Ledger(r, 0, One(h = "mark"))

LEMMA HandKeeps ==
  ASSUME VariablesOK, NEW r \in Recipients, RecipientInv(r),
         scenario'.provider = scenario.provider,
         NEW w \in Workers, NEW h, NEW h2, Hand(w, r, h, h2), HandChange(r, h, h2)
  PROVE  Kept(r)
<1>0. /\ live[r] \in Nat /\ lost[r] \in Nat /\ sid[r] \in BOOLEAN /\ attempts[r] \in Int
      /\ scenario.provider \in {"twilio", "meta"}
      /\ Cardinality(Draws(r)) \in Nat /\ Cardinality(Marks(r)) \in Nat
      /\ InNoHand(r) \in BOOLEAN /\ InNoHand(r)' \in BOOLEAN
  BY HandsAreFinite DEF VariablesOK, ScenarioTypes, InNoHand
<1>1. /\ Cardinality(Draws(r))' = Cardinality(Draws(r)) - One(IsDraw(h)) + One(IsDraw(h2))
      /\ Cardinality(Marks(r))' = Cardinality(Marks(r)) - One(h = "mark") + One(h2 = "mark")
  BY HandCounts
<1>2. (h # "none" => ~InNoHand(r)) /\ (h2 # "none" => ~InNoHand(r)')
  BY DEF Hand, InNoHand
<1>3. WithinBudget(r)'
  BY <1>0, <1>1, <1>2
     DEF RecipientInv, WithinBudget, HandChange, Waiting, One, IsDraw, Ledger, NewStatus, HandSteps
<1>4. HasMessage(r)'
  <2>1. h = "meta_sent" => scenario.provider = "meta"
    BY DEF RecipientInv, MetaSkips, Hand
  <2> QED BY <1>0, <1>1, <2>1
             DEF RecipientInv, HasMessage, HandChange, Noted, One, Ledger, NewStatus, HandSteps
<1>5. Alone(r)'
  <2>1. SUFFICES ASSUME ~sid'[r] \/ lost'[r] = 0,
                        NEW u \in Workers, Holding(u, r)' # "none"
                 PROVE  /\ rstat'[r] \in {"processing", "cancelled", "none"}
                        /\ \A v \in Workers : Holding(v, r)' # "none" => v = u
    BY DEF Alone
  <2>2. ~sid[r] \/ lost[r] = 0
    BY <1>0, <2>1 DEF HandChange, Ledger, One
  <2>3. \A v \in Workers : Holding(v, r) # "none" =>
          /\ rstat[r] \in {"processing", "cancelled", "none"}
          /\ \A x \in Workers : Holding(x, r) # "none" => x = v
    BY <2>2 DEF RecipientInv, Alone
  <2>4. CASE h = "none"
    BY <2>1, <2>3, <2>4 DEF Hand, HandChange, HandSteps
  <2>5. CASE h # "none"
    <3>1. \A v \in Workers : Holding(v, r)' # "none" => v = w
      BY <2>3, <2>5 DEF Hand
    <3>2. h2 # "none" /\ u = w
      BY <2>1, <3>1 DEF Hand
    <3>3. rstat'[r] = rstat[r] \/ (sid'[r] /\ Ledger(r, 0, 1))
      BY <2>5, <3>2 DEF HandChange
    <3>4. rstat'[r] = rstat[r]
      BY <1>0, <2>1, <3>3 DEF Ledger
    <3> QED BY <2>3, <2>5, <3>1, <3>2, <3>4 DEF Hand
  <2> QED BY <2>4, <2>5
<1>6. MetaSkips(r)'
  <2>1. SUFFICES ASSUME NEW u \in Workers
                 PROVE  /\ Holding(u, r)' = "meta_sent" => scenario'.provider = "meta" /\ sid'[r]
                        /\ scenario'.provider = "meta" /\ sid'[r]
                             => Holding(u, r)' \notin {"attempt", "mark"}
    BY DEF MetaSkips
  <2>2. sid[r] => sid'[r]
    BY DEF HandChange
  <2>3. CASE u = w
    BY <2>2, <2>3 DEF RecipientInv, MetaSkips, Hand, HandChange, HandSteps
  <2>4. CASE u # w /\ sid'[r] = sid[r]
    BY <2>4 DEF RecipientInv, MetaSkips, Hand
  <2>5. CASE u # w /\ sid'[r] # sid[r]
    <3>1. h = "mark" /\ ~sid[r]
      BY <1>0, <2>2, <2>5 DEF HandChange
    <3>2. Holding(u, r) = "none"
      BY <2>5, <3>1 DEF RecipientInv, Alone, Hand
    <3> QED BY <2>5, <3>2 DEF Hand
  <2> QED BY <2>3, <2>4, <2>5
<1>7. AttemptsCounted(r)'
  <2>1. SUFFICES ASSUME lost'[r] = 0
                 PROVE  attempts'[r] >= 0 /\ (InNoHand(r)' \/ attempts'[r] >= 1)
    BY DEF AttemptsCounted
  <2>2. lost[r] = 0
    BY <1>0, <2>1 DEF HandChange, Ledger, One
  <2>3. attempts[r] >= 0 /\ (h # "none" => attempts[r] >= 1)
    BY <1>2, <2>2 DEF RecipientInv, AttemptsCounted
  <2>4. h # "none" /\ h2 = "none" => InNoHand(r)'
    <3>1. \A v \in Workers : Holding(v, r) # "none" /\ h # "none" => v = w
      BY <2>2 DEF RecipientInv, Alone, Hand
    <3> QED BY <3>1 DEF Hand, InNoHand
  <2>5. h # "none" => attempts'[r] >= 0 /\ (h2 = "none" \/ attempts'[r] >= 1)
    BY <1>0, <2>3 DEF HandChange
  <2>6. h = "none" => attempts'[r] >= 1
    BY <1>0, <2>3 DEF HandChange, HandSteps
  <2>7. attempts'[r] \in Int
    BY <1>0 DEF HandChange
  <2> QED BY <2>4, <2>5, <2>6, <2>7
<1>8. ~Blank(r)
  BY <1>2 DEF Blank, HandChange, HandSteps
<1> QED BY <1>3, <1>4, <1>5, <1>6, <1>7, <1>8 DEF Kept, RecipientInv

-----------------------------------------------------------------------------
(* What a step may do to the locals of a job *)

Moves(w, step, r) ==
  /\ wk' \in [Workers -> JobType]
  /\ wk'[w].step = step /\ wk'[w].r = r
  /\ \A v \in Workers \ {w} : wk'[v] = wk[v]

LEMMA PutMoves ==
  ASSUME VariablesOK, NEW w \in Workers, NEW job \in JobType, wk' = [wk EXCEPT ![w] = job]
  PROVE  Moves(w, job.step, job.r)
  BY DEF VariablesOK, Moves

LEMMA LocalsType ==
  ASSUME VariablesOK, NEW w \in Workers
  PROVE  /\ wk[w] \in JobType /\ wk[w].batch \subseteq Recipients /\ wk[w].step \in WorkerSteps
         /\ wk[w].r \in Recipients \cup {NoRecipient} /\ wk[w].cat \in Answers \cup {"none"}
         /\ wk[w].found \in [sent : Nat, failed : Nat] /\ wk[w].after \in AfterRecount
  BY DEF VariablesOK, JobType

LEMMA GotoMoves ==
  ASSUME VariablesOK, NEW w \in Workers, NEW s \in WorkerSteps, Goto(w, s)
  PROVE  Moves(w, s, wk[w].r)
<1>1. [wk[w] EXCEPT !.step = s] \in JobType /\ [wk[w] EXCEPT !.step = s].step = s
      /\ [wk[w] EXCEPT !.step = s].r = wk[w].r
  BY LocalsType DEF JobType
<1>2. wk' = [wk EXCEPT ![w] = [wk[w] EXCEPT !.step = s]]
  BY DEF Goto
<1> QED BY <1>1, <1>2, PutMoves

LEMMA ReturnMoves ==
  ASSUME VariablesOK, NEW w \in Workers, Return(w)
  PROVE  Moves(w, "idle", NoRecipient)
<1>1. Idle \in JobType /\ Idle.step = "idle" /\ Idle.r = NoRecipient
  BY DEF Idle, JobType, WorkerSteps, AfterRecount, Zero
<1> QED BY <1>1, PutMoves DEF Return

LEMMA ContinueMoves ==
  ASSUME VariablesOK, NEW w \in Workers, NEW s \in WorkerSteps,
         wk' = [wk EXCEPT ![w] = [Idle EXCEPT !.step = s, !.batch = wk[w].batch]]
  PROVE  Moves(w, s, NoRecipient)
<1> DEFINE job == [Idle EXCEPT !.step = s, !.batch = wk[w].batch]
<1>1. Idle \in JobType
  BY DEF Idle, JobType, WorkerSteps, AfterRecount, Zero
<1>2. job \in JobType /\ job.step = s /\ job.r = NoRecipient
  BY <1>1, LocalsType DEF Idle, JobType
<1> QED BY <1>2, PutMoves

LEMMA ProceedMoves ==
  ASSUME VariablesOK, NEW w \in Workers, Proceed(w)
  PROVE  Moves(w, "loop", NoRecipient)
  BY ContinueMoves DEF Proceed, WorkerSteps

LEMMA RecountMoves ==
  ASSUME VariablesOK, NEW w \in Workers, NEW s \in AfterRecount, RecountThen(w, s)
  PROVE  Moves(w, "recount", wk[w].r)
<1> DEFINE job == [wk[w] EXCEPT !.step = "recount", !.after = s]
<1>1. wk' = [wk EXCEPT ![w] = job]
  BY LocalsType DEF RecountThen, VariablesOK, JobType
<1>2. job \in JobType /\ job.step = "recount" /\ job.r = wk[w].r
  BY LocalsType DEF JobType, WorkerSteps
<1> QED BY <1>1, <1>2, PutMoves

(* What that means for the recipients. *)
LEMMA MovesHands ==
  ASSUME NEW w \in Workers, NEW s, NEW q, Moves(w, s, q), s \notin HandSteps
  PROVE  /\ \A r \in Recipients : r # wk[w].r \/ wk[w].step \notin HandSteps => SameHands(r)
         /\ \A r \in Recipients :
              r = wk[w].r /\ wk[w].step \in HandSteps => Hand(w, r, wk[w].step, "none")
         /\ HasRecipient /\ (s = "win" => q \in Recipients) => HasRecipient'
<1>1. /\ \A v \in Workers \ {w} : wk'[v] = wk[v]
      /\ wk'[w].step = s /\ wk'[w].r = q
  BY DEF Moves
<1>2. \A r : Holding(w, r)' = "none"
  BY <1>1 DEF Holding
<1>3. \A v \in Workers \ {w} : \A r : Holding(v, r)' = Holding(v, r)
  BY <1>1 DEF Holding
<1>4. ASSUME NEW r \in Recipients, r = wk[w].r /\ wk[w].step \in HandSteps
      PROVE  Hand(w, r, wk[w].step, "none")
  BY <1>2, <1>3, <1>4 DEF Hand, Holding
<1>5. ASSUME NEW r \in Recipients, r # wk[w].r \/ wk[w].step \notin HandSteps PROVE SameHands(r)
  <2>1. Holding(w, r) = "none"
    BY <1>5 DEF Holding
  <2> QED BY <1>2, <1>3, <2>1 DEF SameHands
<1>6. HasRecipient /\ (s = "win" => q \in Recipients) => HasRecipient'
  BY <1>1 DEF HasRecipient, HandSteps
<1> QED BY <1>4, <1>5, <1>6

LEMMA MovesHandOn ==
  ASSUME NEW w \in Workers, NEW s, Moves(w, s, wk[w].r), s \in HandSteps, wk[w].r \in Recipients
  PROVE  /\ \A r \in Recipients : r # wk[w].r => SameHands(r)
         /\ \A r \in Recipients : r = wk[w].r =>
              Hand(w, r, IF wk[w].step \in HandSteps THEN wk[w].step ELSE "none", s)
         /\ HasRecipient => HasRecipient'
<1>1. /\ \A v \in Workers \ {w} : wk'[v] = wk[v]
      /\ wk'[w].step = s /\ wk'[w].r = wk[w].r
  BY DEF Moves
<1>2. \A r : Holding(w, r)' = IF r = wk[w].r THEN s ELSE "none"
  BY <1>1 DEF Holding
<1>3. \A v \in Workers \ {w} : \A r : Holding(v, r)' = Holding(v, r)
  BY <1>1 DEF Holding
<1>4. \A r : Holding(w, r) = IF r = wk[w].r /\ wk[w].step \in HandSteps THEN wk[w].step ELSE "none"
  BY DEF Holding
<1>5. \A r \in Recipients : r # wk[w].r => SameHands(r)
  BY <1>2, <1>3, <1>4 DEF SameHands
<1>6. ASSUME NEW r \in Recipients, r = wk[w].r
      PROVE  Hand(w, r, IF wk[w].step \in HandSteps THEN wk[w].step ELSE "none", s)
  BY <1>2, <1>3, <1>4, <1>6 DEF Hand
<1>7. HasRecipient => HasRecipient'
  BY <1>1 DEF HasRecipient
<1> QED BY <1>5, <1>6, <1>7

-----------------------------------------------------------------------------
(* Steps of a job that has no recipient in hand *)

LEMMA NumberType == ASSUME NEW S PROVE Number(S) \in Nat
<1>1. {r \in Recipients : rstat[r] \in S} \in SUBSET Recipients
  OBVIOUS
<1> QED BY <1>1, BlastBoundsAssumption, FS_Subset, FS_CardinalityType DEF Number

LEMMA EmptyHanded ==
  ASSUME HasRecipient, NEW w \in Workers, NEW s, NEW q, Moves(w, s, q),
         s \notin HandSteps, wk[w].step \notin HandSteps, s = "win" => q \in Recipients
  PROVE  HasRecipient' /\ \A r \in Recipients : SameHands(r)
  BY MovesHands

RowsSame == UNCHANGED <<rstat, attempts, sid, live, lost>>
LEMMA RowsSameChange == ASSUME RowsSame PROVE \A r \in Recipients : RowChange(r)
  BY DEF RowsSame, RowChange

(* What such a step leaves as it was. *)
Quiet ==
  /\ HasRecipient' /\ \A r \in Recipients : SameHands(r) /\ RowChange(r)
  /\ scenario'.provider = scenario.provider
  /\ bstat' = "none" => bstat = "none"

LEMMA StartJobQuiet ==
  ASSUME VariablesOK, HasRecipient, NEW w \in Workers, StartJob(w)
  PROVE  VariablesOK' /\ Quiet
<1>1. PICK s \in {"cancel_open", "mark_sending", "pick", "idle"} : Goto(w, s)
  BY DEF StartJob
<1>2. Moves(w, s, wk[w].r)
  BY <1>1, GotoMoves DEF WorkerSteps
<1>3. wk[w].step \notin HandSteps
  BY DEF StartJob, AtStep, HandSteps
<1>4. HasRecipient' /\ \A r \in Recipients : SameHands(r)
  BY <1>2, <1>3, EmptyHanded DEF HandSteps
<1>5. VariablesOK'
  BY <1>2 DEF StartJob, VariablesOK, Moves, dbVars, history
<1> QED BY <1>4, <1>5, RowsSameChange DEF StartJob, dbVars, history, RowsSame, Quiet

LEMMA MarkSendingQuiet ==
  ASSUME VariablesOK, HasRecipient, NEW w \in Workers, MarkSending(w)
  PROVE  VariablesOK' /\ Quiet
<1>2. Moves(w, "pick", wk[w].r)
  BY GotoMoves DEF MarkSending, WorkerSteps
<1>3. wk[w].step \notin HandSteps
  BY DEF MarkSending, AtStep, HandSteps
<1>4. HasRecipient' /\ \A r \in Recipients : SameHands(r)
  BY <1>2, <1>3, EmptyHanded DEF HandSteps
<1>5. VariablesOK'
  BY <1>2 DEF MarkSending, VariablesOK, Moves, history, SetBlast, BlastStatuses
<1> QED BY <1>4, <1>5, RowsSameChange DEF MarkSending, history, RowsSame, Quiet, SetBlast

LEMMA PickQuiet ==
  ASSUME VariablesOK, HasRecipient, NEW w \in Workers, Pick(w)
  PROVE  VariablesOK' /\ Quiet
<1>1. PICK batch \in SUBSET Recipients, s \in {"open_count", "loop"} :
        wk' = [wk EXCEPT ![w].batch = batch, ![w].step = s]
  BY DEF Pick
<1> DEFINE job == [wk[w] EXCEPT !.batch = batch, !.step = s]
<1>2. job \in JobType /\ job.step = s /\ job.r = wk[w].r
  BY LocalsType DEF JobType, WorkerSteps
<1>3. wk' = [wk EXCEPT ![w] = job]
  BY <1>1, LocalsType DEF VariablesOK, JobType
<1>4. Moves(w, s, wk[w].r)
  BY <1>2, <1>3, PutMoves
<1>5. wk[w].step \notin HandSteps
  BY DEF Pick, AtStep, HandSteps
<1>6. HasRecipient' /\ \A r \in Recipients : SameHands(r)
  BY <1>4, <1>5, EmptyHanded DEF HandSteps
<1>7. VariablesOK'
  BY <1>4 DEF Pick, VariablesOK, Moves, dbVars, history
<1> QED BY <1>6, <1>7, RowsSameChange DEF Pick, dbVars, history, RowsSame, Quiet

LEMMA OpenCountQuiet ==
  ASSUME VariablesOK, HasRecipient, NEW w \in Workers, OpenCount(w)
  PROVE  VariablesOK' /\ Quiet
<1>1. PICK s, q : s \in {"idle", "recount"} /\ Moves(w, s, q)
  BY ReturnMoves, RecountMoves DEF OpenCount, AfterRecount
<1>2. wk[w].step \notin HandSteps
  BY DEF OpenCount, AtStep, HandSteps
<1>3. HasRecipient' /\ \A r \in Recipients : SameHands(r)
  BY <1>1, <1>2, EmptyHanded DEF HandSteps
<1>4. VariablesOK'
  BY <1>1 DEF OpenCount, VariablesOK, Moves, dbVars, history
<1> QED BY <1>3, <1>4, RowsSameChange DEF OpenCount, dbVars, history, RowsSame, Quiet

LEMMA LoopQuiet ==
  ASSUME VariablesOK, HasRecipient, NEW w \in Workers, Loop(w)
  PROVE  VariablesOK' /\ Quiet
<1> DEFINE Take(r) == wk' = [wk EXCEPT ![w].r = r, ![w].step = "win", ![w].batch = @ \ {r}]
<1>1. \/ \E r \in wk[w].batch : Take(r)
      \/ RecountThen(w, "open_count") \/ Return(w) \/ Goto(w, "cancel_open")
  BY DEF Loop
<1>2. ASSUME NEW r \in wk[w].batch, Take(r)
      PROVE  Moves(w, "win", r) /\ r \in Recipients
  <2> DEFINE job == [wk[w] EXCEPT !.r = r, !.step = "win", !.batch = wk[w].batch \ {r}]
  <2>1. job \in JobType /\ job.step = "win" /\ job.r = r /\ r \in Recipients
    BY LocalsType DEF JobType, WorkerSteps
  <2>2. wk' = [wk EXCEPT ![w] = job]
    BY <1>2, LocalsType DEF VariablesOK, JobType
  <2> HIDE DEF job
  <2> QED BY <2>1, <2>2, PutMoves
<1> HIDE DEF Take
<1>3. PICK s, q :
        s \in {"win", "recount", "idle", "cancel_open"} /\ Moves(w, s, q) /\ (s = "win" => q \in Recipients)
  BY <1>1, <1>2, RecountMoves, ReturnMoves, GotoMoves DEF WorkerSteps, AfterRecount
<1>4. wk[w].step \notin HandSteps
  BY DEF Loop, AtStep, HandSteps
<1>5. HasRecipient' /\ \A r \in Recipients : SameHands(r)
  BY <1>3, <1>4, EmptyHanded DEF HandSteps
<1>6. VariablesOK'
  BY <1>3 DEF Loop, VariablesOK, Moves, dbVars, history
<1> QED BY <1>5, <1>6, RowsSameChange DEF Loop, dbVars, history, RowsSame, Quiet

LEMMA MoveAllChange ==
  ASSUME VariablesOK, NEW S, NEW t \in RecipientStatuses, MoveAll(S, t)
  PROVE  /\ rstat' \in [Recipients -> RecipientStatuses]
         /\ \A r \in Recipients : rstat'[r] = IF rstat[r] \in S THEN t ELSE rstat[r]
  BY DEF MoveAll, VariablesOK

LEMMA CancelChange ==
  ASSUME VariablesOK, MoveAll(Open, "cancelled"), UNCHANGED <<attempts, sid, live, lost>>
  PROVE  /\ rstat' \in [Recipients -> RecipientStatuses]
         /\ \A r \in Recipients : RowChange(r)
<1>1. "cancelled" \in RecipientStatuses
  BY DEF RecipientStatuses
<1> QED BY <1>1, MoveAllChange DEF RowChange, Open

LEMMA CancelOpenQuiet ==
  ASSUME VariablesOK, HasRecipient, NEW w \in Workers, CancelOpen(w)
  PROVE  VariablesOK' /\ Quiet
<1>1. Moves(w, "recount", wk[w].r)
  BY RecountMoves DEF CancelOpen, AfterRecount
<1>2. wk[w].step \notin HandSteps
  BY DEF CancelOpen, AtStep, HandSteps
<1>3. HasRecipient' /\ \A r \in Recipients : SameHands(r)
  BY <1>1, <1>2, EmptyHanded DEF HandSteps
<1>4. rstat' \in [Recipients -> RecipientStatuses] /\ \A r \in Recipients : RowChange(r)
  BY CancelChange DEF CancelOpen, history
<1>5. VariablesOK'
  BY <1>1, <1>4 DEF CancelOpen, VariablesOK, Moves, history
<1> QED BY <1>3, <1>4, <1>5 DEF CancelOpen, Quiet

LEMMA AccountPauseQuiet ==
  ASSUME VariablesOK, HasRecipient, NEW w \in Workers, AccountPause(w)
  PROVE  VariablesOK' /\ Quiet
<1>1. PICK s, q : s \in {"recount", "loop"} /\ Moves(w, s, q)
  BY RecountMoves, ProceedMoves DEF AccountPause, AfterRecount
<1>2. wk[w].step \notin HandSteps
  BY DEF AccountPause, AtStep, HandSteps
<1>3. HasRecipient' /\ \A r \in Recipients : SameHands(r)
  BY <1>1, <1>2, EmptyHanded DEF HandSteps
<1>4. VariablesOK'
  BY <1>1 DEF AccountPause, VariablesOK, Moves, history, BlastStatuses
<1> QED BY <1>3, <1>4, RowsSameChange DEF AccountPause, history, RowsSame, Quiet

LEMMA RecountQuiet ==
  ASSUME VariablesOK, HasRecipient, NEW w \in Workers, Recount(w)
  PROVE  VariablesOK' /\ Quiet
<1> DEFINE found == [sent |-> Number(Sent), failed |-> Number({"failed"})]
           job == [wk[w] EXCEPT !.step = "recount_write", !.found = found]
<1>1. found \in [sent : Nat, failed : Nat]
  BY NumberType
<1>2. wk' = [wk EXCEPT ![w].step = "recount_write", ![w].found = found]
  BY DEF Recount
<1> HIDE DEF found
<1>3. wk' = [wk EXCEPT ![w] = job]
  BY <1>2, LocalsType DEF VariablesOK, JobType
<1>4. job \in JobType /\ job.step = "recount_write" /\ job.r = wk[w].r
  BY <1>1, LocalsType DEF JobType, WorkerSteps
<1> HIDE DEF job
<1>5. Moves(w, "recount_write", wk[w].r)
  BY <1>3, <1>4, PutMoves
<1>6. wk[w].step \notin HandSteps
  BY DEF Recount, AtStep, HandSteps
<1>7. HasRecipient' /\ \A r \in Recipients : SameHands(r)
  BY <1>5, <1>6, EmptyHanded DEF HandSteps
<1>8. VariablesOK'
  BY <1>5 DEF Recount, VariablesOK, Moves, dbVars, history
<1> QED BY <1>7, <1>8, RowsSameChange DEF Recount, dbVars, history, RowsSame, Quiet

LEMMA RecountWriteQuiet ==
  ASSUME VariablesOK, HasRecipient, NEW w \in Workers, RecountWrite(w)
  PROVE  VariablesOK' /\ Quiet
<1>1. Return(w) \/ wk' = [wk EXCEPT ![w] = [Idle EXCEPT !.step = wk[w].after, !.batch = wk[w].batch]]
  BY DEF RecountWrite, Return
<1>2. wk[w].after \in AfterRecount /\ wk[w].found \in [sent : Nat, failed : Nat]
      /\ wk[w].after \in WorkerSteps
  BY LocalsType DEF AfterRecount, WorkerSteps
<1>3. PICK s, q : s \in AfterRecount /\ Moves(w, s, q)
  <2>1. "idle" \in AfterRecount
    BY DEF AfterRecount
  <2>2. CASE Return(w)
    BY <2>1, <2>2, ReturnMoves
  <2>3. CASE ~Return(w)
    <3>1. Moves(w, wk[w].after, NoRecipient)
      BY <1>1, <1>2, <2>3, ContinueMoves
    <3> QED BY <1>2, <3>1
  <2> QED BY <2>2, <2>3
<1>4. wk[w].step \notin HandSteps
  BY DEF RecountWrite, AtStep, HandSteps
<1>5. HasRecipient' /\ \A r \in Recipients : SameHands(r)
  BY <1>3, <1>4, EmptyHanded DEF HandSteps, AfterRecount
<1>6. VariablesOK'
  BY <1>2, <1>3 DEF RecountWrite, VariablesOK, Moves, history
<1> QED BY <1>5, <1>6, RowsSameChange DEF RecountWrite, history, RowsSame, Quiet

LEMMA FinalCheckQuiet ==
  ASSUME VariablesOK, HasRecipient, NEW w \in Workers, FinalCheck(w)
  PROVE  VariablesOK' /\ Quiet
<1> DEFINE job == [wk[w] EXCEPT !.step = "final_write", !.found = counts]
<1>1. job \in JobType /\ job.step = "final_write" /\ job.r = wk[w].r
  BY LocalsType DEF JobType, WorkerSteps, VariablesOK
<1>2. Return(w) \/ wk' = [wk EXCEPT ![w] = job]
  BY LocalsType DEF FinalCheck, VariablesOK, JobType
<1> HIDE DEF job
<1>3. PICK s, q : s \in {"idle", "final_write"} /\ Moves(w, s, q)
  BY <1>1, <1>2, PutMoves, ReturnMoves
<1>4. wk[w].step \notin HandSteps
  BY DEF FinalCheck, AtStep, HandSteps
<1>5. HasRecipient' /\ \A r \in Recipients : SameHands(r)
  BY <1>3, <1>4, EmptyHanded DEF HandSteps
<1>6. VariablesOK'
  BY <1>3 DEF FinalCheck, VariablesOK, Moves, dbVars, history
<1> QED BY <1>5, <1>6, RowsSameChange DEF FinalCheck, dbVars, history, RowsSame, Quiet

LEMMA FinalWriteQuiet ==
  ASSUME VariablesOK, HasRecipient, NEW w \in Workers, FinalWrite(w)
  PROVE  VariablesOK' /\ Quiet
<1>1. Moves(w, "recount", wk[w].r)
  BY RecountMoves DEF FinalWrite, AfterRecount
<1>2. wk[w].step \notin HandSteps
  BY DEF FinalWrite, AtStep, HandSteps
<1>3. HasRecipient' /\ \A r \in Recipients : SameHands(r)
  BY <1>1, <1>2, EmptyHanded DEF HandSteps
<1>4. PICK t \in Terminal : SetBlast(t)
  BY DEF FinalWrite, FinalStatus, Terminal
<1>5. VariablesOK'
  BY <1>1, <1>4 DEF FinalWrite, VariablesOK, Moves, history, SetBlast, BlastStatuses
<1> QED BY <1>3, <1>4, <1>5, RowsSameChange DEF FinalWrite, history, RowsSame, Quiet, SetBlast, Terminal

-----------------------------------------------------------------------------
(* Steps of a job that takes a recipient up, has it or lets it go *)

Touched(w) ==
  /\ HasRecipient'
  /\ \A r \in Recipients :
       \/ SameHands(r) /\ RowChange(r)
       \/ \E h, h2 : Hand(w, r, h, h2) /\ HandChange(r, h, h2)
  /\ scenario'.provider = scenario.provider
  /\ bstat' = bstat

(* The rows of all recipients but r stay as they are. *)
OtherRows(r) ==
  \A t \in Recipients \ {r} :
    /\ rstat'[t] = rstat[t] /\ attempts'[t] = attempts[t] /\ sid'[t] = sid[t]
    /\ live'[t] = live[t] /\ lost'[t] = lost[t]

LEMMA SetRecipientChange ==
  ASSUME VariablesOK, NEW q \in Recipients, NEW t \in RecipientStatuses, SetRecipient(q, t)
  PROVE  /\ rstat' \in [Recipients -> RecipientStatuses] /\ NewStatus(q, t)
         /\ \A r \in Recipients \ {q} : rstat'[r] = rstat[r]
<1>1. "none" \in RecipientStatuses
  BY DEF RecipientStatuses
<1> QED BY <1>1 DEF SetRecipient, VariablesOK, NewStatus

(* The worker lets its recipient go. *)
LEMMA LetsGo ==
  ASSUME HasRecipient, NEW w \in Workers, NEW s, s \notin HandSteps \cup {"win"}, NEW q, Moves(w, s, q),
         wk[w].step \in HandSteps, NEW r \in Recipients, r = wk[w].r,
         HandChange(r, wk[w].step, "none"), OtherRows(r),
         scenario'.provider = scenario.provider, bstat' = bstat
  PROVE  Touched(w)
<1>1. Hand(w, r, wk[w].step, "none") /\ HasRecipient'
  BY MovesHands
<1>2. \A t \in Recipients \ {r} : SameHands(t)
  BY MovesHands
<1>3. \A t \in Recipients \ {r} : RowChange(t)
  BY DEF OtherRows, RowChange
<1> QED BY <1>1, <1>2, <1>3 DEF Touched

(* The worker takes its recipient up, or goes on with it. *)
LEMMA GoesOn ==
  ASSUME HasRecipient, NEW w \in Workers, NEW s \in HandSteps, Moves(w, s, wk[w].r),
         NEW h, h = IF wk[w].step \in HandSteps THEN wk[w].step ELSE "none",
         NEW r \in Recipients, r = wk[w].r,
         HandChange(r, h, s), OtherRows(r),
         scenario'.provider = scenario.provider, bstat' = bstat
  PROVE  Touched(w)
<1>1. Hand(w, r, h, s) /\ HasRecipient'
  BY MovesHandOn
<1>2. \A t \in Recipients \ {r} : SameHands(t)
  BY MovesHandOn
<1>3. \A t \in Recipients \ {r} : RowChange(t)
  BY DEF OtherRows, RowChange
<1> QED BY <1>1, <1>2, <1>3 DEF Touched

LEMMA WinTouched ==
  ASSUME VariablesOK, HasRecipient, NEW w \in Workers, Win(w)
  PROVE  VariablesOK' /\ Touched(w)
<1>1. PICK r \in Recipients : r = wk[w].r
  BY DEF HasRecipient, Win, AtStep
<1>2. wk[w].step \notin HandSteps
  BY DEF Win, AtStep, HandSteps
<1>3. CASE rstat[r] \in {"pending", "retrying"}
  <2> DEFINE s == IF scenario.provider = "meta" /\ sid[r] THEN "meta_sent" ELSE "attempt"
  <2>1. s \in HandSteps /\ s \in WorkerSteps
    BY DEF HandSteps, WorkerSteps
  <2>2. Goto(w, s) /\ SetRecipient(r, "processing") /\ attempts' = [attempts EXCEPT ![r] = @ + 1]
        /\ due' = due \ {r}
    BY <1>1, <1>3 DEF Win
  <2>3. Moves(w, s, wk[w].r)
    BY <2>1, <2>2, GotoMoves
  <2>4. /\ rstat' \in [Recipients -> RecipientStatuses] /\ NewStatus(r, "processing")
        /\ \A t \in Recipients \ {r} : rstat'[t] = rstat[t]
    BY <2>2, SetRecipientChange DEF RecipientStatuses, Open
  <2>5. /\ attempts' \in [Recipients -> Int] /\ attempts'[r] = attempts[r] + 1
        /\ \A t \in Recipients \ {r} : attempts'[t] = attempts[t]
    BY <2>2 DEF VariablesOK
  <2>6. VariablesOK'
    BY <2>2, <2>3, <2>4, <2>5 DEF Win, VariablesOK, Moves, history
  <2>7. OtherRows(r)
    BY <2>4, <2>5 DEF Win, history, OtherRows
  <2>8. HandChange(r, "none", s)
    <3>1. live[r] + 0 = live[r] /\ lost[r] + 0 = lost[r]
      BY DEF VariablesOK
    <3> QED BY <1>3, <2>4, <2>5, <3>1 DEF Win, history, HandChange, NewStatus, Ledger
  <2>9. scenario' = scenario /\ bstat' = bstat
    BY DEF Win
  <2> HIDE DEF s
  <2> QED BY <1>1, <1>2, <2>1, <2>3, <2>6, <2>7, <2>8, <2>9, GoesOn
<1>4. CASE rstat[r] \notin {"pending", "retrying"}
  <2>1. Proceed(w) /\ UNCHANGED <<rstat, attempts, due>>
    BY <1>1, <1>4 DEF Win
  <2>2. Moves(w, "loop", NoRecipient)
    BY <2>1, ProceedMoves
  <2>3. HasRecipient' /\ \A t \in Recipients : SameHands(t)
    BY <1>2, <2>2, EmptyHanded DEF HandSteps
  <2>4. VariablesOK'
    BY <2>1, <2>2 DEF Win, VariablesOK, Moves, history
  <2>5. \A t \in Recipients : RowChange(t)
    BY <2>1, RowsSameChange DEF Win, history, RowsSame
  <2> QED BY <2>3, <2>4, <2>5 DEF Win, Touched
<1> QED BY <1>3, <1>4

LEMMA MetaSentTouched ==
  ASSUME VariablesOK, HasRecipient, NEW w \in Workers, MetaSent(w)
  PROVE  VariablesOK' /\ Touched(w)
<1>1. PICK r \in Recipients : r = wk[w].r
  BY DEF HasRecipient, HandSteps, MetaSent, AtStep
<1>2. Moves(w, "loop", NoRecipient)
  BY ProceedMoves DEF MetaSent
<1>3. /\ rstat' \in [Recipients -> RecipientStatuses] /\ NewStatus(r, "sent")
      /\ \A t \in Recipients \ {r} : rstat'[t] = rstat[t]
  BY <1>1, SetRecipientChange DEF MetaSent, RecipientStatuses, Sent
<1>4. VariablesOK'
  BY <1>2, <1>3 DEF MetaSent, VariablesOK, Moves, history
<1>5. OtherRows(r)
  BY <1>3 DEF MetaSent, history, OtherRows
<1>6. HandChange(r, "meta_sent", "none")
  <2>1. live[r] + 0 = live[r] /\ lost[r] + 0 = lost[r]
    BY DEF VariablesOK
  <2> QED BY <1>3, <2>1 DEF MetaSent, history, HandChange, Ledger
<1>7. wk[w].step = "meta_sent" /\ scenario' = scenario /\ bstat' = bstat
  BY DEF MetaSent, AtStep
<1> QED BY <1>1, <1>2, <1>4, <1>5, <1>6, <1>7, LetsGo DEF HandSteps

LEMMA AttemptTouched ==
  ASSUME VariablesOK, HasRecipient, NEW w \in Workers, NEW answer \in Answers, Attempt(w, answer)
  PROVE  VariablesOK' /\ Touched(w)
<1>1. PICK r \in Recipients : r = wk[w].r
  BY DEF HasRecipient, HandSteps, Attempt, AtStep
<1> DEFINE s == CASE answer = "accepted" -> "mark"
                  [] answer \in {"denied", "blocked"} -> "put_back"
                  [] OTHER -> "except"
           cat == IF answer = "lost" THEN "retryable" ELSE answer
           job == [wk[w] EXCEPT !.step = s, !.cat = cat]
<1>2. s \in {"mark", "put_back", "except"} /\ cat \in Answers
      /\ (answer = "accepted" => s = "mark") /\ (answer = "lost" => s = "except")
      /\ (answer \notin {"accepted", "lost"} => s \in {"put_back", "except"})
  BY DEF Answers
<1>3. wk' = [wk EXCEPT ![w].step = s, ![w].cat = cat]
  BY DEF Attempt
<1> HIDE DEF s, cat
<1>4. wk' = [wk EXCEPT ![w] = job]
  BY <1>3, LocalsType DEF VariablesOK, JobType
<1>5. job \in JobType /\ job.step = s /\ job.r = wk[w].r
  BY <1>2, LocalsType DEF JobType, WorkerSteps
<1> HIDE DEF job
<1>6. Moves(w, s, wk[w].r)
  BY <1>4, <1>5, PutMoves
<1>7. live[r] \in Nat /\ lost[r] \in Nat
  BY DEF VariablesOK
<1>8. /\ live' \in [Recipients -> Nat] /\ lost' \in [Recipients -> Nat]
      /\ live'[r] = live[r] + One(answer \in {"accepted", "lost"})
      /\ lost'[r] = lost[r] + One(answer = "lost")
      /\ \A t \in Recipients \ {r} : live'[t] = live[t] /\ lost'[t] = lost[t]
  BY <1>1, <1>7 DEF Attempt, VariablesOK, One
<1>9. VariablesOK'
  BY <1>6, <1>8 DEF Attempt, VariablesOK, Moves, dbVars
<1>10. OtherRows(r)
  BY <1>8 DEF Attempt, dbVars, OtherRows
<1>11. HandChange(r, "attempt", s)
  <2>1. UNCHANGED <<rstat, attempts, sid>>
    BY DEF Attempt, dbVars
  <2>2. CASE answer = "accepted"
    BY <1>2, <1>8, <2>1, <2>2 DEF HandChange, Ledger, One
  <2>3. CASE answer = "lost"
    BY <1>2, <1>8, <2>1, <2>3 DEF HandChange, Ledger, One
  <2>4. CASE answer \notin {"accepted", "lost"}
    BY <1>2, <1>8, <2>1, <2>4 DEF HandChange, Ledger, One
  <2> QED BY <2>2, <2>3, <2>4
<1>12. wk[w].step = "attempt" /\ scenario' = scenario /\ bstat' = bstat
  BY DEF Attempt, AtStep, dbVars
<1> QED BY <1>1, <1>2, <1>6, <1>9, <1>10, <1>11, <1>12, GoesOn DEF HandSteps

LEMMA MarkTouched ==
  ASSUME VariablesOK, HasRecipient, NEW w \in Workers, Mark(w)
  PROVE  VariablesOK' /\ Touched(w)
<1>1. PICK r \in Recipients : r = wk[w].r
  BY DEF HasRecipient, HandSteps, Mark, AtStep
<1>2. Moves(w, "loop", NoRecipient)
  BY ProceedMoves DEF Mark
<1>3. /\ rstat' \in [Recipients -> RecipientStatuses] /\ NewStatus(r, "sent")
      /\ \A t \in Recipients \ {r} : rstat'[t] = rstat[t]
  BY <1>1, SetRecipientChange DEF Mark, RecipientStatuses, Sent
<1>4. /\ sid' \in [Recipients -> BOOLEAN] /\ sid'[r] = TRUE
      /\ \A t \in Recipients \ {r} : sid'[t] = sid[t]
  BY <1>1 DEF Mark, VariablesOK
<1>5. VariablesOK'
  BY <1>2, <1>3, <1>4 DEF Mark, VariablesOK, Moves, history
<1>6. OtherRows(r)
  BY <1>3, <1>4 DEF Mark, history, OtherRows
<1>7. HandChange(r, "mark", "none")
  <2>1. live[r] + 0 = live[r] /\ lost[r] + 0 = lost[r]
    BY DEF VariablesOK
  <2> QED BY <1>3, <1>4, <2>1 DEF Mark, history, HandChange, Ledger
<1>8. wk[w].step = "mark" /\ scenario' = scenario /\ bstat' = bstat
  BY DEF Mark, AtStep
<1> QED BY <1>1, <1>2, <1>5, <1>6, <1>7, <1>8, LetsGo DEF HandSteps

LEMMA ScenarioSpent ==
  ASSUME VariablesOK,
         \/ scenario.faults > 0 /\ scenario' = [scenario EXCEPT !.faults = @ - 1]
         \/ scenario.calls > 0 /\ scenario' = [scenario EXCEPT !.calls = @ - 1]
         \/ scenario.reports > 0 /\ scenario' = [scenario EXCEPT !.reports = @ - 1]
  PROVE  scenario' \in ScenarioTypes /\ scenario'.provider = scenario.provider
  BY DEF VariablesOK, ScenarioTypes

LEMMA FaultTouched ==
  ASSUME VariablesOK, HasRecipient, NEW w \in Workers, Fault(w)
  PROVE  VariablesOK' /\ Touched(w)
<1>1. PICK r \in Recipients : r = wk[w].r
  BY DEF HasRecipient, HandSteps, Fault, AtStep
<1> DEFINE job == [wk[w] EXCEPT !.step = "except", !.cat = "retryable"]
<1>2. wk' = [wk EXCEPT ![w] = job]
  BY LocalsType DEF Fault, VariablesOK, JobType
<1>3. job \in JobType /\ job.step = "except" /\ job.r = wk[w].r
  BY LocalsType DEF JobType, WorkerSteps, Answers
<1> HIDE DEF job
<1>4. Moves(w, "except", wk[w].r)
  BY <1>2, <1>3, PutMoves
<1>5. lost[r] \in Nat /\ live[r] + 0 = live[r]
  BY DEF VariablesOK
<1>6. /\ lost' \in [Recipients -> Nat] /\ lost'[r] = lost[r] + 1
      /\ \A t \in Recipients \ {r} : lost'[t] = lost[t]
  BY <1>1, <1>5 DEF Fault, VariablesOK
<1>7. /\ rstat' \in [Recipients -> RecipientStatuses] /\ sid' \in [Recipients -> BOOLEAN]
      /\ \/ NewStatus(r, "sent") /\ sid'[r] = TRUE
         \/ rstat'[r] = rstat[r] /\ sid'[r] = sid[r]
      /\ \A t \in Recipients \ {r} : rstat'[t] = rstat[t] /\ sid'[t] = sid[t]
  <2>1. CASE UNCHANGED <<rstat, sid>>
    BY <2>1 DEF VariablesOK
  <2>2. CASE SetRecipient(r, "sent") /\ sid' = [sid EXCEPT ![r] = TRUE]
    <3>1. /\ rstat' \in [Recipients -> RecipientStatuses] /\ NewStatus(r, "sent")
          /\ \A t \in Recipients \ {r} : rstat'[t] = rstat[t]
      BY <2>2, SetRecipientChange DEF RecipientStatuses, Sent
    <3> QED BY <2>2, <3>1 DEF VariablesOK
  <2> QED BY <1>1, <2>1, <2>2 DEF Fault
<1>8. scenario' \in ScenarioTypes /\ scenario'.provider = scenario.provider
  BY ScenarioSpent DEF Fault
<1>9. VariablesOK'
  BY <1>4, <1>6, <1>7, <1>8 DEF Fault, VariablesOK, Moves
<1>10. OtherRows(r)
  BY <1>6, <1>7 DEF Fault, OtherRows
<1>11. HandChange(r, "mark", "except")
  BY <1>5, <1>6, <1>7 DEF Fault, HandChange, Ledger
<1>12. wk[w].step = "mark" /\ bstat' = bstat
  BY DEF Fault, AtStep
<1> QED BY <1>1, <1>4, <1>8, <1>9, <1>10, <1>11, <1>12, GoesOn DEF HandSteps

LEMMA PutBackTouched ==
  ASSUME VariablesOK, HasRecipient, NEW w \in Workers, PutBack(w)
  PROVE  VariablesOK' /\ Touched(w)
<1>1. PICK r \in Recipients : r = wk[w].r
  BY DEF HasRecipient, HandSteps, PutBack, AtStep
<1>2. PICK s, q : s \in {"account_pause", "loop"} /\ Moves(w, s, q)
  BY ProceedMoves, GotoMoves DEF PutBack, WorkerSteps
<1>3. /\ rstat' \in [Recipients -> RecipientStatuses] /\ NewStatus(r, "pending")
      /\ \A t \in Recipients \ {r} : rstat'[t] = rstat[t]
  BY <1>1, SetRecipientChange DEF PutBack, RecipientStatuses, Open
<1>4. /\ attempts' \in [Recipients -> Int] /\ attempts'[r] = attempts[r] - 1
      /\ \A t \in Recipients \ {r} : attempts'[t] = attempts[t]
  BY <1>1 DEF PutBack, VariablesOK
<1>5. VariablesOK'
  BY <1>2, <1>3, <1>4 DEF PutBack, VariablesOK, Moves, history
<1>6. OtherRows(r)
  BY <1>3, <1>4 DEF PutBack, history, OtherRows
<1>7. HandChange(r, "put_back", "none")
  <2>1. live[r] + 0 = live[r] /\ lost[r] + 0 = lost[r]
    BY DEF VariablesOK
  <2> QED BY <1>3, <1>4, <2>1 DEF PutBack, history, HandChange, Ledger
<1>8. wk[w].step = "put_back" /\ scenario' = scenario /\ bstat' = bstat
  BY DEF PutBack, AtStep
<1> QED BY <1>1, <1>2, <1>5, <1>6, <1>7, <1>8, LetsGo DEF HandSteps

LEMMA ExceptTouched ==
  ASSUME VariablesOK, HasRecipient, NEW w \in Workers, Except(w)
  PROVE  VariablesOK' /\ Touched(w)
<1>1. PICK r \in Recipients : r = wk[w].r
  BY DEF HasRecipient, HandSteps, Except, AtStep
<1>2. Moves(w, "loop", NoRecipient)
  BY ProceedMoves DEF Except
<1>3. PICK t \in {"retrying", "failed"} : SetRecipient(r, t)
  BY <1>1 DEF Except
<1>4. /\ rstat' \in [Recipients -> RecipientStatuses] /\ NewStatus(r, t)
      /\ \A u \in Recipients \ {r} : rstat'[u] = rstat[u]
  BY <1>3, SetRecipientChange DEF RecipientStatuses, Open
<1>5. VariablesOK'
  BY <1>2, <1>4 DEF Except, VariablesOK, Moves, history
<1>6. OtherRows(r)
  BY <1>4 DEF Except, history, OtherRows
<1>7. HandChange(r, "except", "none")
  <2>1. live[r] + 0 = live[r] /\ lost[r] + 0 = lost[r]
    BY DEF VariablesOK
  <2> QED BY <1>3, <1>4, <2>1 DEF Except, history, HandChange, Ledger
<1>8. wk[w].step = "except" /\ scenario' = scenario /\ bstat' = bstat
  BY DEF Except, AtStep
<1> QED BY <1>1, <1>2, <1>5, <1>6, <1>7, <1>8, LetsGo DEF HandSteps

LEMMA CrashTouched ==
  ASSUME VariablesOK, HasRecipient, NEW w \in Workers, Crash(w)
  PROVE  VariablesOK' /\ Touched(w)
<1>1. Moves(w, "idle", NoRecipient)
  BY ReturnMoves DEF Crash
<1>2. scenario' \in ScenarioTypes /\ scenario'.provider = scenario.provider
  BY ScenarioSpent DEF Crash, Call
<1>3. UNCHANGED <<rstat, attempts, sid, live, bstat>>
  BY DEF Crash, dbVars
<1>4. CASE wk[w].step \in HandSteps
  <2>1. PICK r \in Recipients : r = wk[w].r
    BY <1>4 DEF HasRecipient
  <2>2. lost[r] \in Nat /\ live[r] + 0 = live[r]
    BY DEF VariablesOK
  <2>3. /\ lost' \in [Recipients -> Nat] /\ lost'[r] = lost[r] + One(wk[w].step = "mark")
        /\ \A t \in Recipients \ {r} : lost'[t] = lost[t]
    BY <2>1, <2>2 DEF Crash, AtStep, VariablesOK, One
  <2>4. VariablesOK'
    BY <1>1, <1>2, <2>3 DEF Crash, VariablesOK, Moves, dbVars
  <2>5. OtherRows(r)
    BY <1>3, <2>3 DEF OtherRows
  <2>6. HandChange(r, wk[w].step, "none")
    BY <1>3, <1>4, <2>2, <2>3 DEF HandChange, Ledger
  <2> QED BY <1>1, <1>2, <1>3, <1>4, <2>1, <2>4, <2>5, <2>6, LetsGo DEF HandSteps
<1>5. CASE wk[w].step \notin HandSteps
  <2>1. HasRecipient' /\ \A r \in Recipients : SameHands(r)
    BY <1>1, <1>5, EmptyHanded DEF HandSteps
  <2>2. lost' = lost
    BY <1>5 DEF Crash, AtStep, HandSteps
  <2>3. \A r \in Recipients : RowChange(r)
    BY <1>3, <2>2, RowsSameChange DEF RowsSame
  <2>4. VariablesOK'
    BY <1>1, <1>2, <2>2 DEF Crash, VariablesOK, Moves, dbVars
  <2> QED BY <1>2, <1>3, <2>1, <2>3, <2>4 DEF Touched
<1> QED BY <1>4, <1>5

-----------------------------------------------------------------------------
(* Requests, reports and time *)

ApiType == [Clients -> [step : ApiSteps, n : Nat, paused : BOOLEAN]]

(* No request begins to make rows. *)
NoMaking == \A d \in Clients : At(d, "create_rows")' => At(d, "create_rows")

LEMMA ApiPut ==
  ASSUME VariablesOK, NEW c \in Clients, NEW s \in ApiSteps, NEW n \in Nat, NEW paused \in BOOLEAN,
         api' = [api EXCEPT ![c] = [step |-> s, n |-> n, paused |-> paused]]
  PROVE  /\ api' \in ApiType /\ api'[c].step = s
         /\ \A d \in Clients \ {c} : api'[d] = api[d]
         /\ s # "create_rows" => NoMaking
  BY DEF VariablesOK, ApiType, NoMaking, At

LEMMA ApiTo ==
  ASSUME VariablesOK, NEW c \in Clients, NEW s \in ApiSteps, To(c, s)
  PROVE  /\ api' \in ApiType /\ api'[c].step = s
         /\ \A d \in Clients \ {c} : api'[d] = api[d]
         /\ s # "create_rows" => NoMaking
<1>1. api' \in ApiType /\ api'[c].step = s /\ \A d \in Clients \ {c} : api'[d] = api[d]
  BY DEF To, VariablesOK, ApiType
<1> QED BY <1>1 DEF NoMaking, At

LEMMA ApiToIdle ==
  ASSUME VariablesOK, NEW c \in Clients, ToIdle(c)
  PROVE  /\ api' \in ApiType /\ NoMaking /\ api'[c].step = "idle"
         /\ \A d \in Clients \ {c} : api'[d] = api[d]
  BY ApiPut DEF ToIdle, ApiSteps

LEMMA WorkersRest ==
  ASSUME HasRecipient, wk' = wk
  PROVE  HasRecipient' /\ \A r \in Recipients : SameHands(r)
  BY DEF HasRecipient, SameHands, Holding

LEMMA RequeueChange ==
  ASSUME VariablesOK, RequeueStuck, UNCHANGED <<attempts, sid, live, lost>>
  PROVE  /\ rstat' \in [Recipients -> RecipientStatuses]
         /\ \A r \in Recipients : RowChange(r)
<1>1. PICK S \in SUBSET Stuck :
        rstat' = [r \in Recipients |-> IF r \in S THEN "pending" ELSE rstat[r]]
  BY DEF RequeueStuck
<1>2. \A r \in S : rstat[r] = "processing" /\ InNoHand(r)
  BY DEF Stuck, InNoHand, Holding
<1> QED BY <1>1, <1>2 DEF VariablesOK, RecipientStatuses, Open, RowChange

LEMMA RequestQuiet ==
  ASSUME VariablesOK, HasRecipient, NEW c \in Clients,
         \/ pause_blast(c) \/ resume_blast(c) \/ retry_failed_blast(c)
         \/ cancel_blast(c) \/ delete_blast(c)
  PROVE  VariablesOK' /\ Quiet /\ NoMaking
<1>1. HasRecipient' /\ \A r \in Recipients : SameHands(r)
  BY WorkersRest DEF pause_blast, resume_blast, retry_failed_blast, cancel_blast, delete_blast
<1>2. \A r \in Recipients : RowChange(r)
  BY RowsSameChange DEF pause_blast, resume_blast, retry_failed_blast, cancel_blast, delete_blast,
                        RowsSame, dbVars, history
<1>3. scenario' \in ScenarioTypes /\ scenario'.provider = scenario.provider
  BY ScenarioSpent DEF pause_blast, resume_blast, retry_failed_blast, cancel_blast, delete_blast, Call
<1>4. CASE retry_failed_blast(c)
  <2>1. api' \in ApiType /\ NoMaking
    BY <1>4 DEF retry_failed_blast, VariablesOK, ApiType, ApiSteps, NoMaking, At
  <2> QED BY <1>1, <1>2, <1>3, <1>4, <2>1
          DEF retry_failed_blast, VariablesOK, ApiType, dbVars, history, Quiet
<1>5. CASE ~retry_failed_blast(c)
  <2>1. PICK s \in {"pause_write", "resume_requeue", "cancel_write", "delete_recipients"} : To(c, s)
    BY <1>5 DEF pause_blast, resume_blast, cancel_blast, delete_blast
  <2>2. api' \in ApiType /\ NoMaking
    BY <2>1, ApiTo DEF ApiSteps
  <2>3. bstat' \in {bstat, "gone"}
    BY <1>5 DEF pause_blast, resume_blast, cancel_blast, delete_blast, dbVars
  <2>4. VariablesOK'
    BY <1>3, <1>5, <2>2, <2>3
       DEF pause_blast, resume_blast, cancel_blast, delete_blast, VariablesOK, ApiType,
           dbVars, history, BlastStatuses
  <2> QED BY <1>1, <1>2, <1>3, <2>2, <2>3, <2>4 DEF Quiet
<1> QED BY <1>4, <1>5

LEMMA CommitQuiet ==
  ASSUME VariablesOK, HasRecipient, NEW c \in Clients,
         \/ PauseWrite(c) \/ ResumeRequeue(c) \/ ResumeWrite(c)
         \/ RetryRecipients(c) \/ RetryRequeue(c) \/ RetryWrite(c) \/ CancelWrite(c)
         \/ CancelRecipients(c) \/ DeleteRecipients(c)
  PROVE  VariablesOK' /\ Quiet /\ NoMaking
<1> DEFINE Done == VariablesOK' /\ Quiet /\ NoMaking
<1>1. CASE PauseWrite(c) \/ ResumeWrite(c) \/ RetryWrite(c) \/ CancelWrite(c)
  <2>1. HasRecipient' /\ \A r \in Recipients : SameHands(r)
    BY <1>1, WorkersRest DEF PauseWrite, ResumeWrite, RetryWrite, CancelWrite
  <2>2. \A r \in Recipients : RowChange(r)
    BY <1>1, RowsSameChange DEF PauseWrite, ResumeWrite, RetryWrite, CancelWrite, RowsSame, history
  <2>3. api' \in ApiType /\ NoMaking
    BY <1>1, ApiTo, ApiToIdle DEF PauseWrite, ResumeWrite, RetryWrite, CancelWrite, ApiSteps
  <2>4. jobs' \in Nat /\ bstat' \in BlastStatuses /\ (bstat' = "none" => bstat = "none")
    BY <1>1 DEF PauseWrite, ResumeWrite, RetryWrite, CancelWrite, SetBlast, VariablesOK,
                BlastStatuses, Terminal
  <2>5. VariablesOK'
    BY <1>1, <2>3, <2>4 DEF PauseWrite, ResumeWrite, RetryWrite, CancelWrite, VariablesOK, ApiType, history
  <2> QED BY <1>1, <2>1, <2>2, <2>3, <2>4, <2>5 DEF PauseWrite, ResumeWrite, RetryWrite, CancelWrite, Quiet
<1>2. CASE ResumeRequeue(c) \/ RetryRequeue(c)
  <2>1. HasRecipient' /\ \A r \in Recipients : SameHands(r)
    BY <1>2, WorkersRest DEF ResumeRequeue, RetryRequeue
  <2>2. rstat' \in [Recipients -> RecipientStatuses] /\ \A r \in Recipients : RowChange(r)
    BY <1>2, RequeueChange DEF ResumeRequeue, RetryRequeue, history
  <2>3. api' \in ApiType /\ NoMaking
    BY <1>2, ApiTo DEF ResumeRequeue, RetryRequeue, ApiSteps
  <2>4. VariablesOK'
    BY <1>2, <2>2, <2>3 DEF ResumeRequeue, RetryRequeue, VariablesOK, ApiType, history
  <2> QED BY <1>2, <2>1, <2>2, <2>3, <2>4 DEF ResumeRequeue, RetryRequeue, Quiet
<1>3. CASE RetryRecipients(c)
  <2>1. HasRecipient' /\ \A r \in Recipients : SameHands(r)
    BY <1>3, WorkersRest DEF RetryRecipients
  <2>2. /\ rstat' \in [Recipients -> RecipientStatuses]
        /\ \A r \in Recipients : rstat'[r] = IF rstat[r] = "failed" THEN "pending" ELSE rstat[r]
    BY <1>3, MoveAllChange DEF RetryRecipients, RecipientStatuses, Open
  <2>3. /\ attempts' \in [Recipients -> Int]
        /\ \A r \in Recipients : attempts'[r] = IF rstat[r] = "failed" THEN 0 ELSE attempts[r]
    BY <1>3 DEF RetryRecipients, VariablesOK
  <2>4. \A r \in Recipients : RowChange(r)
    BY <1>3, <2>2, <2>3 DEF RetryRecipients, history, RowChange
  <2>5. Number({"failed"}) \in Nat
    BY NumberType
  <2>6. api' \in ApiType /\ NoMaking
    BY <1>3, <2>5 DEF RetryRecipients, VariablesOK, ApiType, ApiSteps, NoMaking, At
  <2>7. VariablesOK'
    BY <1>3, <2>2, <2>3, <2>6 DEF RetryRecipients, VariablesOK, ApiType, history
  <2> QED BY <1>3, <2>1, <2>4, <2>6, <2>7 DEF RetryRecipients, Quiet
<1>4. CASE CancelRecipients(c)
  <2>1. HasRecipient' /\ \A r \in Recipients : SameHands(r)
    BY <1>4, WorkersRest DEF CancelRecipients
  <2>2. rstat' \in [Recipients -> RecipientStatuses] /\ \A r \in Recipients : RowChange(r)
    BY <1>4, CancelChange DEF CancelRecipients
  <2>3. api' \in ApiType /\ NoMaking
    BY <1>4, ApiToIdle DEF CancelRecipients
  <2>4. VariablesOK'
    BY <1>4, <2>2, <2>3 DEF CancelRecipients, VariablesOK, ApiType
  <2> QED BY <1>4, <2>1, <2>2, <2>3, <2>4 DEF CancelRecipients, Quiet
<1>5. CASE DeleteRecipients(c)
  <2>1. HasRecipient' /\ \A r \in Recipients : SameHands(r)
    BY <1>5, WorkersRest DEF DeleteRecipients
  <2>2. rstat' \in [Recipients -> RecipientStatuses] /\ \A r \in Recipients : RowChange(r)
    BY <1>5 DEF DeleteRecipients, history, RecipientStatuses, RowChange
  <2>3. api' \in ApiType /\ NoMaking
    BY <1>5, ApiToIdle DEF DeleteRecipients
  <2>4. VariablesOK'
    BY <1>5, <2>2, <2>3 DEF DeleteRecipients, VariablesOK, ApiType, history
  <2> QED BY <1>5, <2>1, <2>2, <2>3, <2>4 DEF DeleteRecipients, Quiet
<1> QED BY <1>1, <1>2, <1>3, <1>4, <1>5

LEMMA TimeQuiet ==
  ASSUME VariablesOK, HasRecipient, NEW r \in Recipients, BackoffEnds(r) \/ Report(r)
  PROVE  VariablesOK' /\ Quiet /\ NoMaking
<1>1. HasRecipient' /\ \A t \in Recipients : SameHands(t)
  BY WorkersRest DEF BackoffEnds, Report
<1>2. NoMaking
  BY DEF BackoffEnds, Report, NoMaking, At
<1>3. CASE BackoffEnds(r)
  <2>1. VariablesOK'
    BY <1>3 DEF BackoffEnds, VariablesOK, history
  <2> QED BY <1>1, <1>2, <1>3, <2>1, RowsSameChange DEF BackoffEnds, history, RowsSame, Quiet
<1>4. CASE Report(r)
  <2>1. scenario' \in ScenarioTypes /\ scenario'.provider = scenario.provider
    BY <1>4, ScenarioSpent DEF Report
  <2>2. PICK t \in {"delivered", "failed"} : SetRecipient(r, t)
    BY <1>4 DEF Report
  <2>3. /\ rstat' \in [Recipients -> RecipientStatuses]
        /\ rstat[r] = "sent" /\ rstat'[r] \in {"delivered", "failed"}
        /\ \A u \in Recipients \ {r} : rstat'[u] = rstat[u]
    BY <1>4, <2>2, SetRecipientChange DEF Report, RecipientStatuses, Sent, NewStatus
  <2>4. /\ live' \in [Recipients -> Nat]
        /\ \A u \in Recipients \ {r} : live'[u] = live[u]
        /\ \/ rstat'[r] = "delivered" /\ live'[r] = live[r]
           \/ rstat'[r] = "failed" /\ live'[r] = live[r] - 1
    BY <1>4, <2>3 DEF Report, VariablesOK, SetRecipient
  <2>5. \A u \in Recipients : RowChange(u)
    BY <1>4, <2>3, <2>4 DEF Report, RowChange
  <2>6. VariablesOK'
    BY <1>4, <2>1, <2>3, <2>4 DEF Report, VariablesOK
  <2> QED BY <1>1, <1>2, <1>4, <2>1, <2>5, <2>6 DEF Report, Quiet
<1> QED BY <1>3, <1>4

-----------------------------------------------------------------------------
(* The invariant is kept *)

LEMMA StepKeeps ==
  ASSUME BlastInv, VariablesOK', HasRecipient', NoMaking, bstat' = "none" => bstat = "none",
         \A r \in Recipients : Kept(r)
  PROVE  BlastInv'
<1>1. MadeOnce'
  BY DEF BlastInv, MadeOnce, NoMaking, Kept
<1> QED BY <1>1 DEF BlastInv, Kept

LEMMA QuietKeeps == BlastInv /\ VariablesOK' /\ Quiet /\ NoMaking => BlastInv'
<1> SUFFICES ASSUME BlastInv, VariablesOK', Quiet, NoMaking PROVE BlastInv'
  OBVIOUS
<1>1. \A r \in Recipients : Kept(r)
  BY UntouchedKeeps DEF BlastInv, Quiet
<1> QED BY <1>1, StepKeeps DEF Quiet

LEMMA TouchedKeeps ==
  ASSUME BlastInv, VariablesOK', NEW w \in Workers, Touched(w), api' = api
  PROVE  BlastInv'
<1>1. ASSUME NEW r \in Recipients PROVE Kept(r)
  <2>1. CASE SameHands(r) /\ RowChange(r)
    BY <2>1, UntouchedKeeps DEF BlastInv, Touched
  <2>2. CASE \E h, h2 : Hand(w, r, h, h2) /\ HandChange(r, h, h2)
    BY <2>2, HandKeeps DEF BlastInv, Touched
  <2> QED BY <2>1, <2>2 DEF Touched
<1>2. NoMaking
  BY DEF NoMaking, At
<1> QED BY <1>1, <1>2, StepKeeps DEF Touched

LEMMA WorkerKeeps ==
  ASSUME BlastInv, NEW w \in Workers, StartJob(w) \/ JobStep(w) \/ Fault(w) \/ Crash(w)
  PROVE  BlastInv'
<1>0. VariablesOK /\ HasRecipient
  BY DEF BlastInv
<1>1. CASE \/ StartJob(w) \/ MarkSending(w) \/ Pick(w) \/ OpenCount(w) \/ Loop(w) \/ CancelOpen(w)
           \/ AccountPause(w) \/ Recount(w) \/ RecountWrite(w) \/ FinalCheck(w) \/ FinalWrite(w)
  <2>1. VariablesOK' /\ Quiet
    BY <1>0, <1>1, StartJobQuiet, MarkSendingQuiet, PickQuiet, OpenCountQuiet, LoopQuiet,
       CancelOpenQuiet, AccountPauseQuiet, RecountQuiet, RecountWriteQuiet, FinalCheckQuiet,
       FinalWriteQuiet
  <2>2. api' = api
    BY <1>1 DEF StartJob, MarkSending, Pick, OpenCount, Loop, CancelOpen, AccountPause, Recount,
                RecountWrite, FinalCheck, FinalWrite
  <2>3. NoMaking
    BY <2>2 DEF NoMaking, At
  <2> QED BY <2>1, <2>3, QuietKeeps
<1>2. CASE \/ Win(w) \/ MetaSent(w) \/ (\E a \in Answers : Attempt(w, a)) \/ Mark(w)
           \/ PutBack(w) \/ Except(w) \/ Fault(w) \/ Crash(w)
  <2>1. VariablesOK' /\ Touched(w)
    BY <1>0, <1>2, WinTouched, MetaSentTouched, AttemptTouched, MarkTouched, PutBackTouched,
       ExceptTouched, FaultTouched, CrashTouched
  <2>2. api' = api
    BY <1>2 DEF Win, MetaSent, Attempt, Mark, PutBack, Except, Fault, Crash
  <2> QED BY <2>1, <2>2, TouchedKeeps
<1> QED BY <1>1, <1>2 DEF JobStep

LEMMA CreateKeeps ==
  ASSUME BlastInv, NEW c \in Clients, create_blast(c)
  PROVE  BlastInv'
<1>1. HasRecipient' /\ \A r \in Recipients : SameHands(r)
  BY WorkersRest DEF create_blast, BlastInv
<1>2. \A r \in Recipients : RowChange(r)
  BY RowsSameChange DEF create_blast, history, RowsSame
<1>3. api' \in ApiType /\ \A d \in Clients \ {c} : api'[d] = api[d]
  BY ApiTo DEF create_blast, ApiSteps, BlastInv
<1>4. Cardinality(Recipients) \in Nat
  BY BlastBoundsAssumption, FS_CardinalityType
<1>5. VariablesOK'
  BY <1>3, <1>4 DEF create_blast, BlastInv, VariablesOK, ApiType, history, BlastStatuses
<1>6. \A r \in Recipients : Kept(r)
  BY <1>1, <1>2, UntouchedKeeps DEF create_blast, BlastInv
<1>7. MadeOnce'
  <2>1. \A r \in Recipients : Blank(r)'
    BY <1>6 DEF create_blast, BlastInv, MadeOnce, Kept
  <2>2. \A d \in Clients : At(d, "create_rows")' => d = c
    BY <1>3 DEF create_blast, BlastInv, MadeOnce, At
  <2>3. bstat' # "none"
    BY DEF create_blast
  <2> QED BY <2>1, <2>2, <2>3 DEF MadeOnce
<1> QED BY <1>1, <1>5, <1>6, <1>7 DEF BlastInv, Kept

LEMMA CreateRowsKeeps ==
  ASSUME BlastInv, NEW c \in Clients, CreateRows(c)
  PROVE  BlastInv'
<1>1. HasRecipient' /\ \A r \in Recipients : SameHands(r)
  BY WorkersRest DEF CreateRows, BlastInv
<1>2. api' \in ApiType /\ NoMaking /\ ~At(c, "create_rows")'
  BY ApiToIdle DEF CreateRows, BlastInv, At
<1>3. PICK eligible \in SUBSET Recipients :
        IF eligible = {}
        THEN bstat' = "gone" /\ UNCHANGED <<total, rstat, jobs>>
        ELSE /\ rstat' = [r \in Recipients |-> IF r \in eligible THEN "pending" ELSE "none"]
             /\ total' = Cardinality(eligible)
             /\ jobs' = jobs + 1
             /\ UNCHANGED bstat
  BY DEF CreateRows
<1>4. CASE eligible = {}
  <2>1. \A r \in Recipients : RowChange(r)
    BY <1>3, <1>4, RowsSameChange DEF CreateRows, history, RowsSame
  <2>2. VariablesOK'
    BY <1>2, <1>3, <1>4 DEF CreateRows, BlastInv, VariablesOK, ApiType, history, BlastStatuses
  <2> QED BY <1>1, <1>2, <1>3, <1>4, <2>1, <2>2, QuietKeeps DEF CreateRows, Quiet
<1>5. CASE eligible # {}
  <2>1. Cardinality(eligible) \in Nat
    BY BlastBoundsAssumption, FS_Subset, FS_CardinalityType
  <2>2. VariablesOK'
    BY <1>2, <1>3, <1>5, <2>1
       DEF CreateRows, BlastInv, VariablesOK, ApiType, history, RecipientStatuses, Open
  <2>3. ASSUME NEW r \in Recipients PROVE RecipientInv(r)'
    <3>1. rstat'[r] \in {"pending", "none"}
      BY <1>3, <1>5
    <3>2. /\ Blank(r) /\ live[r] \in Nat /\ lost[r] \in Nat
          /\ UNCHANGED <<attempts, sid, live, lost, scenario>>
      BY DEF CreateRows, BlastInv, MadeOnce, VariablesOK, history
    <3>3. InNoHand(r)' /\ \A w \in Workers : Holding(w, r)' = "none"
      BY <1>1, <3>2 DEF Blank, InNoHand, SameHands
    <3>4. Draws(r)' = {} /\ Marks(r)' = {}
      BY <3>3 DEF Draws, Marks
    <3>5. Cardinality(Draws(r))' = 0 /\ Cardinality(Marks(r))' = 0
      BY <3>4, FS_EmptySet
    <3>6. WithinBudget(r)' /\ HasMessage(r)'
      BY <3>1, <3>2, <3>5 DEF WithinBudget, HasMessage, Blank, Waiting, Noted
    <3>7. Alone(r)' /\ MetaSkips(r)'
      BY <3>3 DEF Alone, MetaSkips
    <3>8. AttemptsCounted(r)'
      BY <3>2, <3>3 DEF AttemptsCounted, BlastInv, RecipientInv
    <3> QED BY <3>6, <3>7, <3>8 DEF RecipientInv
  <2>4. MadeOnce'
    <3>1. \A d \in Clients : ~At(d, "create_rows")'
      BY <1>2 DEF CreateRows, BlastInv, MadeOnce, NoMaking
    <3>2. bstat' # "none"
      BY <1>3, <1>5 DEF CreateRows, BlastInv, MadeOnce
    <3> QED BY <3>1, <3>2 DEF MadeOnce
  <2> QED BY <1>1, <2>2, <2>3, <2>4 DEF BlastInv
<1> QED BY <1>4, <1>5

LEMMA InvStep == BlastInv /\ [Next]_vars => BlastInv'
<1> SUFFICES ASSUME BlastInv, [Next]_vars PROVE BlastInv'
  OBVIOUS
<1>0. VariablesOK /\ HasRecipient
  BY DEF BlastInv
<1>1. ASSUME NEW w \in Workers, StartJob(w) \/ JobStep(w) \/ Fault(w) \/ Crash(w) PROVE BlastInv'
  BY <1>1, WorkerKeeps
<1>2. ASSUME NEW c \in Clients, Request(c) \/ Commit(c) PROVE BlastInv'
  BY <1>0, <1>2, CreateKeeps, CreateRowsKeeps, RequestQuiet, CommitQuiet, QuietKeeps DEF Request, Commit
<1>3. ASSUME NEW r \in Recipients, BackoffEnds(r) \/ Report(r) PROVE BlastInv'
  BY <1>0, <1>3, TimeQuiet, QuietKeeps
<1>4. CASE UNCHANGED vars
  <2> USE <1>4 DEF vars, dbVars, history
  <2>1. VariablesOK'
    BY <1>0 DEF VariablesOK
  <2>2. HasRecipient' /\ \A r \in Recipients : SameHands(r)
    BY <1>0, WorkersRest
  <2>3. NoMaking
    BY DEF NoMaking, At
  <2>4. \A r \in Recipients : RowChange(r)
    BY RowsSameChange DEF RowsSame
  <2> QED BY <2>1, <2>2, <2>3, <2>4, QuietKeeps DEF Quiet
<1> QED BY <1>1, <1>2, <1>3, <1>4 DEF Next

LEMMA InvInit == Init => BlastInv
<1> SUFFICES ASSUME Init PROVE BlastInv
  OBVIOUS
<1>1. VariablesOK
  <2>1. Idle \in JobType /\ Zero \in [sent : Nat, failed : Nat]
    BY DEF Idle, JobType, WorkerSteps, AfterRecount, Zero
  <2>2. /\ scenario \in ScenarioTypes /\ "none" \in RecipientStatuses
        /\ "none" \in BlastStatuses /\ "idle" \in ApiSteps
    BY BlastScenariosAssumption DEF Init, RecipientStatuses, BlastStatuses, ApiSteps
  <2>3. /\ wk \in [Workers -> JobType] /\ counts \in [sent : Nat, failed : Nat]
        /\ rstat \in [Recipients -> RecipientStatuses] /\ bstat \in BlastStatuses
    BY <2>1, <2>2 DEF Init
  <2>4. api \in [Clients -> [step : ApiSteps, n : Nat, paused : BOOLEAN]]
    BY <2>2 DEF Init
  <2>5. attempts \in [Recipients -> Int] /\ sid \in [Recipients -> BOOLEAN]
    BY DEF Init
  <2>6. live \in [Recipients -> Nat] /\ lost \in [Recipients -> Nat]
    BY DEF Init
  <2>7. /\ due \subseteq Recipients /\ jobs \in Nat /\ total \in Nat /\ stopped \in BOOLEAN
    BY DEF Init
  <2> QED BY <2>2, <2>3, <2>4, <2>5, <2>6, <2>7 DEF VariablesOK
<1>2. \A w \in Workers : wk[w].step = "idle"
  BY DEF Init, Idle
<1>3. HasRecipient
  BY <1>2 DEF HasRecipient, HandSteps
<1>4. \A r \in Recipients : InNoHand(r)
  BY <1>2 DEF InNoHand, Holding, HandSteps
<1>5. MadeOnce
  BY <1>4 DEF Init, MadeOnce, Blank, At
<1>6. ASSUME NEW r \in Recipients PROVE RecipientInv(r)
  <2>1. Draws(r) = {} /\ Marks(r) = {}
    BY <1>4 DEF Draws, Marks, InNoHand
  <2>2. Cardinality(Draws(r)) = 0 /\ Cardinality(Marks(r)) = 0
    BY <2>1, FS_EmptySet
  <2>3. WithinBudget(r) /\ HasMessage(r)
    BY <2>2 DEF Init, WithinBudget, HasMessage, Waiting, Noted
  <2>4. Alone(r) /\ MetaSkips(r) /\ AttemptsCounted(r)
    BY <1>4 DEF Init, Alone, MetaSkips, AttemptsCounted, InNoHand
  <2> QED BY <2>3, <2>4 DEF RecipientInv
<1> QED BY <1>1, <1>3, <1>5, <1>6 DEF BlastInv

-----------------------------------------------------------------------------
(* Theorems *)

LEMMA InvHolds == Spec => []BlastInv
  BY InvInit, InvStep, PTL DEF Spec

(* Every variable has its type, and attempt_count goes below zero only     *)
(* for a recipient with a lost message.                                    *)
THEOREM TypeCorrect == Spec => []TypeOK
<1>1. BlastInv => TypeOK
  <2> SUFFICES ASSUME BlastInv, NEW r \in Recipients, attempts[r] < 0 PROVE lost[r] > 0
    BY DEF BlastInv, TypeOK
  <2>1. lost[r] \in Nat /\ attempts[r] \in Int
    BY DEF BlastInv, VariablesOK
  <2> QED BY <2>1 DEF BlastInv, RecipientInv, AttemptsCounted
<1> QED BY <1>1, InvHolds, PTL

(* Nobody gets a second message of a blast while the first one stands,     *)
(* unless one was lost: for any two chains of jobs, any requests and any   *)
(* crashes (the update that takes a recipient, and what puts it back).     *)
THEOREM NoSecondMessage == Spec => []NobodyTwice
<1>1. BlastInv => NobodyTwice
  <2> SUFFICES ASSUME BlastInv, NEW r \in Recipients PROVE live[r] <= 1 + lost[r]
    BY DEF NobodyTwice
  <2>1. /\ live[r] \in Nat /\ lost[r] \in Nat /\ Cardinality(Draws(r)) \in Nat
        /\ Waiting(r) \in {0, 1}
    BY HandsAreFinite DEF BlastInv, VariablesOK, Waiting
  <2> QED BY <2>1 DEF BlastInv, RecipientInv, WithinBudget
<1> QED BY <1>1, InvHolds, PTL

LEMMA HandLedger ==
  ASSUME BlastInv, NEW w \in Workers, NEW r \in Recipients, r = wk[w].r
  PROVE  /\ wk[w].step = "attempt" => live[r] <= lost[r]
         /\ wk[w].step = "mark" => live[r] > 0
<1>1. /\ live[r] \in Nat /\ lost[r] \in Nat
      /\ Cardinality(Draws(r)) \in Nat /\ Cardinality(Marks(r)) \in Nat
      /\ IsFiniteSet(Draws(r)) /\ IsFiniteSet(Marks(r))
      /\ Waiting(r) \in {0, 1} /\ Noted(r) \in {0, 1}
  BY HandsAreFinite DEF BlastInv, VariablesOK, Waiting, Noted
<1>2. CASE wk[w].step = "attempt"
  <2>1. w \in Draws(r)
    BY <1>2 DEF Draws, Holding, HandSteps
  <2>2. Cardinality(Draws(r)) # 0
    BY <1>1, <2>1, FS_EmptySet
  <2> QED BY <1>1, <1>2, <2>2 DEF BlastInv, RecipientInv, WithinBudget
<1>3. CASE wk[w].step = "mark"
  <2>1. w \in Marks(r)
    BY <1>3 DEF Marks, Holding, HandSteps
  <2>2. Cardinality(Marks(r)) # 0
    BY <1>1, <2>1, FS_EmptySet
  <2> QED BY <1>1, <1>3, <2>2 DEF BlastInv, RecipientInv, HasMessage
<1> QED BY <1>2, <1>3

LEMMA StepKeepsPromise ==
  BlastInv /\ [Next]_vars => [Promise!PromiseNext]_<<live, lost>>
<1> SUFFICES ASSUME BlastInv, [Next]_vars
             PROVE  UNCHANGED <<live, lost>> \/ Promise!PromiseNext
  OBVIOUS
<1> USE DEF Promise!PromiseNext, Promise!Accept, Promise!Forget, Promise!Withdraw
<1>0. /\ live \in [Recipients -> Nat] /\ lost \in [Recipients -> Nat]
      /\ \A w \in Workers : wk[w].step \in HandSteps => wk[w].r \in Recipients
  BY DEF BlastInv, VariablesOK, HasRecipient
<1>1. ASSUME NEW w \in Workers, NEW a \in Answers, Attempt(w, a)
      PROVE  UNCHANGED <<live, lost>> \/ Promise!PromiseNext
  <2>1. PICK r \in Recipients : r = wk[w].r
    BY <1>0, <1>1 DEF Attempt, AtStep, HandSteps
  <2>2. live[r] <= lost[r]
    BY <1>1, <2>1, HandLedger DEF Attempt, AtStep
  <2>3. CASE a = "accepted"
    <3>1. live' = [live EXCEPT ![r] = @ + 1] /\ lost' = lost
      BY <1>0, <1>1, <2>1, <2>3 DEF Attempt
    <3> QED BY <2>2, <3>1
  <2>4. CASE a = "lost"
    <3>1. live' = [live EXCEPT ![r] = @ + 1] /\ lost' = [lost EXCEPT ![r] = @ + 1]
      BY <1>0, <1>1, <2>1, <2>4 DEF Attempt
    <3> QED BY <2>2, <3>1
  <2>5. CASE a \notin {"accepted", "lost"}
    BY <1>0, <1>1, <2>1, <2>5 DEF Attempt
  <2> QED BY <2>3, <2>4, <2>5
<1>2. ASSUME NEW w \in Workers, Fault(w) \/ Crash(w)
      PROVE  UNCHANGED <<live, lost>> \/ Promise!PromiseNext
  <2>1. CASE wk[w].step = "mark"
    <3>1. PICK r \in Recipients : r = wk[w].r
      BY <1>0, <2>1 DEF HandSteps
    <3>2. live[r] > 0
      BY <2>1, <3>1, HandLedger
    <3>3. lost' = [lost EXCEPT ![r] = @ + 1] /\ live' = live
      BY <1>2, <2>1, <3>1 DEF Fault, Crash, AtStep
    <3> QED BY <3>2, <3>3
  <2>2. CASE wk[w].step # "mark"
    BY <1>2, <2>2 DEF Fault, Crash, AtStep
  <2> QED BY <2>1, <2>2
<1>3. ASSUME NEW r \in Recipients, Report(r)
      PROVE  UNCHANGED <<live, lost>> \/ Promise!PromiseNext
  <2>1. lost' = lost /\ live[r] > 0
    BY <1>3 DEF Report
  <2>2. live' = live \/ live' = [live EXCEPT ![r] = @ - 1]
    BY <1>3 DEF Report
  <2> QED BY <2>1, <2>2
<1>4. ASSUME NEW w \in Workers,
             \/ StartJob(w) \/ MarkSending(w) \/ Pick(w) \/ OpenCount(w) \/ Loop(w)
             \/ CancelOpen(w) \/ Win(w) \/ MetaSent(w) \/ Mark(w) \/ PutBack(w)
             \/ AccountPause(w) \/ Except(w) \/ Recount(w) \/ RecountWrite(w)
             \/ FinalCheck(w) \/ FinalWrite(w)
      PROVE  UNCHANGED <<live, lost>>
  BY <1>4 DEF StartJob, MarkSending, Pick, OpenCount, Loop, CancelOpen, Win, MetaSent, Mark, PutBack,
              AccountPause, Except, Recount, RecountWrite, FinalCheck, FinalWrite, history
<1>5. ASSUME NEW c \in Clients, Request(c) \/ Commit(c) PROVE UNCHANGED <<live, lost>>
  BY <1>5 DEF Request, Commit, create_blast, CreateRows, pause_blast, PauseWrite, resume_blast,
              ResumeRequeue, ResumeWrite, retry_failed_blast, RetryRecipients, RetryRequeue,
              RetryWrite, cancel_blast, CancelWrite, CancelRecipients, delete_blast,
              DeleteRecipients, history
<1>6. ASSUME NEW r \in Recipients, BackoffEnds(r) PROVE UNCHANGED <<live, lost>>
  BY <1>6 DEF BackoffEnds, history
<1>7. CASE UNCHANGED vars
  BY <1>7 DEF vars, history
<1> QED BY <1>1, <1>2, <1>3, <1>4, <1>5, <1>6, <1>7 DEF Next, JobStep

(* A blast implements SendPromise: every step of its jobs, its requests    *)
(* and the provider is a step of the promise or does not concern it.       *)
THEOREM Implements == Spec => KeepsPromise
<1>1. Init => Promise!PromiseInit
  BY DEF Init, Promise!PromiseInit
<1> QED BY <1>1, InvHolds, StepKeepsPromise, PTL DEF Spec, KeepsPromise, Promise!PromiseSpec



-----------------------------------------------------------------------------
(* The end of a blast *)

NoRetry  == "retry" \notin scenario.ops
Finished == bstat \in Terminal \ {"cancelled"}

(* Before the rows are there: no job, and no request but create and those  *)
(* that cancel or delete.                                                  *)
Early == bstat = "none" \/ \E c \in Clients : At(c, "create_rows")

Restarts == {"pause_write", "resume_requeue", "resume_write"}

EarlyInv ==
  NoRetry /\ Early =>
    /\ bstat \in {"none", "queued", "cancelled", "gone"} /\ jobs = 0
    /\ \A w \in Workers : AtStep(w, "idle")
    /\ \A c \in Clients : api[c].step \notin Restarts
    /\ Cancelled => bstat \in {"cancelled", "gone"}

RetryInv ==
  NoRetry =>
    \A c \in Clients : api[c].step \notin {"retry_recipients", "retry_requeue", "retry_write"}

CancelInv ==
  /\ bstat = "cancelled" => Cancelled
  /\ \A w \in Workers : AtStep(w, "cancel_open") => Cancelled
  /\ \A r \in Recipients : rstat[r] = "cancelled" => Cancelled

(* A job is about to put the recipient it has in hand back, and why. *)
PuttingBack(w) ==
  \/ AtStep(w, "put_back")
  \/ AtStep(w, "except") /\ wk[w].cat = "retryable"

PutsBack(w) ==
  /\ AtStep(w, "put_back") => ~PutsNothingBack
  /\ AtStep(w, "except") /\ wk[w].cat = "retryable" =>
       lost[wk[w].r] > 0 \/ ~PutsNothingBack

(* A job that found no recipient left, up to its write of the final status, *)
(* and one that does nothing more than count.                               *)
Counting(w) == AtStep(w, "recount") \/ AtStep(w, "recount_write")
Finishing(w) ==
  \/ AtStep(w, "final_check") \/ AtStep(w, "final_write")
  \/ Counting(w) /\ wk[w].after = "final_check"
Leaving(w) ==
  \/ AtStep(w, "idle")
  \/ Counting(w) /\ wk[w].after = "idle"

Over == Finished \/ \E w \in Workers : Finishing(w)

ServedInv == NoRetry /\ Over => \A r \in Recipients : rstat[r] \in Open => Disturbed(r)

(* Without resume there is one chain of jobs. *)
ChainInv ==
  NoRetry /\ "resume" \notin scenario.ops =>
    /\ \A c \in Clients : api[c].step \notin {"resume_requeue", "resume_write"}
    /\ jobs \in {0, 1}
    /\ \A v, w \in Workers : ~AtStep(v, "idle") /\ ~AtStep(w, "idle") => v = w
    /\ jobs # 0 => \A w \in Workers : AtStep(w, "idle")
    /\ Finished => jobs = 0 /\ \A w \in Workers : Leaving(w)

(* After a cancel nobody is left to serve, or the rows came after it, and  *)
(* then the first job sees that the blast is cancelled.                    *)
TooLate ==
  /\ bstat \in {"cancelled", "gone"}
  /\ \A c \in Clients : api[c].step \notin Restarts
  /\ \A w \in Workers : Leaving(w) \/ AtStep(w, "cancel_open")

StoppedInv ==
  stopped /\ PutsNothingBack /\ NoRetry =>
    TooLate \/ \A r \in Recipients : rstat[r] \in Open => lost[r] > 0

EndInv ==
  /\ EarlyInv /\ RetryInv /\ CancelInv /\ \A w \in Workers : PutsBack(w)
  /\ ServedInv /\ ChainInv /\ StoppedInv

(* What a step of worker w leaves alone, and what a request does. *)
WorkerStep(w) == StartJob(w) \/ JobStep(w) \/ Fault(w) \/ Crash(w)
RequestStep(c) == Request(c) \/ Commit(c)
TimeStep(r) == BackoffEnds(r) \/ Report(r)

LEMMA StepKinds ==
  ASSUME [Next]_vars
  PROVE  \/ \E w \in Workers : WorkerStep(w)
         \/ \E c \in Clients : RequestStep(c)
         \/ \E r \in Recipients : TimeStep(r)
         \/ UNCHANGED vars
BY DEF Next, WorkerStep, RequestStep, TimeStep

LEMMA OneWorker ==
  ASSUME VariablesOK, NEW w \in Workers, WorkerStep(w)
  PROVE  /\ api' = api /\ stopped' = stopped
         /\ \A v \in Workers \ {w} : wk'[v] = wk[v]
<1>1. CASE StartJob(w)
  BY <1>1 DEF StartJob, Goto, VariablesOK, history
<1>2. CASE JobStep(w)
  BY <1>2 DEF JobStep, MarkSending, Pick, OpenCount, Loop, CancelOpen, Win, MetaSent, Attempt,
     Mark, PutBack, AccountPause, Except, Recount, RecountWrite, FinalCheck, FinalWrite,
     Goto, Return, Proceed, RecountThen, VariablesOK, history
<1>3. CASE Fault(w) \/ Crash(w)
  BY <1>3 DEF Fault, Crash, Return, VariablesOK
<1>. QED
  BY <1>1, <1>2, <1>3 DEF WorkerStep

LEMMA OneRequest ==
  ASSUME VariablesOK, NEW c \in Clients, RequestStep(c)
  PROVE  /\ wk' = wk /\ lost' = lost /\ sid' = sid
         /\ \A d \in Clients \ {c} : api'[d] = api[d]
<1>1. CASE Request(c)
  BY <1>1 DEF Request, create_blast, pause_blast, resume_blast, retry_failed_blast,
     cancel_blast, delete_blast, To, VariablesOK, history, dbVars
<1>2. CASE Commit(c)
  BY <1>2 DEF Commit, CreateRows, PauseWrite, ResumeRequeue, ResumeWrite, RetryRecipients,
     RetryRequeue, RetryWrite, CancelWrite, CancelRecipients, DeleteRecipients,
     To, ToIdle, VariablesOK, history, dbVars
<1>. QED
  BY <1>1, <1>2 DEF RequestStep

LEMMA OneTime ==
  ASSUME NEW r \in Recipients, TimeStep(r)
  PROVE  UNCHANGED <<wk, api, bstat, jobs, stopped, sid, lost>>
BY DEF TimeStep, BackoffEnds, Report, history

LEMMA AtRest == UNCHANGED vars => UNCHANGED <<dbVars, wk, api, bstat, jobs, stopped, sid, lost, rstat, scenario>>
BY DEF vars, dbVars, history

(* The scenario's choices stay. *)
LEMMA ScenarioStays ==
  ASSUME VariablesOK, [Next]_vars
  PROVE  scenario'.ops = scenario.ops /\ scenario'.answers = scenario.answers
<1>0. {"ops", "answers", "calls", "faults", "reports"} \subseteq DOMAIN scenario
  BY DEF VariablesOK, ScenarioTypes
<1>1. ASSUME \/ scenario' = [scenario EXCEPT !.calls = @ - 1]
             \/ scenario' = [scenario EXCEPT !.faults = @ - 1]
             \/ scenario' = [scenario EXCEPT !.reports = @ - 1]
      PROVE  scenario'.ops = scenario.ops /\ scenario'.answers = scenario.answers
  BY <1>0, <1>1
<1>2. ASSUME NEW w \in Workers, WorkerStep(w)
      PROVE  \/ scenario' = scenario
             \/ scenario' = [scenario EXCEPT !.calls = @ - 1]
             \/ scenario' = [scenario EXCEPT !.faults = @ - 1]
  BY <1>2 DEF WorkerStep, StartJob, JobStep, MarkSending, Pick, OpenCount, Loop, CancelOpen, Win,
     MetaSent, Attempt, Mark, PutBack, AccountPause, Except, Recount, RecountWrite, FinalCheck,
     FinalWrite, Fault, Crash, Call
<1>3. ASSUME NEW c \in Clients, RequestStep(c)
      PROVE  scenario' = scenario \/ scenario' = [scenario EXCEPT !.calls = @ - 1]
  BY <1>3 DEF RequestStep, Request, create_blast, pause_blast, resume_blast, retry_failed_blast,
     cancel_blast, delete_blast, Commit, CreateRows, PauseWrite, ResumeRequeue, ResumeWrite,
     RetryRecipients, RetryRequeue, RetryWrite, CancelWrite, CancelRecipients, DeleteRecipients, Call
<1>4. ASSUME NEW r \in Recipients, TimeStep(r)
      PROVE  scenario' = scenario \/ scenario' = [scenario EXCEPT !.reports = @ - 1]
  BY <1>4 DEF TimeStep, BackoffEnds, Report
<1>. QED
  BY <1>1, <1>2, <1>3, <1>4, StepKinds, AtRest

(* What a recipient has lost, and a cancel, are never undone. *)
LEMMA LossesStay ==
  ASSUME VariablesOK, [Next]_vars, NEW r \in Recipients
  PROVE  /\ lost[r] > 0 => lost'[r] > 0
         /\ sid[r] => sid'[r]
<1>0. /\ lost \in [Recipients -> Nat] /\ sid \in [Recipients -> BOOLEAN]
  BY DEF VariablesOK
<1>1. ASSUME NEW w \in Workers, WorkerStep(w)
      PROVE  /\ lost' = lost \/ \E q : lost' = [lost EXCEPT ![q] = @ + 1]
             /\ sid' = sid \/ \E q : sid' = [sid EXCEPT ![q] = TRUE]
  <2>1. ASSUME NEW a \in Answers, Attempt(w, a)
        PROVE  /\ lost' = lost \/ \E q : lost' = [lost EXCEPT ![q] = @ + 1]
               /\ sid' = sid
    BY <1>0, <2>1 DEF Attempt, dbVars
  <2>2. CASE Fault(w) \/ Crash(w) \/ Mark(w)
    BY <2>2 DEF Fault, Crash, Mark, dbVars, history
  <2>. QED
    BY <1>1, <2>1, <2>2 DEF WorkerStep, StartJob, JobStep, MarkSending, Pick, OpenCount, Loop, CancelOpen, Win,
       MetaSent, PutBack, AccountPause, Except, Recount, RecountWrite, FinalCheck,
       FinalWrite, dbVars, history
<1>2. ASSUME \E q : lost' = [lost EXCEPT ![q] = @ + 1], lost[r] > 0  PROVE lost'[r] > 0
  BY <1>0, <1>2
<1>3. ASSUME \E q : sid' = [sid EXCEPT ![q] = TRUE], sid[r]  PROVE sid'[r]
  BY <1>0, <1>3
<1>4. \/ lost' = lost /\ sid' = sid
      \/ \E w \in Workers : WorkerStep(w)
  BY StepKinds, AtRest, OneRequest, OneTime
<1>5. /\ lost' = lost \/ \E q : lost' = [lost EXCEPT ![q] = @ + 1]
      /\ sid' = sid \/ \E q : sid' = [sid EXCEPT ![q] = TRUE]
  BY <1>1, <1>4
<1>. QED
  BY <1>2, <1>3, <1>5

LEMMA CancelStays ==
  ASSUME VariablesOK, [Next]_vars
  PROVE  /\ stopped => stopped'
         /\ Cancelled => Cancelled'
         /\ stopped' /\ ~stopped => \E c \in Clients : CancelRecipients(c)
<1>1. ASSUME NEW c \in Clients, RequestStep(c)
      PROVE  \/ CancelRecipients(c)
             \/ stopped' = stopped /\ (At(c, "cancel_recipients") => At(c, "cancel_recipients")')
  BY <1>1 DEF RequestStep, Request, create_blast, pause_blast, resume_blast, retry_failed_blast,
     cancel_blast, delete_blast, Commit, CreateRows, PauseWrite, ResumeRequeue, ResumeWrite,
     RetryRecipients, RetryRequeue, RetryWrite, CancelWrite, DeleteRecipients,
     Ready, At, history
<1>2. ASSUME NEW c \in Clients, RequestStep(c)
      PROVE  (stopped => stopped') /\ (Cancelled => Cancelled')
  <2>1. CASE CancelRecipients(c)
    BY <2>1 DEF CancelRecipients, Cancelled
  <2>2. CASE stopped' = stopped /\ (At(c, "cancel_recipients") => At(c, "cancel_recipients")')
    BY <1>2, <2>2, OneRequest DEF Cancelled, At
  <2>. QED
    BY <1>1, <1>2, <2>1, <2>2
<1>3. CASE api' = api /\ stopped' = stopped
  BY <1>3 DEF Cancelled, At
<1>. QED
  BY <1>1, <1>2, <1>3, StepKinds, AtRest, OneWorker, OneTime

(* Who writes the blast, and what. *)
LEMMA BlastBy ==
  ASSUME [Next]_vars
  PROVE  \/ bstat' = bstat
         \/ bstat' = "gone"
         \/ bstat = "none" /\ bstat' = "queued" /\ \E c \in Clients : create_blast(c)
         \/ \E w \in Workers : MarkSending(w) /\ bstat' = "sending"
         \/ \E w \in Workers : AccountPause(w) /\ bstat = "sending" /\ bstat' = "paused"
         \/ \E w \in Workers : FinalWrite(w) /\ bstat # "gone"
         \/ \E c \in Clients : At(c, "pause_write") /\ bstat' = "paused"
         \/ \E c \in Clients : At(c, "resume_write") /\ bstat' = "sending"
         \/ \E c \in Clients : At(c, "retry_write") /\ bstat' = "sending"
         \/ \E c \in Clients : CancelWrite(c) /\ bstat' = "cancelled"
<1>1. ASSUME NEW w \in Workers, WorkerStep(w)
      PROVE  \/ bstat' = bstat \/ bstat' = "gone"
             \/ MarkSending(w) /\ bstat' = "sending"
             \/ AccountPause(w) /\ bstat = "sending" /\ bstat' = "paused"
             \/ FinalWrite(w) /\ bstat # "gone"
  BY <1>1 DEF WorkerStep, StartJob, JobStep, MarkSending, Pick, OpenCount, Loop, CancelOpen, Win,
     MetaSent, Attempt, Mark, PutBack, AccountPause, Except, Recount, RecountWrite, FinalCheck,
     FinalWrite, Fault, Crash, SetBlast, dbVars
<1>2. ASSUME NEW c \in Clients, RequestStep(c)
      PROVE  \/ bstat' = bstat \/ bstat' = "gone"
             \/ bstat = "none" /\ bstat' = "queued" /\ create_blast(c)
             \/ At(c, "pause_write") /\ bstat' = "paused"
             \/ At(c, "resume_write") /\ bstat' = "sending"
             \/ At(c, "retry_write") /\ bstat' = "sending"
             \/ CancelWrite(c) /\ bstat' = "cancelled"
  BY <1>2 DEF RequestStep, Request, create_blast, pause_blast, resume_blast, retry_failed_blast,
     cancel_blast, delete_blast, Commit, CreateRows, PauseWrite, ResumeRequeue, ResumeWrite,
     RetryRecipients, RetryRequeue, RetryWrite, CancelWrite, CancelRecipients, DeleteRecipients,
     SetBlast, dbVars
<1>. QED
  BY <1>1, <1>2, StepKinds, AtRest, OneTime

(* A deleted blast stays deleted, a blast that is there stays there.       *)
LEMMA GoneStays ==
  ASSUME [Next]_vars
  PROVE  /\ bstat = "gone" => bstat' = "gone"
         /\ bstat' = "none" => bstat = "none"
<1>1. ASSUME NEW w \in Workers, WorkerStep(w)
      PROVE  /\ bstat = "gone" => bstat' = "gone"
             /\ bstat' = "none" => bstat = "none"
  BY <1>1 DEF WorkerStep, StartJob, JobStep, MarkSending, Pick, OpenCount, Loop, CancelOpen, Win,
     MetaSent, Attempt, Mark, PutBack, AccountPause, Except, Recount, RecountWrite, FinalCheck,
     FinalWrite, Fault, Crash, SetBlast, dbVars, FinalStatus
<1>2. ASSUME NEW c \in Clients, RequestStep(c)
      PROVE  /\ bstat = "gone" => bstat' = "gone"
             /\ bstat' = "none" => bstat = "none"
  BY <1>2 DEF RequestStep, Request, create_blast, pause_blast, resume_blast, retry_failed_blast,
     cancel_blast, delete_blast, Commit, CreateRows, PauseWrite, ResumeRequeue, ResumeWrite,
     RetryRecipients, RetryRequeue, RetryWrite, CancelWrite, CancelRecipients, DeleteRecipients,
     SetBlast, dbVars
<1>. QED
  BY <1>1, <1>2, StepKinds, AtRest, OneTime

(* The jobs in the queue. *)
LEMMA JobsBy ==
  ASSUME [Next]_vars
  PROVE  \/ jobs' = jobs
         \/ jobs' = jobs - 1 /\ jobs > 0 /\ \E w \in Workers : StartJob(w)
         \/ jobs' = jobs + 1 /\ \E w \in Workers : OpenCount(w) /\ Return(w)
         \/ jobs' = jobs + 1 /\ \E c \in Clients : CreateRows(c)
         \/ \E c \in Clients : At(c, "resume_write") \/ At(c, "retry_write")
<1>1. ASSUME NEW w \in Workers, WorkerStep(w)
      PROVE  \/ jobs' = jobs
             \/ jobs' = jobs - 1 /\ jobs > 0 /\ StartJob(w)
             \/ jobs' = jobs + 1 /\ OpenCount(w) /\ Return(w)
  BY <1>1 DEF WorkerStep, StartJob, JobStep, MarkSending, Pick, OpenCount, Loop, CancelOpen, Win,
     MetaSent, Attempt, Mark, PutBack, AccountPause, Except, Recount, RecountWrite, FinalCheck,
     FinalWrite, Fault, Crash
<1>2. ASSUME NEW c \in Clients, RequestStep(c)
      PROVE  \/ jobs' = jobs
             \/ jobs' = jobs + 1 /\ CreateRows(c)
             \/ At(c, "resume_write") \/ At(c, "retry_write")
  BY <1>2 DEF RequestStep, Request, create_blast, pause_blast, resume_blast, retry_failed_blast,
     cancel_blast, delete_blast, Commit, CreateRows, PauseWrite, ResumeRequeue, ResumeWrite,
     RetryRecipients, RetryRequeue, RetryWrite, CancelWrite, CancelRecipients, DeleteRecipients
<1>. QED
  BY <1>1, <1>2, StepKinds, AtRest, OneTime

(* The steps of a request: where each comes from. *)
LEMMA RequestBy ==
  ASSUME VariablesOK, [Next]_vars, NEW c \in Clients, api'[c] # api[c]
  PROVE  /\ RequestStep(c) /\ wk' = wk
         /\ At(c, "create_rows")' => bstat = "none" /\ bstat' = "queued" /\ jobs' = jobs
         /\ At(c, "pause_write")' => bstat = "sending"
         /\ At(c, "resume_requeue")' => bstat = "paused" /\ "resume" \in scenario.ops
         /\ At(c, "resume_write")' => At(c, "resume_requeue")
         /\ At(c, "cancel_recipients")' => CancelWrite(c)
         /\ At(c, "retry_recipients")' => "retry" \in scenario.ops
         /\ At(c, "retry_requeue")' => At(c, "retry_recipients")
         /\ At(c, "retry_write")' => At(c, "retry_requeue")
<1>1. PICK d \in Clients : RequestStep(d)
  BY StepKinds, AtRest, OneWorker, OneTime
<1>2. d = c
  BY <1>1, OneRequest
<1>3. RequestStep(c) /\ wk' = wk
  BY <1>1, <1>2, OneRequest
<1>4. DOMAIN api = Clients /\ {"step", "n", "paused"} \subseteq DOMAIN api[c]
  BY DEF VariablesOK
<1>5. CASE Request(c)
  BY <1>3, <1>4, <1>5 DEF Request, create_blast, pause_blast, resume_blast, retry_failed_blast,
     cancel_blast, delete_blast, To, Call, At
<1>6. CASE Commit(c)
  BY <1>3, <1>4, <1>6 DEF Commit, CreateRows, PauseWrite, ResumeRequeue, ResumeWrite,
     RetryRecipients, RetryRequeue, RetryWrite, CancelWrite, CancelRecipients, DeleteRecipients,
     To, ToIdle, At
<1>. QED
  BY <1>3, <1>5, <1>6 DEF RequestStep

(* The steps of a job: where each comes from. *)
LEMMA JobBy ==
  ASSUME VariablesOK, [Next]_vars, NEW w \in Workers, wk'[w] # wk[w]
  PROVE  /\ WorkerStep(w)
         /\ \A v \in Workers \ {w} : wk'[v] = wk[v]
         /\ api' = api /\ stopped' = stopped
<1>1. PICK v \in Workers : WorkerStep(v)
  BY StepKinds, AtRest, OneRequest, OneTime
<1>2. v = w
  BY <1>1, OneWorker
<1>. QED
  BY <1>1, <1>2, OneWorker

LEMMA StepBy ==
  ASSUME VariablesOK, NEW w \in Workers, WorkerStep(w)
  PROVE  /\ AtStep(w, "idle") => StartJob(w)
         /\ AtStep(w, "cancel_open")' => bstat = "cancelled"
         /\ AtStep(w, "put_back")' =>
              \E a \in Answers : Attempt(w, a) /\ a \in {"denied", "blocked"}
         /\ AtStep(w, "except")' /\ wk'[w].cat = "retryable" =>
              \/ Fault(w)
              \/ \E a \in Answers : Attempt(w, a) /\ a \in {"retryable", "lost"}
         /\ Finishing(w)' =>
              \/ Finishing(w)
              \/ OpenCount(w) /\ Number(Open) = 0
         /\ AtStep(w, "final_write") => Leaving(w)'
         /\ AtStep(w, "cancel_open") => Leaving(w)'
         /\ Counting(w) /\ Leaving(w) => Leaving(w)'
         /\ AtStep(w, "open_count") /\ OpenCount(w) /\ Return(w) => AtStep(w, "idle")'
<1>. DEFINE Goal ==
         /\ AtStep(w, "cancel_open")' => bstat = "cancelled"
         /\ AtStep(w, "put_back")' =>
              \E a \in Answers : Attempt(w, a) /\ a \in {"denied", "blocked"}
         /\ AtStep(w, "except")' /\ wk'[w].cat = "retryable" =>
              \/ Fault(w)
              \/ \E a \in Answers : Attempt(w, a) /\ a \in {"retryable", "lost"}
         /\ Finishing(w)' =>
              \/ Finishing(w)
              \/ OpenCount(w) /\ Number(Open) = 0
         /\ AtStep(w, "final_write") => Leaving(w)'
         /\ AtStep(w, "cancel_open") => Leaving(w)'
         /\ Counting(w) /\ Leaving(w) => Leaving(w)'
         /\ AtStep(w, "open_count") /\ OpenCount(w) /\ Return(w) => AtStep(w, "idle")'
<1>0. /\ w \in DOMAIN wk /\ {"step", "batch", "r", "cat", "found", "after"} \subseteq DOMAIN wk[w]
      /\ wk[w].after \in AfterRecount /\ Number(Open) \in Nat
  BY NumberType DEF VariablesOK, JobType
<1>a. Return(w) => AtStep(w, "idle")'
  BY <1>0 DEF Return, Idle, AtStep
<1>b. Proceed(w) => AtStep(w, "loop")'
  BY <1>0 DEF Proceed, Idle, AtStep
<1>c. \A s : RecountThen(w, s) => AtStep(w, "recount")' /\ wk'[w].after = s
  BY <1>0 DEF RecountThen, AtStep
<1>d. \A s : Goto(w, s) => AtStep(w, s)'
  BY <1>0 DEF Goto, AtStep
<1>. USE DEF AtStep, Leaving, Finishing, Counting
<1>1. CASE StartJob(w)
  BY <1>1, <1>d DEF StartJob
<1>2. CASE MarkSending(w) \/ Win(w) \/ MetaSent(w) \/ Mark(w)
  BY <1>2, <1>b, <1>d DEF MarkSending, Win, MetaSent, Mark
<1>2a. CASE Pick(w)
  <2>1. AtStep(w, "loop")' \/ AtStep(w, "open_count")'
    BY <1>0, <1>2a DEF Pick
  <2>. QED
    BY <1>2a, <2>1 DEF Pick
<1>3. CASE OpenCount(w)
  BY <1>0, <1>3, <1>a, <1>c DEF OpenCount
<1>4. CASE CancelOpen(w) \/ PutBack(w) \/ AccountPause(w) \/ Except(w)
  BY <1>4, <1>b, <1>c, <1>d DEF CancelOpen, PutBack, AccountPause, Except
<1>4a. CASE Loop(w)
  <2>1. ASSUME NEW r, wk' = [wk EXCEPT ![w].r = r, ![w].step = "win", ![w].batch = @ \ {r}]
        PROVE  AtStep(w, "win")'
    BY <1>0, <2>1
  <2>2. AtStep(w, "recount")' => wk'[w].after = "open_count"
    BY <1>4a, <1>a, <1>c, <1>d, <2>1 DEF Loop
  <2>3. \/ AtStep(w, "recount")' \/ AtStep(w, "idle")' \/ AtStep(w, "win")'
        \/ AtStep(w, "cancel_open")' /\ bstat = "cancelled"
    BY <1>4a, <1>a, <1>c, <1>d, <2>1 DEF Loop
  <2>. QED
    BY <1>4a, <2>2, <2>3 DEF Loop
<1>5. ASSUME NEW a \in Answers, Attempt(w, a)  PROVE Goal
  BY <1>0, <1>5 DEF Attempt, Answers
<1>6. CASE Recount(w)
  <2>1. AtStep(w, "recount_write")' /\ wk'[w].after = wk[w].after
    BY <1>0, <1>6 DEF Recount
  <2>. QED
    BY <1>6, <2>1 DEF Recount
<1>6a. CASE FinalCheck(w)
  <2>1. AtStep(w, "final_write")' \/ AtStep(w, "idle")'
    BY <1>0, <1>6a, <1>a DEF FinalCheck
  <2>. QED
    BY <1>6a, <2>1 DEF FinalCheck
<1>6b. CASE FinalWrite(w)
  BY <1>6b, <1>c DEF FinalWrite
<1>7. CASE RecountWrite(w)
  <2>1. wk'[w].step = wk[w].after
    BY <1>0, <1>7 DEF RecountWrite, AfterRecount, Idle
  <2>. QED
    BY <1>0, <1>7, <2>1 DEF RecountWrite, AfterRecount
<1>8. CASE Fault(w) \/ Crash(w)
  BY <1>0, <1>8, <1>a DEF Fault, Crash
<1>9. AtStep(w, "idle") => StartJob(w)
  BY DEF WorkerStep, JobStep, Pick, OpenCount, Loop, CancelOpen, Win, MetaSent, Attempt,
     Mark, PutBack, AccountPause, Except, Recount, RecountWrite, FinalCheck, FinalWrite,
     MarkSending, Fault, Crash
<1>10. Goal
  BY <1>1, <1>2, <1>2a, <1>3, <1>4, <1>4a, <1>5, <1>6, <1>6a, <1>6b, <1>7, <1>8 DEF WorkerStep, JobStep
<1>. QED
  BY <1>9, <1>10

(* How a recipient comes to be open, or cancelled. *)
LEMMA RowBy ==
  ASSUME VariablesOK, [Next]_vars, NEW r \in Recipients
  PROVE  /\ rstat'[r] \in Open =>
              \/ rstat[r] \in Open
              \/ \E c \in Clients : CreateRows(c) \/ At(c, "retry_recipients")
              \/ \E w \in Workers :
                   wk[w].r = r /\ rstat[r] # "none" /\ PuttingBack(w)
         /\ rstat'[r] = "cancelled" =>
              \/ rstat[r] = "cancelled"
              \/ \E w \in Workers : AtStep(w, "cancel_open")
              \/ \E c \in Clients : At(c, "cancel_recipients")
<1>0. rstat \in [Recipients -> RecipientStatuses]
  BY DEF VariablesOK
<1>1. ASSUME NEW q, NEW t, SetRecipient(q, t)
      PROVE  /\ rstat'[r] # rstat[r] => r = q /\ rstat[r] # "none" /\ rstat'[r] = t
  BY <1>0, <1>1 DEF SetRecipient
<1>2. ASSUME NEW w \in Workers, WorkerStep(w)
      PROVE  /\ rstat'[r] \in Open =>
                  \/ rstat[r] \in Open
                  \/ wk[w].r = r /\ rstat[r] # "none" /\ PuttingBack(w)
             /\ rstat'[r] = "cancelled" => rstat[r] = "cancelled" \/ AtStep(w, "cancel_open")
  <2>1. CASE Win(w)
    BY <1>1, <2>1 DEF Win, Open
  <2>2. CASE MetaSent(w) \/ Mark(w) \/ Fault(w)
    BY <1>1, <2>2 DEF MetaSent, Mark, Fault, Open
  <2>3. CASE PutBack(w)
    BY <1>1, <2>3 DEF PutBack, PuttingBack, Open
  <2>4. CASE Except(w)
    BY <1>1, <2>4 DEF Except, PuttingBack, AtStep, Open
  <2>5. CASE CancelOpen(w)
    BY <1>0, <2>5 DEF CancelOpen, MoveAll, Open
  <2>6. CASE rstat' = rstat
    BY <2>6
  <2>7. ASSUME ~Win(w), ~MetaSent(w), ~Mark(w), ~Fault(w), ~PutBack(w), ~Except(w), ~CancelOpen(w)
        PROVE  rstat' = rstat
    BY <1>2, <2>7 DEF WorkerStep, StartJob, JobStep, MarkSending, Pick, OpenCount, Loop,
       Attempt, AccountPause, Recount, RecountWrite, FinalCheck, FinalWrite, Crash, dbVars
  <2>. QED
    BY <2>1, <2>2, <2>3, <2>4, <2>5, <2>6, <2>7
<1>3. ASSUME NEW c \in Clients, RequestStep(c)
      PROVE  /\ rstat'[r] \in Open =>
                  rstat[r] \in Open \/ CreateRows(c) \/ At(c, "retry_recipients")
             /\ rstat'[r] = "cancelled" => rstat[r] = "cancelled" \/ At(c, "cancel_recipients")
  <2>1. CASE ResumeRequeue(c) \/ RetryRequeue(c)
    BY <1>0, <2>1 DEF ResumeRequeue, RetryRequeue, RequeueStuck, Stuck, Open
  <2>2. CASE CreateRows(c)
    BY <1>0, <2>2 DEF CreateRows, dbVars
  <2>3. CASE RetryRecipients(c)
    BY <1>0, <2>3 DEF RetryRecipients, MoveAll
  <2>4. CASE CancelRecipients(c)
    BY <1>0, <2>4 DEF CancelRecipients, MoveAll, Open
  <2>5. CASE DeleteRecipients(c)
    BY <2>5 DEF DeleteRecipients, Open
  <2>6. ASSUME ~ResumeRequeue(c), ~RetryRequeue(c), ~CreateRows(c), ~RetryRecipients(c),
               ~CancelRecipients(c), ~DeleteRecipients(c)
        PROVE  rstat' = rstat
    BY <1>3, <2>6 DEF RequestStep, Request, create_blast, pause_blast, resume_blast,
       retry_failed_blast, cancel_blast, delete_blast, Commit, PauseWrite, ResumeWrite,
       RetryWrite, CancelWrite, dbVars
  <2>. QED
    BY <2>1, <2>2, <2>3, <2>4, <2>5, <2>6
<1>4. ASSUME NEW q \in Recipients, TimeStep(q)
      PROVE  rstat'[r] # rstat[r] => rstat'[r] \in {"delivered", "failed"}
  BY <1>1, <1>4 DEF TimeStep, BackoffEnds, Report
<1>. QED
  BY <1>2, <1>3, <1>4, StepKinds, AtRest DEF Open

(* Nothing is open where the count of open recipients is zero. *)
LEMMA NoneOpen ==
  ASSUME Number(Open) = 0
  PROVE  \A r \in Recipients : rstat[r] \notin Open
<1>1. {r \in Recipients : rstat[r] \in Open} \in SUBSET Recipients
  OBVIOUS
<1>2. IsFiniteSet({r \in Recipients : rstat[r] \in Open})
  BY <1>1, BlastBoundsAssumption, FS_Subset
<1>3. {r \in Recipients : rstat[r] \in Open} = {}
  BY <1>2, FS_EmptySet DEF Number
<1>. QED
  BY <1>3

LEMMA DisturbedStays ==
  ASSUME VariablesOK, [Next]_vars, NEW r \in Recipients, Disturbed(r)
  PROVE  Disturbed(r)'
<1>1. PutsNothingBack' = PutsNothingBack
  BY ScenarioStays DEF PutsNothingBack
<1>. QED
  BY <1>1, ScenarioStays, LossesStay, CancelStays DEF Disturbed

LEMMA RetryNext == VariablesOK /\ RetryInv /\ [Next]_vars => RetryInv'
<1>. SUFFICES ASSUME VariablesOK, RetryInv, [Next]_vars, NoRetry, NEW c \in Clients,
                     api'[c] # api[c]
              PROVE  api'[c].step \notin {"retry_recipients", "retry_requeue", "retry_write"}
  BY ScenarioStays DEF RetryInv, NoRetry
<1>. QED
  BY RequestBy DEF RetryInv, NoRetry, At

LEMMA CancelNext == VariablesOK /\ CancelInv /\ [Next]_vars => CancelInv'
<1>. SUFFICES ASSUME VariablesOK, CancelInv, [Next]_vars  PROVE CancelInv'
  OBVIOUS
<1>1. Cancelled => Cancelled'
  BY CancelStays
<1>2. ASSUME bstat' = "cancelled"  PROVE Cancelled'
  <2>1. ASSUME NEW c \in Clients, CancelWrite(c)  PROVE Cancelled'
    BY <2>1 DEF CancelWrite, To, Cancelled, At, VariablesOK
  <2>2. ASSUME NEW w \in Workers, FinalWrite(w), bstat # "gone"  PROVE bstat' # "cancelled"
    BY <2>2 DEF FinalWrite, SetBlast, FinalStatus
  <2>. QED
    BY <1>1, <1>2, <2>1, <2>2, BlastBy DEF CancelInv
<1>3. ASSUME NEW w \in Workers, AtStep(w, "cancel_open")'  PROVE Cancelled'
  BY <1>1, <1>3, JobBy, StepBy DEF CancelInv, AtStep
<1>4. ASSUME NEW r \in Recipients, rstat'[r] = "cancelled"  PROVE Cancelled'
  BY <1>1, <1>4, RowBy DEF CancelInv, Cancelled
<1>. QED
  BY <1>2, <1>3, <1>4 DEF CancelInv

LEMMA PutsBackNext ==
  ASSUME VariablesOK, HasRecipient, HasRecipient', [Next]_vars, \A w \in Workers : PutsBack(w)
  PROVE  \A w \in Workers : PutsBack(w)'
<1>. SUFFICES ASSUME NEW w \in Workers  PROVE PutsBack(w)'
  OBVIOUS
<1>1. PutsNothingBack' = PutsNothingBack
  BY ScenarioStays DEF PutsNothingBack
<1>2. CASE wk'[w] = wk[w]
  <2>1. ASSUME AtStep(w, "except")  PROVE wk[w].r \in Recipients
    BY <2>1 DEF HasRecipient, HandSteps, AtStep
  <2>. QED
    BY <1>1, <1>2, <2>1, LossesStay DEF PutsBack, AtStep
<1>3. CASE wk'[w] # wk[w]
  <2>1. WorkerStep(w)
    BY <1>3, JobBy
  <2>2. ASSUME NEW a \in Answers, Attempt(w, a), a \in {"denied", "blocked", "retryable", "lost"}
        PROVE  ~PutsNothingBack
    BY <2>2 DEF Attempt, PutsNothingBack
  <2>3. ASSUME Fault(w)  PROVE lost'[wk'[w].r] > 0
    <3>1. wk[w].r \in Recipients /\ wk'[w].r = wk[w].r
      BY <2>3 DEF Fault, HasRecipient, HandSteps, AtStep, VariablesOK, JobType
    <3>. QED
      BY <2>3, <3>1 DEF Fault, VariablesOK
  <2>. QED
    BY <1>1, <2>1, <2>2, <2>3, StepBy DEF PutsBack
<1>. QED
  BY <1>2, <1>3

(* The rows are made by the one request that is Early. *)
LEMMA CreateEnds ==
  ASSUME VariablesOK, MadeOnce, NEW c \in Clients, CreateRows(c)
  PROVE  Early /\ ~Early' /\ wk' = wk
<1>1. At(c, "create_rows") /\ bstat # "none" /\ \A d \in Clients : At(d, "create_rows") => d = c
  BY DEF MadeOnce, CreateRows
<1>2. api' = [api EXCEPT ![c] = [step |-> "idle", n |-> 0, paused |-> FALSE]] /\ wk' = wk
      /\ bstat' \in {bstat, "gone"}
  BY DEF CreateRows, ToIdle
<1>3. \A d \in Clients : ~At(d, "create_rows")'
  BY <1>1, <1>2 DEF At, VariablesOK
<1>. QED
  BY <1>1, <1>2, <1>3 DEF Early

LEMMA EarlyBy ==
  ASSUME VariablesOK, [Next]_vars, Early'
  PROVE  Early
<1>1. ASSUME NEW c \in Clients, At(c, "create_rows")', ~At(c, "create_rows")
      PROVE  bstat = "none"
  BY <1>1, RequestBy DEF At
<1>. QED
  BY <1>1, GoneStays DEF Early

LEMMA EarlyNext ==
  VariablesOK /\ MadeOnce /\ RetryInv /\ EarlyInv /\ [Next]_vars => EarlyInv'
<1>. SUFFICES ASSUME VariablesOK, MadeOnce, RetryInv, EarlyInv, [Next]_vars, NoRetry, Early, Early'
              PROVE  /\ bstat' \in {"none", "queued", "cancelled", "gone"} /\ jobs' = 0
                     /\ \A w \in Workers : AtStep(w, "idle")'
                     /\ \A c \in Clients : api'[c].step \notin Restarts
                     /\ Cancelled' => bstat' \in {"cancelled", "gone"}
  BY ScenarioStays, EarlyBy DEF EarlyInv, NoRetry
<1>1. /\ bstat \in {"none", "queued", "cancelled", "gone"} /\ jobs = 0
      /\ \A w \in Workers : AtStep(w, "idle")
      /\ \A c \in Clients : api[c].step \notin Restarts
      /\ Cancelled => bstat \in {"cancelled", "gone"}
      /\ \A c \in Clients : ~At(c, "retry_write")
  BY DEF EarlyInv, RetryInv, At
<1>2. ASSUME NEW w \in Workers  PROVE wk'[w] = wk[w]
  <2>1. ~StartJob(w)
    BY <1>1 DEF StartJob
  <2>. QED
    BY <1>1, <2>1, JobBy, StepBy
<1>3. bstat' \in {"none", "queued", "cancelled", "gone"}
      /\ (bstat' = "queued" => bstat \in {"none", "queued"})
      /\ (bstat' = "none" => bstat = "none")
  BY <1>1, BlastBy, GoneStays DEF MarkSending, FinalWrite, AtStep, At, Restarts
<1>4. jobs' = 0
  BY <1>1, JobsBy, CreateEnds DEF OpenCount, AtStep, At, Restarts
<1>5. ASSUME NEW c \in Clients  PROVE api'[c].step \notin Restarts
  BY <1>1, RequestBy DEF At, Restarts
<1>6. ASSUME Cancelled'  PROVE bstat' \in {"cancelled", "gone"}
  <2>1. CASE Cancelled
    BY <1>1, <1>3, <2>1
  <2>2. ASSUME NEW c \in Clients, CancelWrite(c)  PROVE bstat' \in {"cancelled", "gone"}
    BY <2>2 DEF CancelWrite, SetBlast
  <2>3. CASE ~Cancelled
    <3>1. ~stopped /\ \A c \in Clients : ~At(c, "cancel_recipients")
      BY <2>3 DEF Cancelled
    <3>2. stopped' => FALSE
      BY <3>1, CancelStays DEF CancelRecipients
    <3>3. PICK c \in Clients : At(c, "cancel_recipients")'
      BY <1>6, <3>2 DEF Cancelled
    <3>4. CancelWrite(c)
      BY <3>1, <3>3, RequestBy DEF At
    <3>. QED
      BY <2>2, <3>4
  <2>. QED
    BY <2>1, <2>3
<1>. QED
  BY <1>1, <1>2, <1>3, <1>4, <1>5, <1>6 DEF AtStep

(* A finished blast was finished before, or a job writes it so. *)
LEMMA FinishedBy ==
  ASSUME [Next]_vars, Finished'
  PROVE  Finished \/ \E w \in Workers : FinalWrite(w)
BY BlastBy DEF Finished, Terminal

LEMMA ChainNext ==
  VariablesOK /\ MadeOnce /\ RetryInv /\ EarlyInv /\ ChainInv /\ [Next]_vars => ChainInv'
<1>. SUFFICES ASSUME VariablesOK, MadeOnce, RetryInv, EarlyInv, ChainInv, [Next]_vars,
                     NoRetry, "resume" \notin scenario.ops
              PROVE  /\ \A c \in Clients : api'[c].step \notin {"resume_requeue", "resume_write"}
                     /\ jobs' \in {0, 1}
                     /\ \A v, w \in Workers : ~AtStep(v, "idle")' /\ ~AtStep(w, "idle")' => v = w
                     /\ jobs' # 0 => \A w \in Workers : AtStep(w, "idle")'
                     /\ Finished' => jobs' = 0 /\ \A w \in Workers : Leaving(w)'
  BY ScenarioStays DEF ChainInv, NoRetry
<1>1. /\ \A c \in Clients : api[c].step \notin {"resume_requeue", "resume_write", "retry_write"}
      /\ jobs \in {0, 1}
      /\ \A v, w \in Workers : ~AtStep(v, "idle") /\ ~AtStep(w, "idle") => v = w
      /\ jobs # 0 => \A w \in Workers : AtStep(w, "idle")
      /\ Finished => jobs = 0 /\ \A w \in Workers : Leaving(w)
  BY DEF ChainInv, RetryInv
<1>2. ASSUME NEW c \in Clients, CreateRows(c)
      PROVE  /\ jobs = 0 /\ \A w \in Workers : AtStep(w, "idle")
             /\ wk' = wk /\ bstat \in {"none", "queued", "cancelled", "gone"}
  BY <1>2, CreateEnds DEF EarlyInv
<1>3. \A c \in Clients : api'[c].step \notin {"resume_requeue", "resume_write"}
  BY <1>1, RequestBy DEF At
<1>4. ASSUME NEW w \in Workers, OpenCount(w)
      PROVE  jobs = 0 /\ \A v \in Workers : v # w => AtStep(v, "idle")
  BY <1>1, <1>4 DEF OpenCount, AtStep
<1>5. jobs' \in {0, 1}
  BY <1>1, <1>2, <1>4, JobsBy DEF At
<1>6. ASSUME NEW v \in Workers, wk'[v] # wk[v]
      PROVE  \/ ~AtStep(v, "idle")
             \/ StartJob(v) /\ jobs' = 0 /\ \A w \in Workers : AtStep(w, "idle")
  <2>1. WorkerStep(v)
    BY <1>6, JobBy
  <2>2. StartJob(v) => jobs' = 0 /\ \A w \in Workers : AtStep(w, "idle")
    BY <1>1 DEF StartJob
  <2>. QED
    BY <2>1, <2>2, StepBy
<1>7. ASSUME NEW v \in Workers, NEW w \in Workers, ~AtStep(v, "idle")', ~AtStep(w, "idle")', v # w
      PROVE  FALSE
  <2>1. CASE wk'[v] = wk[v] /\ wk'[w] = wk[w]
    BY <1>1, <1>7, <2>1 DEF AtStep
  <2>2. ASSUME NEW x \in Workers, NEW y \in Workers, x # y, wk'[x] # wk[x], ~AtStep(y, "idle")'
        PROVE  wk'[y] = wk[y] /\ ~AtStep(x, "idle")
    <3>1. wk'[y] = wk[y]
      BY <2>2, JobBy
    <3>. QED
      BY <1>6, <2>2, <3>1 DEF AtStep
  <2>3. CASE wk'[v] # wk[v]
    BY <1>1, <1>7, <2>2, <2>3 DEF AtStep
  <2>4. CASE wk'[w] # wk[w]
    BY <1>1, <1>7, <2>2, <2>4 DEF AtStep
  <2>. QED
    BY <2>1, <2>3, <2>4
<1>8. ASSUME jobs' # 0, NEW v \in Workers  PROVE AtStep(v, "idle")'
  <2>1. CASE jobs # 0
    BY <1>1, <1>6, <1>8, <2>1 DEF AtStep
  <2>2. CASE jobs = 0
    <3>1. ASSUME NEW w \in Workers, OpenCount(w), Return(w)  PROVE AtStep(v, "idle")'
      BY <1>4, <3>1 DEF Return, Idle, AtStep, VariablesOK
    <3>2. ASSUME NEW c \in Clients, CreateRows(c)  PROVE AtStep(v, "idle")'
      BY <1>2, <3>2 DEF AtStep
    <3>. QED
      BY <1>1, <1>8, <2>2, <3>1, <3>2, JobsBy DEF At
  <2>. QED
    BY <2>1, <2>2
<1>9. ASSUME Finished'  PROVE jobs' = 0 /\ \A w \in Workers : Leaving(w)'
  <2>1. CASE Finished
    <3>1. \A w \in Workers : ~OpenCount(w)
      BY <1>1, <2>1 DEF Leaving, Counting, AtStep, OpenCount
    <3>2. \A c \in Clients : ~CreateRows(c)
      BY <1>2, <2>1 DEF Finished, Terminal
    <3>3. jobs' = 0
      BY <1>1, <2>1, <3>1, <3>2, JobsBy DEF At
    <3>4. ASSUME NEW w \in Workers  PROVE Leaving(w)'
      <4>1. ~StartJob(w)
        BY <1>1, <2>1 DEF StartJob
      <4>. QED
        BY <1>1, <2>1, <4>1, JobBy, StepBy DEF Leaving, Counting, AtStep
    <3>. QED
      BY <3>3, <3>4
  <2>2. ASSUME NEW w \in Workers, FinalWrite(w)
        PROVE  jobs' = 0 /\ \A v \in Workers : Leaving(v)'
    <3>1. WorkerStep(w) /\ AtStep(w, "final_write") /\ jobs' = jobs
      BY <2>2 DEF WorkerStep, JobStep, FinalWrite
    <3>2. jobs = 0 /\ \A v \in Workers : v # w => AtStep(v, "idle")
      BY <1>1, <3>1 DEF AtStep
    <3>3. Leaving(w)' /\ \A v \in Workers : v # w => wk'[v] = wk[v]
      BY <3>1, StepBy, OneWorker
    <3>. QED
      BY <3>1, <3>2, <3>3 DEF Leaving, AtStep
  <2>. QED
    BY <1>9, <2>1, <2>2, FinishedBy
<1>. QED
  BY <1>3, <1>5, <1>7, <1>8, <1>9

LEMMA OverBy ==
  ASSUME VariablesOK, [Next]_vars, Over'
  PROVE  \/ Over
         \/ \A r \in Recipients : rstat'[r] \notin Open
<1>1. CASE Finished'
  BY <1>1, FinishedBy DEF Over, FinalWrite, Finishing
<1>2. ASSUME NEW w \in Workers, Finishing(w)', ~Finishing(w)
      PROVE  \A r \in Recipients : rstat'[r] \notin Open
  <2>1. WorkerStep(w)
    BY <1>2, JobBy DEF Finishing, Counting, AtStep
  <2>2. OpenCount(w) /\ Number(Open) = 0
    BY <1>2, <2>1, StepBy
  <2>. QED
    BY <2>2, NoneOpen DEF OpenCount, dbVars
<1>. QED
  BY <1>1, <1>2 DEF Over

LEMMA ServedNext ==
  BlastInv /\ EndInv /\ [Next]_vars => ServedInv'
<1>. SUFFICES ASSUME BlastInv, EndInv, [Next]_vars, NoRetry, Over',
                     NEW r \in Recipients, rstat'[r] \in Open
              PROVE  Disturbed(r)'
  BY ScenarioStays DEF ServedInv, NoRetry, BlastInv
<1>1. /\ VariablesOK /\ HasRecipient /\ MadeOnce /\ RecipientInv(r)
      /\ EarlyInv /\ RetryInv /\ CancelInv /\ ServedInv /\ ChainInv
      /\ \A w \in Workers : PutsBack(w)
  BY DEF BlastInv, EndInv
<1>2. Over
  BY <1>1, OverBy
<1>3. CASE rstat[r] \in Open
  BY <1>1, <1>2, <1>3, DisturbedStays DEF ServedInv
<1>4. ASSUME NEW c \in Clients, CreateRows(c) \/ At(c, "retry_recipients")
      PROVE  FALSE
  <2>1. CreateRows(c)
    BY <1>1, <1>4 DEF RetryInv, At
  <2>2. /\ bstat \in {"none", "queued", "cancelled", "gone"}
        /\ \A w \in Workers : AtStep(w, "idle")
    BY <1>1, <2>1, CreateEnds DEF EarlyInv
  <2>. QED
    BY <1>2, <2>2 DEF Over, Finished, Terminal, Finishing, Counting, AtStep
<1>5. ASSUME NEW w \in Workers, wk[w].r = r, rstat[r] # "none", rstat[r] \notin Open,
             PuttingBack(w)
      PROVE  Disturbed(r)
  <2>1. "resume" \in scenario.ops
    <3>1. ASSUME "resume" \notin scenario.ops  PROVE FALSE
      <4>1. \A v \in Workers : ~AtStep(v, "idle") => v = w
        BY <1>1, <1>5, <3>1 DEF ChainInv, PuttingBack, AtStep
      <4>2. ~Finished
        BY <1>1, <1>5, <3>1 DEF ChainInv, PuttingBack, Leaving, Counting, AtStep
      <4>. QED
        BY <1>2, <1>5, <4>1, <4>2 DEF Over, PuttingBack, Finishing, Counting, AtStep
    <3>. QED
      BY <3>1
  <2>2. Holding(w, r) # "none"
    BY <1>5 DEF Holding, HandSteps, PuttingBack, AtStep
  <2>3. CASE lost[r] > 0 /\ sid[r]
    BY <2>1, <2>3 DEF Disturbed
  <2>4. CASE ~(lost[r] > 0 /\ sid[r])
    <3>1. lost[r] \in Nat
      BY <1>1 DEF VariablesOK
    <3>2. rstat[r] = "cancelled"
      BY <1>1, <1>5, <2>2, <2>4, <3>1 DEF RecipientInv, Alone, Open
    <3>3. Cancelled /\ (lost[r] > 0 \/ ~PutsNothingBack)
      BY <1>1, <1>5, <3>2 DEF CancelInv, PutsBack, PuttingBack
    <3>. QED
      BY <2>1, <3>3 DEF Disturbed
  <2>. QED
    BY <2>3, <2>4
<1>6. \/ rstat[r] \in Open
      \/ \E c \in Clients : CreateRows(c) \/ At(c, "retry_recipients")
      \/ \E w \in Workers :
           wk[w].r = r /\ rstat[r] # "none" /\ PuttingBack(w)
  BY <1>1, RowBy
<1>7. rstat[r] \notin Open => Disturbed(r)
  BY <1>4, <1>5, <1>6
<1>8. Disturbed(r) => Disturbed(r)'
  BY <1>1, DisturbedStays
<1>. QED
  BY <1>3, <1>7, <1>8

LEMMA TooLateNext ==
  VariablesOK /\ RetryInv /\ TooLate /\ NoRetry /\ [Next]_vars => TooLate'
<1>. SUFFICES ASSUME VariablesOK, RetryInv, TooLate, NoRetry, [Next]_vars  PROVE TooLate'
  OBVIOUS
<1>1. bstat' \in {"cancelled", "gone"}
  BY BlastBy DEF TooLate, RetryInv, MarkSending, FinalWrite, At, Restarts, Leaving, Counting, AtStep
<1>2. ASSUME NEW c \in Clients  PROVE api'[c].step \notin Restarts
  BY RequestBy DEF TooLate, Restarts, At
<1>3. ASSUME NEW w \in Workers  PROVE Leaving(w)' \/ AtStep(w, "cancel_open")'
  <2>1. CASE wk'[w] = wk[w]
    BY <2>1 DEF TooLate, Leaving, Counting, AtStep
  <2>2. CASE StartJob(w)
    BY <2>2 DEF TooLate, StartJob, Goto, VariablesOK, JobType, Leaving, AtStep
  <2>3. CASE wk'[w] # wk[w] /\ ~StartJob(w)
    BY <2>3, JobBy, StepBy DEF TooLate, Leaving, Counting, AtStep
  <2>. QED
    BY <2>1, <2>2, <2>3
<1>. QED
  BY <1>1, <1>2, <1>3 DEF TooLate

LEMMA StoppedNext ==
  BlastInv /\ EndInv /\ [Next]_vars => StoppedInv'
<1>. SUFFICES ASSUME BlastInv, EndInv, [Next]_vars, NoRetry, PutsNothingBack, stopped'
              PROVE  TooLate' \/ \A r \in Recipients : rstat'[r] \in Open => lost'[r] > 0
  BY ScenarioStays DEF StoppedInv, PutsNothingBack, NoRetry, BlastInv
<1>2. /\ VariablesOK /\ MadeOnce /\ EarlyInv /\ RetryInv /\ StoppedInv
      /\ \A w \in Workers : PutsBack(w)
  BY DEF BlastInv, EndInv
<1>3. ASSUME NEW c \in Clients, CancelRecipients(c), NEW r \in Recipients
      PROVE  rstat'[r] \notin Open
  BY <1>2, <1>3 DEF CancelRecipients, MoveAll, VariablesOK, Open
<1>4. ASSUME stopped, NEW c \in Clients, CreateRows(c)
      PROVE  TooLate'
  <2>1. /\ \A w \in Workers : AtStep(w, "idle")
        /\ \A d \in Clients : api[d].step \notin Restarts
        /\ bstat \in {"cancelled", "gone"}
    BY <1>2, <1>4, CreateEnds DEF EarlyInv, Cancelled
  <2>2. TooLate
    BY <2>1 DEF TooLate, Leaving
  <2>. QED
    BY <1>2, <2>2, TooLateNext
<1>5. CASE stopped /\ TooLate
  BY <1>2, <1>5, TooLateNext
<1>6. ASSUME stopped, ~TooLate, NEW r \in Recipients, rstat'[r] \in Open,
             \A c \in Clients : ~CreateRows(c)
      PROVE  lost'[r] > 0
  <2>1. CASE rstat[r] \in Open
    BY <1>2, <1>6, <2>1, LossesStay DEF StoppedInv
  <2>2. ASSUME NEW w \in Workers, wk[w].r = r, PuttingBack(w)
        PROVE  lost'[r] > 0
    BY <1>2, <2>2, LossesStay DEF PutsBack, PuttingBack
  <2>3. \A c \in Clients : ~At(c, "retry_recipients")
    BY <1>2 DEF RetryInv, At
  <2>4. \/ rstat[r] \in Open
        \/ \E w \in Workers : wk[w].r = r /\ PuttingBack(w)
    BY <1>2, <1>6, <2>3, RowBy
  <2>. QED
    BY <2>1, <2>2, <2>4
<1>. QED
  BY <1>2, <1>3, <1>4, <1>5, <1>6, CancelStays

LEMMA EndNext == BlastInv /\ EndInv /\ [Next]_vars => EndInv'
<1>. SUFFICES ASSUME BlastInv, EndInv, [Next]_vars  PROVE EndInv'
  OBVIOUS
<1>1. /\ VariablesOK /\ HasRecipient /\ MadeOnce
      /\ EarlyInv /\ RetryInv /\ CancelInv /\ ChainInv
      /\ \A w \in Workers : PutsBack(w)
  BY DEF BlastInv, EndInv
<1>2. HasRecipient'
  BY InvStep DEF BlastInv
<1>. QED
  BY <1>1, <1>2, EarlyNext, RetryNext, CancelNext, PutsBackNext, ServedNext, ChainNext, StoppedNext
  DEF EndInv

LEMMA EndInit == Init => EndInv
<1>. SUFFICES ASSUME Init  PROVE EndInv
  OBVIOUS
<1>1. \A w \in Workers : wk[w].step = "idle"
  BY DEF Init, Idle
<1>2. /\ \A c \in Clients : api[c].step = "idle" /\ api[c].paused = FALSE
      /\ bstat = "none" /\ jobs = 0 /\ stopped = FALSE
      /\ \A r \in Recipients : rstat[r] = "none"
  BY DEF Init
<1>3. ~Cancelled /\ ~Over /\ ~Finished
  BY <1>1, <1>2 DEF Cancelled, At, Over, Finished, Finishing, Counting, AtStep, Terminal
<1>4. EarlyInv /\ RetryInv /\ CancelInv
  BY <1>1, <1>2, <1>3 DEF EarlyInv, RetryInv, CancelInv, AtStep, Restarts
<1>5. ServedInv /\ ChainInv /\ StoppedInv /\ \A w \in Workers : PutsBack(w)
  BY <1>1, <1>2, <1>3 DEF ServedInv, ChainInv, StoppedInv, PutsBack, AtStep
<1>. QED
  BY <1>4, <1>5 DEF EndInv

LEMMA EndHolds == Spec => [](BlastInv /\ EndInv)
  BY InvInit, InvStep, EndInit, EndNext, PTL DEF Spec

(* A blast that shows as finished has nobody left to serve: whoever counts *)
(* no recipient left is the last that could open one again, through pause, *)
(* resume, cancel and crashes, except for what Disturbed says.             *)
THEOREM FinishedIsServed == Spec => []FinishedMeansServed
<1>1. EndInv => FinishedMeansServed
  BY DEF EndInv, ServedInv, FinishedMeansServed, Over, Finished, NoRetry
<1>. QED
  BY <1>1, EndHolds, PTL

(* After a cancel nothing is taken up again, although a job may write      *)
(* "sending" over "cancelled": no recipient is open any more, or the rows  *)
(* came after the cancel and the first job sees it.                        *)
THEOREM CancelHolds == Spec => NoneTakenUpAfterCancel
<1>1. BlastInv /\ EndInv /\ [Next]_vars =>
        [stopped /\ PutsNothingBack /\ "retry" \notin scenario.ops
           => \A w \in Workers : AtStep(w, "win") /\ lost[wk[w].r] = 0
                                  => wk'[w].step # "attempt"]_vars
  <2>. SUFFICES ASSUME BlastInv, EndInv, [Next]_vars, stopped, PutsNothingBack, NoRetry,
                       NEW w \in Workers, AtStep(w, "win"), lost[wk[w].r] = 0
                PROVE  wk'[w].step # "attempt"
    BY DEF NoRetry
  <2>1. /\ VariablesOK /\ StoppedInv /\ wk[w].r \in Recipients
    BY DEF BlastInv, EndInv, HasRecipient, AtStep
  <2>2. ~TooLate
    BY DEF TooLate, Leaving, Counting, AtStep
  <2>3. rstat[wk[w].r] \notin {"pending", "retrying"}
    BY <2>1, <2>2 DEF StoppedInv, Open
  <2>4. CASE wk'[w] = wk[w]
    BY <2>4 DEF AtStep
  <2>5. CASE Win(w)
    <3>1. wk' = [wk EXCEPT ![w] = [Idle EXCEPT !.step = "loop", !.batch = wk[w].batch]]
      BY <2>3, <2>5 DEF Win, Proceed
    <3>2. w \in DOMAIN wk
      BY <2>1 DEF VariablesOK
    <3>. QED
      BY <3>1, <3>2 DEF Idle
  <2>6. CASE Crash(w)
    BY <2>1, <2>6 DEF Crash, Return, Idle, VariablesOK
  <2>7. CASE WorkerStep(w) /\ ~Win(w) /\ ~Crash(w)
    BY <2>7 DEF WorkerStep, StartJob, JobStep, MarkSending, Pick, OpenCount, Loop, CancelOpen,
       MetaSent, Attempt, Mark, PutBack, AccountPause, Except, Recount, RecountWrite, FinalCheck,
       FinalWrite, Fault, AtStep
  <2>. QED
    BY <2>1, <2>4, <2>5, <2>6, <2>7, JobBy
<1>. QED
  BY <1>1, EndHolds, PTL DEF Spec, NoneTakenUpAfterCancel

=============================================================================
