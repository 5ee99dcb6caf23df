-------------------------------- MODULE AiUsage --------------------------------
(***************************************************************************)
(* What a tenant may spend on the AI: the token quota                      *)
(* (app/services/ai_quota.py) and the plan's number of conversations       *)
(* (app/services/entitlements.py), asked before and counted after calls    *)
(* with retries and a fallback model (app/services/ai_provider.py).        *)
(***************************************************************************)
EXTENDS Integers, FiniteSets

CONSTANTS
  AiWorkers,   \* processes that call the AI
  Chats,       \* leads the AI answers
  UsageCases   \* what may happen: see UsageCaseTypes

(* What the provider answers: a text; one cut off at its length, or none,  *)
(* which are billed too; an error that is tried again, one that only       *)
(* another model may help, one that nothing helps.                         *)
Replies == {"text", "length", "empty", "timeout", "unknown", "invalid_request"}

(* AI_DAILY_TOKEN_LIMIT_PER_TENANT, an answer taking one token; the plan's *)
(* ai_conversations_month; models configured; OPENAI_MAX_RETRIES; and as   *)
(* bounds: calls, days and months that end, times Redis goes down.         *)
UsageCaseTypes ==
  [tokens : Nat, conversations : Int, models : 1..2, retries : Nat, replies : SUBSET Replies,
   chats : SUBSET Chats, acts : Nat, days : Nat, months : Nat, outages : Nat]

ASSUME UsageCasesAssumption == UsageCases \subseteq UsageCaseTypes
ASSUME AiWorkersAssumption == IsFiniteSet(AiWorkers)

VARIABLES
  spent,     \* Redis: the day's tokens
  counted,   \* Redis: the month's conversations
  redis,     \* Redis answers
  uses,      \* the workers: next step, lead, model, attempt, step after a
             \*   record, and as history the calls made for one completion
  blind,     \* history: Redis was down
  ucase      \* what may happen, and what is left of its bounds

usageVars == <<spent, counted, redis, uses, blind, ucase>>

NoOne == "none"
ASSUME ChatsAssumption == NoOne \notin Chats

Unused == [step |-> "idle", chat |-> NoOne, model |-> 1, attempt |-> 0, then |-> "idle",
           calls |-> 0]

UsageInit ==
  /\ ucase \in UsageCases /\ spent = 0 /\ counted = {} /\ redis = TRUE /\ blind = FALSE
  /\ uses = [w \in AiWorkers |-> Unused]

StepIs(w, step) == uses[w].step = step
StepTo(w, step) == uses' = [uses EXCEPT ![w] = IF step = "idle" THEN Unused
                                               ELSE [@ EXCEPT !.step = step]]

-----------------------------------------------------------------------------
(* A reply asks first; a classification or a rewriting only calls. *)
AskAi(w, chat) ==
  /\ StepIs(w, "idle") /\ ucase.acts > 0 /\ ucase' = [ucase EXCEPT !.acts = @ - 1]
  /\ chat \in ucase.chats \cup {NoOne}
  /\ uses' = [uses EXCEPT ![w] = [Unused EXCEPT !.chat = chat,
                                    !.step = IF chat = NoOne THEN "completion" ELSE "quota"]]
  /\ UNCHANGED <<spent, counted, redis, blind>>

(* Mutant: the limit itself is still allowed. *)
QuotaUpTo == ~redis \/ ucase.tokens = 0 \/ spent <= ucase.tokens

(* Without a limit, and without Redis, everything is allowed.  Of the      *)
(* limits the daily one on tokens stands for all: those on requests per    *)
(* minute and on the month's cost may refuse a call besides.               *)
check_quota == ~redis \/ ucase.tokens = 0 \/ spent < ucase.tokens

(* A lead that was answered this month goes on being answered. *)
ai_conversation_allowed(chat) ==
  \/ ucase.conversations < 0
  \/ /\ ucase.conversations > 0
     /\ ~redis \/ chat \in counted \/ Cardinality(counted) < ucase.conversations

AskQuota(w) ==
  /\ StepIs(w, "quota") /\ StepTo(w, IF check_quota THEN "plan" ELSE "idle")
  /\ UNCHANGED <<spent, counted, redis, blind, ucase>>

AskPlan(w) ==
  /\ StepIs(w, "plan")
  /\ StepTo(w, IF ai_conversation_allowed(uses[w].chat) THEN "count" ELSE "idle")
  /\ UNCHANGED <<spent, counted, redis, blind, ucase>>

record_ai_conversation(w) ==
  /\ StepIs(w, "count") /\ StepTo(w, "completion")
  /\ counted' = IF redis THEN counted \cup {uses[w].chat} ELSE counted
  /\ UNCHANGED <<spent, redis, blind, ucase>>

chat_completion(w) ==
  /\ StepIs(w, "completion") /\ StepTo(w, IF check_quota THEN "call" ELSE "idle")
  /\ UNCHANGED <<spent, counted, redis, blind, ucase>>

_should_retry(category)    == category = "timeout"
_should_fallback(category) == category \in {"timeout", "unknown"}

(* Another attempt with this model, or the next model, or the end. *)
AfterError(u, category) ==
  IF _should_retry(category) /\ u.attempt < ucase.retries THEN [u EXCEPT !.attempt = @ + 1]
  ELSE IF _should_fallback(category) /\ u.model < ucase.models
       THEN [u EXCEPT !.model = @ + 1, !.attempt = 0]
  ELSE Unused

(* A text, and what was cut off, is counted; what was cut off is asked for *)
(* once more; an empty answer is not counted, and is the end.              *)
CallModel(w) ==
  /\ StepIs(w, "call")
  /\ \E r \in ucase.replies :
       LET u == [uses[w] EXCEPT !.calls = @ + 1] IN
       uses' = [uses EXCEPT ![w] =
         CASE r = "text"   -> [u EXCEPT !.step = "record"]
           [] r = "length" -> [u EXCEPT !.step = "record", !.then = "longer"]
           [] r = "empty"  -> Unused
           [] OTHER        -> AfterError(u, r)]
  /\ UNCHANGED <<spent, counted, redis, blind, ucase>>

CallLonger(w) ==
  /\ StepIs(w, "longer")
  /\ \E r \in ucase.replies :
       uses' = [uses EXCEPT ![w] =
         IF r = "text"
         THEN [uses[w] EXCEPT !.step = "record", !.then = "idle", !.calls = @ + 1]
         ELSE Unused]
  /\ UNCHANGED <<spent, counted, redis, blind, ucase>>

(* In the day that it is by now. *)
record_quota_usage(w) ==
  /\ StepIs(w, "record") /\ StepTo(w, uses[w].then)
  /\ spent' = IF redis THEN spent + 1 ELSE spent
  /\ UNCHANGED <<counted, redis, blind, ucase>>

(* A worker that dies leaves what it counted, and what it did not. *)
UserDies(w) ==
  /\ ~StepIs(w, "idle") /\ StepTo(w, "idle") /\ ucase.outages > 0
  /\ ucase' = [ucase EXCEPT !.outages = @ - 1]
  /\ UNCHANGED <<spent, counted, redis, blind>>

-----------------------------------------------------------------------------
(* The keys carry the day and the month. *)
DayEnds ==
  /\ ucase.days > 0 /\ ucase' = [ucase EXCEPT !.days = @ - 1] /\ spent' = 0
  /\ UNCHANGED <<counted, redis, uses, blind>>

MonthEnds ==
  /\ ucase.months > 0 /\ ucase' = [ucase EXCEPT !.months = @ - 1]
  /\ spent' = 0 /\ counted' = {}
  /\ UNCHANGED <<redis, uses, blind>>

RedisFails ==
  /\ redis /\ ucase.outages > 0 /\ ucase' = [ucase EXCEPT !.outages = @ - 1]
  /\ redis' = FALSE /\ blind' = TRUE
  /\ UNCHANGED <<spent, counted, uses>>

RedisReturns == ~redis /\ redis' = TRUE /\ UNCHANGED <<spent, counted, uses, blind, ucase>>

UsageNext ==
  \/ DayEnds \/ MonthEnds \/ RedisFails \/ RedisReturns
  \/ \E w \in AiWorkers :
       \/ \E chat \in Chats \cup {NoOne} : AskAi(w, chat)
       \/ AskQuota(w) \/ AskPlan(w) \/ record_ai_conversation(w) \/ chat_completion(w)
       \/ CallModel(w) \/ CallLonger(w) \/ record_quota_usage(w) \/ UserDies(w)

-----------------------------------------------------------------------------
(* Properties *)

UsageTypeOK ==
  /\ spent \in Nat /\ counted \subseteq Chats /\ redis \in BOOLEAN /\ blind \in BOOLEAN
  /\ uses \in [AiWorkers -> [step : {"idle", "quota", "plan", "count", "completion", "call",
                                     "longer", "record"},
                             chat : Chats \cup {NoOne}, model : 1..2, attempt : Nat,
                             then : {"idle", "longer"}, calls : Nat]]
  /\ ucase \in UsageCaseTypes

(* However many ask before the others have counted, and whenever the day   *)
(* and the month end, a day's tokens pass their limit by no more than two  *)
(* answers of each process, and a month's conversations theirs by one of   *)
(* each but the first.                                                     *)
Calling == Cardinality(AiWorkers)

SpendsWithinLimits == ~blind =>
  /\ ucase.tokens > 0 => spent <= ucase.tokens - 1 + 2 * Calling
  /\ ucase.conversations > 0 => Cardinality(counted) <= ucase.conversations - 1 + Calling
  /\ ucase.conversations = 0 => counted = {}

(* One completion never costs more calls than both models' attempts, and   *)
(* one for a longer answer.                                                *)
CallsBounded == \A w \in AiWorkers : uses[w].calls <= ucase.models * (ucase.retries + 1) + 1
=============================================================================
