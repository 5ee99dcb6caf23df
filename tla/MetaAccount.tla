------------------------------ MODULE MetaAccount ------------------------------
(***************************************************************************)
(* A tenant's own WhatsApp number at Meta: Embedded Signup and its         *)
(* sessions (app/services/meta_onboarding.py), the credentials             *)
(* (app/services/meta_credentials.py), changes of the number in the        *)
(* settings (app/services/whatsapp_settings.py), and what a send makes of  *)
(* them (app/services/meta_whatsapp_service.py).                           *)
(***************************************************************************)
EXTENDS Integers, Sequences, FiniteSets

CONSTANTS
  Tenants,    \* accounts
  Numbers,    \* Meta phone number ids
  Sessions,   \* onboarding sessions ("state")
  Requests,   \* requests to complete an onboarding
  MetaCases   \* what may happen: see MetaCaseTypes

None == "none"

ASSUME MetaNumbersAssumption == None \notin Numbers
ASSUME MetaTenantsAssumption == IsFiniteSet(Tenants)

(* Who is connected at first, and to which number; whose session is which; *)
(* each request's tenant, session and number; what may go wrong at Meta or *)
(* in the database, and a request that outlives the 90 s of its lock; and  *)
(* as bounds: tokens that are revoked or expire, sends, disconnects and    *)
(* changes of the number, requests that die.                               *)
MetaCaseTypes ==
  [linked : [Tenants -> Numbers \cup {None}], owner : [Sessions -> Tenants],
   asks : [Requests -> [t : Tenants, s : Sessions, n : Numbers]],
   running : SUBSET Requests, meta_fails : BOOLEAN, db_fails : Nat, slow : BOOLEAN,
   revokes : Nat, sends : Nat, disconnects : Nat, patches : Nat, crashes : Nat]

ASSUME MetaCasesAssumption == MetaCases \subseteq MetaCaseTypes

VARIABLES
  acct,      \* the users' documents: connection status and number
  cred,      \* db.meta_credentials: the token and the number it is bound to
  session,   \* Redis: the sessions
  inflight,  \* Redis: sessions with an onboarding in progress
  rq,        \* the requests: next step, account and credential as read, token
  dc,        \* the disconnects: next step, number as read
  job,       \* a send of each tenant: next step, account as read, token
  issued,    \* external: for each token of Meta's its tenant and number
  revoked,   \* external: tokens Meta no longer takes
  expired,   \* tokens past their expires_at
  posted,    \* history: <<tenant, number, token>> of the messages posted
  binds,     \* history: how often each session has connected a number
  overtaken, \* history: sessions whose lock ended under a request, whose
             \*   request died or could not mark them as consumed
  crossed,   \* history: tenants of whom two changes overlapped, one died, met
             \*   SubscribeFails or gave a number by hand
  mcase      \* what may happen, and what is left of its bounds

metaVars == <<acct, cred, session, inflight, rq, dc, job, issued, revoked,
              expired, posted, binds, overtaken, crossed, mcase>>

NoCred == [token |-> 0, bound |-> None]
NoReq  == [step |-> "idle", read |-> None, old |-> NoCred, token |-> 0]
NoSend == [step |-> "idle", read |-> [status |-> "none", pnid |-> None], token |-> 0]
Idle   == [step |-> "idle", read |-> None]

Linked == {t \in Tenants : mcase.linked[t] # None}

MetaInit ==
  /\ mcase \in MetaCases
  /\ \E token \in [Linked -> 1..Cardinality(Linked)] :
       /\ \A t, u \in Linked : t # u => token[t] # token[u]
       /\ issued = [k \in 1..Cardinality(Linked) |->
            LET t == CHOOSE u \in Linked : token[u] = k IN <<t, mcase.linked[t]>>]
       /\ cred = [t \in Tenants |-> IF t \in Linked
            THEN [token |-> token[t], bound |-> mcase.linked[t]] ELSE NoCred]
  /\ acct = [t \in Tenants |-> [status |-> IF t \in Linked THEN "connected" ELSE "none",
                                pnid |-> mcase.linked[t]]]
  /\ session = [s \in Sessions |-> "none"] /\ inflight = {}
  /\ rq = [q \in Requests |-> NoReq] /\ dc = [t \in Tenants |-> Idle]
  /\ job = [t \in Tenants |-> NoSend] /\ revoked = {} /\ expired = {} /\ posted = {}
  /\ binds = [s \in Sessions |-> 0] /\ overtaken = {} /\ crossed = {}

Limit(what) == mcase[what] > 0 /\ mcase' = [mcase EXCEPT ![what] = @ - 1]

-----------------------------------------------------------------------------
(* Onboarding *)

sendSide   == <<job, revoked, expired, posted>>
Ask(q)     == mcase.asks[q]
Is(q, step) == rq[q].step = step
Go(q, step) == rq' = [rq EXCEPT ![q].step = step]
Working(q) == rq[q].step \notin {"idle", "done"}
Changing(t) == dc[t].step \notin {"idle", "done"} \/ \E q \in Requests : Working(q) /\ Ask(q).t = t
Crosses(t) == crossed' = IF Changing(t) THEN crossed \cup {t} ELSE crossed
Taken(n, t) == \E u \in Tenants \ {t} : acct[u].pnid = n

start_onboarding_session(s) ==
  /\ session[s] = "none" /\ session' = [session EXCEPT ![s] = "open"]
  /\ UNCHANGED <<acct, cred, inflight, rq, dc, issued, sendSide, binds, overtaken, crossed, mcase>>

SessionExpires(s) ==
  /\ session[s] = "open" /\ mcase.slow /\ session' = [session EXCEPT ![s] = "expired"]
  /\ UNCHANGED <<acct, cred, inflight, rq, dc, issued, sendSide, binds, overtaken, crossed, mcase>>

complete_onboarding(q) ==
  /\ q \in mcase.running /\ Is(q, "idle") /\ session[Ask(q).s] # "none"
  /\ Go(q, "session") /\ Crosses(Ask(q).t)
  /\ UNCHANGED <<acct, cred, session, inflight, dc, issued, sendSide, binds, overtaken, mcase>>

assert_session_for_user(q) ==
  /\ Is(q, "session")
  /\ Go(q, IF session[Ask(q).s] = "open" /\ mcase.owner[Ask(q).s] = Ask(q).t THEN "lock" ELSE "done")
  /\ UNCHANGED <<acct, cred, session, inflight, dc, issued, sendSide, binds, overtaken, crossed, mcase>>

_acquire_inflight(q) ==
  /\ Is(q, "lock") /\ Go(q, IF Ask(q).s \in inflight THEN "done" ELSE "exchange")
  /\ inflight' = inflight \cup {Ask(q).s}
  /\ UNCHANGED <<acct, cred, session, dc, issued, sendSide, binds, overtaken, crossed, mcase>>

(* The code gives a token, the token is shown to have the number. *)
exchange_authorization_code(q) ==
  /\ Is(q, "exchange")
  /\ \/ /\ issued' = Append(issued, <<Ask(q).t, Ask(q).n>>)
        /\ rq' = [rq EXCEPT ![q].step = "available", ![q].token = Len(issued')]
     \/ mcase.meta_fails /\ Go(q, "fail") /\ UNCHANGED issued
  /\ UNCHANGED <<acct, cred, session, inflight, dc, sendSide, binds, overtaken, crossed, mcase>>

_assert_pnid_available(q) ==
  /\ Is(q, "available") /\ Go(q, IF Taken(Ask(q).n, Ask(q).t) THEN "fail" ELSE "snapshot")
  /\ UNCHANGED <<acct, cred, session, inflight, dc, issued, sendSide, binds, overtaken, crossed, mcase>>

snapshot_credentials_row(q) ==
  /\ Is(q, "snapshot") /\ rq' = [rq EXCEPT ![q].step = "upsert", ![q].old = cred[Ask(q).t]]
  /\ UNCHANGED <<acct, cred, session, inflight, dc, issued, sendSide, binds, overtaken, crossed, mcase>>

upsert_encrypted_access_token(q) ==
  /\ Is(q, "upsert") /\ Go(q, "bind")
  /\ cred' = [cred EXCEPT ![Ask(q).t] = [token |-> rq[q].token, bound |-> Ask(q).n]]
  /\ UNCHANGED <<acct, session, inflight, dc, issued, sendSide, binds, overtaken, crossed, mcase>>

(* Subscription and registration may be incomplete: "error".  The unique   *)
(* index on the number is what decides between two tenants.                *)
BindUser(q) ==
  /\ Is(q, "bind")
  /\ IF Taken(Ask(q).n, Ask(q).t) THEN Go(q, "restore") /\ UNCHANGED <<acct, binds>>
     ELSE /\ Go(q, "consume") /\ binds' = [binds EXCEPT ![Ask(q).s] = @ + 1]
          /\ \E status \in {"connected"} \cup (IF mcase.meta_fails THEN {"error"} ELSE {}) :
               acct' = [acct EXCEPT ![Ask(q).t] = [status |-> status, pnid |-> Ask(q).n]]
  /\ UNCHANGED <<cred, session, inflight, dc, issued, sendSide, overtaken, crossed, mcase>>

BindFault(q) ==
  /\ Is(q, "bind") /\ Limit("db_fails") /\ Go(q, "restore")
  /\ UNCHANGED <<acct, cred, session, inflight, dc, issued, sendSide, binds, overtaken, crossed>>

(* Meta is not reached for the subscription, or business_id is refused: no *)
(* handler of this restores what upsert_encrypted_access_token wrote over. *)
SubscribeFails(q) ==
  /\ Is(q, "bind") /\ mcase.meta_fails /\ Go(q, "fail") /\ crossed' = crossed \cup {Ask(q).t}
  /\ UNCHANGED <<acct, cred, session, inflight, dc, issued, sendSide, binds, overtaken, mcase>>

(* Mutant: the binding failed, the new token stays. *)
RestoreNothing(q) ==
  /\ Is(q, "restore") /\ Go(q, "fail")
  /\ UNCHANGED <<acct, cred, session, inflight, dc, issued, sendSide, binds, overtaken, crossed, mcase>>

restore_credentials_snapshot(q) ==
  /\ Is(q, "restore") /\ Go(q, "fail") /\ cred' = [cred EXCEPT ![Ask(q).t] = rq[q].old]
  /\ UNCHANGED <<acct, session, inflight, dc, issued, sendSide, binds, overtaken, crossed, mcase>>

(* Mutant: success gives the lock back, too. *)
ConsumeAndRelease(q) ==
  /\ Is(q, "consume") /\ Go(q, "done") /\ session' = [session EXCEPT ![Ask(q).s] = "consumed"]
  /\ inflight' = inflight \ {Ask(q).s}
  /\ UNCHANGED <<acct, cred, dc, issued, sendSide, binds, overtaken, crossed, mcase>>

(* The lock of a session that has been used stays until it expires. *)
_mark_consumed(q) ==
  /\ Is(q, "consume") /\ Go(q, "done") /\ session' = [session EXCEPT ![Ask(q).s] = "consumed"]
  /\ UNCHANGED <<acct, cred, inflight, dc, issued, sendSide, binds, overtaken, crossed, mcase>>

(* Redis fails: the lock is given back, the session open as before, though *)
(* its number is bound.                                                    *)
ConsumeFails(q) ==
  /\ Is(q, "consume") /\ Limit("db_fails") /\ Go(q, "fail")
  /\ overtaken' = overtaken \cup {Ask(q).s}
  /\ UNCHANGED <<acct, cred, session, inflight, dc, issued, sendSide, binds, crossed>>

_release_inflight(q) ==
  /\ Is(q, "fail") /\ Go(q, "done") /\ inflight' = inflight \ {Ask(q).s}
  /\ UNCHANGED <<acct, cred, session, dc, issued, sendSide, binds, overtaken, crossed, mcase>>

RequestDies(q) ==
  /\ Working(q) /\ Limit("crashes") /\ Go(q, "done")
  /\ overtaken' = overtaken \cup {Ask(q).s} /\ crossed' = crossed \cup {Ask(q).t}
  /\ UNCHANGED <<acct, cred, session, inflight, dc, issued, sendSide, binds>>

(* The 90 s of the lock: one of its requests may be slower than that. *)
InflightExpires(s) ==
  LET busy == \E q \in Requests : Ask(q).s = s /\ Working(q) IN
  /\ s \in inflight /\ (busy => mcase.slow) /\ inflight' = inflight \ {s}
  /\ overtaken' = IF busy THEN overtaken \cup {s} ELSE overtaken
  /\ UNCHANGED <<acct, cred, session, rq, dc, issued, sendSide, binds, crossed, mcase>>

RequestStep(q) ==
  \/ complete_onboarding(q) \/ assert_session_for_user(q) \/ _acquire_inflight(q)
  \/ exchange_authorization_code(q) \/ _assert_pnid_available(q)
  \/ snapshot_credentials_row(q) \/ upsert_encrypted_access_token(q) \/ BindUser(q)
  \/ restore_credentials_snapshot(q) \/ _mark_consumed(q) \/ _release_inflight(q)

-----------------------------------------------------------------------------
(* Disconnecting, and giving a number by hand *)

disconnect_meta(t) ==
  /\ dc[t].step = "idle" /\ Limit("disconnects") /\ Crosses(t)
  /\ dc' = [dc EXCEPT ![t] = [step |-> "delete", read |-> acct[t].pnid]]
  /\ UNCHANGED <<acct, cred, session, inflight, rq, issued, sendSide, binds, overtaken>>

delete_credentials_for_user(t) ==
  /\ dc[t].step = "delete" /\ dc' = [dc EXCEPT ![t].step = "update"]
  /\ cred' = [cred EXCEPT ![t] = NoCred]
  /\ UNCHANGED <<acct, session, inflight, rq, issued, sendSide, binds, overtaken, crossed, mcase>>

(* The number is given up if there was one when the request began. *)
DisconnectUser(t) ==
  /\ dc[t].step = "update" /\ dc' = [dc EXCEPT ![t] = Idle]
  /\ acct' = [acct EXCEPT ![t].status = "disconnected",
                          ![t].pnid = IF dc[t].read = None THEN @ ELSE None]
  /\ UNCHANGED <<cred, session, inflight, rq, issued, sendSide, binds, overtaken, crossed, mcase>>

DisconnectDies(t) ==
  /\ dc[t] # Idle /\ Limit("crashes") /\ dc' = [dc EXCEPT ![t] = Idle]
  /\ crossed' = crossed \cup {t}
  /\ UNCHANGED <<acct, cred, session, inflight, rq, issued, sendSide, binds, overtaken>>

(* The number alone; 409 if another tenant has it. *)
apply_whatsapp_settings_patch(t, n) ==
  /\ ~Taken(n, t) \/ n = None
  /\ Limit("patches")
  /\ acct' = [acct EXCEPT ![t].pnid = n] /\ crossed' = crossed \cup {t}
  /\ UNCHANGED <<cred, session, inflight, rq, dc, issued, sendSide, binds, overtaken>>

DisconnectStep(t) == delete_credentials_for_user(t) \/ DisconnectUser(t)

-----------------------------------------------------------------------------
(* Sending *)

onboardSide == <<session, inflight, rq, dc, issued, binds, overtaken, crossed>>

(* The job has read its tenant's document. *)
StartSend(t) ==
  /\ job[t] = NoSend /\ Limit("sends")
  /\ job' = [job EXCEPT ![t] = [step |-> "creds", read |-> acct[t], token |-> 0]]
  /\ UNCHANGED <<acct, cred, revoked, expired, posted, onboardSide>>

(* Mutant: whatever number the token was bound to. *)
CredentialsUnbound(t) ==
  /\ job[t].step = "creds"
  /\ job' = [job EXCEPT ![t] =
       IF /\ job[t].read.pnid # None /\ job[t].read.status = "connected"
          /\ cred[t] # NoCred /\ cred[t].token \notin expired
       THEN [@ EXCEPT !.step = "post", !.token = cred[t].token] ELSE NoSend]
  /\ UNCHANGED <<acct, cred, revoked, expired, posted, onboardSide, mcase>>

(* Connected, a credential, not expired, and bound to the account's number.*)
get_meta_credentials_for_user(t) ==
  /\ job[t].step = "creds"
  /\ job' = [job EXCEPT ![t] =
       IF /\ job[t].read.pnid # None /\ job[t].read.status = "connected"
          /\ cred[t] # NoCred /\ cred[t].token \notin expired
          /\ cred[t].bound = job[t].read.pnid
       THEN [@ EXCEPT !.step = "post", !.token = cred[t].token] ELSE NoSend]
  /\ UNCHANGED <<acct, cred, revoked, expired, posted, onboardSide, mcase>>

send_text(t) ==
  /\ job[t].step = "post"
  /\ posted' = posted \cup {<<t, job[t].read.pnid, job[t].token>>}
  /\ job' = [job EXCEPT ![t] = IF @.token \in revoked THEN [@ EXCEPT !.step = "dead"] ELSE NoSend]
  /\ UNCHANGED <<acct, cred, revoked, expired, onboardSide, mcase>>

(* By the account's id alone, whatever it is connected to by now. *)
maybe_mark_meta_auth_death(t) ==
  /\ job[t].step = "dead" /\ acct' = [acct EXCEPT ![t].status = "error"]
  /\ job' = [job EXCEPT ![t] = NoSend]
  /\ UNCHANGED <<cred, revoked, expired, posted, onboardSide, mcase>>

TokenEnds(k) ==
  /\ Limit("revokes")
  /\ \/ revoked' = revoked \cup {k} /\ UNCHANGED expired
     \/ expired' = expired \cup {k} /\ UNCHANGED revoked
  /\ UNCHANGED <<acct, cred, job, posted, onboardSide>>

PostStep(t) == \/ get_meta_credentials_for_user(t) \/ send_text(t)
               \/ maybe_mark_meta_auth_death(t)

-----------------------------------------------------------------------------
MetaNext ==
  \/ \E s \in Sessions : start_onboarding_session(s) \/ SessionExpires(s) \/ InflightExpires(s)
  \/ \E q \in Requests : RequestStep(q) \/ SubscribeFails(q) \/ BindFault(q) \/ ConsumeFails(q)
                         \/ RequestDies(q)
  \/ \E t \in Tenants : \/ disconnect_meta(t) \/ DisconnectStep(t) \/ DisconnectDies(t)
                        \/ StartSend(t) \/ PostStep(t)
                        \/ \E n \in Numbers \cup {None} : apply_whatsapp_settings_patch(t, n)
  \/ \E k \in DOMAIN issued : TokenEnds(k)

(* Requests and jobs run on. *)
MetaFairness ==
  WF_metaVars(\/ \E q \in Requests : RequestStep(q)
              \/ \E t \in Tenants : DisconnectStep(t) \/ PostStep(t))

-----------------------------------------------------------------------------
(* Properties *)

MetaTypeOK ==
  /\ acct \in [Tenants -> [status : {"none", "connected", "error", "disconnected"},
                           pnid : Numbers \cup {None}]]
  /\ cred \in [Tenants -> [token : 0..Len(issued), bound : Numbers \cup {None}]]
  /\ session \in [Sessions -> {"none", "open", "consumed", "expired"}]
  /\ inflight \cup overtaken \subseteq Sessions /\ crossed \subseteq Tenants
  /\ issued \in Seq(Tenants \X Numbers)
  /\ revoked \cup expired \subseteq DOMAIN issued
  /\ posted \subseteq Tenants \X Numbers \X DOMAIN issued
  /\ binds \in [Sessions -> Nat] /\ mcase \in MetaCaseTypes

(* No message is posted with a token that was not given to this tenant for *)
(* this very number, although number, status and token are written one by  *)
(* one, by overlapping requests, and read in two steps.                    *)
SentAsItself == \A p \in posted : issued[p[3]] = <<p[1], p[2]>>

(* An onboarding session connects a number once, whoever replays it, as    *)
(* long as its requests end within the lock's time, do not die and can     *)
(* mark it as consumed: else the session is open still, and binds again.   *)
SessionUsedOnce == \A s \in Sessions \ overtaken : binds[s] <= 1

(* Between changes, unless two of them overlapped or one died, a connected *)
(* account has the token of its number, also after an attempt to connect   *)
(* another one could not be bound; a disconnected one has none.            *)
ConnectedHasItsToken ==
  \A t \in Tenants \ crossed : ~Changing(t) =>
    /\ acct[t].status = "connected" => acct[t].pnid # None /\ cred[t].bound = acct[t].pnid
    /\ acct[t].status = "disconnected" => cred[t] = NoCred

(* Every request to connect a number, and to give it up, is answered. *)
OnboardingAnswered == []<>(\A t \in Tenants : ~Changing(t))
=============================================================================
