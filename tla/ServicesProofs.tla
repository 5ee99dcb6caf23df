---------------------------- MODULE ServicesProofs ----------------------------
(***************************************************************************)
(* Theorems about the parts of Services, for any members, bounds and       *)
(* cases.  The parts share nothing: each has invariants of its own in a    *)
(* section of its own, and its steps are steps of the whole or stutters.   *)
(* What holds of a part by itself is put together in the last section; the *)
(* plan, the AI's costs and the knowledge are in PlanProofs.               *)
(***************************************************************************)
EXTENDS Services, PlanProofs

(* What a step of the whole is to each part.                               *)
LEMMA PartsStep ==
  ASSUME [Next]_vars
  PROVE  /\ [MetaNext]_metaVars /\ [AiNext]_aiVars /\ [LeadNext]_leadVars
         /\ [BillingNext]_billingVars /\ [KbNext]_kbVars /\ [UsageNext]_usageVars
  BY Zenon DEF Next, vars

-----------------------------------------------------------------------------
(* Meta: where a token may be kept, and for whom it was issued *)

Number == Numbers \cup {None}
CredType == [token : Nat, bound : Number]
AcctType == [status : {"none", "connected", "error", "disconnected"}, pnid : Number]
AskSteps == {"idle", "session", "lock", "exchange", "available", "snapshot", "upsert", "bind",
             "restore", "consume", "fail", "done"}
AskType  == [step : AskSteps, read : {None}, old : CredType, token : Nat]
SendType == [step : {"idle", "creds", "post", "dead"}, read : AcctType, token : Nat]

(* What is asked for is the same through all steps. *)
AsksOK ==
  /\ DOMAIN mcase = {"linked", "owner", "asks", "running", "meta_fails", "db_fails", "slow",
                     "revokes", "sends", "disconnects", "patches", "crashes"}
  /\ mcase.asks \in [Requests -> [t : Tenants, s : Sessions, n : Numbers]]

MetaShapesOK ==
  /\ AsksOK /\ \E S : issued \in Seq(S)
  /\ cred \in [Tenants -> CredType] /\ acct \in [Tenants -> AcctType]
  /\ rq \in [Requests -> AskType]
  /\ job \in [Tenants -> SendType]

Issued(k, t, n) == k \in DOMAIN issued /\ issued[k] = <<t, n>>
Fits(t, c) == c = NoCred \/ Issued(c.token, t, c.bound)

CredInv  == \A t \in Tenants : Fits(t, cred[t])
OldInv   == \A q \in Requests : Fits(Ask(q).t, rq[q].old)
TokenInv == \A q \in Requests :
  rq[q].step \in {"available", "snapshot", "upsert"} => Issued(rq[q].token, Ask(q).t, Ask(q).n)
SendInv  == \A t \in Tenants :
  job[t].step = "post" => Issued(job[t].token, t, job[t].read.pnid)
PostInv  == \A p \in posted : Issued(p[3], p[1], p[2])

MetaInv == MetaShapesOK /\ CredInv /\ OldInv /\ TokenInv /\ SendInv /\ PostInv

-----------------------------------------------------------------------------
(* Initially *)

LEMMA NamesOK == None \in Number /\ NoCred \in CredType
  BY DEF Number, CredType, NoCred

LEMMA InitTokens ==
  ASSUME MetaInit
  PROVE  /\ \E S : issued \in Seq(S)
         /\ cred \in [Tenants -> CredType]
         /\ CredInv
<1>1. PICK token \in [Linked -> 1..Cardinality(Linked)] :
        /\ \A t, u \in Linked : t # u => token[t] # token[u]
        /\ issued = [k \in 1..Cardinality(Linked) |->
             LET t == CHOOSE u \in Linked : token[u] = k IN <<t, mcase.linked[t]>>]
        /\ cred = [t \in Tenants |-> IF t \in Linked
             THEN [token |-> token[t], bound |-> mcase.linked[t]] ELSE NoCred]
  BY DEF MetaInit
<1>2. Cardinality(Linked) \in Nat
  BY MetaTenantsAssumption, FS_Subset, FS_CardinalityType DEF Linked
<1>3. \E S : issued \in Seq(S)
  <2> DEFINE S == {issued[k] : k \in 1..Cardinality(Linked)}
  <2>1. issued \in [1..Cardinality(Linked) -> S]
    BY <1>1
  <2>2. issued \in Seq(S)
    BY <1>2, <2>1
  <2> QED BY <2>2
<1>4. mcase.linked \in [Tenants -> Number]
  BY MetaCasesAssumption DEF MetaInit, MetaCaseTypes, Number
<1>5. cred \in [Tenants -> CredType]
  BY <1>1, <1>2, <1>4, NamesOK DEF CredType, Linked
<1>6. ASSUME NEW t \in Linked PROVE Fits(t, cred[t])
  <2>1. token[t] \in DOMAIN issued
    BY <1>1
  <2>2. (CHOOSE u \in Linked : token[u] = token[t]) = t
    BY <1>1
  <2>3. issued[token[t]] = <<t, mcase.linked[t]>>
    BY <1>1, <2>1, <2>2
  <2>4. cred[t].token = token[t] /\ cred[t].bound = mcase.linked[t]
    BY <1>1 DEF Linked
  <2> QED BY <2>1, <2>3, <2>4 DEF Fits, Issued
<1>7. CredInv
  BY <1>1, <1>6 DEF CredInv, Fits, Linked
<1> QED BY <1>3, <1>5, <1>7

LEMMA MetaInvInit == MetaInit => MetaInv
<1> SUFFICES ASSUME MetaInit PROVE MetaInv
  OBVIOUS
<1>1. AsksOK
  BY MetaCasesAssumption DEF MetaInit, MetaCaseTypes, AsksOK
<1>2. mcase.linked \in [Tenants -> Number]
  BY MetaCasesAssumption DEF MetaInit, MetaCaseTypes, Number
<1>3. acct \in [Tenants -> AcctType]
  <2>1. \A t \in Tenants : [status |-> IF t \in Linked THEN "connected" ELSE "none",
                           pnid |-> mcase.linked[t]] \in AcctType
    BY <1>2 DEF AcctType
  <2>2. acct = [t \in Tenants |-> [status |-> IF t \in Linked THEN "connected" ELSE "none",
                                   pnid |-> mcase.linked[t]]]
    BY DEF MetaInit
  <2> QED BY <2>1, <2>2
<1>4. rq \in [Requests -> AskType]
  <2>1. NoReq \in AskType
    BY NamesOK DEF NoReq, AskType, AskSteps
  <2> QED BY <2>1 DEF MetaInit
<1>5. job \in [Tenants -> SendType]
  <2>1. NoSend \in SendType
    BY NamesOK DEF NoSend, AcctType, SendType
  <2> QED BY <2>1 DEF MetaInit
<1>6. OldInv /\ TokenInv /\ SendInv /\ PostInv
  BY DEF MetaInit, NoReq, NoSend, OldInv, TokenInv, SendInv, PostInv, Fits
<1> QED BY <1>1, <1>3, <1>4, <1>5, <1>6, InitTokens DEF MetaInv, MetaShapesOK

-----------------------------------------------------------------------------
(* Steps *)

LEMMA LimitKeepsAsks ==
  ASSUME AsksOK, \/ mcase' = mcase
                 \/ \E what \in {"db_fails", "revokes", "sends", "disconnects", "patches", "crashes"} :
                      Limit(what)
  PROVE  AsksOK' /\ mcase'.asks = mcase.asks
  BY DEF AsksOK, Limit

(* What may differ after a step that issues no token. *)
LEMMA NothingIssued ==
  ASSUME MetaInv, issued' = issued, AsksOK', mcase'.asks = mcase.asks
  PROVE  /\ \A k, t, n : Issued(k, t, n)' = Issued(k, t, n)
         /\ \A t, c : Fits(t, c)' = Fits(t, c)
         /\ \A q \in Requests : Ask(q)' = Ask(q)
         /\ \E S : issued' \in Seq(S)
  BY DEF MetaInv, MetaShapesOK, Issued, Fits, Ask

(* Credentials that stay, or become what fits their tenant. *)
LEMMA CredKept ==
  ASSUME MetaInv, UNCHANGED <<cred, issued>>, AsksOK', mcase'.asks = mcase.asks
  PROVE  cred' \in [Tenants -> CredType] /\ CredInv'
  BY NothingIssued DEF MetaInv, MetaShapesOK, CredInv

LEMMA CredSet ==
  ASSUME MetaInv, NEW t \in Tenants, NEW c \in CredType, Fits(t, c),
         cred' = [cred EXCEPT ![t] = c], UNCHANGED <<issued, mcase>>
  PROVE  cred' \in [Tenants -> CredType] /\ CredInv'
<1>1. AsksOK' /\ mcase'.asks = mcase.asks
  BY DEF MetaInv, MetaShapesOK, AsksOK
<1>2. \A u \in Tenants : cred'[u] = IF u = t THEN c ELSE cred[u]
  BY DEF MetaInv, MetaShapesOK
<1>3. cred' \in [Tenants -> CredType]
  BY DEF MetaInv, MetaShapesOK
<1> QED BY <1>1, <1>2, <1>3, NothingIssued DEF MetaInv, CredInv

(* A step that leaves tokens, requests and sends alone. *)
LEMMA AccountStep ==
  ASSUME MetaInv, UNCHANGED <<rq, job, issued, posted>>, acct' \in [Tenants -> AcctType],
         AsksOK', mcase'.asks = mcase.asks,
         cred' \in [Tenants -> CredType], CredInv'
  PROVE  MetaInv'
<1>1. MetaShapesOK'
  BY NothingIssued DEF MetaInv, MetaShapesOK
<1>2. OldInv' /\ TokenInv' /\ SendInv' /\ PostInv'
  BY NothingIssued DEF MetaInv, OldInv, TokenInv, SendInv, PostInv
<1> QED BY <1>1, <1>2 DEF MetaInv

(* A request that goes on without a new token. *)
LEMMA RequestGoes ==
  ASSUME MetaInv, NEW q \in Requests, NEW step \in AskSteps, Go(q, step),
         step \in {"available", "snapshot", "upsert"} =>
           rq[q].step \in {"available", "snapshot", "upsert"},
         UNCHANGED <<job, issued, posted>>, acct' \in [Tenants -> AcctType],
         AsksOK', mcase'.asks = mcase.asks,
         cred' \in [Tenants -> CredType], CredInv'
  PROVE  MetaInv'
<1>1. /\ rq' \in [Requests -> AskType]
      /\ \A p \in Requests : rq'[p].old = rq[p].old /\ rq'[p].token = rq[p].token
      /\ \A p \in Requests : rq'[p].step = IF p = q THEN step ELSE rq[p].step
  BY DEF Go, MetaInv, MetaShapesOK, AskType
<1>2. MetaShapesOK'
  BY <1>1, NothingIssued DEF MetaInv, MetaShapesOK
<1>3. OldInv' /\ TokenInv'
  BY <1>1, NothingIssued DEF MetaInv, OldInv, TokenInv
<1>4. SendInv' /\ PostInv'
  BY NothingIssued DEF MetaInv, SendInv, PostInv
<1> QED BY <1>2, <1>3, <1>4 DEF MetaInv

(* A send's own step. *)
LEMMA SendGoes ==
  ASSUME MetaInv, NEW t \in Tenants, NEW s \in SendType, job' = [job EXCEPT ![t] = s],
         s.step = "post" => Issued(s.token, t, s.read.pnid),
         UNCHANGED <<cred, rq, issued, posted>>, acct' \in [Tenants -> AcctType],
         AsksOK', mcase'.asks = mcase.asks
  PROVE  MetaInv'
<1>1. /\ job' \in [Tenants -> SendType]
      /\ \A u \in Tenants : job'[u] = IF u = t THEN s ELSE job[u]
  BY DEF MetaInv, MetaShapesOK
<1>2. MetaShapesOK' /\ CredInv'
  BY <1>1, CredKept, NothingIssued DEF MetaInv, MetaShapesOK
<1>3. SendInv'
  BY <1>1, NothingIssued DEF MetaInv, SendInv
<1>4. OldInv' /\ TokenInv' /\ PostInv'
  BY NothingIssued DEF MetaInv, OldInv, TokenInv, PostInv
<1> QED BY <1>2, <1>3, <1>4 DEF MetaInv

-----------------------------------------------------------------------------
(* The steps of a request *)

LEMMA ExchangeKeeps ==
  ASSUME MetaInv, NEW q \in Requests, exchange_authorization_code(q)
  PROVE  MetaInv'
<1>1. mcase' = mcase /\ acct' = acct /\ cred' = cred /\ job' = job /\ posted' = posted
  BY DEF exchange_authorization_code, sendSide
<1>2. AsksOK' /\ mcase'.asks = mcase.asks /\ acct' \in [Tenants -> AcctType]
  BY <1>1 DEF MetaInv, MetaShapesOK, AsksOK
<1>3. CASE Go(q, "fail") /\ UNCHANGED issued
  BY <1>1, <1>2, <1>3, CredKept, RequestGoes DEF AskSteps
<1>4. CASE /\ issued' = Append(issued, <<Ask(q).t, Ask(q).n>>)
           /\ rq' = [rq EXCEPT ![q].step = "available", ![q].token = Len(issued')]
  <2>1. /\ Len(issued') = Len(issued) + 1 /\ Len(issued') \in Nat
        /\ issued'[Len(issued')] = <<Ask(q).t, Ask(q).n>>
        /\ DOMAIN issued' = 1..Len(issued')
        /\ DOMAIN issued = 1..Len(issued)
        /\ \A k \in DOMAIN issued : k \in DOMAIN issued' /\ issued'[k] = issued[k]
        /\ \E S : issued' \in Seq(S)
    <3>1. PICK S : issued \in Seq(S)
      BY DEF MetaInv, MetaShapesOK
    <3>2. issued \in Seq(S \cup {<<Ask(q).t, Ask(q).n>>})
      BY <3>1
    <3>3. issued' \in Seq(S \cup {<<Ask(q).t, Ask(q).n>>})
      BY <1>4, <3>2
    <3> QED BY <1>4, <3>2, <3>3
  <2>2. \A k, t, n : Issued(k, t, n) => Issued(k, t, n)'
    BY <2>1 DEF Issued
  <2>3. \A t, c : Fits(t, c) => Fits(t, c)'
    BY <2>2 DEF Fits
  <2>4. \A p \in Requests : Ask(p)' = Ask(p)
    BY <1>1 DEF Ask
  <2>5. /\ rq' \in [Requests -> AskType]
        /\ \A p \in Requests : rq'[p].old = rq[p].old
        /\ \A p \in Requests \ {q} : rq'[p] = rq[p]
        /\ rq'[q].token = Len(issued')
    BY <1>4, <2>1 DEF MetaInv, MetaShapesOK, AskType, AskSteps
  <2>6. MetaShapesOK'
    BY <1>1, <1>2, <2>1, <2>5 DEF MetaInv, MetaShapesOK
  <2>7. Issued(rq[q].token, Ask(q).t, Ask(q).n)'
    BY <2>1, <2>4, <2>5 DEF Issued
  <2>8. TokenInv'
    BY <2>2, <2>4, <2>5, <2>7 DEF MetaInv, TokenInv
  <2>9. CredInv' /\ OldInv' /\ SendInv' /\ PostInv'
    BY <1>1, <2>2, <2>3, <2>4, <2>5 DEF MetaInv, CredInv, OldInv, SendInv, PostInv
  <2> QED BY <2>6, <2>8, <2>9 DEF MetaInv
<1> QED BY <1>3, <1>4 DEF exchange_authorization_code

LEMMA SnapshotKeeps ==
  ASSUME MetaInv, NEW q \in Requests, snapshot_credentials_row(q)
  PROVE  MetaInv'
<1>1. UNCHANGED <<acct, cred, job, issued, posted, mcase>>
  BY DEF snapshot_credentials_row, sendSide
<1>2. AsksOK' /\ mcase'.asks = mcase.asks
  BY <1>1 DEF MetaInv, MetaShapesOK, AsksOK
<1>3. Ask(q).t \in Tenants
  BY DEF MetaInv, MetaShapesOK, AsksOK, Ask
<1>4. /\ rq' \in [Requests -> AskType]
      /\ rq'[q].old = cred[Ask(q).t] /\ rq'[q].token = rq[q].token
      /\ \A p \in Requests \ {q} : rq'[p] = rq[p]
  BY <1>3 DEF snapshot_credentials_row, MetaInv, MetaShapesOK, AskType, AskSteps
<1>5. MetaShapesOK'
  BY <1>1, <1>2, <1>4, NothingIssued DEF MetaInv, MetaShapesOK
<1>6. OldInv'
  BY <1>1, <1>2, <1>3, <1>4, NothingIssued DEF MetaInv, OldInv, CredInv
<1>7. TokenInv'
  BY <1>1, <1>2, <1>4, NothingIssued DEF MetaInv, TokenInv, snapshot_credentials_row, Is
<1>8. CredInv' /\ SendInv' /\ PostInv'
  BY <1>1, <1>2, NothingIssued DEF MetaInv, CredInv, SendInv, PostInv
<1> QED BY <1>5, <1>6, <1>7, <1>8 DEF MetaInv

(* The credential is replaced: by the token of this request, or by what    *)
(* was there before.                                                       *)
LEMMA UpsertKeeps ==
  ASSUME MetaInv, NEW q \in Requests, upsert_encrypted_access_token(q)
  PROVE  MetaInv'
<1> DEFINE c == [token |-> rq[q].token, bound |-> Ask(q).n]
<1>1. /\ UNCHANGED <<acct, job, issued, posted, mcase>> /\ Go(q, "bind")
      /\ cred' = [cred EXCEPT ![Ask(q).t] = c] /\ rq[q].step = "upsert"
  BY DEF upsert_encrypted_access_token, sendSide, Is
<1>2. Ask(q).t \in Tenants /\ Ask(q).n \in Numbers /\ c \in CredType
  BY DEF MetaInv, MetaShapesOK, AsksOK, Ask, AskType, CredType, Number
<1>3. Fits(Ask(q).t, c)
  BY <1>1 DEF MetaInv, TokenInv, Fits
<1>4. cred' \in [Tenants -> CredType] /\ CredInv'
  BY <1>1, <1>2, <1>3, CredSet
<1>5. AsksOK' /\ mcase'.asks = mcase.asks /\ acct' \in [Tenants -> AcctType]
  BY <1>1 DEF MetaInv, MetaShapesOK, AsksOK
<1> QED BY <1>1, <1>4, <1>5, RequestGoes DEF AskSteps

LEMMA RestoreKeeps ==
  ASSUME MetaInv, NEW q \in Requests, restore_credentials_snapshot(q)
  PROVE  MetaInv'
<1>1. /\ UNCHANGED <<acct, job, issued, posted, mcase>> /\ Go(q, "fail")
      /\ cred' = [cred EXCEPT ![Ask(q).t] = rq[q].old]
  BY DEF restore_credentials_snapshot, sendSide
<1>2. Ask(q).t \in Tenants /\ rq[q].old \in CredType /\ Fits(Ask(q).t, rq[q].old)
  BY DEF MetaInv, MetaShapesOK, AsksOK, Ask, AskType, OldInv
<1>3. cred' \in [Tenants -> CredType] /\ CredInv'
  BY <1>1, <1>2, CredSet
<1>4. AsksOK' /\ mcase'.asks = mcase.asks /\ acct' \in [Tenants -> AcctType]
  BY <1>1 DEF MetaInv, MetaShapesOK, AsksOK
<1> QED BY <1>1, <1>3, <1>4, RequestGoes DEF AskSteps

(* The steps that only lead a request on, or connect its number. *)
LEMMA OtherRequestSteps ==
  ASSUME MetaInv, NEW q \in Requests,
         \/ complete_onboarding(q) \/ assert_session_for_user(q) \/ _acquire_inflight(q)
         \/ _assert_pnid_available(q) \/ BindUser(q) \/ _mark_consumed(q)
         \/ _release_inflight(q) \/ SubscribeFails(q) \/ BindFault(q) \/ ConsumeFails(q) \/ RequestDies(q)
  PROVE  MetaInv'
<1>1. UNCHANGED <<cred, job, issued, posted>>
  BY DEF complete_onboarding, assert_session_for_user, _acquire_inflight, _assert_pnid_available,
         BindUser, _mark_consumed, _release_inflight, SubscribeFails, BindFault, ConsumeFails,
         RequestDies, sendSide
<1>2. AsksOK' /\ mcase'.asks = mcase.asks
  <2>1. mcase' = mcase \/ Limit("db_fails") \/ Limit("crashes")
    BY DEF complete_onboarding, assert_session_for_user, _acquire_inflight, _assert_pnid_available,
           BindUser, _mark_consumed, _release_inflight, SubscribeFails, BindFault, ConsumeFails,
         RequestDies
  <2> QED BY <2>1, LimitKeepsAsks DEF MetaInv, MetaShapesOK
<1>3. acct' \in [Tenants -> AcctType]
  <2>1. CASE BindUser(q)
    <3>1. Ask(q).n \in Number
      BY DEF MetaInv, MetaShapesOK, AsksOK, Ask, Number
    <3>2. \/ acct' = acct
          \/ \E status \in {"connected", "error"} :
               acct' = [acct EXCEPT ![Ask(q).t] = [status |-> status, pnid |-> Ask(q).n]]
      BY <2>1 DEF BindUser
    <3> QED BY <3>1, <3>2 DEF MetaInv, MetaShapesOK, AcctType
  <2>2. CASE acct' = acct
    BY <2>2 DEF MetaInv, MetaShapesOK
  <2> QED BY <2>1, <2>2 DEF complete_onboarding, assert_session_for_user, _acquire_inflight,
         _assert_pnid_available, _mark_consumed, _release_inflight, SubscribeFails, BindFault, ConsumeFails,
         RequestDies
<1>4. \E step \in AskSteps : Go(q, step) /\
        (step \in {"available", "snapshot", "upsert"} => rq[q].step = "available")
  BY DEF complete_onboarding, assert_session_for_user, _acquire_inflight, _assert_pnid_available,
         BindUser, _mark_consumed, _release_inflight, SubscribeFails, BindFault, ConsumeFails,
         RequestDies,
         Is, AskSteps
<1> QED BY <1>1, <1>2, <1>3, <1>4, CredKept, RequestGoes

-----------------------------------------------------------------------------
(* The steps of an account and of its sends *)

LEMMA TenantSteps ==
  ASSUME MetaInv, NEW t \in Tenants,
         \/ disconnect_meta(t) \/ DisconnectStep(t) \/ DisconnectDies(t)
         \/ \E n \in Number : apply_whatsapp_settings_patch(t, n)
  PROVE  MetaInv'
<1>1. UNCHANGED <<rq, job, issued, posted>>
  BY DEF disconnect_meta, DisconnectStep, delete_credentials_for_user, DisconnectUser,
         DisconnectDies, apply_whatsapp_settings_patch, sendSide
<1>2. AsksOK' /\ mcase'.asks = mcase.asks
  <2>1. mcase' = mcase \/ Limit("disconnects") \/ Limit("crashes") \/ Limit("patches")
    BY DEF disconnect_meta, DisconnectStep, delete_credentials_for_user, DisconnectUser,
           DisconnectDies, apply_whatsapp_settings_patch
  <2> QED BY <2>1, LimitKeepsAsks DEF MetaInv, MetaShapesOK
<1>3. acct' \in [Tenants -> AcctType]
  <2>1. \/ acct' = acct
        \/ acct' = [acct EXCEPT ![t].status = "disconnected",
                                ![t].pnid = IF dc[t].read = None THEN @ ELSE None]
        \/ \E n \in Number : acct' = [acct EXCEPT ![t].pnid = n]
    BY DEF disconnect_meta, DisconnectStep, delete_credentials_for_user, DisconnectUser,
           DisconnectDies, apply_whatsapp_settings_patch
  <2> QED BY <2>1, NamesOK DEF MetaInv, MetaShapesOK, AcctType
<1>4. cred' \in [Tenants -> CredType] /\ CredInv'
  <2>1. CASE delete_credentials_for_user(t)
    BY <2>1, NamesOK, CredSet DEF delete_credentials_for_user, Fits
  <2>2. CASE cred' = cred
    BY <1>1, <1>2, <2>2, CredKept
  <2> QED BY <2>1, <2>2 DEF disconnect_meta, DisconnectStep, DisconnectUser,
         DisconnectDies, apply_whatsapp_settings_patch
<1> QED BY <1>1, <1>2, <1>3, <1>4, AccountStep

LEMMA SendSteps ==
  ASSUME MetaInv, NEW t \in Tenants, StartSend(t) \/ PostStep(t)
  PROVE  MetaInv'
<1>1. /\ UNCHANGED <<cred, rq, issued>>
      /\ AsksOK' /\ mcase'.asks = mcase.asks
  <2>1. mcase' = mcase \/ Limit("sends")
    BY DEF StartSend, PostStep, get_meta_credentials_for_user, send_text, maybe_mark_meta_auth_death
  <2>2. UNCHANGED <<cred, rq, issued>>
    BY DEF StartSend, PostStep, get_meta_credentials_for_user, send_text,
           maybe_mark_meta_auth_death, onboardSide
  <2> QED BY <2>1, <2>2, LimitKeepsAsks DEF MetaInv, MetaShapesOK
<1>2. /\ acct[t] \in AcctType /\ cred[t] \in CredType /\ job[t] \in SendType
      /\ NoSend \in SendType
  BY NamesOK DEF MetaInv, MetaShapesOK, NoSend, SendType, AcctType
<1>3. CASE StartSend(t)
  <2>1. [step |-> "creds", read |-> acct[t], token |-> 0] \in SendType
    BY <1>2 DEF SendType
  <2> QED BY <1>1, <1>3, <2>1, SendGoes DEF StartSend, MetaInv, MetaShapesOK
<1>4. CASE get_meta_credentials_for_user(t)
  <2> DEFINE s == job'[t]
  <2>1. /\ job' = [job EXCEPT ![t] = s] /\ s \in SendType
        /\ s.step = "post" => /\ s.token = cred[t].token /\ s.read = job[t].read
                              /\ cred[t] # NoCred /\ cred[t].bound = job[t].read.pnid
    BY <1>2, <1>4 DEF get_meta_credentials_for_user, MetaInv, MetaShapesOK, SendType, CredType, NoSend
  <2>2. s.step = "post" => Issued(s.token, t, s.read.pnid)
    BY <2>1 DEF MetaInv, CredInv, Fits
  <2>3. acct' \in [Tenants -> AcctType] /\ posted' = posted
    BY <1>4 DEF get_meta_credentials_for_user, MetaInv, MetaShapesOK
  <2> HIDE DEF s
  <2> QED BY <1>1, <2>1, <2>2, <2>3, SendGoes
<1>5. CASE send_text(t)
  <2>1. /\ job[t].step = "post" /\ acct' = acct
        /\ posted' = posted \cup {<<t, job[t].read.pnid, job[t].token>>}
        /\ job' = [job EXCEPT ![t] = IF @.token \in revoked THEN [@ EXCEPT !.step = "dead"] ELSE NoSend]
    BY <1>5 DEF send_text
  <2>2. /\ job' \in [Tenants -> SendType]
        /\ job'[t].step # "post" /\ \A u \in Tenants \ {t} : job'[u] = job[u]
    BY <1>2, <2>1 DEF MetaInv, MetaShapesOK, SendType, NoSend
  <2>3. MetaShapesOK' /\ CredInv'
    BY <1>1, <2>1, <2>2, CredKept, NothingIssued DEF MetaInv, MetaShapesOK
  <2>4. SendInv'
    BY <1>1, <2>2, NothingIssued DEF MetaInv, SendInv
  <2>5. PostInv'
    BY <1>1, <2>1, NothingIssued DEF MetaInv, PostInv, SendInv
  <2>6. OldInv' /\ TokenInv'
    BY <1>1, NothingIssued DEF MetaInv, OldInv, TokenInv
  <2> QED BY <2>3, <2>4, <2>5, <2>6 DEF MetaInv
<1>6. CASE maybe_mark_meta_auth_death(t)
  <2>1. acct' \in [Tenants -> AcctType]
    BY <1>6 DEF maybe_mark_meta_auth_death, MetaInv, MetaShapesOK, AcctType
  <2>2. NoSend.step # "post"
    BY DEF NoSend
  <2> QED BY <1>1, <1>2, <1>6, <2>1, <2>2, SendGoes DEF maybe_mark_meta_auth_death
<1> QED BY <1>3, <1>4, <1>5, <1>6 DEF PostStep

LEMMA MetaInvStep == MetaInv /\ [MetaNext]_metaVars => MetaInv'
<1> SUFFICES ASSUME MetaInv, [MetaNext]_metaVars PROVE MetaInv'
  OBVIOUS
<1>1. CASE UNCHANGED <<acct, cred, rq, job, issued, posted>> /\ (mcase' = mcase \/ Limit("revokes"))
  <2>1. AsksOK' /\ mcase'.asks = mcase.asks
    BY <1>1, LimitKeepsAsks DEF MetaInv, MetaShapesOK
  <2>2. acct' \in [Tenants -> AcctType]
    BY <1>1 DEF MetaInv, MetaShapesOK
  <2> QED BY <1>1, <2>1, <2>2, CredKept, AccountStep
<1>2. ASSUME NEW s \in Sessions,
             start_onboarding_session(s) \/ SessionExpires(s) \/ InflightExpires(s)
      PROVE  MetaInv'
  BY <1>1, <1>2 DEF start_onboarding_session, SessionExpires, InflightExpires, sendSide
<1>3. ASSUME NEW q \in Requests,
             RequestStep(q) \/ SubscribeFails(q) \/ BindFault(q) \/ ConsumeFails(q) \/ RequestDies(q)
      PROVE  MetaInv'
  BY <1>3, ExchangeKeeps, SnapshotKeeps, UpsertKeeps, RestoreKeeps, OtherRequestSteps DEF RequestStep
<1>4. ASSUME NEW k \in DOMAIN issued, TokenEnds(k) PROVE MetaInv'
  BY <1>1, <1>4 DEF TokenEnds, onboardSide
<1>5. CASE UNCHANGED metaVars
  BY <1>1, <1>5 DEF metaVars
<1> QED BY <1>2, <1>3, <1>4, <1>5, TenantSteps, SendSteps DEF MetaNext, Number

(* No message is posted with a token that Meta has not issued to this very *)
(* tenant for this very number: send_text takes the token that             *)
(* get_meta_credentials_for_user found bound to the number as read, and    *)
(* every writer of a credential keeps the two together.                    *)
THEOREM SentByOwnToken == Spec => []SentAsItself
<1>1. MetaInv => SentAsItself
  BY DEF MetaInv, PostInv, Issued, SentAsItself
<1>2. Init => MetaInv
  BY MetaInvInit DEF Init
<1>3. MetaInv /\ [Next]_vars => MetaInv'
  BY MetaInvStep, PartsStep
<1> QED BY <1>1, <1>2, <1>3, PTL DEF Spec

-----------------------------------------------------------------------------
(* Meta: the sessions, and the account with its token *)

(* The rest of the types.                                                  *)
SessionStates == {"none", "open", "consumed", "expired"}
DcType == [step : {"idle", "delete", "update"}, read : Number]
MetaMore ==
  /\ session \in [Sessions -> SessionStates]
  /\ inflight \subseteq Sessions /\ overtaken \subseteq Sessions /\ crossed \subseteq Tenants
  /\ issued \in Seq(Tenants \X Numbers)
  /\ revoked \subseteq DOMAIN issued /\ expired \subseteq DOMAIN issued
  /\ posted \subseteq Tenants \X Numbers \X DOMAIN issued
  /\ binds \in [Sessions -> Nat] /\ mcase \in MetaCaseTypes
  /\ dc \in [Tenants -> DcType]

(* A session's lock is held by one request, and the session is used up     *)
(* before the lock can end.                                                *)
HoldSteps == {"exchange", "available", "snapshot", "upsert", "bind", "restore", "consume", "fail"}
HasLock(q, s) == Ask(q).s = s /\ rq[q].step \in HoldSteps
UsedUp(s) ==
  /\ binds[s] \in {0, 1}
  /\ \A q \in Requests : HasLock(q, s) =>
       /\ s \in inflight /\ (rq[q].step = "consume" <=> binds[s] = 1)
       /\ \A r \in Requests : HasLock(r, s) => r = q
  /\ binds[s] = 1 /\ (\A q \in Requests : ~HasLock(q, s)) =>
       /\ session[s] = "consumed"
       /\ \A q \in Requests : Ask(q).s = s /\ rq[q].step = "lock" => s \in inflight
UsedInv == \A s \in Sessions \ overtaken : UsedUp(s)

(* A tenant's credential agrees with the document, except for a request    *)
(* that has written it and is yet to bind or restore it.                   *)
Settled(a, c) == /\ a.status = "connected" => a.pnid # None /\ c.bound = a.pnid
                 /\ a.status = "disconnected" => c = NoCred
Works(q, t) == Working(q) /\ Ask(q).t = t
Orderly(t) ==
  /\ \A q \in Requests : Works(q, t) =>
       /\ dc[t].step = "idle" /\ \A r \in Requests : Works(r, t) => r = q
       /\ IF rq[q].step \in {"bind", "restore"} THEN Settled(acct[t], rq[q].old) ELSE Settled(acct[t], cred[t])
       /\ rq[q].step = "bind" => cred[t].bound = Ask(q).n
       /\ rq[q].step = "upsert" => rq[q].old = cred[t]
  /\ dc[t].step = "update" => cred[t] = NoCred
  /\ dc[t].step # "update" /\ (\A q \in Requests : ~Works(q, t)) => Settled(acct[t], cred[t])
SettledInv == \A t \in Tenants \ crossed : Orderly(t)

MetaAll == MetaInv /\ MetaMore /\ UsedInv /\ SettledInv

-----------------------------------------------------------------------------
(* Types *)

(* What a bound that is used up leaves alone.                              *)
LEMMA LimitKept ==
  ASSUME mcase \in MetaCaseTypes,
         \/ mcase' = mcase \/ Limit("db_fails") \/ Limit("revokes") \/ Limit("sends")
         \/ Limit("disconnects") \/ Limit("patches") \/ Limit("crashes")
  PROVE  mcase' \in MetaCaseTypes /\ mcase'.asks = mcase.asks
<1>1. CASE mcase' = mcase
  BY <1>1
<1>2. CASE Limit("db_fails")
  <2>1. mcase.db_fails \in Nat
    BY DEF MetaCaseTypes
  <2>2. mcase.db_fails > 0 /\ mcase' = [mcase EXCEPT !.db_fails = mcase.db_fails - 1]
    BY <1>2 DEF Limit
  <2>3. mcase.db_fails - 1 \in Nat
    BY <2>1, <2>2
  <2> QED BY <2>2, <2>3 DEF MetaCaseTypes
<1>3. CASE Limit("revokes")
  <2>1. mcase.revokes \in Nat
    BY DEF MetaCaseTypes
  <2>2. mcase.revokes > 0 /\ mcase' = [mcase EXCEPT !.revokes = mcase.revokes - 1]
    BY <1>3 DEF Limit
  <2>3. mcase.revokes - 1 \in Nat
    BY <2>1, <2>2
  <2> QED BY <2>2, <2>3 DEF MetaCaseTypes
<1>4. CASE Limit("sends")
  <2>1. mcase.sends \in Nat
    BY DEF MetaCaseTypes
  <2>2. mcase.sends > 0 /\ mcase' = [mcase EXCEPT !.sends = mcase.sends - 1]
    BY <1>4 DEF Limit
  <2>3. mcase.sends - 1 \in Nat
    BY <2>1, <2>2
  <2> QED BY <2>2, <2>3 DEF MetaCaseTypes
<1>5. CASE Limit("disconnects")
  <2>1. mcase.disconnects \in Nat
    BY DEF MetaCaseTypes
  <2>2. mcase.disconnects > 0 /\ mcase' = [mcase EXCEPT !.disconnects = mcase.disconnects - 1]
    BY <1>5 DEF Limit
  <2>3. mcase.disconnects - 1 \in Nat
    BY <2>1, <2>2
  <2> QED BY <2>2, <2>3 DEF MetaCaseTypes
<1>6. CASE Limit("patches")
  <2>1. mcase.patches \in Nat
    BY DEF MetaCaseTypes
  <2>2. mcase.patches > 0 /\ mcase' = [mcase EXCEPT !.patches = mcase.patches - 1]
    BY <1>6 DEF Limit
  <2>3. mcase.patches - 1 \in Nat
    BY <2>1, <2>2
  <2> QED BY <2>2, <2>3 DEF MetaCaseTypes
<1>7. CASE Limit("crashes")
  <2>1. mcase.crashes \in Nat
    BY DEF MetaCaseTypes
  <2>2. mcase.crashes > 0 /\ mcase' = [mcase EXCEPT !.crashes = mcase.crashes - 1]
    BY <1>7 DEF Limit
  <2>3. mcase.crashes - 1 \in Nat
    BY <2>1, <2>2
  <2> QED BY <2>2, <2>3 DEF MetaCaseTypes
<1> QED BY <1>1, <1>2, <1>3, <1>4, <1>5, <1>6, <1>7

(* No step changes what the requests ask for.                              *)
LEMMA StepLimits ==
  ASSUME MetaMore, [MetaNext]_metaVars
  PROVE  /\ mcase' \in MetaCaseTypes /\ mcase'.asks = mcase.asks
         /\ \A q : Ask(q)' = Ask(q)
<1>1. \/ mcase' = mcase \/ Limit("db_fails") \/ Limit("revokes") \/ Limit("sends")
      \/ Limit("disconnects") \/ Limit("patches") \/ Limit("crashes")
  BY DEF MetaNext, metaVars, start_onboarding_session, SessionExpires, InflightExpires, RequestStep,
     complete_onboarding, assert_session_for_user, _acquire_inflight, exchange_authorization_code,
     _assert_pnid_available, snapshot_credentials_row, upsert_encrypted_access_token, BindUser,
     restore_credentials_snapshot, _mark_consumed, _release_inflight, SubscribeFails, BindFault,
     ConsumeFails,
     RequestDies, disconnect_meta, DisconnectStep, delete_credentials_for_user, DisconnectUser,
     DisconnectDies, StartSend, PostStep, get_meta_credentials_for_user, send_text,
     maybe_mark_meta_auth_death, apply_whatsapp_settings_patch, TokenEnds
<1>2. mcase \in MetaCaseTypes
  BY DEF MetaMore
<1>3. mcase' \in MetaCaseTypes /\ mcase'.asks = mcase.asks
  BY <1>1, <1>2, LimitKept
<1> QED BY <1>3 DEF Ask

(* The types, spelt out.                                                   *)
LEMMA RequestTypes ==
  ASSUME MetaMore, NEW q \in Requests
  PROVE  Ask(q).t \in Tenants /\ Ask(q).s \in Sessions /\ Ask(q).n \in Numbers
  BY DEF MetaMore, MetaCaseTypes, Ask

LEMMA MetaTypes ==
  ASSUME MetaInv
  PROVE  /\ rq \in [Requests -> AskType] /\ cred \in [Tenants -> CredType]
         /\ acct \in [Tenants -> AcctType] /\ job \in [Tenants -> SendType]
  BY DEF MetaInv, MetaShapesOK

(* Steps that change none of this, and each kind of step that does.        *)
LEMMA MoreKept ==
  ASSUME MetaMore, mcase' \in MetaCaseTypes,
         session' \in [Sessions -> SessionStates], inflight' \subseteq Sessions,
         overtaken' \subseteq Sessions, crossed' \subseteq Tenants, binds' \in [Sessions -> Nat],
         dc' \in [Tenants -> DcType], UNCHANGED <<issued, revoked, expired, posted>>
  PROVE  MetaMore'
  BY DEF MetaMore

LEMMA MoreSessions ==
  ASSUME MetaMore, [MetaNext]_metaVars, NEW s \in Sessions,
         start_onboarding_session(s) \/ SessionExpires(s) \/ InflightExpires(s)
  PROVE  MetaMore'
<1>1. mcase' \in MetaCaseTypes
  BY StepLimits
<1>2. /\ session' \in [Sessions -> SessionStates] /\ inflight' \subseteq Sessions
      /\ overtaken' \subseteq Sessions
  BY DEF MetaMore, start_onboarding_session, SessionExpires, InflightExpires, SessionStates
<1>3. UNCHANGED <<issued, revoked, expired, posted, crossed, binds, dc>>
  BY DEF start_onboarding_session, SessionExpires, InflightExpires, sendSide
<1> QED BY <1>1, <1>2, <1>3, MoreKept DEF MetaMore

LEMMA MoreRequests ==
  ASSUME MetaMore, [MetaNext]_metaVars, NEW q \in Requests,
         RequestStep(q) \/ SubscribeFails(q) \/ BindFault(q) \/ ConsumeFails(q) \/ RequestDies(q)
  PROVE  MetaMore'
<1>1. mcase' \in MetaCaseTypes /\ Ask(q).t \in Tenants /\ Ask(q).s \in Sessions /\ Ask(q).n \in Numbers
  BY StepLimits, RequestTypes
<1>2. CASE exchange_authorization_code(q) /\ issued' # issued
  <2>1. issued' = Append(issued, <<Ask(q).t, Ask(q).n>>)
    BY <1>2 DEF exchange_authorization_code
  <2>2. <<Ask(q).t, Ask(q).n>> \in Tenants \X Numbers /\ issued \in Seq(Tenants \X Numbers)
    BY <1>1 DEF MetaMore
  <2>3. issued' \in Seq(Tenants \X Numbers) /\ DOMAIN issued \subseteq DOMAIN issued'
    BY <2>1, <2>2
  <2>4. UNCHANGED <<session, inflight, overtaken, crossed, revoked, expired, posted, binds, dc>>
    BY <1>2 DEF exchange_authorization_code, sendSide
  <2> QED BY <1>1, <2>3, <2>4 DEF MetaMore
<1>3. CASE ~(exchange_authorization_code(q) /\ issued' # issued)
  <2>1. UNCHANGED <<issued, revoked, expired, posted, dc>>
    BY <1>3 DEF RequestStep, sendSide,
     complete_onboarding, assert_session_for_user, _acquire_inflight, exchange_authorization_code,
     _assert_pnid_available, snapshot_credentials_row, upsert_encrypted_access_token, BindUser,
     restore_credentials_snapshot, _mark_consumed, _release_inflight, SubscribeFails, BindFault,
     ConsumeFails,
     RequestDies
  <2>2. /\ session' = session \/ session' = [session EXCEPT ![Ask(q).s] = "consumed"]
        /\ inflight' = inflight \/ inflight' = inflight \cup {Ask(q).s}
           \/ inflight' = inflight \ {Ask(q).s}
    BY DEF RequestStep,
     complete_onboarding, assert_session_for_user, _acquire_inflight, exchange_authorization_code,
     _assert_pnid_available, snapshot_credentials_row, upsert_encrypted_access_token, BindUser,
     restore_credentials_snapshot, _mark_consumed, _release_inflight, SubscribeFails, BindFault,
     ConsumeFails,
     RequestDies
  <2>3. /\ overtaken' = overtaken \/ overtaken' = overtaken \cup {Ask(q).s}
        /\ crossed' = crossed \/ crossed' = crossed \cup {Ask(q).t}
        /\ binds' = binds \/ binds' = [binds EXCEPT ![Ask(q).s] = @ + 1]
    BY DEF RequestStep, Crosses,
     complete_onboarding, assert_session_for_user, _acquire_inflight, exchange_authorization_code,
     _assert_pnid_available, snapshot_credentials_row, upsert_encrypted_access_token, BindUser,
     restore_credentials_snapshot, _mark_consumed, _release_inflight, SubscribeFails, BindFault,
     ConsumeFails,
     RequestDies
  <2>4. session' \in [Sessions -> SessionStates] /\ inflight' \subseteq Sessions
    BY <1>1, <2>2 DEF MetaMore, SessionStates
  <2>5. overtaken' \subseteq Sessions /\ crossed' \subseteq Tenants /\ binds' \in [Sessions -> Nat]
    BY <1>1, <2>3 DEF MetaMore
  <2> QED BY <1>1, <2>1, <2>4, <2>5, MoreKept DEF MetaMore
<1> QED BY <1>2, <1>3

LEMMA MoreTenants ==
  ASSUME MetaMore, MetaInv, [MetaNext]_metaVars, NEW t \in Tenants,
         \/ disconnect_meta(t) \/ DisconnectStep(t) \/ DisconnectDies(t)
         \/ \E n \in Number : apply_whatsapp_settings_patch(t, n)
  PROVE  MetaMore'
<1>1. mcase' \in MetaCaseTypes /\ acct[t].pnid \in Number
  BY StepLimits, MetaTypes DEF AcctType
<1>2. UNCHANGED <<issued, revoked, expired, posted, session, inflight, overtaken, binds>>
  BY DEF disconnect_meta, DisconnectStep, delete_credentials_for_user, DisconnectUser,
     DisconnectDies, apply_whatsapp_settings_patch, sendSide
<1>3. crossed' = crossed \/ crossed' = crossed \cup {t}
  BY DEF disconnect_meta, DisconnectStep, delete_credentials_for_user, DisconnectUser,
     DisconnectDies, apply_whatsapp_settings_patch, Crosses
<1>4. crossed' \subseteq Tenants
  BY <1>3 DEF MetaMore
<1>5. \/ dc' = dc \/ dc' = [dc EXCEPT ![t] = [step |-> "delete", read |-> acct[t].pnid]]
      \/ dc' = [dc EXCEPT ![t].step = "update"] \/ dc' = [dc EXCEPT ![t] = Idle]
  BY DEF disconnect_meta, DisconnectStep, delete_credentials_for_user, DisconnectUser,
     DisconnectDies, apply_whatsapp_settings_patch
<1>6. Idle \in DcType /\ [step |-> "delete", read |-> acct[t].pnid] \in DcType
  <2>1. None \in Number
    BY NamesOK
  <2>2. [step |-> "delete", read |-> acct[t].pnid] \in DcType
    BY <1>1 DEF DcType
  <2> QED BY <2>1, <2>2 DEF Idle, DcType
<1>7. dc' \in [Tenants -> DcType]
  <2>1. dc \in [Tenants -> DcType]
    BY DEF MetaMore
  <2>2. CASE dc' = [dc EXCEPT ![t].step = "update"]
    <3>1. [dc[t] EXCEPT !.step = "update"] \in DcType
      BY <2>1 DEF DcType
    <3>2. dc' = [dc EXCEPT ![t] = [dc[t] EXCEPT !.step = "update"]]
      BY <2>2
    <3> QED BY <2>1, <3>1, <3>2
  <2> QED BY <1>5, <1>6, <2>1, <2>2
<1> QED BY <1>1, <1>2, <1>4, <1>7, MoreKept DEF MetaMore

LEMMA MoreSends ==
  ASSUME MetaMore, MetaInv, [MetaNext]_metaVars,
         \/ \E t \in Tenants : StartSend(t) \/ PostStep(t)
         \/ \E k \in DOMAIN issued : TokenEnds(k)
  PROVE  MetaMore'
<1>1. mcase' \in MetaCaseTypes
  BY StepLimits
<1>2. UNCHANGED <<issued, session, inflight, overtaken, crossed, binds, dc>>
  BY DEF StartSend, PostStep, get_meta_credentials_for_user, send_text, maybe_mark_meta_auth_death,
     TokenEnds, onboardSide
<1>3. revoked' \subseteq DOMAIN issued /\ expired' \subseteq DOMAIN issued
  BY DEF StartSend, PostStep, get_meta_credentials_for_user, send_text, maybe_mark_meta_auth_death,
     TokenEnds, MetaMore
<1>4. posted' \subseteq Tenants \X Numbers \X DOMAIN issued
  <2>1. CASE posted' = posted
    BY <2>1 DEF MetaMore
  <2>2. CASE \E t \in Tenants : send_text(t)
    <3>1. PICK t \in Tenants : job[t].step = "post"
            /\ posted' = posted \cup {<<t, job[t].read.pnid, job[t].token>>}
      BY <2>2 DEF send_text
    <3>2. Issued(job[t].token, t, job[t].read.pnid)
      BY <3>1 DEF MetaInv, SendInv
    <3>3. issued[job[t].token] \in Tenants \X Numbers
      <4>1. \A u \in Seq(Tenants \X Numbers) : \A k \in DOMAIN u : u[k] \in Tenants \X Numbers
        OBVIOUS
      <4> QED BY <3>2, <4>1 DEF Issued, MetaMore
    <3>4. job[t].read.pnid \in Numbers /\ job[t].token \in DOMAIN issued
      BY <3>2, <3>3 DEF Issued
    <3> QED BY <3>1, <3>4 DEF MetaMore
  <2> QED BY <2>1, <2>2 DEF StartSend, PostStep, get_meta_credentials_for_user,
     maybe_mark_meta_auth_death, TokenEnds
<1> QED BY <1>1, <1>2, <1>3, <1>4 DEF MetaMore

(* So the types stay.                                                      *)
LEMMA MoreStep ==
  ASSUME MetaMore, MetaInv, [MetaNext]_metaVars
  PROVE  MetaMore'
<1>1. CASE UNCHANGED metaVars
  BY <1>1 DEF metaVars, MetaMore
<1>2. CASE MetaNext
  BY <1>2, MoreSessions, MoreRequests, MoreTenants, MoreSends DEF MetaNext, Number
<1> QED BY <1>1, <1>2

(* The session's lock *)

Shifted(q, a, b) == /\ rq[q].step = a
                    /\ \A r \in Requests : rq'[r].step = IF r = q THEN b ELSE rq[r].step

(* The requests' steps, and nothing else of a session, may change.         *)
LEMMA GoShifts ==
  ASSUME MetaInv, NEW q \in Requests, NEW a \in AskSteps, NEW b \in AskSteps, Is(q, a), Go(q, b)
  PROVE  Shifted(q, a, b)
  BY MetaTypes DEF Is, Go, Shifted, AskType

(* What is used up stays so, when nobody works on the session, or one goes *)
(* on with it.                                                             *)
LEMMA UsedSame ==
  ASSUME MetaAll, \A q : Ask(q)' = Ask(q), UNCHANGED <<binds, inflight, session>>,
         overtaken \subseteq overtaken', \A r \in Requests : rq'[r].step = rq[r].step
  PROVE  UsedInv'
  BY DEF MetaAll, UsedInv, UsedUp, HasLock

LEMMA UsedShift ==
  ASSUME MetaAll, \A q : Ask(q)' = Ask(q), UNCHANGED <<binds, inflight, session>>,
         overtaken \subseteq overtaken', NEW q \in Requests, NEW a, NEW b, Shifted(q, a, b),
         \/ a \in HoldSteps \ {"consume"} /\ b \in HoldSteps \ {"consume"}
         \/ a \notin HoldSteps /\ b \notin HoldSteps \cup {"lock"}
         \/ a \notin HoldSteps /\ b = "lock" /\ session[Ask(q).s] = "open"
         \/ Ask(q).s \in overtaken'
  PROVE  UsedInv'
  BY DEF MetaAll, UsedInv, UsedUp, HasLock, Shifted, HoldSteps

LEMMA UsedRequests ==
  ASSUME MetaAll, [MetaNext]_metaVars, NEW q \in Requests,
         RequestStep(q) \/ SubscribeFails(q) \/ BindFault(q) \/ ConsumeFails(q) \/ RequestDies(q)
  PROVE  UsedInv'
<1>0. /\ MetaInv /\ \A p : Ask(p)' = Ask(p)
      /\ Ask(q).t \in Tenants /\ Ask(q).s \in Sessions /\ binds \in [Sessions -> Nat]
      /\ session \in [Sessions -> SessionStates]
  BY StepLimits, RequestTypes DEF MetaAll, MetaMore
<1>1. CASE complete_onboarding(q)
  <2>1. Shifted(q, "idle", "session") /\ UNCHANGED <<binds, inflight, session, overtaken>>
    BY <1>0, <1>1, GoShifts DEF complete_onboarding, AskSteps
  <2> QED BY <1>0, <2>1, UsedShift DEF HoldSteps
<1>2. CASE assert_session_for_user(q)
  <2>1. UNCHANGED <<binds, inflight, session, overtaken>>
    BY <1>2 DEF assert_session_for_user
  <2>2. \/ Shifted(q, "session", "done")
        \/ Shifted(q, "session", "lock") /\ session[Ask(q).s] = "open"
    <3>1. Is(q, "session") /\ (Go(q, "done") \/ (Go(q, "lock") /\ session[Ask(q).s] = "open"))
      <4>1. CASE session[Ask(q).s] = "open" /\ mcase.owner[Ask(q).s] = Ask(q).t
        BY <1>2, <4>1 DEF assert_session_for_user, Go
      <4>2. CASE ~(session[Ask(q).s] = "open" /\ mcase.owner[Ask(q).s] = Ask(q).t)
        BY <1>2, <4>2 DEF assert_session_for_user, Go
      <4> QED BY <4>1, <4>2
    <3>2. {"session", "done", "lock"} \subseteq AskSteps
      BY DEF AskSteps
    <3> QED BY <1>0, <3>1, <3>2, GoShifts
  <2>3. CASE Shifted(q, "session", "done")
    BY <1>0, <2>1, <2>3, UsedShift DEF HoldSteps
  <2>4. CASE Shifted(q, "session", "lock") /\ session[Ask(q).s] = "open"
    BY <1>0, <2>1, <2>4, UsedShift DEF HoldSteps
  <2> QED BY <2>2, <2>3, <2>4
<1>3. CASE _acquire_inflight(q)
  <2>1. UNCHANGED <<binds, session, overtaken>> /\ inflight' = inflight \cup {Ask(q).s}
    BY <1>3 DEF _acquire_inflight
  <2>2. CASE Ask(q).s \in inflight
    <3>1. Shifted(q, "lock", "done")
      BY <1>0, <1>3, <2>2, GoShifts DEF _acquire_inflight, AskSteps
    <3>2. inflight' = inflight
      BY <2>1, <2>2
    <3> QED BY <1>0, <2>1, <3>1, <3>2, UsedShift DEF HoldSteps
  <2>3. CASE Ask(q).s \notin inflight
    <3>1. Shifted(q, "lock", "exchange")
      BY <1>0, <1>3, <2>3, GoShifts DEF _acquire_inflight, AskSteps
    <3> QED BY <1>0, <2>1, <2>3, <3>1 DEF MetaAll, UsedInv, UsedUp, HasLock, Shifted, HoldSteps
  <2> QED BY <2>2, <2>3
<1>4. CASE exchange_authorization_code(q)
  <2>1. UNCHANGED <<binds, inflight, session, overtaken>>
    BY <1>4 DEF exchange_authorization_code
  <2>2. Shifted(q, "exchange", "available") \/ Shifted(q, "exchange", "fail")
    BY <1>0, <1>4, MetaTypes DEF exchange_authorization_code, Is, Go, Shifted, AskType
  <2> QED BY <1>0, <2>1, <2>2, UsedShift DEF HoldSteps
<1>5. CASE \/ _assert_pnid_available(q) \/ snapshot_credentials_row(q) \/ upsert_encrypted_access_token(q)
           \/ restore_credentials_snapshot(q) \/ SubscribeFails(q) \/ BindFault(q)
  <2>1. UNCHANGED <<binds, inflight, session, overtaken>>
    BY <1>5 DEF _assert_pnid_available, snapshot_credentials_row, upsert_encrypted_access_token,
       restore_credentials_snapshot, SubscribeFails, BindFault
  <2>2. \E a, b \in HoldSteps \ {"consume"} : Shifted(q, a, b)
    <3>1. CASE snapshot_credentials_row(q)
      <4>1. Shifted(q, "snapshot", "upsert")
        BY <1>0, <3>1, MetaTypes DEF snapshot_credentials_row, Is, Shifted, AskType
      <4> QED BY <4>1 DEF HoldSteps
    <3>2. CASE ~snapshot_credentials_row(q)
      <4>1. \E a, b \in HoldSteps \ {"consume"} : Is(q, a) /\ Go(q, b)
        BY <1>5, <3>2 DEF _assert_pnid_available, upsert_encrypted_access_token,
           restore_credentials_snapshot, SubscribeFails, BindFault, HoldSteps
      <4> QED BY <1>0, <4>1, GoShifts DEF HoldSteps, AskSteps
    <3> QED BY <3>1, <3>2
  <2> QED BY <1>0, <2>1, <2>2, UsedShift
<1>6. CASE BindUser(q)
  <2>1. CASE Taken(Ask(q).n, Ask(q).t)
    <3>1. Shifted(q, "bind", "restore") /\ UNCHANGED <<binds, inflight, session, overtaken>>
      BY <1>0, <1>6, <2>1, GoShifts DEF BindUser, AskSteps
    <3> QED BY <1>0, <3>1, UsedShift DEF HoldSteps
  <2>2. CASE ~Taken(Ask(q).n, Ask(q).t)
    <3>1. /\ Shifted(q, "bind", "consume") /\ UNCHANGED <<inflight, session, overtaken>>
          /\ binds' = [binds EXCEPT ![Ask(q).s] = @ + 1]
      BY <1>0, <1>6, <2>2, GoShifts DEF BindUser, AskSteps
    <3>2. \A s \in Sessions : binds'[s] = IF s = Ask(q).s THEN binds[s] + 1 ELSE binds[s]
      BY <1>0, <3>1
    <3> QED BY <1>0, <3>1, <3>2 DEF MetaAll, UsedInv, UsedUp, HasLock, Shifted, HoldSteps
  <2> QED BY <2>1, <2>2
<1>7. CASE _mark_consumed(q)
  <2>1. /\ Shifted(q, "consume", "done") /\ UNCHANGED <<inflight, binds, overtaken>>
        /\ session' = [session EXCEPT ![Ask(q).s] = "consumed"]
    BY <1>0, <1>7, GoShifts DEF _mark_consumed, AskSteps
  <2>2. \A s \in Sessions : session'[s] = IF s = Ask(q).s THEN "consumed" ELSE session[s]
    BY <1>0, <2>1
  <2> QED BY <1>0, <2>1, <2>2 DEF MetaAll, UsedInv, UsedUp, HasLock, Shifted, HoldSteps
<1>8. CASE _release_inflight(q)
  <2>1. /\ Shifted(q, "fail", "done") /\ UNCHANGED <<session, binds, overtaken>>
        /\ inflight' = inflight \ {Ask(q).s}
    BY <1>0, <1>8, GoShifts DEF _release_inflight, AskSteps
  <2> QED BY <1>0, <2>1 DEF MetaAll, UsedInv, UsedUp, HasLock, Shifted, HoldSteps
<1>9. CASE RequestDies(q)
  <2>1. /\ UNCHANGED <<session, binds, inflight>> /\ overtaken' = overtaken \cup {Ask(q).s}
        /\ Go(q, "done") /\ Is(q, rq[q].step) /\ rq[q].step \in AskSteps
    BY <1>0, <1>9, MetaTypes DEF RequestDies, Is, AskType
  <2>2. Shifted(q, rq[q].step, "done")
    BY <1>0, <2>1, GoShifts DEF AskSteps
  <2> QED BY <1>0, <2>1, <2>2, UsedShift
<1>10. CASE ConsumeFails(q)
  <2>1. /\ UNCHANGED <<session, binds, inflight>> /\ overtaken' = overtaken \cup {Ask(q).s}
        /\ Shifted(q, "consume", "fail")
    BY <1>0, <1>10, GoShifts DEF ConsumeFails, AskSteps
  <2> QED BY <1>0, <2>1, UsedShift
<1> QED BY <1>1, <1>2, <1>3, <1>4, <1>5, <1>6, <1>7, <1>8, <1>9, <1>10 DEF RequestStep

LEMMA UsedSessions ==
  ASSUME MetaAll, [MetaNext]_metaVars, NEW s \in Sessions,
         start_onboarding_session(s) \/ SessionExpires(s) \/ InflightExpires(s)
  PROVE  UsedInv'
<1>0. \A p : Ask(p)' = Ask(p)
  BY StepLimits DEF MetaAll
<1>1. CASE start_onboarding_session(s) \/ SessionExpires(s)
  <2>1. /\ session[s] # "consumed" /\ UNCHANGED <<binds, inflight, overtaken, rq>>
        /\ \A u \in Sessions \ {s} : session'[u] = session[u]
    BY <1>1 DEF start_onboarding_session, SessionExpires, MetaAll, MetaMore
  <2> QED BY <1>0, <2>1 DEF MetaAll, UsedInv, UsedUp, HasLock
<1>2. CASE InflightExpires(s)
  <2>1. /\ UNCHANGED <<binds, session, rq>> /\ inflight' = inflight \ {s}
           /\ overtaken \subseteq overtaken'
        /\ (\E q \in Requests : Ask(q).s = s /\ Working(q)) => s \in overtaken'
    BY <1>2 DEF InflightExpires
  <2>2. \A q \in Requests : rq[q].step \in HoldSteps \cup {"lock"} => Working(q)
    BY DEF HoldSteps, Working
  <2> QED BY <1>0, <2>1, <2>2 DEF MetaAll, UsedInv, UsedUp, HasLock
<1> QED BY <1>1, <1>2

(* So a session that was paid for is not paid for again.                   *)
LEMMA UsedStep ==
  ASSUME MetaAll, [MetaNext]_metaVars
  PROVE  UsedInv'
<1>1. CASE UNCHANGED <<binds, inflight, session, overtaken, rq>>
  BY <1>1, StepLimits, UsedSame DEF MetaAll
<1>2. CASE \E t \in Tenants : \/ disconnect_meta(t) \/ DisconnectStep(t) \/ DisconnectDies(t)
                        \/ StartSend(t) \/ PostStep(t)
                        \/ \E n \in Numbers \cup {None} : apply_whatsapp_settings_patch(t, n)
  <2>1. UNCHANGED <<binds, inflight, session, overtaken, rq>>
    BY <1>2 DEF disconnect_meta, DisconnectStep, delete_credentials_for_user, DisconnectUser,
       DisconnectDies, apply_whatsapp_settings_patch, StartSend, PostStep,
       get_meta_credentials_for_user, send_text, maybe_mark_meta_auth_death, onboardSide
  <2> QED BY <1>1, <2>1
<1>3. CASE \E k \in DOMAIN issued : TokenEnds(k)
  <2>1. UNCHANGED <<binds, inflight, session, overtaken, rq>>
    BY <1>3 DEF TokenEnds, onboardSide
  <2> QED BY <1>1, <2>1
<1>4. CASE UNCHANGED metaVars
  BY <1>1, <1>4 DEF metaVars
<1> QED BY <1>2, <1>3, <1>4, UsedRequests, UsedSessions DEF MetaNext

(* A tenant's credential *)

(* An account and its token that were let alone fit as before.             *)
LEMMA OrderlyKept ==
  ASSUME NEW t \in Tenants, Orderly(t), \A q : Ask(q)' = Ask(q),
         acct'[t] = acct[t], cred'[t] = cred[t], dc'[t] = dc[t],
         \A q \in Requests : Ask(q).t = t => rq'[q] = rq[q]
  PROVE  Orderly(t)'
  BY DEF Orderly, Settled, Works, Working

(* A tenant whom a step does not concern.                                  *)
Aside(t) == /\ acct'[t] = acct[t] /\ cred'[t] = cred[t] /\ dc'[t] = dc[t]
            /\ \A q \in Requests : Ask(q).t = t => rq'[q] = rq[q]

(* A request that works on a tenant leaves its account and token fitting   *)
(* when it is done, or put back.                                           *)
LEMMA SettledOne ==
  ASSUME MetaAll, \A q : Ask(q)' = Ask(q), crossed \subseteq crossed', NEW u \in Tenants,
         \A t \in Tenants \ {u} : Aside(t),
         u \notin crossed' => Orderly(u)'
  PROVE  SettledInv'
<1> SUFFICES ASSUME NEW t \in Tenants \ crossed' PROVE Orderly(t)'
  BY DEF SettledInv
<1>1. Orderly(t)
  BY DEF MetaAll, SettledInv
<1> QED BY <1>1, OrderlyKept DEF Aside

(* One request, of this tenant, has moved; nothing else is going on.       *)
LEMMA RequestAside ==
  ASSUME MetaAll, NEW q \in Requests, \A p : Ask(p)' = Ask(p),
         RequestStep(q) \/ SubscribeFails(q) \/ BindFault(q) \/ ConsumeFails(q) \/ RequestDies(q)
  PROVE  /\ \A t \in Tenants \ {Ask(q).t} : Aside(t)
         /\ \A r \in Requests \ {q} : rq'[r] = rq[r]
         /\ crossed \subseteq crossed' /\ dc' = dc
<1>1. /\ rq \in [Requests -> AskType] /\ acct \in [Tenants -> AcctType]
         /\ cred \in [Tenants -> CredType]
      /\ Ask(q).t \in Tenants
  BY MetaTypes, RequestTypes DEF MetaAll
<1>2. \A r \in Requests \ {q} : rq'[r] = rq[r]
  BY <1>1 DEF RequestStep, Go,
     complete_onboarding, assert_session_for_user, _acquire_inflight, exchange_authorization_code,
     _assert_pnid_available, snapshot_credentials_row, upsert_encrypted_access_token, BindUser,
     restore_credentials_snapshot, _mark_consumed, _release_inflight, SubscribeFails, BindFault,
     ConsumeFails,
     RequestDies
<1>3. \A t \in Tenants \ {Ask(q).t} : acct'[t] = acct[t]
  BY <1>1 DEF RequestStep,
     complete_onboarding, assert_session_for_user, _acquire_inflight, exchange_authorization_code,
     _assert_pnid_available, snapshot_credentials_row, upsert_encrypted_access_token, BindUser,
     restore_credentials_snapshot, _mark_consumed, _release_inflight, SubscribeFails, BindFault,
     ConsumeFails,
     RequestDies
<1>4. \A t \in Tenants \ {Ask(q).t} : cred'[t] = cred[t]
  BY <1>1 DEF RequestStep,
     complete_onboarding, assert_session_for_user, _acquire_inflight, exchange_authorization_code,
     _assert_pnid_available, snapshot_credentials_row, upsert_encrypted_access_token, BindUser,
     restore_credentials_snapshot, _mark_consumed, _release_inflight, SubscribeFails, BindFault,
     ConsumeFails,
     RequestDies
<1>5. dc' = dc /\ crossed \subseteq crossed'
  BY DEF RequestStep, Crosses,
     complete_onboarding, assert_session_for_user, _acquire_inflight, exchange_authorization_code,
     _assert_pnid_available, snapshot_credentials_row, upsert_encrypted_access_token, BindUser,
     restore_credentials_snapshot, _mark_consumed, _release_inflight, SubscribeFails, BindFault,
     ConsumeFails,
     RequestDies
<1> QED BY <1>2, <1>3, <1>4, <1>5 DEF Aside

(* What Orderly says when a request of the tenant is at work.              *)
LEMMA AtWork ==
  ASSUME MetaAll, NEW q \in Requests, Ask(q).t \notin crossed, Working(q)
  PROVE  /\ dc[Ask(q).t].step = "idle" /\ \A r \in Requests : Works(r, Ask(q).t) => r = q
         /\ rq[q].step \in {"bind", "restore"} => Settled(acct[Ask(q).t], rq[q].old)
         /\ rq[q].step \notin {"bind", "restore"} => Settled(acct[Ask(q).t], cred[Ask(q).t])
         /\ rq[q].step = "bind" => cred[Ask(q).t].bound = Ask(q).n
         /\ rq[q].step = "upsert" => rq[q].old = cred[Ask(q).t]
<1>1. Ask(q).t \in Tenants \ crossed
  BY RequestTypes DEF MetaAll
<1>2. Orderly(Ask(q).t)
  BY <1>1 DEF MetaAll, SettledInv
<1> QED BY <1>2 DEF Orderly, Works

(* What is left to show of a request's step.                               *)
LEMMA StillOrderly ==
  ASSUME MetaAll, NEW q \in Requests, NEW t \in Tenants, Ask(q).t = t, \A p : Ask(p)' = Ask(p),
         \A r \in Requests \ {q} : rq'[r] = rq[r], dc' = dc, dc[t].step = "idle",
         \A r \in Requests : Works(r, t) => r = q,
         IF rq'[q].step \in {"bind", "restore"} THEN Settled(acct'[t], rq'[q].old) ELSE Settled(acct'[t], cred'[t]),
         rq'[q].step = "bind" => cred'[t].bound = Ask(q).n,
         rq'[q].step = "upsert" => rq'[q].old = cred'[t]
  PROVE  Orderly(t)'
<1>1. \A r \in Requests : Works(r, t)' => r = q
  BY DEF Works, Working
<1>2. rq'[q].step \in {"idle", "done"} => Settled(acct'[t], cred'[t])
  OBVIOUS
<1>3. Works(q, t)' <=> rq'[q].step \notin {"idle", "done"}
  BY DEF Works, Working
<1> QED BY <1>1, <1>2, <1>3 DEF Orderly

LEMMA SettledRequests ==
  ASSUME MetaAll, [MetaNext]_metaVars, NEW q \in Requests,
         RequestStep(q) \/ SubscribeFails(q) \/ BindFault(q) \/ ConsumeFails(q) \/ RequestDies(q)
  PROVE  SettledInv'
<1>1. PICK t \in Tenants : t = Ask(q).t
  BY RequestTypes DEF MetaAll
<1>2. /\ \A p : Ask(p)' = Ask(p)
      /\ rq[q] \in AskType /\ rq \in [Requests -> AskType]
      /\ acct \in [Tenants -> AcctType] /\ cred \in [Tenants -> CredType]
  BY StepLimits, MetaTypes DEF MetaAll
<1>3. /\ \A u \in Tenants \ {t} : Aside(u)
      /\ \A r \in Requests \ {q} : rq'[r] = rq[r]
      /\ crossed \subseteq crossed' /\ dc' = dc
  BY <1>1, <1>2, RequestAside
<1> SUFFICES ASSUME t \notin crossed' PROVE Orderly(t)'
  BY <1>2, <1>3, SettledOne
<1>4. t \notin crossed /\ Orderly(t)
  BY <1>3 DEF MetaAll, SettledInv
<1>5. CASE complete_onboarding(q)
  <2>1. ~Changing(t) /\ rq'[q].step = "session" /\ UNCHANGED <<acct, cred>>
    BY <1>1, <1>2, <1>5 DEF complete_onboarding, Crosses, Go, AskType
  <2>2. dc[t].step = "idle" /\ \A r \in Requests : ~Works(r, t)
    BY <2>1, <1>1 DEF Changing, Works, MetaAll, MetaMore, DcType
  <2>3. Settled(acct[t], cred[t])
    BY <2>2, <1>4 DEF Orderly
  <2> QED BY <1>1, <1>2, <1>3, <2>1, <2>2, <2>3, StillOrderly
<1>6. CASE ~complete_onboarding(q)
  <2>1. Working(q)
    BY <1>6 DEF RequestStep, Is, Working, assert_session_for_user, _acquire_inflight,
       exchange_authorization_code, _assert_pnid_available, snapshot_credentials_row,
       upsert_encrypted_access_token, BindUser, restore_credentials_snapshot, _mark_consumed,
       _release_inflight, SubscribeFails, BindFault, ConsumeFails, RequestDies
  <2>2. /\ dc[t].step = "idle" /\ \A r \in Requests : Works(r, t) => r = q
        /\ rq[q].step \in {"bind", "restore"} => Settled(acct[t], rq[q].old)
        /\ rq[q].step \notin {"bind", "restore"} => Settled(acct[t], cred[t])
        /\ rq[q].step = "bind" => cred[t].bound = Ask(q).n
        /\ rq[q].step = "upsert" => rq[q].old = cred[t]
    BY <1>1, <1>4, <2>1, AtWork
  <2>3. ~SubscribeFails(q) /\ ~RequestDies(q)
    BY <1>1 DEF SubscribeFails, RequestDies
  <2>4. CASE \/ assert_session_for_user(q) \/ _acquire_inflight(q) \/ exchange_authorization_code(q)
             \/ _assert_pnid_available(q) \/ _mark_consumed(q) \/ ConsumeFails(q)
             \/ _release_inflight(q)
    <3>1. UNCHANGED <<acct, cred>> /\ rq[q].step \notin {"bind", "restore"}
      BY <2>4 DEF assert_session_for_user, _acquire_inflight, exchange_authorization_code,
         _assert_pnid_available, _mark_consumed, ConsumeFails, _release_inflight, Is
    <3>2. rq'[q].step \notin {"bind", "restore", "upsert"}
      BY <1>2, <2>4 DEF assert_session_for_user, _acquire_inflight, exchange_authorization_code,
         _assert_pnid_available, _mark_consumed, ConsumeFails, _release_inflight, Go, AskType
    <3> QED BY <1>1, <1>2, <1>3, <2>2, <3>1, <3>2, StillOrderly
  <2>5. CASE snapshot_credentials_row(q)
    <3>1. /\ rq[q].step = "snapshot" /\ rq'[q].step = "upsert" /\ rq'[q].old = cred[t]
          /\ UNCHANGED <<acct, cred>>
      BY <1>1, <1>2, <2>5 DEF snapshot_credentials_row, Is, AskType
    <3> QED BY <1>1, <1>2, <1>3, <2>2, <3>1, StillOrderly
  <2>6. CASE upsert_encrypted_access_token(q)
    <3>1. /\ rq[q].step = "upsert" /\ rq'[q].step = "bind" /\ rq'[q].old = rq[q].old
          /\ cred'[t].bound = Ask(q).n /\ acct' = acct
      BY <1>1, <1>2, <2>6 DEF upsert_encrypted_access_token, Is, Go, AskType
    <3> QED BY <1>1, <1>2, <1>3, <2>2, <3>1, StillOrderly
  <2>7. CASE (BindUser(q) /\ Taken(Ask(q).n, Ask(q).t)) \/ BindFault(q)
    <3>1. /\ rq[q].step = "bind" /\ rq'[q].step = "restore" /\ rq'[q].old = rq[q].old
          /\ UNCHANGED <<acct, cred>>
      BY <1>1, <1>2, <2>7 DEF BindUser, BindFault, Is, Go, AskType
    <3> QED BY <1>1, <1>2, <1>3, <2>2, <3>1, StillOrderly
  <2>8. CASE BindUser(q) /\ ~Taken(Ask(q).n, Ask(q).t)
    <3>1. rq[q].step = "bind" /\ rq'[q].step = "consume" /\ cred' = cred
      BY <1>1, <1>2, <2>8 DEF BindUser, Is, Go, AskType
    <3>2. acct'[t].status \in {"connected", "error"} /\ acct'[t].pnid = Ask(q).n
      <4>1. PICK status \in {"connected", "error"} :
              acct' = [acct EXCEPT ![Ask(q).t] = [status |-> status, pnid |-> Ask(q).n]]
        BY <2>8 DEF BindUser
      <4> QED BY <1>1, <1>2, <4>1
    <3>3. Ask(q).n # None
      BY RequestTypes, MetaNumbersAssumption DEF MetaAll
    <3>4. Settled(acct'[t], cred'[t])
      BY <2>2, <3>1, <3>2, <3>3 DEF Settled
    <3> QED BY <1>1, <1>2, <1>3, <2>2, <3>1, <3>4, StillOrderly
  <2>9. CASE restore_credentials_snapshot(q)
    <3>1. /\ rq[q].step = "restore" /\ rq'[q].step = "fail" /\ acct' = acct /\ cred'[t] = rq[q].old
      BY <1>1, <1>2, <2>9 DEF restore_credentials_snapshot, Is, Go, AskType
    <3> QED BY <1>1, <1>2, <1>3, <2>2, <3>1, StillOrderly
  <2> QED BY <1>6, <2>3, <2>4, <2>5, <2>6, <2>7, <2>8, <2>9 DEF RequestStep
<1> QED BY <1>5, <1>6

LEMMA SettledTenants ==
  ASSUME MetaAll, [MetaNext]_metaVars, NEW t \in Tenants,
         \/ disconnect_meta(t) \/ DisconnectStep(t) \/ DisconnectDies(t)
         \/ \E n \in Number : apply_whatsapp_settings_patch(t, n)
  PROVE  SettledInv'
<1>1. /\ \A p : Ask(p)' = Ask(p) /\ rq' = rq
      /\ acct \in [Tenants -> AcctType] /\ cred \in [Tenants -> CredType]
      /\ dc \in [Tenants -> DcType]
  BY StepLimits, MetaTypes DEF MetaAll, MetaMore, disconnect_meta, DisconnectStep,
     delete_credentials_for_user, DisconnectUser, DisconnectDies, apply_whatsapp_settings_patch
<1>2. \A u \in Tenants \ {t} : Aside(u)
  BY <1>1 DEF disconnect_meta, DisconnectStep, delete_credentials_for_user, DisconnectUser,
     DisconnectDies, apply_whatsapp_settings_patch, Aside
<1>3. crossed \subseteq crossed'
  BY DEF disconnect_meta, DisconnectStep, delete_credentials_for_user, DisconnectUser,
     DisconnectDies, apply_whatsapp_settings_patch, Crosses
<1> SUFFICES ASSUME t \notin crossed' PROVE Orderly(t)'
  BY <1>1, <1>2, <1>3, SettledOne
<1>4. t \notin crossed /\ Orderly(t)
  BY <1>3 DEF MetaAll, SettledInv
<1>5. \A r \in Requests : Works(r, t)' <=> Works(r, t)
  BY <1>1 DEF Works, Working
<1>6. CASE disconnect_meta(t)
  <2>1. ~Changing(t) /\ dc'[t].step = "delete" /\ UNCHANGED <<acct, cred>> /\ dc[t].step = "idle"
    BY <1>1, <1>6 DEF disconnect_meta, Crosses
  <2>2. \A r \in Requests : ~Works(r, t)
    BY <2>1 DEF Changing, Works
  <2> QED BY <1>4, <1>5, <2>1, <2>2 DEF Orderly
<1>7. CASE delete_credentials_for_user(t)
  <2>1. dc[t].step = "delete" /\ dc'[t].step = "update" /\ cred'[t] = NoCred
    BY <1>1, <1>7 DEF delete_credentials_for_user, DcType
  <2>2. \A r \in Requests : ~Works(r, t)
    BY <1>4, <2>1 DEF Orderly
  <2> QED BY <1>5, <2>1, <2>2 DEF Orderly
<1>8. CASE DisconnectUser(t)
  <2>1. /\ dc[t].step = "update" /\ dc'[t].step = "idle" /\ cred' = cred
        /\ acct'[t].status = "disconnected"
    BY <1>1, <1>8 DEF DisconnectUser, Idle, AcctType
  <2>2. cred[t] = NoCred /\ \A r \in Requests : ~Works(r, t)
    BY <1>4, <2>1 DEF Orderly
  <2> QED BY <1>5, <2>1, <2>2 DEF Orderly, Settled
<1> QED BY <1>6, <1>7, <1>8 DEF DisconnectStep, DisconnectDies, apply_whatsapp_settings_patch

(* A send writes at most "error" over an account's status.                 *)
LEMMA SettledSends ==
  ASSUME MetaAll, [MetaNext]_metaVars,
         \/ \E t \in Tenants : StartSend(t) \/ PostStep(t)
         \/ \E k \in DOMAIN issued : TokenEnds(k)
         \/ \E s \in Sessions : start_onboarding_session(s) \/ SessionExpires(s) \/ InflightExpires(s)
         \/ UNCHANGED metaVars
  PROVE  SettledInv'
<1>1. \A p : Ask(p)' = Ask(p)
  BY StepLimits DEF MetaAll
<1>2. UNCHANGED <<cred, rq, dc, crossed>>
  BY DEF StartSend, PostStep, get_meta_credentials_for_user, send_text, maybe_mark_meta_auth_death,
     TokenEnds, onboardSide, start_onboarding_session, SessionExpires, InflightExpires, metaVars
<1>3. CASE \E t \in Tenants : maybe_mark_meta_auth_death(t)
  <2>1. PICK t \in Tenants : maybe_mark_meta_auth_death(t)
    BY <1>3
  <2>2. acct'[t].status = "error" /\ \A u \in Tenants \ {t} : acct'[u] = acct[u]
    BY <2>1, MetaTypes DEF MetaAll, maybe_mark_meta_auth_death, AcctType
  <2>3. \A u \in Tenants \ {t} : Aside(u)
    BY <1>2, <2>2 DEF Aside
  <2>4. t \notin crossed' => Orderly(t)'
    <3> SUFFICES ASSUME t \notin crossed PROVE Orderly(t)'
      BY <1>2
    <3>1. Orderly(t)
      BY DEF MetaAll, SettledInv
    <3>2. \A c : Settled(acct'[t], c)
      BY <2>2 DEF Settled
    <3>3. \A r \in Requests : Works(r, t)' <=> Works(r, t)
      BY <1>1, <1>2 DEF Works, Working
    <3> QED BY <1>1, <1>2, <3>1, <3>2, <3>3 DEF Orderly
  <2> QED BY <1>1, <1>2, <2>3, <2>4, SettledOne
<1>4. CASE ~\E t \in Tenants : maybe_mark_meta_auth_death(t)
  <2>1. acct' = acct
    BY <1>4 DEF StartSend, PostStep, get_meta_credentials_for_user, send_text,
       TokenEnds, start_onboarding_session, SessionExpires, InflightExpires, metaVars
  <2>2. \A u \in Tenants : Orderly(u) => Orderly(u)'
    BY <1>1, <1>2, <2>1, OrderlyKept
  <2> QED BY <1>2, <2>2 DEF MetaAll, SettledInv
<1> QED BY <1>3, <1>4

(* So every account stays settled, or somebody is about to settle it.      *)
LEMMA SettledStep ==
  ASSUME MetaAll, [MetaNext]_metaVars
  PROVE  SettledInv'
BY SettledRequests, SettledTenants, SettledSends DEF MetaNext, Number

-----------------------------------------------------------------------------

(* The invariant holds at the start, every step keeps it, and it gives     *)
(* what is promised.                                                       *)
LEMMA MetaAllInit == MetaInit => MetaAll
<1> SUFFICES ASSUME MetaInit PROVE MetaAll
  OBVIOUS
<1>1. MetaInv
  BY MetaInvInit
<1>2. mcase \in MetaCaseTypes
  BY MetaCasesAssumption DEF MetaInit
<1>3. MetaMore
  <2>1. \A t \in Linked : mcase.linked[t] \in Numbers
    BY <1>2 DEF Linked, MetaCaseTypes
  <2>2. issued \in Seq(Tenants \X Numbers)
    <3>1. Cardinality(Linked) \in Nat
      BY MetaTenantsAssumption, FS_Subset, FS_CardinalityType DEF Linked
    <3>2. PICK token \in [Linked -> 1..Cardinality(Linked)] :
            /\ \A t, u \in Linked : t # u => token[t] # token[u]
            /\ issued = [k \in 1..Cardinality(Linked) |->
                 LET t == CHOOSE u \in Linked : token[u] = k IN <<t, mcase.linked[t]>>]
      BY DEF MetaInit
    <3>3. ASSUME NEW k \in 1..Cardinality(Linked) PROVE issued[k] \in Tenants \X Numbers
      <4>1. token \in Injection(Linked, 1..Cardinality(Linked))
        BY <3>2 DEF Injection, IsInjective
      <4>2. IsFiniteSet(1..Cardinality(Linked))
              /\ Cardinality(1..Cardinality(Linked)) = Cardinality(Linked)
        BY <3>1, FS_Interval
      <4>3. token \in Surjection(Linked, 1..Cardinality(Linked))
        BY <4>1, <4>2, FS_Injection
      <4>4. PICK u \in Linked : token[u] = k
        BY <4>3 DEF Surjection
      <4>5. (CHOOSE v \in Linked : token[v] = k) = u
        BY <3>2, <4>4
      <4>6. issued[k] = <<u, mcase.linked[u]>>
        BY <3>2, <4>5
      <4> QED BY <2>1, <4>6 DEF Linked
    <3>4. issued \in [1..Cardinality(Linked) -> Tenants \X Numbers]
      <4> DEFINE F(k) == LET t == CHOOSE u \in Linked : token[u] = k IN <<t, mcase.linked[t]>>
      <4>1. issued = [k \in 1..Cardinality(Linked) |-> F(k)]
        BY <3>2
      <4>2. \A k \in 1..Cardinality(Linked) : F(k) = issued[k]
        BY <4>1
      <4> HIDE DEF F
      <4> QED BY <3>3, <4>1, <4>2
    <3>5. \A n \in Nat : \A S : \A f \in [1..n -> S] : f \in Seq(S)
      OBVIOUS
    <3> QED BY <3>1, <3>4, <3>5
  <2>3. Idle \in DcType
    BY NamesOK DEF Idle, DcType
  <2> QED BY <1>2, <2>2, <2>3 DEF MetaInit, MetaMore, SessionStates
<1>4. UsedInv
  BY DEF MetaInit, UsedInv, UsedUp, HasLock, HoldSteps, NoReq
<1>5. SettledInv
  <2> SUFFICES ASSUME NEW t \in Tenants PROVE Orderly(t)
    BY DEF SettledInv
  <2>1. \A q \in Requests : ~Works(q, t)
    BY DEF MetaInit, Works, Working, NoReq
  <2>2. dc[t].step = "idle"
    BY DEF MetaInit, Idle
  <2>3. Settled(acct[t], cred[t])
    BY DEF MetaInit, Settled, Linked
  <2> QED BY <2>1, <2>2, <2>3 DEF Orderly
<1> QED BY <1>1, <1>3, <1>4, <1>5 DEF MetaAll

LEMMA MetaAllStep ==
  ASSUME MetaAll, [MetaNext]_metaVars
  PROVE  MetaAll'
BY MetaInvStep, MoreStep, UsedStep, SettledStep DEF MetaAll

LEMMA MetaAllKeeps ==
  ASSUME MetaAll
  PROVE  MetaTypeOK /\ SessionUsedOnce /\ ConnectedHasItsToken
<1>1. MetaTypeOK
  <2>1. cred \in [Tenants -> [token : 0..Len(issued), bound : Numbers \cup {None}]]
    <3> SUFFICES ASSUME NEW t \in Tenants PROVE cred[t].token \in 0..Len(issued)
      BY MetaTypes DEF MetaAll, CredType, Number
    <3>1. \A u \in Seq(Tenants \X Numbers) : Len(u) \in Nat /\ DOMAIN u = 1..Len(u)
      OBVIOUS
    <3>2. Len(issued) \in Nat /\ DOMAIN issued = 1..Len(issued)
      BY <3>1 DEF MetaAll, MetaMore
    <3>3. Fits(t, cred[t])
      BY DEF MetaAll, MetaInv, CredInv
    <3> QED BY <3>2, <3>3 DEF Fits, Issued, NoCred
  <2> QED BY <2>1, MetaTypes DEF MetaAll, MetaMore, MetaTypeOK, AcctType, Number, SessionStates
<1>2. SessionUsedOnce
  BY DEF MetaAll, UsedInv, UsedUp, SessionUsedOnce
<1>3. ConnectedHasItsToken
  <2> SUFFICES ASSUME NEW t \in Tenants \ crossed, ~Changing(t) PROVE Settled(acct[t], cred[t])
    BY DEF ConnectedHasItsToken, Settled
  <2>1. Orderly(t) /\ dc[t].step # "update" /\ \A q \in Requests : ~Works(q, t)
    BY DEF MetaAll, SettledInv, Changing, Works
  <2> QED BY <2>1 DEF Orderly
<1> QED BY <1>1, <1>2, <1>3

(* Whatever onboarding requests, disconnections, sends and revoked tokens  *)
(* interleave: a session pays for one exchange of a code                   *)
(* (consume_onboarding_session), and an account that says "connected" has  *)
(* a token bound to its number, unless two of its tenant's requests        *)
(* crossed (upsert_account and store_credential are two writes).           *)
THEOREM MetaKept ==
  MetaInit /\ [][MetaNext]_metaVars =>
    [](MetaTypeOK /\ SentAsItself /\ SessionUsedOnce /\ ConnectedHasItsToken)
<1>1. MetaAll => SentAsItself
  BY DEF MetaAll, MetaInv, PostInv, Issued, SentAsItself
<1>2. MetaAll /\ [MetaNext]_metaVars => MetaAll'
  BY MetaAllStep
<1>3. MetaAll => MetaTypeOK /\ SessionUsedOnce /\ ConnectedHasItsToken
  BY MetaAllKeeps
<1> QED BY <1>1, <1>2, <1>3, MetaAllInit, PTL

-----------------------------------------------------------------------------
(* The AI's texts: where an approval is kept *)

Reviewed == acase.review = "full_review" /\ ~given

AiShapesOK ==
  /\ "review" \in DOMAIN acase /\ {"status", "gen", "approved"} \subseteq DOMAIN camp
  /\ DOMAIN rec = Contacts /\ DOMAIN tx = Contacts /\ DOMAIN sent = Contacts /\ DOMAIN gw = Gens
  /\ \A r \in Contacts : /\ {"status", "gen", "src", "text", "ok", "ver"} \subseteq DOMAIN rec[r]
                         /\ {"step", "read"} \subseteq DOMAIN tx[r]
  /\ \A g \in Gens : {"step", "todo", "approved", "res"} \subseteq DOMAIN gw[g]

(* A document as it is or was: what is marked as approved was seen.        *)
Honest(r, d) == d.ok /\ d.text > 0 => <<r, d.text>> \in seen

(* What a batch or a send has read was so when it was read.                *)
DocsInv  == Reviewed => \A r \in Contacts : Honest(r, rec[r])
GateInv  == Reviewed => \A r \in Contacts :
              /\ tx[r].step \in {"gate", "deliver"} => Honest(r, tx[r].read)
              /\ tx[r].step = "deliver" => tx[r].read.ok
GivenInv == (camp.approved => given) /\ \A g \in Gens : gw[g].approved => given

AiInv == AiShapesOK /\ DocsInv /\ GateInv /\ GivenInv /\ ReviewedFirst

-----------------------------------------------------------------------------
LEMMA AiInvInit == AiInit => AiInv
<1> SUFFICES ASSUME AiInit PROVE AiInv
  OBVIOUS
<1>1. /\ acase \in AiCases /\ camp = [status |-> IF acase.scheduled THEN "scheduled" ELSE "draft",
                                      gen |-> "none", approved |-> FALSE]
      /\ rec = [r \in Contacts |->
           IF r \in acase.gone THEN [NewRec EXCEPT !.status = "skipped"] ELSE NewRec]
      /\ gw = [g \in Gens |-> NoWork] /\ tx = [r \in Contacts |-> NoTx]
      /\ sent = [r \in Contacts |-> NotSent]
  BY DEF AiInit
<1>2. "review" \in DOMAIN acase
  BY <1>1, AiCasesAssumption DEF AiCaseTypes
<1>3. \A r \in Contacts : /\ DOMAIN rec[r] = {"status", "gen", "src", "text", "ok", "ver"}
                          /\ rec[r].ok = FALSE
  BY <1>1 DEF NewRec
<1>4. AiShapesOK
  BY <1>1, <1>2, <1>3 DEF AiShapesOK, NoTx, NoWork
<1>5. DocsInv /\ GateInv /\ GivenInv /\ ReviewedFirst
  BY <1>1, <1>3 DEF DocsInv, Honest, GateInv, GivenInv, ReviewedFirst, NoTx, NoWork, NotSent, NoText
<1> QED BY <1>4, <1>5 DEF AiInv

-----------------------------------------------------------------------------
(* Steps *)

(* The settings are the same through all steps, what was seen stays so,    *)
(* and an approval of everything is not taken back.                        *)
ReviewKept == /\ "review" \in DOMAIN acase' /\ acase'.review = acase.review
        /\ seen \subseteq seen' /\ given' = given

LEMMA SettingsStay ==
  ASSUME AiShapesOK, \/ acase' = acase
                   \/ Spend("acts") \/ Spend("deaths") \/ Spend("turns")
                   \/ acase' = [acase EXCEPT !.twice = @ /\ camp.status = "draft"]
  PROVE  "review" \in DOMAIN acase' /\ acase'.review = acase.review
  BY DEF AiShapesOK, Spend

(* A step after which every document is one that a person saw, or not      *)
(* approved, and that leaves the sends in progress alone.                  *)
LEMMA DocumentsChange ==
  ASSUME AiInv, ReviewKept, UNCHANGED <<tx, sent>>,
         {"status", "gen", "approved"} \subseteq DOMAIN camp', camp'.approved = camp.approved,
         DOMAIN gw' = Gens,
         \A g \in Gens : /\ {"step", "todo", "approved", "res"} \subseteq DOMAIN gw'[g]
                         /\ gw'[g].approved => gw[g].approved \/ camp.approved,
         DOMAIN rec' = Contacts,
         \A r \in Contacts :
           {"status", "gen", "src", "text", "ok", "ver"} \subseteq DOMAIN rec'[r],
         Reviewed => \A r \in Contacts : \/ rec'[r].ok = rec[r].ok /\ rec'[r].text = rec[r].text
                                         \/ ~rec'[r].ok
                                         \/ <<r, rec'[r].text>> \in seen'
  PROVE  AiInv'
<1>1. AiShapesOK'
  BY DEF AiInv, AiShapesOK, ReviewKept
<1>2. Reviewed' = Reviewed
  BY DEF ReviewKept, Reviewed
<1>3. DocsInv'
  BY <1>2 DEF AiInv, DocsInv, Honest, ReviewKept
<1>4. GateInv' /\ ReviewedFirst'
  BY <1>2 DEF AiInv, GateInv, ReviewedFirst, Honest, ReviewKept, Reviewed
<1>5. GivenInv'
  BY DEF AiInv, GivenInv, ReviewKept
<1> QED BY <1>1, <1>3, <1>4, <1>5 DEF AiInv

(* A worker's own step that changes no document.                           *)
LEMMA WorkerMoves ==
  ASSUME AiInv, NEW g \in Gens, UNCHANGED <<rec, tx, sent, seen, given, acase>>,
         {"status", "gen", "approved"} \subseteq DOMAIN camp', camp'.approved = camp.approved,
         \/ gw' = gw \/ gw' = [gw EXCEPT ![g] = NoWork]
         \/ \E s : gw' = [gw EXCEPT ![g].step = s]
         \/ \E d : gw' = [gw EXCEPT ![g].todo = d]
         \/ \E s, d : gw' = [gw EXCEPT ![g].step = s, ![g].res = d]
         \/ \E s, d : gw' = [gw EXCEPT ![g] = [NoWork EXCEPT !.step = s, !.approved = camp.approved,
                                                           !.todo = d]]
  PROVE  AiInv'
<1> DEFINE W == {"step", "todo", "approved", "res"}
<1>1. /\ DOMAIN gw' = Gens
      /\ \A h \in Gens \ {g} : gw'[h] = gw[h]
  BY DEF AiInv, AiShapesOK
<1>2. W \subseteq DOMAIN gw'[g] /\ (gw'[g].approved => gw[g].approved \/ camp.approved)
  <2>1. CASE gw' = gw
    BY <2>1 DEF AiInv, AiShapesOK
  <2>2. CASE gw' = [gw EXCEPT ![g] = NoWork]
    BY <2>2 DEF AiInv, AiShapesOK, NoWork
  <2>3. CASE \E s : gw' = [gw EXCEPT ![g].step = s]
    BY <2>3 DEF AiInv, AiShapesOK
  <2>4. CASE \E d : gw' = [gw EXCEPT ![g].todo = d]
    BY <2>4 DEF AiInv, AiShapesOK
  <2>5. CASE \E s, d : gw' = [gw EXCEPT ![g].step = s, ![g].res = d]
    BY <2>5 DEF AiInv, AiShapesOK
  <2>6. CASE \E s, d : gw' = [gw EXCEPT ![g] = [NoWork EXCEPT !.step = s, !.approved = camp.approved,
                                                           !.todo = d]]
    BY <2>6 DEF AiInv, AiShapesOK, NoWork
  <2> QED BY <2>1, <2>2, <2>3, <2>4, <2>5, <2>6
<1>3. ReviewKept
  BY DEF AiInv, AiShapesOK, ReviewKept
<1> QED BY <1>1, <1>2, <1>3, DocumentsChange DEF AiInv, AiShapesOK

LEMMA WorkerSteps ==
  ASSUME AiInv, NEW g \in Gens,
         \/ TakeBatch(g) \/ ListBatch(g) \/ Generate(g) \/ StopBatch(g) \/ ChainBatch(g)
  PROVE  AiInv'
<1>1. UNCHANGED <<rec, tx, sent, seen, given, acase>>
  BY DEF TakeBatch, ListBatch, Generate, StopBatch, ChainBatch, sendVars, peopleVars
<1>2. {"status", "gen", "approved"} \subseteq DOMAIN camp' /\ camp'.approved = camp.approved
  <2>1. camp' = camp \/ camp' = [camp EXCEPT !.gen = "ready"]
    BY DEF TakeBatch, ListBatch, Generate, StopBatch, ChainBatch
  <2> QED BY <2>1 DEF AiInv, AiShapesOK
<1>3. CASE TakeBatch(g) \/ StopBatch(g) \/ ChainBatch(g)
  BY <1>1, <1>2, <1>3, WorkerMoves DEF TakeBatch, StopBatch, ChainBatch
<1>4. CASE ListBatch(g)
  BY <1>1, <1>2, <1>4, WorkerMoves DEF ListBatch
<1>5. CASE Generate(g)
  BY <1>1, <1>2, <1>5, WorkerMoves DEF Generate
<1> QED BY <1>3, <1>4, <1>5

LEMMA StartJobKeeps ==
  ASSUME AiInv, NEW g \in Gens, start_ai_campaign_job(g)
  PROVE  AiInv'
<1>1. UNCHANGED <<tx, sent, seen, given, acase>>
  BY DEF start_ai_campaign_job, sendVars, peopleVars
<1>2. ReviewKept
  BY <1>1 DEF AiInv, AiShapesOK, ReviewKept
<1>3. CASE UNCHANGED <<camp, rec, gw>>
  BY <1>1, <1>3, WorkerMoves DEF AiInv, AiShapesOK
<1>4. CASE /\ camp' = [camp EXCEPT !.status = "running", !.gen = "generating"]
           /\ rec' = [r \in Contacts |->
                IF rec[r].status = "pending" THEN [rec[r] EXCEPT !.status = "queued"] ELSE rec[r]]
           /\ gw' = [gw EXCEPT ![g].step = "list"]
  <2>1. {"status", "gen", "approved"} \subseteq DOMAIN camp' /\ camp'.approved = camp.approved
    BY <1>4 DEF AiInv, AiShapesOK
  <2>2. /\ DOMAIN gw' = Gens
        /\ \A h \in Gens : /\ {"step", "todo", "approved", "res"} \subseteq DOMAIN gw'[h]
                           /\ gw'[h].approved => gw[h].approved
    BY <1>4 DEF AiInv, AiShapesOK
  <2>3. /\ DOMAIN rec' = Contacts
        /\ \A r \in Contacts :
             /\ {"status", "gen", "src", "text", "ok", "ver"} \subseteq DOMAIN rec'[r]
             /\ rec'[r].ok = rec[r].ok /\ rec'[r].text = rec[r].text
    BY <1>4 DEF AiInv, AiShapesOK
  <2> QED BY <1>1, <1>2, <2>1, <2>2, <2>3, DocumentsChange
<1> QED BY <1>3, <1>4 DEF start_ai_campaign_job

(* What a batch may store, of the document r and f, the result put into it. *)
Storable(new, r, f, auto) ==
  \/ new = [f EXCEPT !.text = Fixed, !.ok = auto]
  \/ new = [f EXCEPT !.text = r.text, !.ok = auto]
  \/ auto /\ new = [f EXCEPT !.ok = TRUE, !.gen = "ready"]
  \/ new = f
  \/ new = [r EXCEPT !.status = "skipped", !.gen = "skipped"]
  \/ new = [f EXCEPT !.src = "template", !.gen = "ready", !.text = Fixed, !.ok = auto]
  \/ new = [f EXCEPT !.status = "skipped"]
  \/ new = [f EXCEPT !.gen = "needs_review"]

LEMMA StoredIs ==
  ASSUME NEW r, NEW f, NEW res, NEW auto \in BOOLEAN
  PROVE  Storable(Stored(r, f, res, auto), r, f, auto)
<1> DEFINE plain == res.src = "template" /\ ~acase.personalise
<1>1. CASE plain /\ HasMessage(r)
  BY <1>1 DEF Stored, Storable
<1>2. CASE plain /\ ~HasMessage(r)
  BY <1>2 DEF Stored, Storable
<1>3. CASE ~plain
  BY <1>3 DEF Stored, Storable
<1> QED BY <1>1, <1>2, <1>3

(* What a batch stores is approved only if everything is.                  *)
LEMMA StoreKeeps ==
  ASSUME AiInv, NEW g \in Gens, StoreResult(g)
  PROVE  AiInv'
<1> DEFINE auto == acase.review = "no_manual_review" \/ gw[g].approved
           F(it) == apply_generation_to_recipient(rec[it.who], it.read, gw[g].res, TRUE)
           New(it) == Stored(rec[it.who], F(it), gw[g].res, auto)
<1>0. UNCHANGED <<camp, tx, sent, seen, given, acase>>
  BY DEF StoreResult, sendVars, peopleVars
<1>p. PICK it \in Foremost(gw[g].todo) :
        /\ rec' = [rec EXCEPT ![it.who] = New(it)]
        /\ gw' = [gw EXCEPT ![g].step = "next", ![g].todo = @ \ {it}, ![g].res = NoResult]
  BY DEF StoreResult
<1> DEFINE f == F(it)
           new == New(it)
<1>1. /\ UNCHANGED <<camp, tx, sent, seen, given, acase>>
      /\ rec' = [rec EXCEPT ![it.who] = new]
      /\ \E d, n : gw' = [gw EXCEPT ![g].step = "next", ![g].todo = d, ![g].res = n]
  BY <1>0, <1>p
<1>2. ReviewKept
  BY <1>1 DEF AiInv, AiShapesOK, ReviewKept
<1>3. /\ DOMAIN gw' = Gens
      /\ \A h \in Gens : /\ {"step", "todo", "approved", "res"} \subseteq DOMAIN gw'[h]
                         /\ gw'[h].approved => gw[h].approved
  BY <1>1 DEF AiInv, AiShapesOK
<1>4. ASSUME it.who \in Contacts
      PROVE  /\ {"status", "gen", "src", "text", "ok", "ver"} \subseteq DOMAIN new
             /\ Reviewed => ~new.ok \/ (new.ok = rec[it.who].ok /\ new.text = rec[it.who].text)
  <2> DEFINE r == rec[it.who]
  <2>1. {"status", "gen", "src", "text", "ok", "ver"} \subseteq DOMAIN r
    BY <1>4 DEF AiInv, AiShapesOK
  <2>2. /\ {"status", "gen", "src", "text", "ok", "ver"} \subseteq DOMAIN f
        /\ f.ok = FALSE
    BY <2>1 DEF apply_generation_to_recipient
  <2>3. Reviewed => ~auto
    BY DEF AiInv, GivenInv, Reviewed
  <2>4. Storable(new, r, f, auto)
    BY StoredIs
  <2> HIDE DEF new, r, f, auto
  <2>5. {"status", "gen", "src", "text", "ok", "ver"} \subseteq DOMAIN new
    BY <2>1, <2>2, <2>4 DEF Storable
  <2>6. Reviewed => ~new.ok \/ (new.ok = r.ok /\ new.text = r.text)
    BY <2>1, <2>2, <2>3, <2>4 DEF Storable
  <2> QED BY <2>5, <2>6 DEF r
<1> HIDE DEF new, f
<1>5. /\ DOMAIN rec' = Contacts
      /\ \A r \in Contacts : rec'[r] = IF r = it.who THEN new ELSE rec[r]
  BY <1>1 DEF AiInv, AiShapesOK
<1>6. \A r \in Contacts :
        /\ {"status", "gen", "src", "text", "ok", "ver"} \subseteq DOMAIN rec'[r]
        /\ Reviewed => ~rec'[r].ok \/ (rec'[r].ok = rec[r].ok /\ rec'[r].text = rec[r].text)
  BY <1>4, <1>5 DEF AiInv, AiShapesOK
<1> QED BY <1>1, <1>2, <1>3, <1>5, <1>6, DocumentsChange DEF AiInv, AiShapesOK

-----------------------------------------------------------------------------
(* Sending *)

(* A step of one recipient's send: the status alone changes.               *)
LEMMA SendMoves ==
  ASSUME AiInv, NEW r \in Contacts, UNCHANGED <<gw, seen, given, acase>>,
         {"status", "gen", "approved"} \subseteq DOMAIN camp', camp'.approved = camp.approved,
         \/ rec' = rec \/ \E s : rec' = [rec EXCEPT ![r].status = s],
         DOMAIN tx' = Contacts, \A q \in Contacts \ {r} : tx'[q] = tx[q],
         {"step", "read"} \subseteq DOMAIN tx'[r],
         Reviewed => /\ tx'[r].step \in {"gate", "deliver"} => Honest(r, tx'[r].read)
                     /\ tx'[r].step = "deliver" => tx'[r].read.ok,
         DOMAIN sent' = Contacts, \A q \in Contacts \ {r} : sent'[q] = sent[q],
         Reviewed => \/ sent'[r].text = sent[r].text \/ ~(sent'[r].text > 0)
                     \/ <<r, sent'[r].text>> \in seen
  PROVE  AiInv'
<1>1. /\ DOMAIN rec' = Contacts
      /\ \A q \in Contacts :
           /\ {"status", "gen", "src", "text", "ok", "ver"} \subseteq DOMAIN rec'[q]
           /\ rec'[q].ok = rec[q].ok /\ rec'[q].text = rec[q].text
  BY DEF AiInv, AiShapesOK
<1>2. AiShapesOK' /\ Reviewed' = Reviewed /\ GivenInv'
  BY <1>1 DEF AiInv, AiShapesOK, Reviewed, GivenInv
<1>3. DocsInv'
  BY <1>1, <1>2 DEF AiInv, DocsInv, Honest
<1>4. GateInv'
  BY <1>2 DEF AiInv, GateInv, Honest
<1>5. ReviewedFirst'
  BY <1>2 DEF AiInv, ReviewedFirst, Reviewed
<1> QED BY <1>2, <1>3, <1>4, <1>5 DEF AiInv

LEMMA CampStatus ==
  ASSUME AiShapesOK, NEW recs, camp' = camp \/ camp' = Status(recs)
  PROVE  {"status", "gen", "approved"} \subseteq DOMAIN camp' /\ camp'.approved = camp.approved
  BY DEF AiShapesOK, Status

LEMMA ClaimKeeps ==
  ASSUME AiInv, NEW r \in Contacts, ClaimSend(r)
  PROVE  AiInv'
<1>1. UNCHANGED <<camp, gw, sent, seen, given, acase>>
  BY DEF ClaimSend, genVars, peopleVars
<1>2. rec' = rec \/ \E s : rec' = [rec EXCEPT ![r].status = s]
  BY DEF ClaimSend
<1>3. \/ tx' = tx
      \/ tx' = [tx EXCEPT ![r] = [step |-> "gate", read |-> rec[r]]]
  BY DEF ClaimSend
<1>4. /\ DOMAIN tx' = Contacts /\ \A q \in Contacts \ {r} : tx'[q] = tx[q]
      /\ {"step", "read"} \subseteq DOMAIN tx'[r]
      /\ tx'[r] = tx[r] \/ (tx'[r].step = "gate" /\ tx'[r].read = rec[r])
  BY <1>3 DEF AiInv, AiShapesOK
<1>5. Reviewed => /\ tx'[r].step \in {"gate", "deliver"} => Honest(r, tx'[r].read)
                  /\ tx'[r].step = "deliver" => tx'[r].read.ok
  BY <1>4 DEF AiInv, GateInv, DocsInv
<1> QED BY <1>1, <1>2, <1>4, <1>5, SendMoves DEF AiInv, AiShapesOK

(* The gate lets nobody pass whose document, as read, is not approved.     *)
LEMMA GateKeeps ==
  ASSUME AiInv, NEW r \in Contacts, Gate(r)
  PROVE  AiInv'
<1>1. UNCHANGED <<gw, sent, seen, given, acase>> /\ tx[r].step = "gate"
  BY DEF Gate, genVars, peopleVars, SendEnds
<1>2. \/ \E s : SendEnds(r, s)
      \/ /\ ~(acase.review = "full_review" /\ ~tx[r].read.ok)
         /\ tx' = [tx EXCEPT ![r].step = "deliver"] /\ UNCHANGED <<rec, camp>>
  BY DEF Gate
<1>3. CASE \E s : SendEnds(r, s)
  <2>1. /\ \E s : rec' = [rec EXCEPT ![r].status = s]
        /\ tx' = [tx EXCEPT ![r] = NoTx] /\ camp' = Status(rec')
    BY <1>3 DEF SendEnds
  <2>2. {"status", "gen", "approved"} \subseteq DOMAIN camp' /\ camp'.approved = camp.approved
    BY <2>1, CampStatus DEF AiInv
  <2>3. /\ DOMAIN tx' = Contacts /\ \A q \in Contacts \ {r} : tx'[q] = tx[q]
        /\ {"step", "read"} \subseteq DOMAIN tx'[r] /\ tx'[r].step = "idle"
    BY <2>1 DEF AiInv, AiShapesOK, NoTx
  <2> QED BY <1>1, <2>1, <2>2, <2>3, SendMoves DEF AiInv, AiShapesOK
<1>4. CASE /\ ~(acase.review = "full_review" /\ ~tx[r].read.ok)
           /\ tx' = [tx EXCEPT ![r].step = "deliver"] /\ UNCHANGED <<rec, camp>>
  <2>1. /\ DOMAIN tx' = Contacts /\ \A q \in Contacts \ {r} : tx'[q] = tx[q]
        /\ {"step", "read"} \subseteq DOMAIN tx'[r]
        /\ tx'[r].step = "deliver" /\ tx'[r].read = tx[r].read
    BY <1>4 DEF AiInv, AiShapesOK
  <2>2. Reviewed => Honest(r, tx[r].read) /\ tx[r].read.ok
    BY <1>1, <1>4 DEF AiInv, GateInv, Reviewed
  <2> QED BY <1>1, <1>4, <2>1, <2>2, SendMoves DEF AiInv, AiShapesOK
<1> QED BY <1>2, <1>3, <1>4

LEMMA DeliverKeeps ==
  ASSUME AiInv, NEW r \in Contacts, DeliverContent(r)
  PROVE  AiInv'
<1>1. UNCHANGED <<gw, seen, given, acase>> /\ tx[r].step = "deliver"
  BY DEF DeliverContent, genVars, peopleVars
<1>2. /\ \E s : rec' = [rec EXCEPT ![r].status = s]
      /\ tx' = [tx EXCEPT ![r] = NoTx] /\ camp' = Status(rec')
      /\ \/ sent' = sent
         \/ \E src, text : /\ sent' = [sent EXCEPT ![r] = [src |-> src, text |-> text]]
                          /\ text \in {tx[r].read.text, Fixed}
  BY DEF DeliverContent, SendEnds
<1>3. {"status", "gen", "approved"} \subseteq DOMAIN camp' /\ camp'.approved = camp.approved
  BY <1>2, CampStatus DEF AiInv
<1>4. /\ DOMAIN tx' = Contacts /\ \A q \in Contacts \ {r} : tx'[q] = tx[q]
      /\ {"step", "read"} \subseteq DOMAIN tx'[r] /\ tx'[r].step = "idle"
  BY <1>2 DEF AiInv, AiShapesOK, NoTx
<1>5. /\ DOMAIN sent' = Contacts /\ \A q \in Contacts \ {r} : sent'[q] = sent[q]
      /\ sent'[r].text \in {sent[r].text, tx[r].read.text, Fixed}
  BY <1>2 DEF AiInv, AiShapesOK
<1>6. Reviewed /\ tx[r].read.text > 0 => <<r, tx[r].read.text>> \in seen
  BY <1>1 DEF AiInv, GateInv, Honest
<1>7. ~(Fixed > 0)
  BY DEF Fixed
<1> QED BY <1>1, <1>2, <1>3, <1>4, <1>5, <1>6, <1>7, SendMoves

-----------------------------------------------------------------------------
(* People *)

(* A step that leaves the workers and sends alone, and of the documents at *)
(* most approves, with the text seen, or takes the approval away.          *)
LEMMA PeopleStep ==
  ASSUME AiInv, ReviewKept, UNCHANGED <<gw, tx, sent>>,
         {"status", "gen", "approved"} \subseteq DOMAIN camp', camp'.approved = camp.approved,
         DOMAIN rec' = Contacts,
         \A r \in Contacts :
           /\ {"status", "gen", "src", "text", "ok", "ver"} \subseteq DOMAIN rec'[r]
           /\ \/ rec'[r].ok = rec[r].ok /\ rec'[r].text = rec[r].text
              \/ ~rec'[r].ok
              \/ <<r, rec'[r].text>> \in seen'
  PROVE  AiInv'
  BY DocumentsChange DEF AiInv, AiShapesOK

LEMMA ApproveAllKeeps ==
  ASSUME AiInv, approve_ai_content
  PROVE  AiInv'
<1>1. /\ UNCHANGED <<gw, tx, sent>> /\ given' = TRUE
      /\ camp' = [camp EXCEPT !.approved = TRUE, !.gen = "ready"]
      /\ \E whose : rec' = [r \in Contacts |->
           IF r \in whose THEN [rec[r] EXCEPT !.ok = TRUE, !.gen = "ready"] ELSE rec[r]]
      /\ Spend("acts")
  BY DEF approve_ai_content, Asks, genVars, sendVars
<1>2. AiShapesOK'
  BY <1>1, SettingsStay DEF AiInv, AiShapesOK
<1>3. DocsInv' /\ GateInv' /\ GivenInv' /\ ReviewedFirst'
  BY <1>1 DEF DocsInv, GateInv, GivenInv, ReviewedFirst, Reviewed
<1> QED BY <1>2, <1>3 DEF AiInv

LEMMA ReviewSteps ==
  ASSUME AiInv, NEW r \in Contacts, approve_recipient_ai(r) \/ reject_recipient_ai(r)
  PROVE  AiInv'
<1>1. /\ UNCHANGED <<camp, gw, tx, sent, given>> /\ Spend("acts") /\ seen \subseteq seen'
  BY DEF approve_recipient_ai, reject_recipient_ai, Asks, genVars, sendVars, peopleVars
<1>2. ReviewKept
  BY <1>1, SettingsStay DEF AiInv, ReviewKept
<1>3. \/ /\ rec' = [rec EXCEPT ![r].ok = TRUE, ![r].gen = "ready"]
         /\ <<r, rec[r].text>> \in seen'
      \/ rec' = [rec EXCEPT ![r].ok = FALSE, ![r].gen = "failed", ![r].text = NoText]
  BY DEF approve_recipient_ai, reject_recipient_ai
<1>4. /\ DOMAIN rec' = Contacts /\ \A q \in Contacts \ {r} : rec'[q] = rec[q]
      /\ {"status", "gen", "src", "text", "ok", "ver"} \subseteq DOMAIN rec'[r]
      /\ ~rec'[r].ok \/ <<r, rec'[r].text>> \in seen'
  BY <1>3 DEF AiInv, AiShapesOK
<1> QED BY <1>1, <1>2, <1>4, PeopleStep DEF AiInv, AiShapesOK

(* A text written anew waits for a new approval.                           *)
LEMMA StoreDeskKeeps ==
  ASSUME AiInv, StoreDesk
  PROVE  AiInv'
<1>1. /\ UNCHANGED <<gw, tx, sent, seen, given, acase>>
      /\ camp' = camp \/ camp' = [camp EXCEPT !.gen = "needs_review"]
      /\ \E g, src, text, ver : rec' = [rec EXCEPT ![desk.r] =
           [@ EXCEPT !.gen = g, !.src = src, !.text = text, !.ok = FALSE, !.ver = ver]]
  BY DEF StoreDesk, apply_generation_to_recipient, genVars, sendVars
<1>2. {"status", "gen", "approved"} \subseteq DOMAIN camp' /\ camp'.approved = camp.approved
  BY <1>1 DEF AiInv, AiShapesOK
<1>3. /\ DOMAIN rec' = Contacts /\ \A q \in Contacts : q # desk.r => rec'[q] = rec[q]
      /\ desk.r \in Contacts =>
           /\ {"status", "gen", "src", "text", "ok", "ver"} \subseteq DOMAIN rec'[desk.r]
           /\ rec'[desk.r].ok = FALSE
  BY <1>1 DEF AiInv, AiShapesOK
<1>4. ReviewKept
  BY <1>1 DEF AiInv, AiShapesOK, ReviewKept
<1>5. \A r \in Contacts :
        /\ {"status", "gen", "src", "text", "ok", "ver"} \subseteq DOMAIN rec'[r]
        /\ rec'[r] = rec[r] \/ ~rec'[r].ok
  BY <1>3 DEF AiInv, AiShapesOK
<1> QED BY <1>1, <1>2, <1>3, <1>4, <1>5, PeopleStep

(* Starting, pausing, resuming, cancelling; leads that change; previews    *)
(* and regenerations that begin.                                           *)
LEMMA OtherSteps ==
  ASSUME AiInv,
         \/ start_campaign \/ process_due_scheduled_campaigns \/ process_campaign_batch
         \/ DeskDies \/ pause_campaign \/ resume_campaign \/ cancel_campaign
         \/ \E r \in Contacts : \/ regenerate_recipient_ai(r) \/ LeadTurns(r)
                               \/ \E again \in BOOLEAN : campaign_ai_preview(r, again)
  PROVE  AiInv'
<1>1. UNCHANGED <<gw, tx, sent, seen, given>>
  BY DEF start_campaign, process_due_scheduled_campaigns, process_campaign_batch, DeskDies,
         pause_campaign, resume_campaign, cancel_campaign, regenerate_recipient_ai, LeadTurns,
         campaign_ai_preview, genVars, sendVars, peopleVars
<1>2. \/ acase' = acase \/ Spend("acts") \/ Spend("deaths") \/ Spend("turns")
      \/ acase' = [acase EXCEPT !.twice = @ /\ camp.status = "draft"]
  BY DEF start_campaign, process_due_scheduled_campaigns, process_campaign_batch, DeskDies,
         pause_campaign, resume_campaign, cancel_campaign, regenerate_recipient_ai, LeadTurns,
         campaign_ai_preview, Asks
<1>3. ReviewKept
  BY <1>1, <1>2, SettingsStay DEF AiInv, ReviewKept
<1>4. {"status", "gen", "approved"} \subseteq DOMAIN camp' /\ camp'.approved = camp.approved
  <2>1. \/ camp' = camp \/ camp' = Status(rec) \/ \E s : camp' = [camp EXCEPT !.status = s]
        \/ \E s : camp' = [camp EXCEPT !.gen = s]
        \/ \E s, t : camp' = [camp EXCEPT !.status = s, !.gen = t]
    <3>1. CASE process_campaign_batch
      <4>1. \E ids : camp' = IF ids = {} /\ camp.gen # "generating" THEN Status(rec) ELSE camp
        BY <3>1 DEF process_campaign_batch
      <4> QED BY <4>1
    <3>2. CASE start_campaign \/ process_due_scheduled_campaigns
      <4>1. \/ camp' = [camp EXCEPT !.status = "queued", !.gen = "pending"]
            \/ camp' = [camp EXCEPT !.status = "queued"]
        BY <3>2 DEF start_campaign, process_due_scheduled_campaigns
      <4> QED BY <4>1
    <3>3. CASE pause_campaign \/ resume_campaign \/ cancel_campaign
      BY <3>3 DEF pause_campaign, resume_campaign, cancel_campaign
    <3>4. ASSUME NEW r \in Contacts, NEW again \in BOOLEAN, campaign_ai_preview(r, again)
          PROVE  camp' = camp \/ camp' = [camp EXCEPT !.gen = "needs_review"]
      BY <3>4 DEF campaign_ai_preview
    <3>5. ASSUME DeskDies \/ \E r \in Contacts : regenerate_recipient_ai(r) \/ LeadTurns(r)
          PROVE  camp' = camp
      BY <3>5 DEF DeskDies, regenerate_recipient_ai, LeadTurns
    <3> QED BY <3>1, <3>2, <3>3, <3>4, <3>5
  <2> QED BY <2>1, CampStatus DEF AiInv, AiShapesOK
<1>5. /\ DOMAIN rec' = Contacts
      /\ \A r \in Contacts :
           /\ {"status", "gen", "src", "text", "ok", "ver"} \subseteq DOMAIN rec'[r]
           /\ rec'[r].ok = rec[r].ok /\ rec'[r].text = rec[r].text
  <2>1. \/ rec' = rec
        \/ \E S, s : rec' = [r \in Contacts |->
             IF rec[r].status \in S THEN [rec[r] EXCEPT !.status = s] ELSE rec[r]]
    <3>1. CASE resume_campaign
      <4>1. rec' = [r \in Contacts |->
              IF rec[r].status \in {"processing"} THEN [rec[r] EXCEPT !.status = "queued"] ELSE rec[r]]
        BY <3>1 DEF resume_campaign
      <4> QED BY <4>1
    <3>2. CASE cancel_campaign
      BY <3>2 DEF cancel_campaign
    <3>3. CASE rec' = rec
      BY <3>3
    <3> QED BY <3>1, <3>2, <3>3 DEF start_campaign, process_due_scheduled_campaigns,
           process_campaign_batch, DeskDies, pause_campaign, regenerate_recipient_ai, LeadTurns,
           campaign_ai_preview
  <2> QED BY <2>1 DEF AiInv, AiShapesOK
<1> QED BY <1>1, <1>3, <1>4, <1>5, PeopleStep

-----------------------------------------------------------------------------
LEMMA AiInvStep == AiInv /\ [AiNext]_aiVars => AiInv'
<1> SUFFICES ASSUME AiInv, [AiNext]_aiVars PROVE AiInv'
  OBVIOUS
<1>1. ASSUME NEW g \in Gens, GenStep(g) \/ GenDies(g) PROVE AiInv'
  <2>1. CASE GenDies(g)
    <3>1. UNCHANGED <<camp, rec, tx, sent, seen, given>> /\ Spend("deaths")
          /\ gw' = [gw EXCEPT ![g] = NoWork]
      BY <2>1 DEF GenDies, sendVars, peopleVars
    <3>2. ReviewKept
      BY <3>1, SettingsStay DEF AiInv, ReviewKept
    <3>3. /\ DOMAIN gw' = Gens
          /\ \A h \in Gens : /\ {"step", "todo", "approved", "res"} \subseteq DOMAIN gw'[h]
                             /\ gw'[h].approved => gw[h].approved
      BY <3>1 DEF AiInv, AiShapesOK, NoWork
    <3> QED BY <3>1, <3>2, <3>3, DocumentsChange DEF AiInv, AiShapesOK
  <2> QED BY <1>1, <2>1, WorkerSteps, StartJobKeeps, StoreKeeps DEF GenStep
<1>2. CASE UNCHANGED aiVars
  BY <1>2, PeopleStep DEF aiVars, AiInv, AiShapesOK, ReviewKept
<1>3. ASSUME NEW r \in Contacts, SendStep(r) PROVE AiInv'
  BY <1>3, ClaimKeeps, GateKeeps, DeliverKeeps DEF SendStep
<1> QED BY <1>1, <1>2, <1>3, ApproveAllKeeps, ReviewSteps, StoreDeskKeeps, OtherSteps DEF AiNext

(* Nobody gets a text of the AI that no person has approved for them, when *)
(* every text is to be reviewed and they were not approved all at once:    *)
(* the gate looks at the document as read when the send was claimed, and   *)
(* everything that writes a text takes the approval away.                  *)
THEOREM NothingUnreviewed == Spec => []ReviewedFirst
<1>1. AiInv => ReviewedFirst
  BY DEF AiInv
<1>2. Init => AiInv
  BY AiInvInit DEF Init
<1>3. AiInv /\ [Next]_vars => AiInv'
  BY AiInvStep, PartsStep
<1> QED BY <1>1, <1>2, <1>3, PTL DEF Spec

-----------------------------------------------------------------------------
(* An AI campaign: types *)

Leads1 == [consent : BOOLEAN, open : BOOLEAN]
Items  == [who : Contacts, read : Recs]
Batch  == [step : {"idle", "list", "next", "write"}, todo : SUBSET Items,
           approved : BOOLEAN, res : Results]
Visits == [op : {"regenerate", "preview", "preview_again"}, r : Contacts, read : Recs, res : Results]
Camps  == [status : {"draft", "scheduled", "queued", "running", "paused"} \cup Terminal,
           gen : {"none", "pending", "generating", "needs_review", "ready"}, approved : BOOLEAN]
Sends1 == [step : {"idle", "gate", "deliver"}, read : Recs]
Texts1 == [src : ContentSources, text : Int]

DocTypes   == rec \in [Contacts -> Recs] /\ lead \in [Contacts -> Leads1] /\ camp \in Camps
SendTypes  == /\ jobs \subseteq Contacts /\ used \subseteq Contacts /\ sends \in BOOLEAN
              /\ tx \in [Contacts -> Sends1] /\ sent \in [Contacts -> Texts1]
GenTypes   == /\ keys \subseteq Contacts \X Nat /\ chain \in [start : Nat, batch : Nat]
              /\ gw \in [Gens -> Batch] /\ texts \in Nat
DeskTypes  == desk \in Visits \cup {NoDesk} /\ seen \subseteq Contacts \X Int

AiTypes == acase \in AiCaseTypes /\ DocTypes /\ SendTypes /\ GenTypes /\ DeskTypes

(* The types of the model follow.                                          *)
LEMMA AiTypesGive == AiTypes => AiTypeOK
<1> SUFFICES ASSUME AiTypes PROVE AiTypeOK
  OBVIOUS
<1>1. camp \in Camps /\ rec \in [Contacts -> Recs] /\ gw \in [Gens -> Batch]
      /\ tx \in [Contacts -> Sends1] /\ sent \in [Contacts -> Texts1]
  BY DEF AiTypes, DocTypes, GenTypes, SendTypes
<1>2. \A g \in Gens : gw[g].step \in {"idle", "list", "next", "write"} /\ gw[g].res \in Results
  BY <1>1 DEF Batch
<1>3. \A r \in Contacts : tx[r].step \in {"idle", "gate", "deliver"} /\ tx[r].read \in Recs
  BY <1>1 DEF Sends1
<1>4. /\ camp.status \in {"draft", "scheduled", "queued", "running", "paused"} \cup Terminal
      /\ camp.gen \in {"none", "pending", "generating", "needs_review", "ready"}
  BY <1>1 DEF Camps
<1> QED BY <1>1, <1>2, <1>3, <1>4 DEF AiTypes, AiTypeOK, SendTypes, GenTypes, DeskTypes, Texts1

LEMMA NothingTyped ==
  /\ NewRec \in Recs /\ NoResult \in Results /\ NoWork \in Batch /\ NoTx \in Sends1
  /\ NotSent \in Texts1
<1>1. NewRec \in Recs
  BY DEF NewRec, Recs, OpenRecs, ContentSources, NoText
<1>2. NoResult \in Results
  BY DEF NoResult, Results, ContentSources, NoText
<1>3. NoWork \in Batch
  BY <1>2 DEF NoWork, Batch
<1>4. NoTx \in Sends1
  BY <1>1 DEF NoTx, Sends1
<1>5. NotSent \in Texts1
  BY DEF NotSent, Texts1, ContentSources, NoText
<1> QED BY <1>1, <1>2, <1>3, <1>4, <1>5

LEMMA AiTypesInit == AiInit => AiTypes
<1> SUFFICES ASSUME AiInit PROVE AiTypes
  OBVIOUS
<1>1. acase \in AiCaseTypes
  BY AiCasesAssumption DEF AiInit
<1>2. DocTypes
  <2>1. camp \in Camps
    BY DEF AiInit, Camps
  <2>2. lead \in [Contacts -> Leads1]
    BY DEF AiInit, Leads1
  <2>3. [NewRec EXCEPT !.status = "skipped"] \in Recs
    BY NothingTyped DEF Recs
  <2>4. rec = [r \in Contacts |->
          IF r \in acase.gone THEN [NewRec EXCEPT !.status = "skipped"] ELSE NewRec]
    BY DEF AiInit
  <2>5. rec \in [Contacts -> Recs]
    BY <2>3, <2>4, NothingTyped
  <2> QED BY <2>1, <2>2, <2>5 DEF DocTypes
<1>3. SendTypes /\ GenTypes /\ DeskTypes
  BY NothingTyped DEF AiInit, SendTypes, GenTypes, DeskTypes
<1> QED BY <1>1, <1>2, <1>3 DEF AiTypes

(* What generate_campaign_content returns, and the number it counts to.  A *)
(* text that failed is no text.                                            *)
Fair(res) == res \in Results /\ (res.ok \/ ~(res.text > 0))

(* No text is none.                                                        *)
LEMMA NoneIsNone == ~(0 > 0)
  OBVIOUS

LEMMA FailType ==
  ASSUME NEW cat \in Answers \cup {"", "consent_blocked", "skipped_closed_window",
                                   "closed_window_missing_template"},
         NEW v, v = Fail(cat) \/ v = [NoResult EXCEPT !.cat = cat]
  PROVE  Fair(v)
<1>1. PICK n \in Results : n = NoResult
  BY NothingTyped
<1>2. n.text = 0
  BY <1>1 DEF NoResult, NoText
<1>3. v = [n EXCEPT !.cat = cat] \/ v = [n EXCEPT !.cat = cat, !.review = TRUE]
  BY <1>1 DEF Fail
<1>4. CASE v = [n EXCEPT !.cat = cat]
  <2>1. v \in Results
    BY ONLY <1>4, n \in Results, cat \in Answers \cup {"", "consent_blocked",
       "skipped_closed_window", "closed_window_missing_template"} DEF Results
  <2>2. v.text = 0
    BY <1>1, <1>2, <1>4 DEF Results
  <2>3. ~(v.text > 0)
    BY <2>2, NoneIsNone
  <2> QED BY <2>1, <2>2, <2>3 DEF Fair
<1>5. CASE v = [n EXCEPT !.cat = cat, !.review = TRUE]
  <2>1. v \in Results
    BY ONLY <1>5, n \in Results, cat \in Answers \cup {"", "consent_blocked",
       "skipped_closed_window", "closed_window_missing_template"} DEF Results
  <2>2. v.text = 0
    BY <1>1, <1>2, <1>5 DEF Results
  <2>3. ~(v.text > 0)
    BY <2>2, NoneIsNone
  <2> QED BY <2>1, <2>2, <2>3 DEF Fair
<1> QED BY <1>3, <1>4, <1>5

LEMMA MadeType ==
  ASSUME NEW src \in ContentSources, NEW t \in Int,
         NEW v, v = Made(src, t) \/ v = Unsure(src, t)
  PROVE  Fair(v)
<1>1. PICK m : m = Made(src, t)
  OBVIOUS
<1>2. m = [NoResult EXCEPT !.ok = TRUE, !.src = src, !.text = t]
  BY <1>1 DEF Made
<1>3. m \in Results /\ m.ok
  BY <1>2, NothingTyped DEF Results
<1>4. v = m \/ v = [m EXCEPT !.review = TRUE]
  BY <1>1 DEF Unsure
<1>5. v \in Results /\ v.ok
  BY <1>3, <1>4 DEF Results
<1> QED BY <1>5 DEF Fair

(* What the AI's answer, and storing it, make of a document.               *)
LEMMA ContentTypes ==
  ASSUME AiTypes, NEW l \in Leads1, NEW res \in generate_campaign_content(l)
  PROVE  Fair(res) /\ Counted(res) \in Nat
<1>1. /\ texts \in Nat /\ acase.answers \subseteq Answers
  BY DEF AiTypes, GenTypes, AiCaseTypes
<1>2. select_content_path(l).reason \in {"ok", "consent_blocked", "skipped_closed_window",
                                          "closed_window_missing_template"}
      /\ (select_content_path(l).path = "ineligible" => select_content_path(l).reason # "ok")
  <2> DEFINE p == select_content_path(l)
  <2>1. \/ p = [path |-> "ineligible", reason |-> "consent_blocked"]
        \/ p = [path |-> "ineligible", reason |-> "skipped_closed_window"]
        \/ p = [path |-> "ineligible", reason |-> "closed_window_missing_template"]
        \/ p = [path |-> "ai_freeform", reason |-> "ok"]
        \/ p = [path |-> "ai_template_variables", reason |-> "ok"]
        \/ p = [path |-> "template", reason |-> "ok"]
    BY DEF select_content_path
  <2> HIDE DEF p
  <2>2. /\ p.reason \in {"ok", "consent_blocked", "skipped_closed_window",
                         "closed_window_missing_template"}
        /\ p.path = "ineligible" => p.reason # "ok"
    BY <2>1
  <2> QED BY <2>2 DEF p
<1>3. texts + 1 \in Int /\ Fixed \in Int /\ Wording \in Int
      /\ {"template", "ai_template_variables", "ai_freeform"} \subseteq ContentSources
  BY <1>1 DEF Fixed, Wording, ContentSources
<1>4. \A a \in Answers : Fair(Fail(a))
  BY FailType DEF Fair
<1>5. \A src \in {"template", "ai_template_variables", "ai_freeform"}, t \in {texts + 1, Fixed, Wording} :
        Fair(Made(src, t)) /\ Fair(Unsure(src, t))
  BY <1>3, MadeType DEF Fair
<1>6. ASSUME NEW x \in FreeformResults PROVE Fair(x)
  <2>1. PICK a \in acase.answers :
          x = CASE a = "good"   -> Made("ai_freeform", texts + 1)
                [] a = "unsure" -> Unsure("ai_freeform", texts + 1)
                [] OTHER        -> Fail(a)
    BY <1>6 DEF FreeformResults
  <2>2. \/ x = Made("ai_freeform", texts + 1) \/ x = Unsure("ai_freeform", texts + 1)
        \/ x = Fail(a)
    BY <2>1
  <2> QED BY <1>1, <1>4, <1>5, <2>2
<1>7. ASSUME NEW x \in VariableResults PROVE Fair(x)
  <2> DEFINE mk   == Made("ai_template_variables", texts + 1)
             S(a) == CASE a = "good"   -> {mk}
                       [] a = "unsure" -> {Unsure("ai_template_variables", texts + 1)}
                       [] OTHER        -> {mk, Fail(a)}
  <2>1. x = Made("template", Fixed) \/ x \in UNION {S(a) : a \in acase.answers}
    BY <1>7 DEF VariableResults
  <2>2. ASSUME NEW a \in acase.answers, x \in S(a)
        PROVE  x = mk \/ x = Unsure("ai_template_variables", texts + 1) \/ x = Fail(a)
    BY <2>2
  <2> HIDE DEF S
  <2> QED BY <1>1, <1>4, <1>5, <2>1, <2>2
<1>8. Fair(res)
  <2> DEFINE p == select_content_path(l)
  <2>1. \/ p.path = "ineligible" /\ res \in {[NoResult EXCEPT !.cat = p.reason]}
        \/ res \in {Made("template", Wording)} \/ res \in {Made("ai_template_variables", Wording)}
        \/ res \in {Fail("bad")} \/ res \in FreeformResults \/ res \in VariableResults
    BY ONLY res \in generate_campaign_content(l) DEF generate_campaign_content
  <2>2. CASE p.path = "ineligible" /\ res \in {[NoResult EXCEPT !.cat = p.reason]}
    <3>1. PICK cat \in Answers \cup {"", "consent_blocked", "skipped_closed_window",
                                    "closed_window_missing_template"} : cat = p.reason
      BY <1>2, <2>2
    <3>2. res = [NoResult EXCEPT !.cat = cat]
      BY <2>2, <3>1
    <3> QED BY <3>2, FailType
  <2>3. "bad" \in Answers
    BY DEF Answers
  <2> HIDE DEF p
  <2> QED BY <1>4, <1>5, <1>6, <1>7, <2>1, <2>2, <2>3
<1>9. Counted(res) \in Nat
  <2>1. res.text \in Int
    BY <1>8 DEF Fair, Results
  <2> QED BY <1>1, <2>1 DEF Counted
<1> QED BY <1>8, <1>9

(* What is put into a document.                                            *)
LEMMA AppliedType ==
  ASSUME NEW r \in Recs, NEW read \in Recs, NEW res \in Results, NEW inc \in BOOLEAN,
         NEW f, f = apply_generation_to_recipient(r, read, res, inc)
  PROVE  /\ f \in Recs /\ f.text = res.text
         /\ f.ver = IF inc THEN read.ver + 1 ELSE IF read.ver = 0 THEN 1 ELSE read.ver
         /\ f.gen \in {"pending", "failed"} => ~res.ok /\ ~res.review
<1> DEFINE g == IF res.review THEN "needs_review" ELSE IF res.ok THEN "ready" ELSE "failed"
           v == IF inc THEN read.ver + 1 ELSE IF read.ver = 0 THEN 1 ELSE read.ver
<1>1. PICK t, x : t = res.text /\ x = res.src /\ t \in Int /\ x \in ContentSources
  BY DEF Results
<1>2. f = [r EXCEPT !.gen = g, !.src = x, !.text = t, !.ok = FALSE, !.ver = v]
  BY <1>1 DEF apply_generation_to_recipient
<1>3. /\ g \in {"failed", "ready", "needs_review"}
      /\ g = "failed" => ~res.ok /\ ~res.review
  BY DEF Results
<1>4. v \in Nat
  BY DEF Recs
<1> HIDE DEF g, v
<1>5. f \in Recs
  BY <1>1, <1>2, <1>3, <1>4 DEF Recs
<1>6. f.text = t /\ f.gen = g /\ f.ver = v
  BY <1>2 DEF Recs
<1> QED BY <1>1, <1>3, <1>5, <1>6 DEF v

LEMMA StoredType ==
  ASSUME NEW r \in Recs, NEW f \in Recs, NEW res, NEW auto \in BOOLEAN
  PROVE  Stored(r, f, res, auto) \in Recs
<1>1. Storable(Stored(r, f, res, auto), r, f, auto)
  BY StoredIs
<1> DEFINE new == Stored(r, f, res, auto)
<1> HIDE DEF new
<1>2. ASSUME NEW d \in Recs, NEW v,
             \/ \E t \in {Fixed, r.text} : v = [d EXCEPT !.text = t, !.ok = auto]
             \/ v = [d EXCEPT !.ok = TRUE, !.gen = "ready"]
             \/ v = [d EXCEPT !.status = "skipped", !.gen = "skipped"]
             \/ v = [d EXCEPT !.status = "skipped"]
             \/ v = [d EXCEPT !.gen = "needs_review"]
      PROVE  v \in Recs
  <2>1. ASSUME NEW t \in {Fixed, r.text}, v = [d EXCEPT !.text = t, !.ok = auto]
        PROVE  v \in Recs
    <3>1. t \in Int
      BY DEF Fixed, Recs
    <3> QED BY ONLY <2>1, <3>1, d \in Recs, auto \in BOOLEAN DEF Recs
  <2>2. CASE v = [d EXCEPT !.ok = TRUE, !.gen = "ready"]
    BY <2>2 DEF Recs
  <2>3. CASE v = [d EXCEPT !.status = "skipped", !.gen = "skipped"]
    BY <2>3 DEF Recs
  <2>4. CASE v = [d EXCEPT !.status = "skipped"] \/ v = [d EXCEPT !.gen = "needs_review"]
    BY <2>4 DEF Recs
  <2> QED BY <1>2, <2>1, <2>2, <2>3, <2>4
<1>3. ASSUME NEW v, v = [f EXCEPT !.src = "template", !.gen = "ready", !.text = Fixed, !.ok = auto]
      PROVE  v \in Recs
  <2>1. Fixed \in Int /\ "template" \in ContentSources
    BY DEF Fixed, ContentSources
  <2> QED BY ONLY <1>3, <2>1, f \in Recs, auto \in BOOLEAN DEF Recs
<1> QED BY <1>1, <1>2, <1>3 DEF new, Storable

(* A bound that is used up leaves the settings alone.                      *)
LEMMA CaseStays ==
  ASSUME AiTypes, \/ acase' = acase
                  \/ Spend("acts") \/ Spend("deaths") \/ Spend("turns")
                  \/ acase' = [acase EXCEPT !.twice = @ /\ camp.status = "draft"]
  PROVE  acase' \in AiCaseTypes
<1>1. acase \in AiCaseTypes /\ acase.acts \in Nat /\ acase.deaths \in Nat /\ acase.turns \in Nat
      /\ acase.twice \in BOOLEAN
  BY DEF AiTypes, AiCaseTypes
<1>2. CASE acase' = acase
  BY <1>1, <1>2
<1>3. CASE Spend("acts")
  <2>1. acase.acts > 0 /\ acase' = [acase EXCEPT !.acts = acase.acts - 1]
    BY <1>3 DEF Spend
  <2>2. acase.acts - 1 \in Nat
    BY <1>1, <2>1
  <2>3. PICK n \in Nat : acase' = [acase EXCEPT !.acts = n]
    BY <2>1, <2>2
  <2> QED BY <1>1, <2>3 DEF AiCaseTypes
<1>4. CASE Spend("deaths")
  <2>1. acase.deaths > 0 /\ acase' = [acase EXCEPT !.deaths = acase.deaths - 1]
    BY <1>4 DEF Spend
  <2>2. acase.deaths - 1 \in Nat
    BY <1>1, <2>1
  <2>3. PICK n \in Nat : acase' = [acase EXCEPT !.deaths = n]
    BY <2>1, <2>2
  <2> QED BY <1>1, <2>3 DEF AiCaseTypes
<1>5. CASE Spend("turns")
  <2>1. acase.turns > 0 /\ acase' = [acase EXCEPT !.turns = acase.turns - 1]
    BY <1>5 DEF Spend
  <2>2. acase.turns - 1 \in Nat
    BY <1>1, <2>1
  <2>3. PICK n \in Nat : acase' = [acase EXCEPT !.turns = n]
    BY <2>1, <2>2
  <2> QED BY <1>1, <2>3 DEF AiCaseTypes
<1>6. CASE acase' = [acase EXCEPT !.twice = @ /\ camp.status = "draft"]
  <2>1. PICK b \in BOOLEAN : acase' = [acase EXCEPT !.twice = b]
    BY <1>1, <1>6
  <2> QED BY <1>1, <2>1 DEF AiCaseTypes
<1> QED BY <1>2, <1>3, <1>4, <1>5, <1>6

(* What happens to the campaign's own record.                              *)
LEMMA CampChanges ==
  ASSUME camp \in Camps,
         NEW s \in {"draft", "scheduled", "queued", "running", "paused"} \cup Terminal,
         NEW t \in {"none", "pending", "generating", "needs_review", "ready"},
         NEW c, \/ c = camp \/ c = [camp EXCEPT !.status = s] \/ c = [camp EXCEPT !.gen = t]
                \/ c = [camp EXCEPT !.status = s, !.gen = t]
                \/ c = [camp EXCEPT !.approved = TRUE, !.gen = t]
  PROVE  c \in Camps
  BY DEF Camps

LEMMA CampCompletes ==
  ASSUME camp \in Camps, NEW recs
  PROVE  Status(recs) \in Camps
<1>1. PICK s \in {"draft", "scheduled", "queued", "running", "paused"} \cup Terminal :
        Status(recs) = [camp EXCEPT !.status = s]
  BY DEF Status, Terminal, Camps
<1> QED BY <1>1, CampChanges

(* A document whose status, or approval, alone changes.                    *)
LEMMA RecChanges ==
  ASSUME NEW d \in Recs, NEW s \in OpenRecs \cup {"sent", "skipped", "failed", "cancelled"}, NEW v,
         \/ v = d \/ v = [d EXCEPT !.status = s]
         \/ v = [d EXCEPT !.ok = TRUE, !.gen = "ready"]
         \/ v = [d EXCEPT !.ok = FALSE, !.gen = "failed", !.text = NoText]
  PROVE  v \in Recs
<1>1. CASE v = [d EXCEPT !.ok = FALSE, !.gen = "failed", !.text = NoText]
  <2>1. NoText \in Int
    BY DEF NoText
  <2> QED BY <1>1, <2>1 DEF Recs
<1>2. CASE v = [d EXCEPT !.status = s]
  BY <1>2 DEF Recs
<1>3. CASE v = [d EXCEPT !.ok = TRUE, !.gen = "ready"]
  BY <1>3 DEF Recs
<1> QED BY <1>1, <1>2, <1>3

(* All documents at once: those of some have another status.               *)
LEMMA RecsChange ==
  ASSUME rec \in [Contacts -> Recs],
         NEW s \in OpenRecs \cup {"sent", "skipped", "failed", "cancelled"},
         NEW S, rec' = [r \in Contacts |->
                          IF rec[r].status \in S THEN [rec[r] EXCEPT !.status = s] ELSE rec[r]]
  PROVE  rec' \in [Contacts -> Recs]
  BY RecChanges

-----------------------------------------------------------------------------
(* The steps of the engine and of the workers keep the types *)

LEMMA StartTypes ==
  ASSUME AiTypes, start_campaign \/ process_due_scheduled_campaigns
  PROVE  AiTypes'
<1>1. /\ camp \in Camps /\ chain \in [start : Nat, batch : Nat]
      /\ UNCHANGED <<rec, lead, keys, gw, texts, redone, sends, jobs, tx, used, sent, desk, seen>>
  BY DEF AiTypes, DocTypes, GenTypes, start_campaign, process_due_scheduled_campaigns, genVars,
     sendVars, peopleVars
<1>2. acase' \in AiCaseTypes
  BY CaseStays DEF start_campaign, process_due_scheduled_campaigns
<1>3. camp' \in Camps
  BY <1>1, CampChanges DEF start_campaign, process_due_scheduled_campaigns
<1>4. chain' \in [start : Nat, batch : Nat]
  BY <1>1 DEF start_campaign, process_due_scheduled_campaigns
<1> QED BY <1>1, <1>2, <1>3, <1>4 DEF AiTypes, DocTypes, SendTypes, GenTypes, DeskTypes

LEMMA JobTypes ==
  ASSUME AiTypes, NEW g \in Gens, start_ai_campaign_job(g)
  PROVE  AiTypes'
<1>1. /\ camp \in Camps /\ chain \in [start : Nat, batch : Nat] /\ rec \in [Contacts -> Recs]
      /\ gw \in [Gens -> Batch]
      /\ UNCHANGED <<lead, keys, texts, redone, sends, jobs, tx, used, sent, desk, seen, acase>>
  BY DEF AiTypes, DocTypes, GenTypes, start_ai_campaign_job, sendVars, peopleVars
<1>2. camp' \in Camps
  BY <1>1, CampChanges DEF start_ai_campaign_job
<1>3. chain' \in [start : Nat, batch : Nat]
  <2>1. chain.start > 0 /\ chain' = [chain EXCEPT !.start = chain.start - 1]
    BY DEF start_ai_campaign_job
  <2>2. chain.start - 1 \in Nat
    BY <1>1, <2>1
  <2> QED BY <1>1, <2>1, <2>2
<1>4. rec' \in [Contacts -> Recs]
  <2>1. CASE rec' = [r \in Contacts |->
          IF rec[r].status \in {"pending"} THEN [rec[r] EXCEPT !.status = "queued"] ELSE rec[r]]
    <3>1. "queued" \in OpenRecs \cup {"sent", "skipped", "failed", "cancelled"}
      BY DEF OpenRecs
    <3> QED BY <1>1, <2>1, <3>1, RecsChange
  <2>2. rec' = rec \/ rec' = [r \in Contacts |->
          IF rec[r].status = "pending" THEN [rec[r] EXCEPT !.status = "queued"] ELSE rec[r]]
    BY DEF start_ai_campaign_job
  <2>3. \A r \in Contacts : rec[r].status = "pending" <=> rec[r].status \in {"pending"}
    OBVIOUS
  <2> QED BY <1>1, <2>1, <2>2, <2>3
<1>5. gw' \in [Gens -> Batch]
  BY <1>1 DEF start_ai_campaign_job, Batch
<1> QED BY <1>1, <1>2, <1>3, <1>4, <1>5 DEF AiTypes, DocTypes, SendTypes, GenTypes, DeskTypes

(* A batch's own step.                                                     *)
LEMMA BatchTypes ==
  ASSUME AiTypes, NEW g \in Gens,
         TakeBatch(g) \/ ListBatch(g) \/ StopBatch(g) \/ ChainBatch(g) \/ GenDies(g)
  PROVE  AiTypes'
<1>1. /\ camp \in Camps /\ chain \in [start : Nat, batch : Nat] /\ rec \in [Contacts -> Recs]
      /\ gw \in [Gens -> Batch] /\ sends \in BOOLEAN
      /\ UNCHANGED <<rec, lead, keys, texts, redone, jobs, tx, used, sent, desk, seen>>
  BY DEF AiTypes, DocTypes, GenTypes, SendTypes, TakeBatch, ListBatch, StopBatch, ChainBatch, GenDies,
     sendVars, peopleVars
<1>2. acase' \in AiCaseTypes
  BY CaseStays DEF TakeBatch, ListBatch, StopBatch, ChainBatch, GenDies
<1>3. camp' \in Camps
  <2>1. camp' = camp \/ camp' = [camp EXCEPT !.gen = "ready"]
    BY DEF TakeBatch, ListBatch, StopBatch, ChainBatch, GenDies
  <2> QED BY <1>1, <2>1, CampChanges
<1>4. chain' \in [start : Nat, batch : Nat]
  <2>1. chain' = chain \/ \E n \in Nat : chain' = [chain EXCEPT !.batch = n]
    BY <1>1 DEF TakeBatch, ListBatch, StopBatch, ChainBatch, GenDies
  <2> QED BY <1>1, <2>1
<1>5. sends' \in BOOLEAN
  BY <1>1 DEF TakeBatch, ListBatch, StopBatch, ChainBatch, GenDies, sendVars
<1>6. gw' \in [Gens -> Batch]
  <2>1. CASE gw' = [gw EXCEPT ![g] = NoWork]
    BY <1>1, <2>1, NothingTyped
  <2>2. CASE gw' = [gw EXCEPT ![g].step = "list"]
    BY <1>1, <2>2 DEF Batch
  <2>3. CASE ListBatch(g) /\ gw' # [gw EXCEPT ![g] = NoWork]
    <3> DEFINE T == {[who |-> r, read |-> rec[r]] : r \in FirstFew(Undecided)}
    <3>1. gw' = [gw EXCEPT ![g] = [NoWork EXCEPT !.step = "next", !.approved = camp.approved, !.todo = T]]
      BY <2>3 DEF ListBatch
    <3>2. T \subseteq Items
      <4>1. FirstFew(Undecided) \subseteq Contacts
        BY DEF FirstFew, Undecided
      <4> QED BY <1>1, <4>1 DEF Items
    <3> HIDE DEF T
    <3>3. PICK w, b : /\ w = [NoWork EXCEPT !.step = "next", !.approved = b, !.todo = T]
                      /\ b = camp.approved /\ b \in BOOLEAN
      BY <1>1 DEF Camps
    <3>4. w \in Batch
      BY <3>2, <3>3, NothingTyped DEF Batch
    <3> QED BY <1>1, <3>1, <3>3, <3>4
  <2> QED BY <2>1, <2>2, <2>3 DEF TakeBatch, StopBatch, ChainBatch, GenDies
<1> QED BY <1>1, <1>2, <1>3, <1>4, <1>5, <1>6 DEF AiTypes, DocTypes, SendTypes, GenTypes, DeskTypes

LEMMA GenerateTypes ==
  ASSUME AiTypes, NEW g \in Gens, Generate(g)
  PROVE  AiTypes'
<1>1. /\ lead \in [Contacts -> Leads1] /\ gw \in [Gens -> Batch] /\ keys \subseteq Contacts \X Nat
      /\ texts \in Nat
      /\ UNCHANGED <<camp, rec, lead, chain, redone, sends, jobs, tx, used, sent, desk, seen, acase>>
  BY DEF AiTypes, DocTypes, GenTypes, Generate, sendVars, peopleVars
<1>2. PICK it \in Foremost(gw[g].todo) :
        \/ gw' = [gw EXCEPT ![g].todo = @ \ {it}] /\ UNCHANGED <<keys, texts>>
        \/ /\ keys' = keys \cup {<<it.who, it.read.ver + 1>>}
           /\ \E res \in generate_campaign_content(lead[it.who]) :
                /\ gw' = [gw EXCEPT ![g].step = "write", ![g].res = res]
                /\ texts' = Counted(res)
  BY DEF Generate
<1>3. it \in Items /\ it.who \in Contacts /\ it.read.ver \in Nat
  BY <1>1 DEF Foremost, Batch, Items, Recs
<1>4. gw' \in [Gens -> Batch] /\ keys' \subseteq Contacts \X Nat /\ texts' \in Nat
  <2>1. CASE gw' = [gw EXCEPT ![g].todo = @ \ {it}] /\ UNCHANGED <<keys, texts>>
    BY <1>1, <2>1 DEF Batch
  <2>2. ASSUME NEW res \in generate_campaign_content(lead[it.who]), texts' = Counted(res),
               gw' = [gw EXCEPT ![g].step = "write", ![g].res = res],
               keys' = keys \cup {<<it.who, it.read.ver + 1>>}
        PROVE  gw' \in [Gens -> Batch] /\ keys' \subseteq Contacts \X Nat /\ texts' \in Nat
    <3>1. PICK l \in Leads1 : l = lead[it.who]
      BY <1>1, <1>3
    <3>2. res \in generate_campaign_content(l)
      BY <2>2, <3>1
    <3>3. Fair(res) /\ Counted(res) \in Nat
      BY <3>2, ContentTypes
    <3>4. res \in Results
      BY <3>3 DEF Fair
    <3>5. gw' \in [Gens -> Batch]
      BY <1>1, <2>2, <3>4 DEF Batch
    <3> QED BY <1>1, <1>3, <2>2, <3>3, <3>5
  <2> QED BY <1>2, <2>1, <2>2
<1> QED BY <1>1, <1>4 DEF AiTypes, DocTypes, SendTypes, GenTypes, DeskTypes

LEMMA StoreTypes ==
  ASSUME AiTypes, NEW g \in Gens, StoreResult(g)
  PROVE  AiTypes'
<1>1. /\ rec \in [Contacts -> Recs] /\ gw \in [Gens -> Batch]
      /\ UNCHANGED <<camp, lead, keys, chain, texts, redone, sends, jobs, tx, used, sent, desk, seen, acase>>
  BY DEF AiTypes, DocTypes, GenTypes, StoreResult, sendVars, peopleVars
<1> DEFINE auto == acase.review = "no_manual_review" \/ gw[g].approved
           F(it) == apply_generation_to_recipient(rec[it.who], it.read, gw[g].res, TRUE)
<1>2. PICK it \in Foremost(gw[g].todo) :
        /\ rec' = [rec EXCEPT ![it.who] = Stored(rec[it.who], F(it), gw[g].res, auto)]
        /\ gw' = [gw EXCEPT ![g].step = "next", ![g].todo = @ \ {it}, ![g].res = NoResult]
  BY DEF StoreResult
<1>3. it \in Items /\ it.who \in Contacts /\ it.read \in Recs
  BY <1>1 DEF Foremost, Batch, Items
<1>4. gw[g].res \in Results /\ auto \in BOOLEAN /\ rec[it.who] \in Recs
  BY <1>1, <1>3 DEF Batch
<1>5. PICK f : f = F(it)
  OBVIOUS
<1>6. f \in Recs
  BY <1>3, <1>4, <1>5, AppliedType
<1>7. Stored(rec[it.who], f, gw[g].res, auto) \in Recs
  BY <1>4, <1>6, StoredType
<1>8. rec' \in [Contacts -> Recs]
  BY <1>1, <1>2, <1>5, <1>7
<1>9. gw' \in [Gens -> Batch]
  BY <1>1, <1>2, NothingTyped DEF Batch
<1> QED BY <1>1, <1>8, <1>9 DEF AiTypes, DocTypes, SendTypes, GenTypes, DeskTypes

Statuses1 == OpenRecs \cup {"sent", "skipped", "failed", "cancelled"}

LEMMA BatchOfSendsTypes ==
  ASSUME AiTypes, process_campaign_batch
  PROVE  AiTypes'
<1>1. /\ camp \in Camps /\ jobs \subseteq Contacts
      /\ UNCHANGED <<rec, lead, keys, chain, gw, texts, redone, tx, used, sent, desk, seen, acase>>
  BY DEF AiTypes, DocTypes, SendTypes, process_campaign_batch, genVars, peopleVars
<1>2. PICK ids : /\ ids \subseteq Contacts
                 /\ jobs' = IF camp.status = "running" THEN jobs \cup ids ELSE jobs
                 /\ sends' \in BOOLEAN
                 /\ camp' = camp \/ camp' = Status(rec)
  <2> DEFINE due == FirstFew({r \in Contacts : rec[r].status \in {"queued", "retrying"}})
             ids == {r \in due : Sendable(r)}
             more == {r \in Contacts \ ids : rec[r].status \in {"queued", "retrying", "pending"}}
  <2>1. /\ jobs' = IF camp.status = "running" THEN jobs \cup ids ELSE jobs
        /\ sends' = (camp.status = "running" /\ IF ids = {} THEN camp.gen = "generating" ELSE more # {})
        /\ camp' = IF ids = {} /\ camp.gen # "generating" THEN Status(rec) ELSE camp
    BY DEF process_campaign_batch
  <2>2. ids \subseteq Contacts
    BY DEF FirstFew
  <2> HIDE DEF ids, more
  <2>3. sends' \in BOOLEAN /\ (camp' = camp \/ camp' = Status(rec))
    BY <2>1
  <2> QED BY <2>1, <2>2, <2>3
<1>3. camp' \in Camps
  BY <1>1, <1>2, CampCompletes
<1> QED BY <1>1, <1>2, <1>3 DEF AiTypes, DocTypes, SendTypes, GenTypes, DeskTypes

(* One recipient's send: the status of the document alone changes.         *)
LEMMA SendTypesStay ==
  ASSUME AiTypes, NEW r \in Contacts, SendStep(r)
  PROVE  AiTypes'
<1>1. /\ camp \in Camps /\ jobs \subseteq Contacts /\ used \subseteq Contacts
      /\ rec \in [Contacts -> Recs] /\ tx \in [Contacts -> Sends1] /\ sent \in [Contacts -> Texts1]
      /\ UNCHANGED <<lead, keys, chain, gw, texts, redone, sends, desk, seen, acase>>
  BY DEF AiTypes, DocTypes, SendTypes, SendStep, ClaimSend, Gate, DeliverContent, genVars, peopleVars
<1>2. camp' \in Camps
  <2>1. camp' = camp \/ \E recs : camp' = Status(recs)
    BY DEF SendStep, ClaimSend, Gate, DeliverContent, SendEnds
  <2> QED BY <1>1, <2>1, CampCompletes
<1>3. jobs' \subseteq Contacts /\ used' \subseteq Contacts
  BY <1>1 DEF SendStep, ClaimSend, Gate, DeliverContent
<1>4. rec' \in [Contacts -> Recs]
  <2>1. rec' = rec \/ \E s \in Statuses1 : rec' = [rec EXCEPT ![r].status = s]
    <3>1. rec[r].status \in Statuses1
      BY <1>1 DEF Recs, Statuses1
    <3>2. {"processing", "cancelled", "skipped", "failed", "retrying", "sent"} \subseteq Statuses1
      BY DEF Statuses1, OpenRecs
    <3>3. CASE ClaimSend(r)
      <4>1. \/ rec' = rec \/ rec' = [rec EXCEPT ![r].status = "processing"]
            \/ rec' = [rec EXCEPT ![r].status = "cancelled"]
            \/ rec' = [rec EXCEPT ![r].status = rec[r].status]
        BY <3>3 DEF ClaimSend
      <4> QED BY <3>1, <3>2, <4>1
    <3>4. CASE Gate(r)
      BY <3>2, <3>4 DEF Gate, SendEnds
    <3>5. CASE DeliverContent(r)
      <4>1. \E s \in {"skipped", "cancelled", "retrying", "failed", "sent", rec[r].status} :
              rec' = [rec EXCEPT ![r].status = s]
        BY <3>5 DEF DeliverContent, SendEnds
      <4> QED BY <3>1, <3>2, <4>1
    <3> QED BY <3>3, <3>4, <3>5 DEF SendStep
  <2>2. ASSUME NEW s \in Statuses1 PROVE [rec[r] EXCEPT !.status = s] \in Recs
    BY <1>1, RecChanges DEF Statuses1
  <2> QED BY <1>1, <2>1, <2>2
<1>5. tx' \in [Contacts -> Sends1]
  <2>1. \/ tx' = tx \/ tx' = [tx EXCEPT ![r] = [step |-> "gate", read |-> rec[r]]]
        \/ tx' = [tx EXCEPT ![r] = NoTx] \/ tx' = [tx EXCEPT ![r].step = "deliver"]
    BY DEF SendStep, ClaimSend, Gate, DeliverContent, SendEnds
  <2> QED BY <1>1, <2>1, NothingTyped DEF Sends1
<1>6. sent' \in [Contacts -> Texts1]
  <2>1. \/ sent' = sent
        \/ \E src \in {"ai_freeform", "template"}, text \in {tx[r].read.text, Fixed} :
             sent' = [sent EXCEPT ![r] = [src |-> src, text |-> text]]
    BY DEF SendStep, ClaimSend, Gate, DeliverContent, SendEnds
  <2>2. tx[r].read.text \in Int /\ Fixed \in Int /\ {"ai_freeform", "template"} \subseteq ContentSources
    BY <1>1 DEF Sends1, Recs, Fixed, ContentSources
  <2> QED BY <1>1, <2>1, <2>2 DEF Texts1
<1> QED BY <1>1, <1>2, <1>3, <1>4, <1>5, <1>6 DEF AiTypes, DocTypes, SendTypes, GenTypes, DeskTypes

-----------------------------------------------------------------------------
(* So do those of the people *)

LEMMA ReviewTypes ==
  ASSUME AiTypes, NEW r \in Contacts, approve_recipient_ai(r) \/ reject_recipient_ai(r)
  PROVE  AiTypes'
<1>1. /\ rec \in [Contacts -> Recs] /\ seen \subseteq Contacts \X Int
      /\ UNCHANGED <<camp, lead, keys, chain, gw, texts, redone, sends, jobs, tx, used, sent, desk>>
  BY DEF AiTypes, DocTypes, DeskTypes, approve_recipient_ai, reject_recipient_ai, genVars, sendVars,
       peopleVars
<1>2. acase' \in AiCaseTypes
  BY CaseStays DEF approve_recipient_ai, reject_recipient_ai, Asks
<1>3. PICK v \in Recs : rec' = [rec EXCEPT ![r] = v]
  <2>1. PICK v : /\ rec' = [rec EXCEPT ![r] = v]
                 /\ \/ v = [rec[r] EXCEPT !.ok = TRUE, !.gen = "ready"]
                    \/ v = [rec[r] EXCEPT !.ok = FALSE, !.gen = "failed", !.text = NoText]
    BY DEF approve_recipient_ai, reject_recipient_ai
  <2>2. "pending" \in OpenRecs
    BY DEF OpenRecs
  <2> QED BY <1>1, <2>1, <2>2, RecChanges
<1>4. seen' \subseteq Contacts \X Int
  <2>1. rec[r].text \in Int
    BY <1>1 DEF Recs
  <2>2. seen' = seen \/ seen' = seen \cup {<<r, rec[r].text>>}
    BY DEF approve_recipient_ai, reject_recipient_ai, peopleVars
  <2> QED BY <1>1, <2>1, <2>2
<1> QED BY <1>1, <1>2, <1>3, <1>4 DEF AiTypes, DocTypes, SendTypes, GenTypes, DeskTypes

LEMMA ApproveAllTypes ==
  ASSUME AiTypes, approve_ai_content
  PROVE  AiTypes'
<1>1. /\ camp \in Camps /\ rec \in [Contacts -> Recs] /\ seen \subseteq Contacts \X Int
      /\ UNCHANGED <<lead, keys, chain, gw, texts, redone, sends, jobs, tx, used, sent, desk>>
  BY DEF AiTypes, DocTypes, DeskTypes, approve_ai_content, genVars, sendVars
<1>2. acase' \in AiCaseTypes
  BY CaseStays DEF approve_ai_content, Asks
<1>3. PICK whose : /\ whose \subseteq Contacts
                   /\ rec' = [r \in Contacts |->
                        IF r \in whose THEN [rec[r] EXCEPT !.ok = TRUE, !.gen = "ready"] ELSE rec[r]]
                   /\ camp' = [camp EXCEPT !.approved = TRUE, !.gen = "ready"]
                   /\ seen' = seen \cup {<<r, rec[r].text>> : r \in whose}
  <2> DEFINE whose == {r \in Contacts : /\ rec[r].gen \in {"ready", "needs_review"}
                                        /\ rec[r].status \in {"pending", "queued"}}
  <2>1. whose \subseteq Contacts
    OBVIOUS
  <2>2. /\ rec' = [r \in Contacts |->
             IF r \in whose THEN [rec[r] EXCEPT !.ok = TRUE, !.gen = "ready"] ELSE rec[r]]
        /\ camp' = [camp EXCEPT !.approved = TRUE, !.gen = "ready"]
        /\ seen' = seen \cup {<<r, rec[r].text>> : r \in whose}
    BY DEF approve_ai_content
  <2> HIDE DEF whose
  <2> QED BY <2>1, <2>2
<1>4. rec' \in [Contacts -> Recs]
  <2>1. "pending" \in OpenRecs
    BY DEF OpenRecs
  <2>2. \A r \in Contacts : [rec[r] EXCEPT !.ok = TRUE, !.gen = "ready"] \in Recs
    BY <1>1, <2>1, RecChanges
  <2> QED BY <1>1, <1>3, <2>2
<1>5. camp' \in Camps
  <2>1. "draft" \in {"draft", "scheduled", "queued", "running", "paused"} \cup Terminal
    OBVIOUS
  <2> QED BY <1>1, <1>3, <2>1, CampChanges
<1>6. seen' \subseteq Contacts \X Int
  <2>1. \A r \in Contacts : rec[r].text \in Int
    BY <1>1 DEF Recs
  <2>2. {<<r, rec[r].text>> : r \in whose} \subseteq Contacts \X Int
    <3> SUFFICES ASSUME NEW r \in whose PROVE <<r, rec[r].text>> \in Contacts \X Int
      OBVIOUS
    <3> QED BY <1>3, <2>1
  <2> QED BY <1>1, <1>3, <2>2
<1> QED BY <1>1, <1>2, <1>4, <1>5, <1>6 DEF AiTypes, DocTypes, SendTypes, GenTypes, DeskTypes

LEMMA AskTypes ==
  ASSUME AiTypes, NEW r \in Contacts,
         regenerate_recipient_ai(r) \/ \E again \in BOOLEAN : campaign_ai_preview(r, again)
  PROVE  AiTypes'
<1>1. /\ camp \in Camps /\ lead \in [Contacts -> Leads1] /\ rec \in [Contacts -> Recs]
      /\ keys \subseteq Contacts \X Nat /\ texts \in Nat /\ desk \in Visits \cup {NoDesk}
      /\ UNCHANGED <<rec, lead, chain, gw, sends, jobs, tx, used, sent, seen>>
  BY DEF AiTypes, DocTypes, GenTypes, DeskTypes, regenerate_recipient_ai, campaign_ai_preview, genVars,
     sendVars, peopleVars
<1>2. acase' \in AiCaseTypes
  BY CaseStays DEF regenerate_recipient_ai, campaign_ai_preview, Asks
<1>3. camp' \in Camps
  <2>1. camp' = camp \/ camp' = [camp EXCEPT !.gen = "needs_review"]
    BY DEF regenerate_recipient_ai, campaign_ai_preview
  <2>2. "draft" \in {"draft", "scheduled", "queued", "running", "paused"} \cup Terminal
    OBVIOUS
  <2> QED BY <1>1, <2>1, <2>2, CampChanges
<1>4. keys' \subseteq Contacts \X Nat
  <2>1. rec[r].ver \in Nat
    BY <1>1 DEF Recs
  <2>2. keys' = keys \/ \E n \in Nat : keys' = keys \cup {<<r, n>>}
    <3>1. CASE regenerate_recipient_ai(r)
      BY <3>1 DEF regenerate_recipient_ai
    <3>2. ASSUME NEW again \in BOOLEAN, campaign_ai_preview(r, again)
          PROVE  keys' = keys \/ \E n \in Nat : keys' = keys \cup {<<r, n>>}
      <4> DEFINE ver == IF again THEN rec[r].ver + 1 ELSE IF rec[r].ver = 0 THEN 1 ELSE rec[r].ver
      <4>1. keys' = keys \/ keys' = keys \cup {<<r, ver>>}
        BY <3>2 DEF campaign_ai_preview
      <4>2. ver \in Nat
        BY <2>1
      <4> QED BY <4>1, <4>2
    <3> QED BY <3>1, <3>2
  <2> QED BY <1>1, <2>2
<1>5. desk' \in Visits \cup {NoDesk} /\ texts' \in Nat
  <2>1. \/ UNCHANGED <<desk, texts>>
        \/ \E op \in {"regenerate", "preview", "preview_again"} :
             \E res \in generate_campaign_content(lead[r]) :
               /\ desk' = [op |-> op, r |-> r, read |-> rec[r], res |-> res]
               /\ texts' = Counted(res)
    BY DEF regenerate_recipient_ai, campaign_ai_preview
  <2>2. ASSUME NEW op \in {"regenerate", "preview", "preview_again"},
               NEW res \in generate_campaign_content(lead[r]), texts' = Counted(res),
               desk' = [op |-> op, r |-> r, read |-> rec[r], res |-> res]
        PROVE  desk' \in Visits \cup {NoDesk} /\ texts' \in Nat
    <3>1. PICK l \in Leads1 : l = lead[r]
      BY <1>1
    <3>2. res \in generate_campaign_content(l)
      BY <2>2, <3>1
    <3>3. Fair(res) /\ Counted(res) \in Nat
      BY <3>2, ContentTypes
    <3>4. res \in Results
      BY <3>3 DEF Fair
    <3> QED BY <1>1, <2>2, <3>3, <3>4 DEF Visits
  <2> QED BY <1>1, <2>1, <2>2
<1> QED BY <1>1, <1>2, <1>3, <1>4, <1>5 DEF AiTypes, DocTypes, SendTypes, GenTypes, DeskTypes

LEMMA StoreDeskTypes ==
  ASSUME AiTypes, StoreDesk
  PROVE  AiTypes'
<1>1. /\ camp \in Camps /\ rec \in [Contacts -> Recs] /\ desk \in Visits /\ desk' = NoDesk
      /\ UNCHANGED <<lead, keys, chain, gw, texts, redone, sends, jobs, tx, used, sent, seen, acase>>
  BY DEF AiTypes, DocTypes, DeskTypes, StoreDesk, genVars, sendVars
<1>2. camp' \in Camps
  <2>1. camp' = camp \/ camp' = [camp EXCEPT !.gen = "needs_review"]
    BY DEF StoreDesk
  <2>2. "draft" \in {"draft", "scheduled", "queued", "running", "paused"} \cup Terminal
    OBVIOUS
  <2> QED BY <1>1, <2>1, <2>2, CampChanges
<1>3. desk.r \in Contacts /\ desk.read \in Recs /\ desk.res \in Results
  BY <1>1 DEF Visits
<1>4. PICK f : /\ \E inc \in BOOLEAN :
                    f = apply_generation_to_recipient(rec[desk.r], desk.read, desk.res, inc)
               /\ rec' = [rec EXCEPT ![desk.r] = f]
  BY DEF StoreDesk
<1>5. f \in Recs
  BY <1>1, <1>3, <1>4, AppliedType
<1>6. rec' \in [Contacts -> Recs]
  BY <1>1, <1>4, <1>5
<1> QED BY <1>1, <1>2, <1>6 DEF AiTypes, DocTypes, SendTypes, GenTypes, DeskTypes

LEMMA RestTypes ==
  ASSUME AiTypes,
         DeskDies \/ pause_campaign \/ resume_campaign \/ cancel_campaign
           \/ \E r \in Contacts : LeadTurns(r)
  PROVE  AiTypes'
<1>1. /\ camp \in Camps /\ rec \in [Contacts -> Recs] /\ lead \in [Contacts -> Leads1]
      /\ sends \in BOOLEAN /\ desk \in Visits \cup {NoDesk}
      /\ UNCHANGED <<keys, chain, gw, texts, redone, jobs, tx, used, sent, seen>>
  BY DEF AiTypes, DocTypes, DeskTypes, SendTypes, DeskDies, pause_campaign, resume_campaign,
       cancel_campaign,
     LeadTurns, genVars, sendVars, peopleVars
<1>2. acase' \in AiCaseTypes
  BY CaseStays DEF DeskDies, pause_campaign, resume_campaign, cancel_campaign, LeadTurns, Asks
<1>3. camp' \in Camps
  <2>1. camp' = camp \/ \E s \in {"paused", "running", "cancelled"} : camp' = [camp EXCEPT !.status = s]
    BY DEF DeskDies, pause_campaign, resume_campaign, cancel_campaign, LeadTurns
  <2>2. {"paused", "running", "cancelled"} \subseteq
          {"draft", "scheduled", "queued", "running", "paused"} \cup Terminal
    BY DEF Terminal
  <2> QED BY <1>1, <2>1, <2>2, CampChanges
<1>4. rec' \in [Contacts -> Recs]
  <2>1. {"queued", "cancelled"} \subseteq OpenRecs \cup {"sent", "skipped", "failed", "cancelled"}
    BY DEF OpenRecs
  <2>2. CASE resume_campaign
    <3>1. rec' = [r \in Contacts |->
            IF rec[r].status \in {"processing"} THEN [rec[r] EXCEPT !.status = "queued"] ELSE rec[r]]
      BY <2>2 DEF resume_campaign
    <3> QED BY <1>1, <2>1, <3>1, RecsChange
  <2>3. CASE cancel_campaign
    <3>1. rec' = [r \in Contacts |->
            IF rec[r].status \in OpenRecs THEN [rec[r] EXCEPT !.status = "cancelled"] ELSE rec[r]]
      BY <2>3 DEF cancel_campaign
    <3> QED BY <1>1, <2>1, <3>1, RecsChange
  <2>4. CASE rec' = rec
    BY <1>1, <2>4
  <2> QED BY <2>2, <2>3, <2>4 DEF DeskDies, pause_campaign, LeadTurns
<1>5. lead' \in [Contacts -> Leads1]
  BY <1>1 DEF DeskDies, pause_campaign, resume_campaign, cancel_campaign, LeadTurns, Leads1
<1>6. sends' \in BOOLEAN
  BY <1>1 DEF DeskDies, pause_campaign, resume_campaign, cancel_campaign, LeadTurns, sendVars
<1>7. desk' \in Visits \cup {NoDesk}
  BY <1>1 DEF DeskDies, pause_campaign, resume_campaign, cancel_campaign, LeadTurns, peopleVars
<1> QED BY <1>1, <1>2, <1>3, <1>4, <1>5, <1>6, <1>7 DEF AiTypes, DocTypes, SendTypes, GenTypes,
     DeskTypes

LEMMA AiTypesStep == AiTypes /\ [AiNext]_aiVars => AiTypes'
<1> SUFFICES ASSUME AiTypes, [AiNext]_aiVars PROVE AiTypes'
  OBVIOUS
<1>1. CASE UNCHANGED aiVars
  BY <1>1 DEF aiVars, AiTypes, DocTypes, SendTypes, GenTypes, DeskTypes
<1>2. ASSUME NEW g \in Gens, GenStep(g) \/ GenDies(g) PROVE AiTypes'
  BY <1>2, JobTypes, BatchTypes, GenerateTypes, StoreTypes DEF GenStep
<1>3. ASSUME NEW r \in Contacts,
             \/ approve_recipient_ai(r) \/ reject_recipient_ai(r) \/ regenerate_recipient_ai(r)
             \/ campaign_ai_preview(r, FALSE) \/ campaign_ai_preview(r, TRUE) \/ LeadTurns(r)
      PROVE  AiTypes'
  BY <1>3, ReviewTypes, AskTypes, RestTypes
<1> QED BY <1>1, <1>2, <1>3, StartTypes, BatchOfSendsTypes, SendTypesStay, ApproveAllTypes,
       StoreDeskTypes, RestTypes DEF AiNext

-----------------------------------------------------------------------------
(* Versions *)

(* A worker that writes the text of a contact.                             *)
Writes(g, r) == gw[g].step = "write" /\ \E i \in Foremost(gw[g].todo) : i.who = r

(* The versions there are of a contact's text were claimed, all of them,   *)
(* and what has no text yet has none.                                      *)
Claimed(r) == \A n \in 1..rec[r].ver : <<r, n>> \in keys
Textless(r) == rec[r].gen \in {"pending", "failed"} => ~(rec[r].text > 0)

(* What a batch has read is an earlier version, or the version is as it    *)
(* was, without a text.  The text that is waited for is the next one, its  *)
(* key is claimed, and only one waits for it.                              *)
ItemOK(g, i, r) == /\ i.read.ver <= rec[r].ver
                   /\ i.read.ver = rec[r].ver => ~(rec[r].text > 0)
Behind(r) == \A g \in Gens : \A i \in gw[g].todo : i.who = r => ItemOK(g, i, r)
NextIs(r) == \A g \in Gens : Writes(g, r) =>
               /\ <<r, rec[r].ver + 1>> \in keys
               /\ \A i \in gw[g].todo : i.who = r => i.read.ver = rec[r].ver
               /\ \A h \in Gens \ {g} : ~Writes(h, r)
DeskIs(r) == desk # NoDesk /\ desk.r = r =>
               /\ <<r, rec[r].ver + 1>> \in keys /\ desk.read.ver = rec[r].ver
               /\ desk.op \in {"preview", "preview_again"}
               /\ desk.op = "preview" => rec[r].ver = 0
               /\ \A g \in Gens : ~Writes(g, r)

VersionsOf(r) == Claimed(r) /\ Textless(r) /\ Behind(r) /\ NextIs(r) /\ DeskIs(r)

(* One item of a recipient in a batch; texts that failed are none; batches *)
(* begin when the campaign runs.                                           *)
Waiting == {"draft", "scheduled", "queued"}
BatchesOK == \A g \in Gens :
  /\ Fair(gw[g].res)
  /\ gw[g] # NoWork => camp.status \notin Waiting
  /\ gw[g].step \in {"idle", "list"} => gw[g].todo = {}
  /\ \A i, j \in gw[g].todo : i.who = j.who => i = j
ChainOK == chain.batch > 0 => camp.status \notin Waiting
DeskOK  == desk # NoDesk => Fair(desk.res)

AiVersions == /\ AiTypes /\ BatchesOK /\ ChainOK /\ DeskOK
              /\ \A r \in Contacts \ redone : VersionsOf(r)

(* A step that writes no version of the text of r, and begins none.        *)
LEMMA VersionsStay ==
  ASSUME AiVersions, NEW r \in Contacts \ redone, keys \subseteq keys',
         rec'[r].ver = rec[r].ver, Textless(r)',
         rec'[r].text = rec[r].text \/ ~(rec'[r].text > 0),
         \A g \in Gens : gw'[g].todo \subseteq gw[g].todo /\ (Writes(g, r)' => Writes(g, r)),
         desk' = desk \/ desk' = NoDesk \/ desk'.r # r
  PROVE  VersionsOf(r)'
<1>1. VersionsOf(r)
  BY DEF AiVersions
<1>2. Claimed(r)'
  BY <1>1 DEF VersionsOf, Claimed
<1>3. Behind(r)'
  BY <1>1 DEF VersionsOf, Behind, ItemOK
<1>4. NextIs(r)'
  <2> SUFFICES ASSUME NEW g \in Gens, Writes(g, r)'
               PROVE  /\ <<r, rec'[r].ver + 1>> \in keys'
                      /\ \A i \in gw'[g].todo : i.who = r => i.read.ver = rec'[r].ver
                      /\ \A h \in Gens \ {g} : ~Writes(h, r)'
    BY DEF NextIs
  <2>1. Writes(g, r)
    OBVIOUS
  <2> QED BY <1>1, <2>1 DEF VersionsOf, NextIs
<1>5. DeskIs(r)'
  <2> SUFFICES ASSUME desk' # NoDesk, desk'.r = r
               PROVE  /\ <<r, rec'[r].ver + 1>> \in keys' /\ desk'.read.ver = rec'[r].ver
                      /\ desk'.op \in {"preview", "preview_again"}
                      /\ desk'.op = "preview" => rec'[r].ver = 0
                      /\ \A g \in Gens : ~Writes(g, r)'
    BY DEF DeskIs
  <2>1. desk' = desk
    OBVIOUS
  <2> QED BY <1>1, <2>1 DEF VersionsOf, DeskIs
<1> QED BY <1>2, <1>3, <1>4, <1>5 DEF VersionsOf

(* A step of the sends or of people that writes no text.                   *)
LEMMA QuietVersions ==
  ASSUME AiVersions, UNCHANGED <<keys, gw>>, desk' = desk \/ desk' = NoDesk,
         NEW r \in Contacts \ redone, rec'[r].ver = rec[r].ver,
         \/ ~(rec'[r].text > 0)
         \/ rec'[r].text = rec[r].text /\ (rec'[r].gen = rec[r].gen \/ rec'[r].gen = "ready")
  PROVE  VersionsOf(r)'
<1>1. Textless(r)'
  BY DEF AiVersions, VersionsOf, Textless
<1>2. \A g \in Gens : gw'[g].todo \subseteq gw[g].todo /\ (Writes(g, r)' => Writes(g, r))
  BY DEF Writes
<1> QED BY <1>1, <1>2, VersionsStay

(* A worker's step that waits for no text and reads no document.           *)
LEMMA WorkerVersions ==
  ASSUME AiVersions, NEW g \in Gens, keys \subseteq keys', UNCHANGED desk,
         NEW r \in Contacts \ redone,
         rec'[r].ver = rec[r].ver /\ rec'[r].text = rec[r].text /\ rec'[r].gen = rec[r].gen,
         \A h \in Gens \ {g} : gw'[h] = gw[h],
         gw'[g].step # "write", gw'[g].todo \subseteq gw[g].todo
  PROVE  VersionsOf(r)'
<1>1. Textless(r)'
  BY DEF AiVersions, VersionsOf, Textless
<1>2. \A h \in Gens : gw'[h].todo \subseteq gw[h].todo /\ (Writes(h, r)' => Writes(h, r))
  BY DEF Writes
<1> QED BY <1>1, <1>2, VersionsStay

(* One more of a version, and the versions there are.                      *)
LEMMA OneMore == \A a \in Int, b \in Int : a <= b => a <= b + 1 /\ a # b + 1
  OBVIOUS

LEMMA UpTo == \A b \in Nat : 1..(b + 1) = (1..b) \cup {b + 1}
  OBVIOUS

(* A batch that is listed has the versions as read.                        *)
LEMMA ListVersions ==
  ASSUME AiVersions, NEW g \in Gens, ListBatch(g), NEW r \in Contacts \ redone
  PROVE  VersionsOf(r)'
<1>1. /\ UNCHANGED <<rec, keys, desk>> /\ gw \in [Gens -> Batch] /\ VersionsOf(r)
      /\ rec \in [Contacts -> Recs]
  BY DEF AiVersions, AiTypes, DocTypes, GenTypes, ListBatch, peopleVars
<1> DEFINE T == {[who |-> q, read |-> rec[q]] : q \in FirstFew(Undecided)}
<1>2. CASE gw' = [gw EXCEPT ![g] = NoWork]
  <2>1. /\ \A h \in Gens \ {g} : gw'[h] = gw[h]
        /\ gw'[g].step # "write" /\ gw'[g].todo \subseteq gw[g].todo
    BY <1>1, <1>2 DEF NoWork
  <2> QED BY <1>1, <2>1, WorkerVersions
<1>3. CASE gw' = [gw EXCEPT ![g] = [NoWork EXCEPT !.step = "next", !.approved = camp.approved, !.todo = T]]
  <2>1. /\ \A h \in Gens \ {g} : gw'[h] = gw[h]
        /\ gw'[g].step = "next" /\ gw'[g].todo = T
    <3> HIDE DEF T
    <3> QED BY <1>1, <1>3 DEF NoWork
  <2>2. \A h \in Gens : Writes(h, r)' => h # g /\ Writes(h, r)
    <3> HIDE DEF T
    <3> QED BY <2>1 DEF Writes
  <2>3. ASSUME NEW i \in T, i.who = r PROVE ItemOK(g, i, r)
    <3>1. r \in Undecided /\ i.read = rec[r]
      <4>1. PICK q \in FirstFew(Undecided) : i = [who |-> q, read |-> rec[q]]
        BY <2>3
      <4>2. q \in Undecided
        BY <4>1 DEF FirstFew
      <4> QED BY <2>3, <4>1, <4>2
    <3>2. ~(rec[r].text > 0)
      <4>1. \/ rec[r].gen \in {"pending", "failed"}
            \/ rec[r].gen = "ready" /\ rec[r].text = NoText /\ rec[r].src # "template"
        BY <3>1 DEF Undecided
      <4>2. rec[r].gen \in {"pending", "failed"} => ~(rec[r].text > 0)
        BY <1>1 DEF VersionsOf, Textless
      <4>3. ~(NoText > 0)
        BY DEF NoText
      <4> QED BY <4>1, <4>2, <4>3
    <3>3. rec[r].ver \in Nat
      BY <1>1 DEF Recs
    <3> QED BY <3>1, <3>2, <3>3 DEF ItemOK
  <2> HIDE DEF T
  <2>4. Behind(r)'
    <3> SUFFICES ASSUME NEW h \in Gens, NEW i \in gw'[h].todo, i.who = r PROVE ItemOK(h, i, r)'
      BY DEF Behind
    <3>1. ItemOK(h, i, r)
      BY <1>1, <2>1, <2>3 DEF VersionsOf, Behind, ItemOK
    <3> QED BY <1>1, <3>1 DEF ItemOK
  <2>5. NextIs(r)'
    <3> SUFFICES ASSUME NEW h \in Gens, Writes(h, r)'
                 PROVE  /\ <<r, rec'[r].ver + 1>> \in keys'
                        /\ \A i \in gw'[h].todo : i.who = r => i.read.ver = rec'[r].ver
                        /\ \A k \in Gens \ {h} : ~Writes(k, r)'
      BY DEF NextIs
    <3>1. Writes(h, r) /\ gw'[h] = gw[h]
      BY <2>1, <2>2
    <3> QED BY <1>1, <2>2, <3>1 DEF VersionsOf, NextIs
  <2>6. Claimed(r)' /\ Textless(r)' /\ DeskIs(r)'
    BY <1>1, <2>2 DEF VersionsOf, Claimed, Textless, DeskIs
  <2> QED BY <2>4, <2>5, <2>6 DEF VersionsOf
<1> QED BY <1>2, <1>3 DEF ListBatch

(* A worker that claims a key waits for the next version: the versions     *)
(* before have been claimed.                                               *)
LEMMA ClaimVersions ==
  ASSUME AiVersions, NEW g \in Gens, Generate(g), NEW r \in Contacts \ redone
  PROVE  VersionsOf(r)'
<1>1. /\ UNCHANGED <<rec, desk>> /\ gw \in [Gens -> Batch] /\ VersionsOf(r)
      /\ rec \in [Contacts -> Recs] /\ gw[g].step = "next"
      /\ \A i, j \in gw[g].todo : i.who = j.who => i = j
  BY DEF AiVersions, AiTypes, DocTypes, GenTypes, BatchesOK, Generate, peopleVars, GwAt
<1>2. PICK it \in Foremost(gw[g].todo) :
        \/ gw' = [gw EXCEPT ![g].todo = @ \ {it}] /\ UNCHANGED <<keys, texts>>
        \/ /\ <<it.who, it.read.ver + 1>> \notin keys
           /\ keys' = keys \cup {<<it.who, it.read.ver + 1>>}
           /\ \E res : gw' = [gw EXCEPT ![g].step = "write", ![g].res = res]
  BY DEF Generate
<1>3. it \in gw[g].todo /\ it \in Items /\ it.who \in Contacts /\ it.read.ver \in Nat
  BY <1>1 DEF Foremost, Batch, Items, Recs
<1>4. \A i \in Foremost(gw[g].todo) : i.who = it.who
  <2> SUFFICES ASSUME NEW i \in Foremost(gw[g].todo) PROVE i.who = it.who
    OBVIOUS
  <2>1. i.who \in Contacts /\ i.who <= it.who /\ it.who <= i.who
    BY <1>1, <1>3 DEF Foremost, Batch, Items
  <2>2. i.who \in Nat /\ it.who \in Nat
    BY <1>3, <2>1, AiCasesAssumption
  <2> QED BY <2>1, <2>2
<1>5. CASE gw' = [gw EXCEPT ![g].todo = @ \ {it}] /\ UNCHANGED <<keys, texts>>
  <2>1. /\ \A h \in Gens \ {g} : gw'[h] = gw[h]
        /\ gw'[g].step # "write" /\ gw'[g].todo \subseteq gw[g].todo
    BY <1>1, <1>5 DEF Batch
  <2> QED BY <1>1, <1>5, <2>1, WorkerVersions
<1>6. CASE /\ <<it.who, it.read.ver + 1>> \notin keys
           /\ keys' = keys \cup {<<it.who, it.read.ver + 1>>}
           /\ \E res : gw' = [gw EXCEPT ![g].step = "write", ![g].res = res]
  <2>1. /\ \A h \in Gens \ {g} : gw'[h] = gw[h]
        /\ gw'[g].step = "write" /\ gw'[g].todo = gw[g].todo
        /\ \A h \in Gens : gw'[h].todo = gw[h].todo
    BY <1>1, <1>6 DEF Batch
  <2>2. CASE it.who # r
    <3>1. \A h \in Gens : Writes(h, r)' => Writes(h, r)
      BY <1>4, <2>1, <2>2 DEF Writes
    <3>2. Textless(r)'
      BY <1>1 DEF VersionsOf, Textless
    <3> QED BY <1>1, <1>6, <2>1, <3>1, <3>2, VersionsStay
  <2>3. CASE it.who = r
    <3>1. it.read.ver <= rec[r].ver /\ (it.read.ver = rec[r].ver => ~(rec[r].text > 0))
      BY <1>1, <1>3, <2>3 DEF VersionsOf, Behind, ItemOK
    <3>2. it.read.ver = rec[r].ver
      <4>1. rec[r].ver \in Nat
        BY <1>1 DEF Recs
      <4>2. it.read.ver + 1 \notin 1..rec[r].ver
        BY <1>1, <1>6, <2>3 DEF VersionsOf, Claimed
      <4> QED BY <1>3, <3>1, <4>1, <4>2
    <3>3. <<r, rec[r].ver + 1>> \notin keys /\ <<r, rec[r].ver + 1>> \in keys' /\ keys \subseteq keys'
      BY <1>6, <2>3, <3>2
    <3>4. \A h \in Gens : ~Writes(h, r)
      BY <1>1, <3>3 DEF VersionsOf, NextIs
    <3>5. \A h \in Gens \ {g} : ~Writes(h, r)'
      BY <2>1, <3>4 DEF Writes
    <3>6. NextIs(r)'
      <4> SUFFICES ASSUME NEW h \in Gens, Writes(h, r)'
                   PROVE  /\ <<r, rec'[r].ver + 1>> \in keys'
                          /\ \A i \in gw'[h].todo : i.who = r => i.read.ver = rec'[r].ver
                          /\ \A k \in Gens \ {h} : ~Writes(k, r)'
        BY DEF NextIs
      <4>1. h = g
        BY <3>5
      <4>2. \A i \in gw'[g].todo : i.who = r => i = it
        BY <1>1, <1>3, <2>1, <2>3
      <4> QED BY <1>1, <3>2, <3>3, <3>5, <4>1, <4>2
    <3>7. DeskIs(r)'
      <4>1. ~(desk # NoDesk /\ desk.r = r)
        BY <1>1, <3>3 DEF VersionsOf, DeskIs
      <4> QED BY <1>1, <4>1 DEF DeskIs
    <3>8. Claimed(r)' /\ Textless(r)'
      BY <1>1, <3>3 DEF VersionsOf, Claimed, Textless
    <3>9. Behind(r)'
      BY <1>1, <2>1 DEF VersionsOf, Behind, ItemOK
    <3> QED BY <3>6, <3>7, <3>8, <3>9 DEF VersionsOf
  <2> QED BY <2>2, <2>3
<1> QED BY <1>2, <1>5, <1>6

(* What a batch stores is the next version, or leaves the text as it is.   *)
LEMMA StoredText ==
  ASSUME NEW r \in Recs, NEW f \in Recs, NEW res, Fair(res), NEW auto \in BOOLEAN,
         f.text = res.text, f.gen \in {"pending", "failed"} => ~res.ok, ~(r.text > 0),
         NEW new, new = Stored(r, f, res, auto)
  PROVE  /\ new.gen \in {"pending", "failed"} => ~(new.text > 0)
         /\ \/ new.ver = f.ver
            \/ new.ver = r.ver /\ new.text = r.text
<1>1. Storable(new, r, f, auto)
  BY StoredIs
<1>2. ~(Fixed > 0)
  BY DEF Fixed
<1>3. f.gen \in {"pending", "failed"} => ~(f.text > 0)
  BY DEF Fair
<1>4. CASE \/ new = [f EXCEPT !.text = Fixed, !.ok = auto]
           \/ new = [f EXCEPT !.text = r.text, !.ok = auto]
  BY <1>2, <1>4 DEF Recs
<1>5. CASE new = [f EXCEPT !.ok = TRUE, !.gen = "ready"]
  BY <1>5 DEF Recs
<1>6. CASE new = f
  BY <1>3, <1>6
<1>7. CASE new = [r EXCEPT !.status = "skipped", !.gen = "skipped"]
  BY <1>7 DEF Recs
<1>8. CASE new = [f EXCEPT !.src = "template", !.gen = "ready", !.text = Fixed, !.ok = auto]
  BY <1>8 DEF Recs
<1>9. CASE new = [f EXCEPT !.status = "skipped"]
  BY <1>3, <1>9 DEF Recs
<1>10. CASE new = [f EXCEPT !.gen = "needs_review"]
  BY <1>10 DEF Recs
<1> QED BY <1>1, <1>4, <1>5, <1>6, <1>7, <1>8, <1>9, <1>10 DEF Storable

LEMMA StoreVersions ==
  ASSUME AiVersions, NEW g \in Gens, StoreResult(g), NEW r \in Contacts \ redone
  PROVE  VersionsOf(r)' /\ (rec[r].text > 0 => rec'[r].text = rec[r].text)
<1>1. /\ UNCHANGED <<keys, desk>> /\ gw \in [Gens -> Batch] /\ VersionsOf(r)
      /\ rec \in [Contacts -> Recs] /\ gw[g].step = "write" /\ Fair(gw[g].res)
  BY DEF AiVersions, AiTypes, DocTypes, GenTypes, BatchesOK, StoreResult, peopleVars, GwAt
<1> DEFINE auto == acase.review = "no_manual_review" \/ gw[g].approved
           F(it) == apply_generation_to_recipient(rec[it.who], it.read, gw[g].res, TRUE)
<1>2. PICK it \in Foremost(gw[g].todo) :
        /\ rec' = [rec EXCEPT ![it.who] = Stored(rec[it.who], F(it), gw[g].res, auto)]
        /\ gw' = [gw EXCEPT ![g].step = "next", ![g].todo = @ \ {it}, ![g].res = NoResult]
  BY DEF StoreResult
<1>3. it \in gw[g].todo /\ it \in Items /\ it.who \in Contacts /\ it.read \in Recs
  BY <1>1 DEF Foremost, Batch, Items
<1>4. /\ \A h \in Gens \ {g} : gw'[h] = gw[h]
      /\ gw'[g].step # "write" /\ gw'[g].todo \subseteq gw[g].todo
  BY <1>1, <1>2 DEF Batch
<1>5. CASE it.who # r
  <2>1. rec'[r] = rec[r]
    BY <1>1, <1>2, <1>5
  <2> QED BY <1>1, <1>4, <2>1, WorkerVersions
<1>6. CASE it.who = r
  <2>1. Writes(g, r)
    BY <1>1, <1>6 DEF Writes
  <2>2. /\ <<r, rec[r].ver + 1>> \in keys /\ it.read.ver = rec[r].ver
        /\ \A h \in Gens \ {g} : ~Writes(h, r)
    BY <1>1, <1>3, <1>6, <2>1 DEF VersionsOf, NextIs
  <2>3. ~(rec[r].text > 0)
    BY <1>1, <1>3, <1>6, <2>2 DEF VersionsOf, Behind, ItemOK
  <2>4. PICK f : f = F(it)
    OBVIOUS
  <2>5. rec[r] \in Recs /\ gw[g].res \in Results /\ auto \in BOOLEAN /\ rec[r].ver \in Nat
    BY <1>1 DEF Batch, Recs
  <2>6. /\ f \in Recs /\ f.text = gw[g].res.text /\ f.ver = rec[r].ver + 1
        /\ f.gen \in {"pending", "failed"} => ~gw[g].res.ok
    <3>1. PICK d \in Recs, e \in Recs, x \in Results :
            d = rec[r] /\ e = it.read /\ x = gw[g].res
      BY <1>3, <2>5
    <3>2. f = apply_generation_to_recipient(d, e, x, TRUE)
      BY <1>6, <2>4, <3>1
    <3>3. f \in Recs
      BY <3>2, AppliedType
    <3>4. f.gen \in {"pending", "failed"} => ~x.ok
      BY <3>2, AppliedType
    <3>5. PICK t, n, w : t = x.text /\ n = e.ver + 1 /\ w = x.src
      OBVIOUS
    <3>6. f = [d EXCEPT !.gen = IF x.review THEN "needs_review" ELSE IF x.ok THEN "ready" ELSE "failed",
                        !.src = w, !.text = t, !.ok = FALSE, !.ver = n]
      BY <3>2, <3>5 DEF apply_generation_to_recipient
    <3>7. f.text = t /\ f.ver = n
      BY <3>1, <3>6 DEF Recs
    <3> QED BY <2>2, <3>1, <3>3, <3>4, <3>5, <3>7
  <2> HIDE DEF auto, F
  <2>7. PICK new : new = Stored(rec[r], f, gw[g].res, auto) /\ rec' = [rec EXCEPT ![r] = new]
    BY <1>2, <1>6, <2>4
  <2>8. /\ new.gen \in {"pending", "failed"} => ~(new.text > 0)
        /\ \/ new.ver = rec[r].ver + 1
           \/ new.ver = rec[r].ver /\ new.text = rec[r].text
    BY <1>1, <2>3, <2>5, <2>6, <2>7, StoredText
  <2>9. rec'[r] = new
    BY <1>1, <2>7
  <2>10. Claimed(r)' /\ Textless(r)'
    <3>1. Textless(r)'
      BY <2>8, <2>9 DEF Textless
    <3>2. \A n \in 1..rec[r].ver : <<r, n>> \in keys
      BY <1>1 DEF VersionsOf, Claimed
    <3>3. \A n \in 1..(rec[r].ver + 1) : <<r, n>> \in keys
      BY <2>2, <2>5, <3>2, UpTo
    <3>4. Claimed(r)'
      BY <1>1, <2>8, <2>9, <3>2, <3>3 DEF Claimed
    <3> QED BY <3>1, <3>4
  <2>11. Behind(r)'
    <3> SUFFICES ASSUME NEW h \in Gens, NEW i \in gw'[h].todo, i.who = r PROVE ItemOK(h, i, r)'
      BY DEF Behind
    <3>1. i \in gw[h].todo
      BY <1>4
    <3>2. i.read.ver <= rec[r].ver /\ i.read.ver \in Nat
      BY <1>1, <3>1 DEF VersionsOf, Behind, ItemOK, Batch, Items, Recs
    <3>3. i.read.ver <= rec[r].ver + 1 /\ i.read.ver # rec[r].ver + 1
      BY <2>5, <3>2, OneMore
    <3> QED BY <2>3, <2>8, <2>9, <3>2, <3>3 DEF ItemOK
  <2>12. \A h \in Gens : ~Writes(h, r)'
    BY <1>4, <2>2 DEF Writes
  <2>13. ~(desk # NoDesk /\ desk.r = r)
    BY <1>1, <2>1 DEF VersionsOf, DeskIs
  <2>14. NextIs(r)' /\ DeskIs(r)'
    BY <1>1, <2>12, <2>13 DEF NextIs, DeskIs
  <2> QED BY <2>3, <2>10, <2>11, <2>14 DEF VersionsOf
<1> QED BY <1>5, <1>6

(* A text written at a desk: the version that was claimed for it.          *)
LEMMA DeskVersions ==
  ASSUME AiVersions, StoreDesk, NEW r \in Contacts \ redone
  PROVE  VersionsOf(r)'
<1>1. /\ UNCHANGED <<keys, gw>> /\ gw \in [Gens -> Batch] /\ VersionsOf(r) /\ desk # NoDesk
      /\ rec \in [Contacts -> Recs] /\ desk \in Visits /\ desk' = NoDesk /\ Fair(desk.res)
  BY DEF AiVersions, AiTypes, DocTypes, GenTypes, DeskTypes, DeskOK, StoreDesk, genVars
<1>2. /\ desk.r \in Contacts /\ desk.read \in Recs /\ desk.res \in Results
      /\ desk.op \in {"regenerate", "preview", "preview_again"}
  BY <1>1 DEF Visits
<1>3. rec' = [rec EXCEPT ![desk.r] =
        apply_generation_to_recipient(rec[desk.r], desk.read, desk.res, desk.op # "preview")]
  BY DEF StoreDesk
<1>4. CASE desk.r # r
  <2>1. rec'[r] = rec[r]
    BY <1>1, <1>3, <1>4
  <2> QED BY <1>1, <2>1, QuietVersions
<1>5. CASE desk.r = r
  <2>1. /\ <<r, rec[r].ver + 1>> \in keys /\ desk.read.ver = rec[r].ver
        /\ desk.op \in {"preview", "preview_again"}
        /\ desk.op = "preview" => rec[r].ver = 0
        /\ \A g \in Gens : ~Writes(g, r)
    BY <1>1, <1>5 DEF VersionsOf, DeskIs
  <2>2. PICK d \in Recs, e \in Recs, x \in Results :
          d = rec[r] /\ e = desk.read /\ x = desk.res
    BY <1>1, <1>2, <1>5
  <2>3. PICK f : f = apply_generation_to_recipient(d, e, x, desk.op # "preview")
    OBVIOUS
  <2>4. rec'[r] = f
    BY <1>1, <1>2, <1>3, <1>5, <2>2, <2>3
  <2>5. PICK t, n, w : t = x.text /\ w = x.src
          /\ n = IF desk.op # "preview" THEN e.ver + 1 ELSE IF e.ver = 0 THEN 1 ELSE e.ver
    OBVIOUS
  <2>6. f = [d EXCEPT !.gen = IF x.review THEN "needs_review" ELSE IF x.ok THEN "ready" ELSE "failed",
                      !.src = w, !.text = t, !.ok = FALSE, !.ver = n]
    BY <2>3, <2>5 DEF apply_generation_to_recipient
  <2>7. /\ f.text = t /\ f.ver = n
        /\ f.gen = IF x.review THEN "needs_review" ELSE IF x.ok THEN "ready" ELSE "failed"
    BY <2>2, <2>6 DEF Recs
  <2>8. rec[r].ver \in Nat
    BY <1>1 DEF Recs
  <2>9. n = rec[r].ver + 1
    BY <2>1, <2>2, <2>5, <2>8
  <2>10. f.gen \in {"pending", "failed"} => ~(f.text > 0)
    BY <1>1, <2>2, <2>5, <2>7 DEF Fair
  <2>11. Claimed(r)' /\ Textless(r)'
    <3>1. \A k \in 1..(rec[r].ver + 1) : <<r, k>> \in keys
      BY <1>1, <2>1, <2>8, UpTo DEF VersionsOf, Claimed
    <3> QED BY <1>1, <2>4, <2>7, <2>9, <2>10, <3>1 DEF Claimed, Textless
  <2>12. Behind(r)'
    <3> SUFFICES ASSUME NEW h \in Gens, NEW i \in gw'[h].todo, i.who = r PROVE ItemOK(h, i, r)'
      BY DEF Behind
    <3>1. i.read.ver <= rec[r].ver /\ i.read.ver \in Nat
      BY <1>1 DEF VersionsOf, Behind, ItemOK, Batch, Items, Recs
    <3>2. i.read.ver <= rec[r].ver + 1 /\ i.read.ver # rec[r].ver + 1
      BY <2>8, <3>1, OneMore
    <3> QED BY <2>4, <2>7, <2>9, <3>2 DEF ItemOK
  <2>13. \A h \in Gens : ~Writes(h, r)'
    BY <1>1, <2>1 DEF Writes
  <2>14. NextIs(r)' /\ DeskIs(r)'
    BY <1>1, <2>13 DEF NextIs, DeskIs
  <2> QED BY <2>11, <2>12, <2>14 DEF VersionsOf
<1> QED BY <1>4, <1>5

(* A preview claims the next version, while no batch is at work.           *)
LEMMA PreviewVersions ==
  ASSUME AiVersions, NEW q \in Contacts, NEW again \in BOOLEAN, campaign_ai_preview(q, again),
         NEW r \in Contacts \ redone
  PROVE  VersionsOf(r)'
<1>1. /\ UNCHANGED <<rec, gw>> /\ VersionsOf(r) /\ desk = NoDesk /\ camp.status \in Waiting
      /\ rec \in [Contacts -> Recs] /\ gw \in [Gens -> Batch]
  BY DEF AiVersions, AiTypes, DocTypes, GenTypes, campaign_ai_preview, Waiting
<1> DEFINE ver == IF again THEN rec[q].ver + 1 ELSE IF rec[q].ver = 0 THEN 1 ELSE rec[q].ver
<1>2. keys \subseteq keys'
  BY DEF campaign_ai_preview
<1>3. desk' = desk \/ /\ keys' = keys \cup {<<q, ver>>}
                      /\ again \/ <<q, ver>> \notin keys
                      /\ \E res : desk' = [op |-> IF again THEN "preview_again" ELSE "preview", r |-> q,
                                           read |-> rec[q], res |-> res]
  BY DEF campaign_ai_preview
<1>4. \A g \in Gens : ~Writes(g, r)
  <2>1. \A g \in Gens : gw[g] = NoWork
    BY <1>1 DEF AiVersions, BatchesOK
  <2> QED BY <2>1 DEF Writes, NoWork
<1>5. CASE desk' = desk \/ q # r
  <2>1. desk' = desk \/ desk'.r # r
    BY <1>3, <1>5
  <2>2. \A g \in Gens : gw'[g].todo \subseteq gw[g].todo /\ (Writes(g, r)' => Writes(g, r))
    BY <1>1 DEF Writes
  <2>3. Textless(r)'
    BY <1>1 DEF VersionsOf, Textless
  <2> QED BY <1>1, <1>2, <2>1, <2>2, <2>3, VersionsStay
<1>6. CASE desk' # desk /\ q = r
  <2>1. PICK res : desk' = [op |-> IF again THEN "preview_again" ELSE "preview", r |-> r,
                            read |-> rec[r], res |-> res]
    BY <1>3, <1>6
  <2>2. rec[r].ver \in Nat
    BY <1>1 DEF Recs
  <2>3. /\ <<r, rec[r].ver + 1>> \in keys'
        /\ ~again => rec[r].ver = 0
    <3>1. CASE again
      BY <1>3, <1>6, <3>1
    <3>2. CASE ~again
      <4>1. <<r, ver>> \notin keys /\ <<r, ver>> \in keys'
        BY <1>3, <1>6, <3>2
      <4>2. ver = IF rec[r].ver = 0 THEN 1 ELSE rec[r].ver
        BY <1>6, <3>2
      <4>3. rec[r].ver # 0 => rec[r].ver \in 1..rec[r].ver
        BY <2>2
      <4>4. rec[r].ver = 0
        BY <1>1, <4>1, <4>2, <4>3 DEF VersionsOf, Claimed
      <4> HIDE DEF ver
      <4> QED BY <3>2, <4>1, <4>2, <4>4
    <3> QED BY <3>1, <3>2
  <2>4. \A g \in Gens : ~Writes(g, r)'
    BY <1>1, <1>4 DEF Writes
  <2>5. NextIs(r)' /\ DeskIs(r)'
    BY <1>1, <2>1, <2>3, <2>4 DEF NextIs, DeskIs
  <2>6. Claimed(r)' /\ Textless(r)' /\ Behind(r)'
    BY <1>1, <1>2 DEF VersionsOf, Claimed, Textless, Behind, ItemOK
  <2> QED BY <2>5, <2>6 DEF VersionsOf
<1> QED BY <1>5, <1>6

-----------------------------------------------------------------------------
(* Every step keeps a version behind every text *)

LEMMA VersionsStep ==
  ASSUME AiVersions, [AiNext]_aiVars, NEW r \in Contacts \ redone'
  PROVE  VersionsOf(r)'
<1>0. gw \in [Gens -> Batch] /\ rec \in [Contacts -> Recs] /\ VersionsOf(r) /\ r \in Contacts \ redone
  <2>1. redone \subseteq redone'
    BY DEF AiNext, aiVars, start_campaign, process_due_scheduled_campaigns, GenStep, GenDies,
       start_ai_campaign_job, TakeBatch, ListBatch, Generate, StopBatch, StoreResult, ChainBatch,
       process_campaign_batch, StoreDesk, DeskDies, SendStep, ClaimSend, Gate, DeliverContent,
       approve_ai_content, pause_campaign, resume_campaign, cancel_campaign, approve_recipient_ai,
       reject_recipient_ai, regenerate_recipient_ai, campaign_ai_preview, LeadTurns, genVars
  <2> QED BY <2>1 DEF AiVersions, AiTypes, GenTypes, DocTypes
<1>1. ASSUME UNCHANGED <<keys, gw>>, desk' = desk \/ desk' = NoDesk, UNCHANGED rec
      PROVE  VersionsOf(r)'
  BY <1>0, <1>1, QuietVersions
<1>2. ASSUME NEW S, NEW s, UNCHANGED <<keys, gw, desk>>,
             rec' = [q \in Contacts |->
                       IF rec[q].status \in S THEN [rec[q] EXCEPT !.status = s] ELSE rec[q]]
      PROVE  VersionsOf(r)'
  <2>1. /\ rec'[r].ver = rec[r].ver /\ rec'[r].text = rec[r].text /\ rec'[r].gen = rec[r].gen
    BY <1>0, <1>2 DEF Recs
  <2> QED BY <1>0, <1>2, <2>1, QuietVersions
<1>3. CASE UNCHANGED aiVars
  BY <1>1, <1>3 DEF aiVars
<1>4. CASE \/ start_campaign \/ process_due_scheduled_campaigns \/ process_campaign_batch
           \/ DeskDies \/ pause_campaign \/ \E q \in Contacts : LeadTurns(q)
  BY <1>1, <1>4 DEF start_campaign, process_due_scheduled_campaigns, process_campaign_batch, DeskDies,
     pause_campaign, LeadTurns, genVars, peopleVars
<1>5. CASE resume_campaign \/ cancel_campaign
  <2>1. UNCHANGED <<keys, gw, desk>>
    BY <1>5 DEF resume_campaign, cancel_campaign, genVars, peopleVars
  <2>2. \/ rec' = [q \in Contacts |->
             IF rec[q].status \in {"processing"} THEN [rec[q] EXCEPT !.status = "queued"] ELSE rec[q]]
        \/ rec' = [q \in Contacts |->
             IF rec[q].status \in OpenRecs THEN [rec[q] EXCEPT !.status = "cancelled"] ELSE rec[q]]
    BY <1>5 DEF resume_campaign, cancel_campaign
  <2> QED BY <1>2, <2>1, <2>2
<1>6. ASSUME NEW g \in Gens, GenStep(g) \/ GenDies(g) PROVE VersionsOf(r)'
  <2>1. CASE ListBatch(g)
    BY <1>0, <2>1, ListVersions
  <2>2. CASE Generate(g)
    BY <1>0, <2>2, ClaimVersions
  <2>3. CASE StoreResult(g)
    BY <1>0, <2>3, StoreVersions
  <2>4. CASE TakeBatch(g) \/ StopBatch(g) \/ ChainBatch(g) \/ GenDies(g)
    <3>1. UNCHANGED <<keys, rec, desk>>
      BY <2>4 DEF TakeBatch, StopBatch, ChainBatch, GenDies, peopleVars
    <3>2. gw' = [gw EXCEPT ![g] = NoWork] \/ (gw' = [gw EXCEPT ![g].step = "list"] /\ gw[g] = NoWork)
      BY <2>4 DEF TakeBatch, StopBatch, ChainBatch, GenDies
    <3>3. /\ \A h \in Gens \ {g} : gw'[h] = gw[h]
          /\ gw'[g].step # "write" /\ gw'[g].todo \subseteq gw[g].todo
      BY <1>0, <3>2 DEF NoWork, Batch
    <3> QED BY <1>0, <3>1, <3>3, WorkerVersions
  <2>5. CASE start_ai_campaign_job(g)
    <3>1. UNCHANGED <<keys, desk>> /\ gw[g] = NoWork
      BY <2>5 DEF start_ai_campaign_job, peopleVars
    <3>2. CASE UNCHANGED <<camp, rec, gw>>
      BY <1>1, <3>1, <3>2
    <3>3. CASE /\ rec' = [q \in Contacts |->
                    IF rec[q].status = "pending" THEN [rec[q] EXCEPT !.status = "queued"] ELSE rec[q]]
               /\ gw' = [gw EXCEPT ![g].step = "list"]
      <4>1. /\ rec'[r].ver = rec[r].ver /\ rec'[r].text = rec[r].text /\ rec'[r].gen = rec[r].gen
        BY <1>0, <3>3 DEF Recs
      <4>2. /\ \A h \in Gens \ {g} : gw'[h] = gw[h]
            /\ gw'[g].step # "write" /\ gw'[g].todo \subseteq gw[g].todo
        BY <1>0, <3>3 DEF Batch
      <4> QED BY <1>0, <3>1, <4>1, <4>2, WorkerVersions
    <3> QED BY <2>5, <3>2, <3>3 DEF start_ai_campaign_job
  <2> QED BY <1>6, <2>1, <2>2, <2>3, <2>4, <2>5 DEF GenStep
<1>7. ASSUME NEW q \in Contacts, SendStep(q) PROVE VersionsOf(r)'
  <2>1. UNCHANGED <<keys, gw, desk>>
    BY <1>7 DEF SendStep, ClaimSend, Gate, DeliverContent, genVars, peopleVars
  <2>2. rec' = rec \/ \E s : rec' = [rec EXCEPT ![q].status = s]
    BY <1>7 DEF SendStep, ClaimSend, Gate, DeliverContent, SendEnds
  <2>3. /\ rec'[r].ver = rec[r].ver /\ rec'[r].text = rec[r].text /\ rec'[r].gen = rec[r].gen
    BY <1>0, <2>2 DEF Recs
  <2> QED BY <1>0, <2>1, <2>3, QuietVersions
<1>8. CASE StoreDesk
  BY <1>0, <1>8, DeskVersions
<1>9. CASE approve_ai_content
  <2>1. UNCHANGED <<keys, gw, desk>>
    BY <1>9 DEF approve_ai_content, genVars
  <2>2. PICK whose : rec' = [q \in Contacts |->
          IF q \in whose THEN [rec[q] EXCEPT !.ok = TRUE, !.gen = "ready"] ELSE rec[q]]
    BY <1>9 DEF approve_ai_content
  <2>3. /\ rec'[r].ver = rec[r].ver /\ rec'[r].text = rec[r].text
        /\ rec'[r].gen = rec[r].gen \/ rec'[r].gen = "ready"
    <3>1. rec'[r] = IF r \in whose THEN [rec[r] EXCEPT !.ok = TRUE, !.gen = "ready"] ELSE rec[r]
      BY <1>0, <2>2
    <3> QED BY <1>0, <3>1 DEF Recs
  <2> QED BY <1>0, <2>1, <2>3, QuietVersions
<1>10. ASSUME NEW q \in Contacts, approve_recipient_ai(q) \/ reject_recipient_ai(q) PROVE VersionsOf(r)'
  <2>1. UNCHANGED <<keys, gw, desk>>
    BY <1>10 DEF approve_recipient_ai, reject_recipient_ai, genVars, peopleVars
  <2>2. \/ rec' = [rec EXCEPT ![q].ok = TRUE, ![q].gen = "ready"]
        \/ rec' = [rec EXCEPT ![q].ok = FALSE, ![q].gen = "failed", ![q].text = NoText]
    BY <1>10 DEF approve_recipient_ai, reject_recipient_ai
  <2>3. ~(NoText > 0)
    BY DEF NoText
  <2>4. /\ rec'[r].ver = rec[r].ver
        /\ \/ rec'[r].text = NoText
           \/ rec'[r].text = rec[r].text /\ (rec'[r].gen = rec[r].gen \/ rec'[r].gen = "ready")
    BY <1>0, <2>2 DEF Recs
  <2> QED BY <1>0, <2>1, <2>3, <2>4, QuietVersions
<1>11. ASSUME NEW q \in Contacts, regenerate_recipient_ai(q) PROVE VersionsOf(r)'
  <2>1. UNCHANGED <<keys, gw, rec>> /\ redone' = redone \cup {q}
        /\ \E res : desk' = [op |-> "regenerate", r |-> q, read |-> rec[q], res |-> res]
    BY <1>11 DEF regenerate_recipient_ai
  <2>2. desk'.r # r
    BY <2>1
  <2>3. \A g \in Gens : gw'[g].todo \subseteq gw[g].todo /\ (Writes(g, r)' => Writes(g, r))
    BY <2>1 DEF Writes
  <2>4. Textless(r)'
    BY <1>0, <2>1 DEF VersionsOf, Textless
  <2> QED BY <1>0, <2>1, <2>2, <2>3, <2>4, VersionsStay
<1>12. ASSUME NEW q \in Contacts, NEW again \in BOOLEAN, campaign_ai_preview(q, again)
       PROVE  VersionsOf(r)'
  BY <1>0, <1>12, PreviewVersions
<1> QED BY <1>3, <1>4, <1>5, <1>6, <1>7, <1>8, <1>9, <1>10, <1>11, <1>12 DEF AiNext

-----------------------------------------------------------------------------
(* A campaign that has begun does not wait again.                          *)
LEMMA CampGoesOn ==
  ASSUME AiTypes, [AiNext]_aiVars, camp.status \notin Waiting
  PROVE  camp'.status \notin Waiting
<1>1. camp \in Camps
  BY DEF AiTypes, DocTypes
<1>2. \/ camp' = camp \/ \E recs : camp' = Status(recs)
      \/ \E t : camp' = [camp EXCEPT !.gen = t]
      \/ \E t, u : camp' = [camp EXCEPT !.approved = u, !.gen = t]
      \/ \E s \in {"running", "paused", "cancelled"} : camp' = [camp EXCEPT !.status = s]
      \/ \E t : camp' = [camp EXCEPT !.status = "running", !.gen = t]
  <2>1. CASE UNCHANGED aiVars
    BY <2>1 DEF aiVars
  <2>2. ~start_campaign /\ ~process_due_scheduled_campaigns
    BY DEF start_campaign, process_due_scheduled_campaigns, Waiting
  <2>3. ASSUME process_campaign_batch PROVE camp' = camp \/ \E recs : camp' = Status(recs)
    <3>1. \E ids : camp' = IF ids = {} /\ camp.gen # "generating" THEN Status(rec) ELSE camp
      BY <2>3 DEF process_campaign_batch
    <3> QED BY <3>1
  <2>4. ASSUME NEW g \in Gens, GenStep(g) \/ GenDies(g)
        PROVE  \/ camp' = camp \/ camp' = [camp EXCEPT !.gen = "ready"]
               \/ camp' = [camp EXCEPT !.status = "running", !.gen = "generating"]
    BY <2>4 DEF GenStep, GenDies, start_ai_campaign_job, TakeBatch, ListBatch, Generate, StopBatch,
       StoreResult, ChainBatch
  <2>5. ASSUME NEW r \in Contacts, SendStep(r) PROVE camp' = camp \/ \E recs : camp' = Status(recs)
    BY <2>5 DEF SendStep, ClaimSend, Gate, DeliverContent, SendEnds
  <2>6. ASSUME NEW r \in Contacts,
               \/ approve_recipient_ai(r) \/ reject_recipient_ai(r) \/ regenerate_recipient_ai(r)
               \/ campaign_ai_preview(r, FALSE) \/ campaign_ai_preview(r, TRUE) \/ LeadTurns(r)
        PROVE  camp' = camp \/ camp' = [camp EXCEPT !.gen = "needs_review"]
    BY <2>6 DEF approve_recipient_ai, reject_recipient_ai, regenerate_recipient_ai, campaign_ai_preview,
       LeadTurns
  <2>7. ASSUME StoreDesk \/ DeskDies \/ pause_campaign \/ resume_campaign \/ cancel_campaign
        PROVE  \/ camp' = camp \/ camp' = [camp EXCEPT !.gen = "needs_review"]
               \/ \E s \in {"running", "paused", "cancelled"} : camp' = [camp EXCEPT !.status = s]
    BY <2>7 DEF StoreDesk, DeskDies, pause_campaign, resume_campaign, cancel_campaign
  <2>8. ASSUME approve_ai_content PROVE camp' = [camp EXCEPT !.approved = TRUE, !.gen = "ready"]
    BY <2>8 DEF approve_ai_content
  <2> QED BY <2>1, <2>2, <2>3, <2>4, <2>5, <2>6, <2>7, <2>8 DEF AiNext
<1>3. CASE \E recs : camp' = Status(recs)
  <2>1. camp' = [camp EXCEPT !.status = "completed"] \/ camp' = [camp EXCEPT !.status = camp.status]
    BY <1>3 DEF Status
  <2> QED BY <1>1, <2>1 DEF Camps, Waiting
<1>4. CASE \/ camp' = camp \/ \E t : camp' = [camp EXCEPT !.gen = t]
           \/ \E t, u : camp' = [camp EXCEPT !.approved = u, !.gen = t]
  BY <1>1, <1>4 DEF Camps
<1>5. CASE \/ \E s \in {"running", "paused", "cancelled"} : camp' = [camp EXCEPT !.status = s]
           \/ \E t : camp' = [camp EXCEPT !.status = "running", !.gen = t]
  BY <1>1, <1>5 DEF Camps, Waiting
<1> QED BY <1>2, <1>3, <1>4, <1>5

(* The parts of the invariant, one by one.                                 *)
LEMMA ChainStep ==
  ASSUME AiVersions, [AiNext]_aiVars
  PROVE  ChainOK'
<1>1. /\ chain \in [start : Nat, batch : Nat] /\ AiTypes /\ ChainOK
      /\ \A g \in Gens : gw[g] # NoWork => camp.status \notin Waiting
  BY DEF AiVersions, AiTypes, GenTypes, BatchesOK
<1>2. CASE chain'.batch > 0 /\ chain.batch = 0
  <2>1. \E g \in Gens : ChainBatch(g)
    <3>1. \/ chain' = chain \/ \E n : chain' = [chain EXCEPT !.start = n]
          \/ \E g \in Gens : ChainBatch(g) \/ TakeBatch(g)
      BY DEF AiNext, aiVars, start_campaign, process_due_scheduled_campaigns, GenStep, GenDies,
         start_ai_campaign_job, ListBatch, Generate, StopBatch, StoreResult,
         process_campaign_batch, StoreDesk, DeskDies, SendStep, ClaimSend, Gate, DeliverContent,
         approve_ai_content, pause_campaign, resume_campaign, cancel_campaign, approve_recipient_ai,
         reject_recipient_ai, regenerate_recipient_ai, campaign_ai_preview, LeadTurns
    <3>2. \A g \in Gens : ~TakeBatch(g)
      BY <1>2, NoneIsNone DEF TakeBatch
    <3>3. ~(chain' = chain \/ \E n : chain' = [chain EXCEPT !.start = n])
      BY <1>1, <1>2, NoneIsNone
    <3> QED BY <3>1, <3>2, <3>3
  <2>2. PICK g \in Gens : ChainBatch(g)
    BY <2>1
  <2>3. gw[g].step = "next" /\ camp' = camp
    BY <2>2 DEF ChainBatch, GwAt
  <2>4. gw[g] # NoWork
    BY <2>3 DEF NoWork
  <2> QED BY <1>1, <2>3, <2>4 DEF ChainOK
<1>3. CASE chain'.batch > 0 /\ chain.batch # 0
  <2>1. chain.batch > 0
    BY <1>1, <1>3
  <2> QED BY <1>1, <2>1, CampGoesOn DEF ChainOK
<1> QED BY <1>2, <1>3 DEF ChainOK

LEMMA DeskStep ==
  ASSUME AiVersions, [AiNext]_aiVars
  PROVE  DeskOK'
<1>1. AiTypes /\ DeskOK /\ lead \in [Contacts -> Leads1]
  BY DEF AiVersions, AiTypes, DocTypes
<1>2. CASE desk' = desk \/ desk' = NoDesk
  BY <1>1, <1>2 DEF DeskOK
<1>3. ASSUME NEW r \in Contacts, NEW res \in generate_campaign_content(lead[r]),
             NEW op, NEW read, desk' = [op |-> op, r |-> r, read |-> read, res |-> res]
      PROVE  DeskOK'
  <2>1. PICK l \in Leads1 : l = lead[r]
    BY <1>1
  <2>2. res \in generate_campaign_content(l)
    BY <2>1
  <2>3. Fair(res)
    BY <1>1, <2>2, ContentTypes
  <2>4. desk'.res = res
    BY <1>3
  <2> QED BY <2>3, <2>4 DEF DeskOK
<1>4. \/ desk' = desk \/ desk' = NoDesk
      \/ \E r \in Contacts : regenerate_recipient_ai(r)
           \/ campaign_ai_preview(r, FALSE) \/ campaign_ai_preview(r, TRUE)
  BY DEF AiNext, aiVars, start_campaign, process_due_scheduled_campaigns, GenStep, GenDies,
     start_ai_campaign_job, TakeBatch, ListBatch, Generate, StopBatch, StoreResult, ChainBatch,
     process_campaign_batch, StoreDesk, DeskDies, SendStep, ClaimSend, Gate, DeliverContent,
     approve_ai_content, pause_campaign, resume_campaign, cancel_campaign, approve_recipient_ai,
     reject_recipient_ai, LeadTurns, peopleVars
<1>5. ASSUME NEW r \in Contacts, regenerate_recipient_ai(r) PROVE DeskOK'
  <2>1. PICK res \in generate_campaign_content(lead[r]) :
          desk' = [op |-> "regenerate", r |-> r, read |-> rec[r], res |-> res]
    BY <1>5 DEF regenerate_recipient_ai
  <2> QED BY <1>3, <2>1
<1>6. ASSUME NEW r \in Contacts, NEW again \in BOOLEAN, campaign_ai_preview(r, again) PROVE DeskOK'
  <2>1. \/ desk' = desk
        \/ \E res \in generate_campaign_content(lead[r]) :
             desk' = [op |-> IF again THEN "preview_again" ELSE "preview", r |-> r,
                      read |-> rec[r], res |-> res]
    BY <1>6 DEF campaign_ai_preview
  <2> QED BY <1>2, <1>3, <2>1
<1> QED BY <1>2, <1>4, <1>5, <1>6

-----------------------------------------------------------------------------
(* One worker's batch, and the others' as they are.                        *)
BatchOK(w, c) == /\ Fair(w.res)
                 /\ w # NoWork => c.status \notin Waiting
                 /\ w.step \in {"idle", "list"} => w.todo = {}
                 /\ \A i, j \in w.todo : i.who = j.who => i = j

(* Batches that nobody touched.                                            *)
LEMMA BatchesStay ==
  ASSUME AiVersions, [AiNext]_aiVars, NEW g \in Gens,
         \A h \in Gens \ {g} : gw'[h] = gw[h], BatchOK(gw'[g], camp')
  PROVE  BatchesOK'
<1> SUFFICES ASSUME NEW h \in Gens PROVE BatchOK(gw'[h], camp')
  BY DEF BatchesOK, BatchOK
<1>1. CASE h = g
  BY <1>1
<1>2. CASE h # g
  <2>1. gw'[h] = gw[h] /\ BatchOK(gw[h], camp)
    BY <1>2 DEF AiVersions, BatchesOK, BatchOK
  <2>2. AiTypes
    BY DEF AiVersions
  <2>3. camp.status \notin Waiting => camp'.status \notin Waiting
    BY <2>2, CampGoesOn
  <2> QED BY <2>1, <2>3 DEF BatchOK
<1> QED BY <1>1, <1>2

LEMMA NoWorkOK == \A c : BatchOK(NoWork, c)
<1>1. NoResult \in Results /\ NoResult.text = 0
  BY NothingTyped DEF NoResult, NoText
<1>2. Fair(NoResult)
  BY <1>1, NoneIsNone DEF Fair
<1> QED BY <1>2 DEF BatchOK, NoWork

LEMMA BatchesStep ==
  ASSUME AiVersions, [AiNext]_aiVars
  PROVE  BatchesOK'
<1>1. /\ gw \in [Gens -> Batch] /\ AiTypes /\ lead \in [Contacts -> Leads1] /\ camp \in Camps
      /\ \A g \in Gens : BatchOK(gw[g], camp)
  BY DEF AiVersions, AiTypes, GenTypes, DocTypes, BatchesOK, BatchOK
<1>2. CASE gw' = gw
  <2> SUFFICES ASSUME NEW g \in Gens PROVE BatchesOK'
    BY DEF BatchesOK
  <2>1. camp.status \notin Waiting => camp'.status \notin Waiting
    BY <1>1, CampGoesOn
  <2>2. BatchOK(gw'[g], camp')
    BY <1>1, <1>2, <2>1 DEF BatchOK
  <2> QED BY <1>2, <2>2, BatchesStay
<1>3. ASSUME NEW g \in Gens, gw' = [gw EXCEPT ![g] = NoWork] PROVE BatchesOK'
  <2>1. gw'[g] = NoWork /\ \A h \in Gens \ {g} : gw'[h] = gw[h]
    BY <1>1, <1>3
  <2>2. BatchOK(gw'[g], camp')
    BY <2>1, NoWorkOK
  <2> QED BY <2>1, <2>2, BatchesStay
<1>4. ASSUME NEW g \in Gens, gw' = [gw EXCEPT ![g].step = "list"], gw[g] = NoWork,
             camp'.status \notin Waiting
      PROVE  BatchesOK'
  <2>1. \A h \in Gens \ {g} : gw'[h] = gw[h]
    BY <1>1, <1>4
  <2>2. gw'[g].todo = {} /\ gw'[g].res = gw[g].res
    BY <1>1, <1>4 DEF NoWork, Batch
  <2>3. BatchOK(gw'[g], camp')
    BY <1>1, <1>4, <2>2 DEF BatchOK
  <2> QED BY <2>1, <2>3, BatchesStay
<1>5. ASSUME NEW g \in Gens, start_ai_campaign_job(g) PROVE BatchesOK'
  <2>1. CASE gw' = [gw EXCEPT ![g].step = "list"]
          /\ camp' = [camp EXCEPT !.status = "running", !.gen = "generating"]
    <3>1. camp'.status \notin Waiting
      BY <1>1, <2>1 DEF Camps, Waiting
    <3>2. gw[g] = NoWork
      BY <1>5 DEF start_ai_campaign_job
    <3> QED BY <1>4, <2>1, <3>1, <3>2
  <2> QED BY <1>2, <1>5, <2>1 DEF start_ai_campaign_job
<1>6. ASSUME NEW g \in Gens, TakeBatch(g) PROVE BatchesOK'
  <2>1. gw[g] = NoWork /\ chain.batch > 0 /\ gw' = [gw EXCEPT ![g].step = "list"] /\ camp' = camp
    BY <1>6 DEF TakeBatch
  <2>2. camp'.status \notin Waiting
    BY <2>1 DEF AiVersions, ChainOK
  <2> QED BY <1>4, <2>1, <2>2
<1>7. ASSUME NEW g \in Gens, ListBatch(g) PROVE BatchesOK'
  <2> DEFINE T == {[who |-> q, read |-> rec[q]] : q \in FirstFew(Undecided)}
  <2>1. CASE /\ gw' = [gw EXCEPT ![g] = [NoWork EXCEPT !.step = "next", !.approved = camp.approved, !.todo = T]]
             /\ camp' = camp /\ camp.status = "running"
    <3>1. \A i, j \in T : i.who = j.who => i = j
      OBVIOUS
    <3> HIDE DEF T
    <3>2. /\ \A h \in Gens \ {g} : gw'[h] = gw[h]
          /\ gw'[g].step = "next" /\ gw'[g].todo = T /\ gw'[g].res = NoWork.res
      BY <1>1, <2>1 DEF NoWork
    <3>3. Fair(NoWork.res)
      BY NoWorkOK DEF BatchOK
    <3>4. BatchOK(gw'[g], camp')
      BY <2>1, <3>1, <3>2, <3>3 DEF BatchOK, Waiting
    <3> QED BY <3>2, <3>4, BatchesStay
  <2> HIDE DEF T
  <2> QED BY <1>3, <1>7, <2>1 DEF ListBatch, T
<1>8. ASSUME NEW g \in Gens, Generate(g) PROVE BatchesOK'
  <2>1. PICK it \in Foremost(gw[g].todo) :
          \/ gw' = [gw EXCEPT ![g].todo = @ \ {it}]
          \/ \E res \in generate_campaign_content(lead[it.who]) :
               gw' = [gw EXCEPT ![g].step = "write", ![g].res = res]
    BY <1>8 DEF Generate
  <2>2. camp' = camp /\ gw[g].step = "next" /\ camp.status = "running"
    BY <1>8 DEF Generate, GwAt
  <2>3. it.who \in Contacts
    BY <1>1 DEF Foremost, Batch, Items
  <2>4. \A h \in Gens \ {g} : gw'[h] = gw[h]
    BY <1>1, <2>1
  <2>5. CASE gw' = [gw EXCEPT ![g].todo = @ \ {it}]
    <3>1. gw'[g].todo \subseteq gw[g].todo /\ gw'[g].res = gw[g].res /\ gw'[g].step = "next"
      BY <1>1, <2>2, <2>5 DEF Batch
    <3>2. BatchOK(gw'[g], camp')
      BY <1>1, <2>2, <3>1 DEF BatchOK, Waiting
    <3> QED BY <2>4, <3>2, BatchesStay
  <2>6. ASSUME NEW res \in generate_campaign_content(lead[it.who]),
               gw' = [gw EXCEPT ![g].step = "write", ![g].res = res]
        PROVE  BatchesOK'
    <3>1. PICK l \in Leads1 : l = lead[it.who]
      BY <1>1, <2>3
    <3>2. res \in generate_campaign_content(l)
      BY <3>1
    <3>3. Fair(res)
      BY <1>1, <3>2, ContentTypes
    <3>4. gw'[g].todo = gw[g].todo /\ gw'[g].res = res /\ gw'[g].step = "write"
      BY <1>1, <2>6 DEF Batch
    <3>5. BatchOK(gw'[g], camp')
      BY <1>1, <2>2, <3>3, <3>4 DEF BatchOK, Waiting
    <3> QED BY <2>4, <3>5, BatchesStay
  <2> QED BY <2>1, <2>5, <2>6
<1>9. ASSUME NEW g \in Gens, StoreResult(g) PROVE BatchesOK'
  <2>1. PICK it : gw' = [gw EXCEPT ![g].step = "next", ![g].todo = @ \ {it}, ![g].res = NoResult]
    BY <1>9 DEF StoreResult
  <2>2. camp' = camp /\ gw[g].step = "write"
    BY <1>9 DEF StoreResult, GwAt
  <2>3. gw[g] # NoWork
    BY <2>2 DEF NoWork
  <2>4. /\ \A h \in Gens \ {g} : gw'[h] = gw[h]
        /\ gw'[g].todo \subseteq gw[g].todo /\ gw'[g].res = NoResult /\ gw'[g].step = "next"
    BY <1>1, <2>1 DEF Batch
  <2>5. Fair(NoResult)
    BY NoWorkOK DEF BatchOK, NoWork
  <2>6. BatchOK(gw'[g], camp')
    BY <1>1, <2>2, <2>3, <2>4, <2>5 DEF BatchOK
  <2> QED BY <2>4, <2>6, BatchesStay
<1>10. ASSUME NEW g \in Gens, StopBatch(g) \/ ChainBatch(g) \/ GenDies(g) PROVE BatchesOK'
  <2>1. gw' = [gw EXCEPT ![g] = NoWork]
    BY <1>10 DEF StopBatch, ChainBatch, GenDies
  <2> QED BY <1>3, <2>1
<1>11. gw' = gw \/ \E g \in Gens : GenStep(g) \/ GenDies(g)
  BY DEF AiNext, aiVars, start_campaign, process_due_scheduled_campaigns,
     process_campaign_batch, StoreDesk, DeskDies, SendStep, ClaimSend, Gate, DeliverContent,
     approve_ai_content, pause_campaign, resume_campaign, cancel_campaign, approve_recipient_ai,
     reject_recipient_ai, regenerate_recipient_ai, campaign_ai_preview, LeadTurns, genVars
<1> QED BY <1>2, <1>5, <1>6, <1>7, <1>8, <1>9, <1>10, <1>11 DEF GenStep

-----------------------------------------------------------------------------
(* The invariant *)

LEMMA AiVersionsInit == AiInit => AiVersions
<1> SUFFICES ASSUME AiInit PROVE AiVersions
  OBVIOUS
<1>1. AiTypes
  BY AiTypesInit
<1>2. /\ gw = [g \in Gens |-> NoWork] /\ desk = NoDesk /\ chain = [start |-> 0, batch |-> 0]
         /\ keys = {}
      /\ rec = [r \in Contacts |->
           IF r \in acase.gone THEN [NewRec EXCEPT !.status = "skipped"] ELSE NewRec]
  BY DEF AiInit
<1>3. \A r \in Contacts : rec[r].ver = 0 /\ rec[r].text = 0
  BY <1>2 DEF NewRec, NoText
<1>4. \A g \in Gens : BatchOK(gw[g], camp)
  BY <1>2, NoWorkOK
<1>5. BatchesOK /\ ChainOK /\ DeskOK
  <2>1. chain.batch = 0
    BY <1>2
  <2>2. ~(chain.batch > 0)
    BY <2>1, NoneIsNone
  <2> QED BY <1>2, <1>4, <2>2 DEF BatchesOK, BatchOK, ChainOK, DeskOK
<1>6. ASSUME NEW r \in Contacts PROVE VersionsOf(r)
  <2>1. rec[r].ver = 0 /\ ~(rec[r].text > 0)
    BY <1>3, NoneIsNone
  <2>2. \A g \in Gens : gw[g].todo = {} /\ gw[g].step = "idle"
    BY <1>2 DEF NoWork
  <2>3. 1..0 = {}
    OBVIOUS
  <2>4. Claimed(r) /\ Textless(r)
    BY <2>1, <2>3 DEF Claimed, Textless
  <2>5. Behind(r) /\ NextIs(r) /\ DeskIs(r)
    BY <1>2, <2>2 DEF Behind, NextIs, Writes, DeskIs
  <2> QED BY <2>4, <2>5 DEF VersionsOf
<1> QED BY <1>1, <1>5, <1>6 DEF AiVersions

LEMMA AiVersionsStep == AiVersions /\ [AiNext]_aiVars => AiVersions'
<1> SUFFICES ASSUME AiVersions, [AiNext]_aiVars PROVE AiVersions'
  OBVIOUS
<1>1. AiTypes
  BY DEF AiVersions
<1>2. AiTypes'
  BY <1>1, AiTypesStep
<1>3. \A r \in Contacts \ redone' : VersionsOf(r)'
  BY VersionsStep
<1> QED BY <1>2, <1>3, ChainStep, DeskStep, BatchesStep DEF AiVersions

(* It gives the types.                                                     *)
LEMMA AiVersionsGive == AiVersions => AiTypeOK
  BY AiTypesGive DEF AiVersions

(* A worker that goes from its write to the next recipient has written     *)
(* over no text, except that a person had written again.                   *)
LEMMA ApprovedStep ==
  ASSUME AiVersions, [AiNext]_aiVars, NEW g \in Gens, GwAt(g, "write"), gw'[g].step = "next",
         NEW r \in Contacts \ redone, rec[r].text > 0
  PROVE  rec'[r].text = rec[r].text
<1>1. gw \in [Gens -> Batch] /\ gw[g].step = "write"
  BY DEF AiVersions, AiTypes, GenTypes, GwAt
<1>2. CASE StoreResult(g)
  BY <1>2, StoreVersions
<1>3. CASE rec' = rec
  BY <1>3
<1>4. gw' # gw
  BY <1>1
<1>5. ASSUME NEW h \in Gens, GenStep(h) \/ GenDies(h) PROVE rec' = rec \/ StoreResult(g)
  <2>1. CASE TakeBatch(h) \/ ListBatch(h) \/ Generate(h) \/ StopBatch(h) \/ ChainBatch(h) \/ GenDies(h)
    BY <2>1 DEF TakeBatch, ListBatch, Generate, StopBatch, ChainBatch, GenDies
  <2>2. CASE start_ai_campaign_job(h)
    <3>1. gw[h] = NoWork /\ (gw' = gw \/ gw' = [gw EXCEPT ![h].step = "list"])
      BY <2>2 DEF start_ai_campaign_job
    <3>2. h # g
      BY <1>1, <3>1 DEF NoWork
    <3>3. gw'[g] = gw[g]
      BY <1>1, <3>1, <3>2
    <3> QED BY <1>1, <3>3
  <2>3. CASE StoreResult(h) /\ h # g
    <3>1. gw'[g] = gw[g]
      BY <1>1, <2>3 DEF StoreResult
    <3> QED BY <1>1, <3>1
  <2> QED BY <1>5, <2>1, <2>2, <2>3 DEF GenStep
<1>6. gw' = gw \/ \E h \in Gens : GenStep(h) \/ GenDies(h)
  BY DEF AiNext, aiVars, start_campaign, process_due_scheduled_campaigns,
     process_campaign_batch, StoreDesk, DeskDies, SendStep, ClaimSend, Gate, DeliverContent,
     approve_ai_content, pause_campaign, resume_campaign, cancel_campaign, approve_recipient_ai,
     reject_recipient_ai, regenerate_recipient_ai, campaign_ai_preview, LeadTurns, genVars
<1> QED BY <1>2, <1>3, <1>4, <1>5, <1>6

(* Whatever batches, reviews, previews and sends interleave: the variables *)
(* keep their types, and under full review nobody gets a text that was not *)
(* looked at, unless the texts were approved all at once.                  *)
THEOREM AiKept == AiInit /\ [][AiNext]_aiVars => [](AiTypeOK /\ ReviewedFirst)
<1>1. AiInv => ReviewedFirst
  BY DEF AiInv
<1> QED BY <1>1, AiInvInit, AiInvStep, AiVersionsInit, AiVersionsStep, AiVersionsGive, PTL

(* No batch writes over an approved text, though Start was pressed twice   *)
(* and two chains of batches work on the same recipients: the version key  *)
(* is claimed before the AI is asked (process_ai_generation_batch), and a  *)
(* text that is there has its version behind it.  Only a contact whose     *)
(* text a person had written again may lose it: regenerate_recipient_ai    *)
(* claims no version.                                                      *)
THEOREM ApprovalsKept == AiInit /\ [][AiNext]_aiVars => ApprovedStays
<1>1. AiVersions /\ [AiNext]_aiVars =>
        [\A g \in Gens : GwAt(g, "write") /\ gw'[g].step = "next" =>
           \A r \in Contacts \ redone :
             rec[r].ok /\ rec[r].text > 0 => rec'[r].text = rec[r].text]_aiVars
  BY ApprovedStep
<1> QED BY <1>1, AiVersionsInit, AiVersionsStep, PTL DEF ApprovedStays

-----------------------------------------------------------------------------
(* Consent.  Nothing is said of the requests in progress: whatever   *)
(* they have read and still have to do, the steps that write a consent     *)
(* look at the lead again, or at when they read it (stale).                *)

LeadOK == /\ {"id", "status"} \subseteq DOMAIN contact
          /\ contact.id \in Nat /\ made \in Nat /\ stale \in BOOLEAN

(* A wish is a lead's, and goes with it.                                   *)
NobodysWish == contact.id = 0 => wish # "out"

ConsentInv == LeadOK /\ NobodysWish /\ OptOutStands

LEMMA ConsentInvInit == LeadInit => ConsentInv
<1> SUFFICES ASSUME LeadInit PROVE ConsentInv
  OBVIOUS
<1>1. contact = NoContact /\ made = 0 /\ stale = FALSE /\ wish = "none"
  BY DEF LeadInit
<1>2. {"id", "status"} \subseteq DOMAIN NoContact /\ NoContact.id = 0
  BY DEF NoContact
<1>3. contact.id \in Nat /\ made \in Nat
  BY <1>1, <1>2
<1>4. NobodysWish /\ OptOutStands
  BY <1>1 DEF NobodysWish, OptOutStands
<1> QED BY <1>1, <1>2, <1>3, <1>4, Zenon DEF ConsentInv, LeadOK

-----------------------------------------------------------------------------
(* Steps *)

(* A lead that keeps its id and status keeps the wish.                     *)
LEMMA ConsentUntouched ==
  ASSUME ConsentInv, UNCHANGED <<made, wish, stale>>,
         {"id", "status"} \subseteq DOMAIN contact',
         contact'.id = contact.id, contact'.status = contact.status
  PROVE  ConsentInv'
  BY DEF ConsentInv, LeadOK, NobodysWish, OptOutStands

(* A new lead: whoever it is of has no wish, or the one it is imported with.*)
LEMMA NewLead ==
  ASSUME ConsentInv, {"id", "status"} \subseteq DOMAIN contact',
         contact'.id = made + 1, made' = made + 1, stale' = stale,
         wish' = "out" => contact'.status = "opted_out"
  PROVE  ConsentInv'
  BY DEF ConsentInv, LeadOK, NobodysWish, OptOutStands

LEMMA ConsentChangeKeeps ==
  ASSUME ConsentInv, NEW c, OptOutLead(c) \/ OptInLead(c)
  PROVE  ConsentInv'
<1>1. CASE UNCHANGED <<contact, made, wish, stale>>
  BY <1>1, ConsentUntouched DEF ConsentInv, LeadOK
<1>2. ASSUME NEW step, NEW status, NEW said, apply_consent_change(c, step, status, said),
             said = "out" => status = "opted_out", Mine(c)
      PROVE  ConsentInv'
  BY <1>2 DEF apply_consent_change, consent_update_fields, Mine,
              ConsentInv, LeadOK, NobodysWish, OptOutStands
<1>3. \E step, status, said : /\ apply_consent_change(c, step, status, said)
                              /\ said = "out" => status = "opted_out"
  BY DEF OptOutLead, OptInLead
<1> QED BY <1>1, <1>2, <1>3 DEF apply_consent_change

(* The import writes over an opt-out only if it has read the lead before   *)
(* it: then the lead's status is not the one that was read, and the model  *)
(* says so.                                                                *)
LEMMA ImportKeeps ==
  ASSUME ConsentInv, NEW c, import_leads_csv(c)
  PROVE  ConsentInv'
<1> DEFINE row == calls[c].row
<1>1. CASE UNCHANGED <<contact, made, wish, stale>>
  BY <1>1, ConsentUntouched DEF ConsentInv, LeadOK
<1>2. CASE /\ made' = made + 1 /\ wish' = IF row = "opted_out" THEN "out" ELSE "none"
           /\ contact' = _consent_fields_from_row([NoContact EXCEPT !.id = made + 1], row)
           /\ stale' = stale
  <2>1. /\ {"id", "status"} \subseteq DOMAIN contact'
        /\ contact'.id = made + 1 /\ contact'.status = row
    BY <1>2 DEF _consent_fields_from_row, NoContact
  <2> QED BY <1>2, <2>1, NewLead
<1>3. CASE /\ ~KeepsConsent(calls[c], row) /\ made' = made /\ Mine(c)
           /\ contact' = _consent_fields_from_row(contact, row)
           /\ wish' = IF row = "opted_out" THEN "out" ELSE wish
           /\ stale' = (row # "opted_out" /\ (stale \/ contact.status # calls[c].status))
  <2>1. /\ {"id", "status"} \subseteq DOMAIN contact'
        /\ contact'.id = contact.id /\ contact'.status = row
    BY <1>3 DEF _consent_fields_from_row, ConsentInv, LeadOK
  <2>2. wish' = "out" /\ ~stale' => row = "opted_out"
    BY <1>3 DEF KeepsConsent, ConsentInv, LeadOK, OptOutStands
  <2>3. contact.id # 0 /\ stale' \in BOOLEAN
    BY <1>3 DEF Mine
  <2> QED BY <1>3, <2>1, <2>2, <2>3 DEF ConsentInv, LeadOK, NobodysWish, OptOutStands
<1> QED BY <1>1, <1>2, <1>3 DEF import_leads_csv

LEMMA LeadStepKeeps ==
  ASSUME ConsentInv, NEW c, LeadStep(c)
  PROVE  ConsentInv'
<1>1. ASSUME UNCHANGED <<made, wish, stale>>,
             \/ contact' = contact
             \/ \E b : contact' = [contact EXCEPT !.black = b]
             \/ \E s : contact' = [contact EXCEPT !.score = s]
             \/ \E s : contact' = [contact EXCEPT !.said = s]
      PROVE  ConsentInv'
  BY <1>1, ConsentUntouched DEF ConsentInv, LeadOK
<1>2. CASE HearNumber(c) \/ Find(c) \/ ListPhone(c) \/ UnlistPhone(c) \/ LookAgain(c) \/ ReadForScore(c)
  BY <1>1, <1>2 DEF HearNumber, Find, ListPhone, UnlistPhone, LookAgain, ReadForScore, leadHistory
<1>3. CASE StoreMessage(c)
  BY <1>1, <1>3 DEF StoreMessage, leadHistory
<1>4. CASE update_lead(c) \/ remove_blacklist(c) \/ add_blacklist(c)
  BY <1>1, <1>4 DEF update_lead, remove_blacklist, add_blacklist, leadHistory
<1>5. CASE recalculate_lead_score(c)
  BY <1>1, <1>5 DEF recalculate_lead_score
<1>6. CASE find_or_create_by_phone(c)
  <2>1. CASE contact.id = 0
    <3>1. /\ {"id", "status"} \subseteq DOMAIN contact'
          /\ contact'.id = made + 1 /\ made' = made + 1 /\ stale' = stale /\ wish' = wish
      BY <1>6, <2>1 DEF find_or_create_by_phone, NoContact, leadHistory
    <3> QED BY <2>1, <3>1, NewLead DEF ConsentInv, NobodysWish
  <2>2. CASE contact.id # 0
    BY <1>1, <1>6, <2>2 DEF find_or_create_by_phone, leadHistory
  <2> QED BY <2>1, <2>2
<1>7. CASE delete_lead(c)
  <2>1. CASE Mine(c)
    BY <1>7, <2>1 DEF delete_lead, NoContact, ConsentInv, LeadOK, NobodysWish, OptOutStands
  <2>2. CASE ~Mine(c)
    BY <1>1, <1>7, <2>2 DEF delete_lead
  <2> QED BY <2>1, <2>2
<1> QED BY <1>2, <1>3, <1>4, <1>5, <1>6, <1>7, ConsentChangeKeeps, ImportKeeps DEF LeadStep

LEMMA ConsentInvStep == ConsentInv /\ [LeadNext]_leadVars => ConsentInv'
<1> SUFFICES ASSUME ConsentInv, [LeadNext]_leadVars PROVE ConsentInv'
  OBVIOUS
<1>1. CASE UNCHANGED <<contact, made, wish, stale>>
  BY <1>1, ConsentUntouched DEF ConsentInv, LeadOK
<1>2. ASSUME NEW c, LeadCallDies(c) \/ \E kind \in Kinds : Begin(c, kind)
      PROVE  ConsentInv'
  BY <1>1, <1>2 DEF LeadCallDies, Begin
<1>3. CASE UNCHANGED leadVars
  BY <1>1, <1>3 DEF leadVars
<1> QED BY <1>2, <1>3, LeadStepKeeps DEF LeadNext

(* Who has said stop, or was opted out by the team or a file, is opted     *)
(* out until an opt-in or a deletion, whatever messages, edits, blacklist  *)
(* changes and imports interleave; only an import that had read the lead   *)
(* before may write over it (import_leads_csv).                            *)
THEOREM OptOutStays == Spec => []OptOutStands
<1>1. ConsentInv => OptOutStands
  BY DEF ConsentInv
<1>2. Init => ConsentInv
  BY ConsentInvInit DEF Init
<1>3. ConsentInv /\ [Next]_vars => ConsentInv'
  BY ConsentInvStep, PartsStep
<1> QED BY <1>1, <1>2, <1>3, PTL DEF Spec

-----------------------------------------------------------------------------
(* Leads: the blacklist and the score.  Here the requests in progress      *)
(* matter: what each still has to do tells which entry of the list or      *)
(* which score may be behind the lead, and who will put it right.          *)

Steps == {"gate", "find", "insert", "message", "out", "in", "list", "unlist", "clear", "patch",
          "row", "recheck", "sweep", "delete", "read_score", "write_score"}

(* What comes after a step in every program, and whose steps they are.     *)
ShapeAt(t, kind, i) ==
  /\ t[i] = "message" => kind \in {"message", "stop", "start"}
  /\ t[i] = "list" => kind \in Consenting
  /\ t[i] = "row" => kind = "import"
  /\ t[i] \in {"find", "insert"} => i + 1 \in DOMAIN t
  /\ t[i] = "find" /\ kind \in {"message", "stop", "start"} => i + 2 \in DOMAIN t
  /\ t[i] \in {"patch", "row"} => i + 1 \in DOMAIN t /\ t[i + 1] = "read_score"
  /\ t[i] = "read_score" => i + 1 \in DOMAIN t /\ t[i + 1] = "write_score"
  /\ t[i] = "out" => i + 2 \in DOMAIN t /\ t[i + 1] = "list" /\ t[i + 2] = "read_score"
  /\ t[i] = "in" => i + 2 \in DOMAIN t

Shape(t, kind) == t \in Seq(Steps) /\ \A i \in DOMAIN t : ShapeAt(t, kind, i)

CallType == [kind : Kinds \cup {"none"}, todo : Seq(Steps), id : Nat, status : Consents,
             black : BOOLEAN, row : Consents]

CallOK(q, top, kinds) ==
  /\ q \in CallType /\ Shape(q.todo, q.kind) /\ q.id <= top
  /\ q.kind \in kinds \cup {"none"} /\ (q.todo # <<>> <=> q.kind # "none")

(* Steps that end with the score of the lead as it is then.                *)
Near(t) == t # <<>> /\ \/ Head(t) \in {"read_score", "write_score"}
                       \/ Head(t) = "list" /\ 2 \in DOMAIN t /\ t[2] = "read_score"

LeadVarsOK ==
  /\ contact \in Contact /\ contact.id <= made /\ made \in Nat /\ listed \in BOOLEAN
  /\ wish \in {"none", "out", "in"} /\ last \in {"none", "list", "unlist"}
  /\ stale \in BOOLEAN /\ mingled \in BOOLEAN /\ oldscore \in BOOLEAN
  /\ lcase \in LeadCaseTypes

LeadShapes ==
  /\ LeadVarsOK
  /\ calls \in [LeadCalls -> CallType]
  /\ \A c \in LeadCalls : CallOK(calls[c], made, lcase.kinds)

(* A wish that is not on the blacklist yet has its entry before it; a      *)
(* blocked lead's score its end.                                           *)
EntryAwaited == "import" \notin lcase.kinds /\ wish = "out" /\ last = "none" /\ ~mingled
ScoreAwaited == contact.black /\ contact.score /\ ~oldscore

Listing == /\ last = "list" => listed
           /\ last = "unlist" => ~listed
           /\ EntryAwaited => \E c \in LeadCalls : Doing(c, "list")

Scoring == ScoreAwaited => \E c \in LeadCalls : Mine(c) /\ Near(calls[c].todo)

LeadInv == LeadShapes /\ Listing /\ Scoring

-----------------------------------------------------------------------------
(* Programs *)

(* What is left of a program is a program.                                 *)
LEMMA TailShape ==
  ASSUME NEW kind, NEW t, Shape(t, kind), t # <<>>
  PROVE  /\ Shape(Tail(t), kind)
         /\ DOMAIN t = 1..Len(t) /\ Len(t) \in Nat \ {0} /\ Head(t) = t[1] /\ Head(t) \in Steps
         /\ Len(Tail(t)) = Len(t) - 1
         /\ \A i \in 1..Len(t) - 1 : Tail(t)[i] = t[i + 1]
         /\ ShapeAt(t, kind, 1)
<1>1. t \in Seq(Steps) /\ Tail(t) \in Seq(Steps)
  BY DEF Shape
<1>2. /\ DOMAIN t = 1..Len(t) /\ Len(t) \in Nat \ {0} /\ Head(t) = t[1] /\ Head(t) \in Steps
      /\ Len(Tail(t)) = Len(t) - 1 /\ DOMAIN Tail(t) = 1..Len(t) - 1
      /\ \A i \in 1..Len(t) - 1 : Tail(t)[i] = t[i + 1]
  BY <1>1
<1>3. ASSUME NEW i \in DOMAIN Tail(t) PROVE ShapeAt(Tail(t), kind, i)
  <2>1. i \in Nat /\ i + 1 \in DOMAIN t /\ Tail(t)[i] = t[i + 1] /\ ShapeAt(t, kind, i + 1)
    BY <1>2 DEF Shape
  <2>2. i + 2 \in DOMAIN t => i + 1 \in DOMAIN Tail(t) /\ Tail(t)[i + 1] = t[i + 2]
    BY <1>2, <2>1
  <2>3. i + 3 \in DOMAIN t => i + 2 \in DOMAIN Tail(t) /\ Tail(t)[i + 2] = t[i + 3]
    BY <1>2, <2>1
  <2>4. (i + 1) + 1 = i + 2 /\ (i + 1) + 2 = i + 3
    BY <2>1
  <2> QED BY <2>1, <2>2, <2>3, <2>4 DEF ShapeAt
<1>4. 1 \in DOMAIN t
  BY <1>2
<1> QED BY <1>1, <1>2, <1>3, <1>4 DEF Shape

LEMMA EmptyShape == ASSUME NEW kind PROVE Shape(<<>>, kind)
  BY DEF Shape

LEMMA ProgramShape == ASSUME NEW kind \in Kinds PROVE Shape(Program(kind), kind) /\ Program(kind) # <<>>
<1>1. CASE kind = "message"
  BY <1>1 DEF Program, Shape, ShapeAt, Steps, Consenting
<1>2. CASE kind = "stop"
  BY <1>2 DEF Program, Shape, ShapeAt, Steps, Consenting
<1>3. CASE kind = "start"
  BY <1>3 DEF Program, Shape, ShapeAt, Steps, Consenting
<1>4. CASE kind = "create"
  BY <1>4 DEF Program, Shape, ShapeAt, Steps, Consenting
<1>5. CASE kind = "opt_in"
  BY <1>5 DEF Program, Shape, ShapeAt, Steps, Consenting
<1>6. CASE kind = "opt_out"
  BY <1>6 DEF Program, Shape, ShapeAt, Steps, Consenting
<1>7. CASE kind = "blacklist"
  BY <1>7 DEF Program, Shape, ShapeAt, Steps, Consenting
<1>8. CASE kind = "unblacklist"
  BY <1>8 DEF Program, Shape, ShapeAt, Steps, Consenting
<1>9. CASE kind \in {"block", "unblock"}
  <2>1. Program(kind) = <<"patch", "read_score", "write_score">>
    BY <1>9 DEF Program
  <2> QED BY <1>9, <2>1 DEF Shape, ShapeAt, Steps, Consenting
<1>10. CASE kind = "import"
  BY <1>10 DEF Program, Shape, ShapeAt, Steps, Consenting
<1>11. CASE kind = "delete"
  BY <1>11 DEF Program, Shape, ShapeAt, Steps, Consenting
<1> QED BY <1>1, <1>2, <1>3, <1>4, <1>5, <1>6, <1>7, <1>8, <1>9, <1>10, <1>11 DEF Kinds

(* A request that rests.                                                   *)
LEMMA NoRequestOK ==
  ASSUME NEW top \in Nat, NEW kinds PROVE CallOK(NoRequest, top, kinds) /\ NoRequest.todo = <<>>
<1>1. NoRequest \in CallType /\ NoRequest.kind = "none" /\ NoRequest.todo = <<>> /\ NoRequest.id = 0
  BY DEF NoRequest, CallType, Consents
<1> QED BY <1>1, EmptyShape DEF CallOK

(* A request goes on with what is left of its steps.                       *)
LEMMA GoesOn ==
  ASSUME NEW q, NEW top, NEW kinds, CallOK(q, top, kinds), q.kind # "none",
         NEW rest, Shape(rest, q.kind), rest # <<>>
  PROVE  LET p == [q EXCEPT !.todo = rest] IN
         /\ CallOK(p, top, kinds) /\ p.todo = rest /\ p.id = q.id /\ p.kind = q.kind
<1> DEFINE p == [q EXCEPT !.todo = rest]
<1>1. rest \in Seq(Steps) /\ q \in CallType
  BY DEF Shape, CallOK
<1>2. /\ p \in CallType /\ p.todo = rest /\ p.id = q.id /\ p.kind = q.kind
  BY <1>1 DEF CallType
<1> HIDE DEF p
<1>3. CallOK(p, top, kinds)
  BY <1>2 DEF CallOK
<1> QED BY <1>2, <1>3 DEF p

-----------------------------------------------------------------------------
(* One request's step, and what it has to show.                            *)
LEMMA LeadChange ==
  ASSUME LeadInv, NEW c \in LeadCalls, NEW q, calls' = [calls EXCEPT ![c] = q],
         CallOK(q, made', lcase.kinds), LeadVarsOK', lcase'.kinds = lcase.kinds, made <= made',
         last' = "list" => listed', last' = "unlist" => ~listed',
         EntryAwaited' => \/ q.todo # <<>> /\ Head(q.todo) = "list"
                          \/ EntryAwaited /\ ~Doing(c, "list"),
         ScoreAwaited' => \/ Near(q.todo) /\ contact'.id = q.id /\ q.id # 0
                          \/ /\ ScoreAwaited /\ contact'.id = contact.id
                             /\ ~(Mine(c) /\ Near(calls[c].todo))
  PROVE  LeadInv'
<1>1. calls \in [LeadCalls -> CallType] /\ made \in Nat /\ made' \in Nat
      /\ \A d \in LeadCalls : CallOK(calls[d], made, lcase.kinds)
  BY DEF LeadInv, LeadShapes, LeadVarsOK
<1>2. \A d \in LeadCalls : calls'[d] = IF d = c THEN q ELSE calls[d]
  BY <1>1
<1>3. calls' \in [LeadCalls -> CallType]
  BY <1>1 DEF CallOK
<1>4. ASSUME NEW d \in LeadCalls PROVE CallOK(calls'[d], made', lcase'.kinds)
  <2>1. CASE d = c
    BY <1>2, <2>1
  <2>2. CASE d # c
    <3>1. CallOK(calls[d], made, lcase.kinds) /\ calls[d].id \in Nat
      BY <1>1 DEF CallType
    <3> QED BY <1>1, <1>2, <2>2, <3>1 DEF CallOK
  <2> QED BY <2>1, <2>2
<1>5. LeadShapes'
  BY <1>3, <1>4 DEF LeadShapes
<1>6. Listing'
  <2> SUFFICES ASSUME EntryAwaited'
               PROVE  \E d \in LeadCalls : Doing(d, "list")'
    BY DEF Listing
  <2>1. CASE q.todo # <<>> /\ Head(q.todo) = "list"
    BY <1>2, <2>1 DEF Doing, Active
  <2>2. CASE EntryAwaited /\ ~Doing(c, "list")
    <3>1. PICK d \in LeadCalls : Doing(d, "list")
      BY <2>2 DEF LeadInv, Listing
    <3> QED BY <1>2, <2>2, <3>1 DEF Doing, Active
  <2> QED BY <2>1, <2>2
<1>7. Scoring'
  <2> SUFFICES ASSUME ScoreAwaited'
               PROVE  \E d \in LeadCalls : Mine(d)' /\ Near(calls'[d].todo)
    BY DEF Scoring
  <2>1. CASE Near(q.todo) /\ contact'.id = q.id /\ q.id # 0
    BY <1>2, <2>1 DEF Mine
  <2>2. CASE /\ ScoreAwaited /\ contact'.id = contact.id
             /\ ~(Mine(c) /\ Near(calls[c].todo))
    <3>1. PICK d \in LeadCalls : Mine(d) /\ Near(calls[d].todo)
      BY <2>2 DEF LeadInv, Scoring
    <3> QED BY <1>2, <2>2, <3>1 DEF Mine
  <2> QED BY <2>1, <2>2
<1> QED BY <1>5, <1>6, <1>7 DEF LeadInv

(* A request in progress.                                                  *)
LEMMA OnCourse ==
  ASSUME LeadInv, NEW c \in LeadCalls, Active(c)
  PROVE  LET q == calls[c]
             t == q.todo IN
         /\ CallOK(q, made, lcase.kinds) /\ q.kind \in Kinds /\ q.kind \in lcase.kinds /\ q.id \in Nat
         /\ Shape(t, q.kind) /\ Shape(Tail(t), q.kind) /\ ShapeAt(t, q.kind, 1)
         /\ DOMAIN t = 1..Len(t) /\ Len(t) \in Nat \ {0} /\ Head(t) = t[1]
         /\ Len(Tail(t)) = Len(t) - 1
         /\ Len(t) >= 2 => Tail(t) # <<>> /\ Head(Tail(t)) = t[2]
         /\ Len(t) >= 3 => /\ 2 \in DOMAIN Tail(t) /\ Tail(t)[2] = t[3]
                            /\ Shape(Tail(Tail(t)), q.kind)
         /\ Len(t) >= 2 => Shape(Tail(Tail(t)), q.kind)
<1> DEFINE q == calls[c]
           t == q.todo
<1>1. CallOK(q, made, lcase.kinds) /\ t # <<>> /\ q \in CallType
  BY DEF LeadInv, LeadShapes, Active
<1>2. Shape(t, q.kind) /\ t # <<>> /\ q.kind # "none" /\ q.kind \in lcase.kinds /\ q.id \in Nat
  BY <1>1 DEF CallOK, CallType
<1>3. lcase.kinds \subseteq Kinds
  BY DEF LeadInv, LeadShapes, LeadVarsOK, LeadCaseTypes
<1>4. /\ Shape(Tail(t), q.kind)
      /\ DOMAIN t = 1..Len(t) /\ Len(t) \in Nat \ {0} /\ Head(t) = t[1] /\ Head(t) \in Steps
      /\ Len(Tail(t)) = Len(t) - 1
      /\ \A i \in 1..Len(t) - 1 : Tail(t)[i] = t[i + 1]
      /\ ShapeAt(t, q.kind, 1)
  BY <1>2, TailShape
<1>5. Tail(t) \in Seq(Steps)
  BY <1>4 DEF Shape
<1> HIDE DEF t, q
<1>6. Len(t) >= 2 => Tail(t) # <<>> /\ Head(Tail(t)) = t[2]
  <2>1. Len(t) >= 2 => Len(Tail(t)) >= 1 /\ Tail(t)[1] = t[2]
    BY <1>4
  <2>2. ASSUME NEW u \in Seq(Steps), Len(u) >= 1 PROVE u # <<>> /\ Head(u) = u[1]
    BY <2>2
  <2> QED BY <1>5, <2>1, <2>2
<1>7. Len(t) >= 3 => 2 \in DOMAIN Tail(t) /\ Tail(t)[2] = t[3]
  <2>1. Len(t) >= 3 => 2 \in DOMAIN Tail(t) /\ Tail(t)[2] = t[2 + 1]
    BY <1>4, <1>5
  <2> QED BY <2>1
<1>8. Len(t) >= 2 => Shape(Tail(Tail(t)), q.kind)
  BY <1>4, <1>6, TailShape
<1>9. Len(t) >= 3 => Len(t) >= 2
  BY <1>4
<1> QED BY <1>1, <1>2, <1>3, <1>4, <1>6, <1>7, <1>8, <1>9 DEF t, q

(* A request that goes on has done one step and has the rest to do.        *)
LEMMA DoesOK ==
  ASSUME LeadInv, NEW c \in LeadCalls, Active(c), NEW rest, Shape(rest, calls[c].kind), Does(c, rest)
  PROVE  \E q : /\ calls' = [calls EXCEPT ![c] = q] /\ CallOK(q, made, lcase.kinds)
                /\ q.todo = rest /\ (rest # <<>> => q.id = calls[c].id)
<1>1. CallOK(calls[c], made, lcase.kinds) /\ calls[c].kind # "none" /\ made \in Nat
  <2>1. calls[c].kind \in Kinds /\ "none" \notin Kinds /\ CallOK(calls[c], made, lcase.kinds)
    BY OnCourse DEF Kinds
  <2>2. made \in Nat
    BY DEF LeadInv, LeadShapes, LeadVarsOK
  <2> QED BY <2>1, <2>2
<1>2. CASE rest = <<>>
  <2>1. calls' = [calls EXCEPT ![c] = NoRequest]
    BY <1>2 DEF Does
  <2> QED BY <1>1, <1>2, <2>1, NoRequestOK
<1>3. CASE rest # <<>>
  <2>1. calls' = [calls EXCEPT ![c] = [calls[c] EXCEPT !.todo = rest]]
    BY <1>3 DEF Does
  <2>2. PICK p : p = [calls[c] EXCEPT !.todo = rest]
    OBVIOUS
  <2>3. CallOK(p, made, lcase.kinds) /\ p.todo = rest /\ p.id = calls[c].id
    BY <1>1, <1>3, <2>2, GoesOn, Zenon
  <2> QED BY <2>1, <2>2, <2>3
<1> QED BY <1>2, <1>3

-----------------------------------------------------------------------------
(* Steps *)

LEMMA Untouched ==
  ASSUME LeadInv, UNCHANGED <<contact, listed, made, leadHistory, lcase>>
  PROVE  /\ LeadVarsOK' /\ made' = made /\ made <= made' /\ lcase'.kinds = lcase.kinds
         /\ contact' = contact /\ (last' = "list" => listed') /\ (last' = "unlist" => ~listed')
         /\ (EntryAwaited' <=> EntryAwaited) /\ (ScoreAwaited' <=> ScoreAwaited)
  BY DEF LeadInv, LeadShapes, LeadVarsOK, Listing, leadHistory, EntryAwaited, ScoreAwaited

LEMMA OnlyContinues ==
  ASSUME LeadInv, NEW c \in LeadCalls, Active(c), NEW rest, Shape(rest, calls[c].kind), Does(c, rest),
         UNCHANGED <<contact, listed, made, leadHistory, lcase>>, ~Doing(c, "list"),
         Mine(c) /\ Near(calls[c].todo) => Near(rest)
  PROVE  LeadInv'
<1>1. PICK q : /\ calls' = [calls EXCEPT ![c] = q] /\ CallOK(q, made, lcase.kinds)
               /\ q.todo = rest /\ (rest # <<>> => q.id = calls[c].id)
  BY DoesOK
<1>2. Near(rest) => rest # <<>>
  BY DEF Near
<1>3. LeadVarsOK' /\ made' = made /\ made <= made' /\ lcase'.kinds = lcase.kinds
      /\ contact' = contact /\ (last' = "list" => listed') /\ (last' = "unlist" => ~listed')
      /\ (EntryAwaited' <=> EntryAwaited) /\ (ScoreAwaited' <=> ScoreAwaited)
  BY Untouched
<1> QED BY <1>1, <1>2, <1>3, LeadChange DEF Mine

(* Steps that change no lead, entry or score.                              *)
LEMMA HearNumberKeeps ==
  ASSUME LeadInv, NEW c \in LeadCalls, HearNumber(c) PROVE LeadInv'
<1>1. Active(c) /\ Head(calls[c].todo) = "gate"
  BY DEF HearNumber, Doing
<1>2. ~Doing(c, "list") /\ ~Near(calls[c].todo)
  BY <1>1 DEF Doing, Near
<1>3. \E rest : Shape(rest, calls[c].kind) /\ Does(c, rest)
  BY <1>1, OnCourse, EmptyShape DEF HearNumber, Leaves, Continues
<1> QED BY <1>1, <1>2, <1>3, OnlyContinues DEF HearNumber

LEMMA LookAgainKeeps ==
  ASSUME LeadInv, NEW c \in LeadCalls, LookAgain(c) PROVE LeadInv'
<1>1. Active(c) /\ Head(calls[c].todo) = "recheck"
  BY DEF LookAgain, Doing
<1>2. ~Doing(c, "list") /\ ~Near(calls[c].todo)
  BY <1>1 DEF Doing, Near
<1>3. \E rest : Shape(rest, calls[c].kind) /\ Does(c, rest)
  BY <1>1, OnCourse, EmptyShape DEF LookAgain, Leaves, Continues
<1> QED BY <1>1, <1>2, <1>3, OnlyContinues DEF LookAgain

LEMMA SweepShape == ASSUME NEW kind PROVE Shape(<<"recheck", "sweep">>, kind)
  BY DEF Shape, ShapeAt, Steps

(* The lead as it is read.                                                 *)
LEMMA SeenOK ==
  ASSUME LeadInv, NEW c \in LeadCalls, Active(c)
  PROVE  LET q == [calls[c] EXCEPT !.id = contact.id, !.status = contact.status,
                                   !.black = contact.black] IN
         /\ CallOK(q, made, lcase.kinds) /\ q.todo = calls[c].todo /\ q.kind = calls[c].kind
         /\ q.id = contact.id
<1> DEFINE q == [calls[c] EXCEPT !.id = contact.id, !.status = contact.status,
                                 !.black = contact.black]
<1>1. calls[c] \in CallType /\ CallOK(calls[c], made, lcase.kinds)
  BY OnCourse DEF CallOK
<1>2. contact.id \in Nat /\ contact.status \in Consents /\ contact.black \in BOOLEAN
        /\ contact.id <= made
  BY DEF LeadInv, LeadShapes, LeadVarsOK, Contact
<1>3. PICK x \in CallType : x = [calls[c] EXCEPT !.id = contact.id]
  BY <1>1, <1>2 DEF CallType
<1>4. PICK y \in CallType : y = [x EXCEPT !.status = contact.status]
  BY <1>2 DEF CallType
<1>5. [y EXCEPT !.black = contact.black] \in CallType
  BY <1>2 DEF CallType
<1>6. q \in CallType
  BY <1>3, <1>4, <1>5
<1>7. q.todo = calls[c].todo /\ q.kind = calls[c].kind /\ q.id = contact.id
  BY <1>1 DEF CallType
<1> HIDE DEF q
<1>8. CallOK(q, made, lcase.kinds)
  BY <1>1, <1>2, <1>6, <1>7 DEF CallOK
<1> QED BY <1>7, <1>8 DEF q

(* Steps that find the lead, or make it.                                   *)
LEMMA FindKeeps ==
  ASSUME LeadInv, NEW c \in LeadCalls, Find(c) PROVE LeadInv'
<1> DEFINE looked == [calls[c] EXCEPT !.id = contact.id, !.status = contact.status, !.black = contact.black]
           rest == CASE calls[c].kind \in {"message", "stop", "start"} /\ contact.id # 0 ->
                          Tail(Tail(looked.todo))
                     [] calls[c].kind = "create" /\ contact.id # 0 -> <<>>
                     [] calls[c].kind = "blacklist" /\ contact.id = 0 -> <<"recheck", "sweep">>
                     [] calls[c].kind \in {"opt_in", "opt_out", "unblacklist"} /\ contact.id = 0 -> <<>>
                     [] OTHER -> Tail(looked.todo)
           q == IF rest = <<>> THEN NoRequest ELSE [looked EXCEPT !.todo = rest]
<1>1. /\ Active(c) /\ Head(calls[c].todo) = "find" /\ calls' = [calls EXCEPT ![c] = q]
      /\ UNCHANGED <<contact, listed, made, leadHistory, lcase>>
  BY DEF Find, Doing
<1>2. ~Doing(c, "list") /\ ~Near(calls[c].todo)
  BY <1>1 DEF Doing, Near
<1>3. CallOK(looked, made, lcase.kinds) /\ looked.todo = calls[c].todo /\ looked.kind = calls[c].kind
  BY <1>1, SeenOK
<1>4. Shape(rest, looked.kind)
  <2>1. Shape(Tail(looked.todo), looked.kind) /\ Shape(<<>>, looked.kind)
          /\ Shape(<<"recheck", "sweep">>, looked.kind)
    BY <1>1, <1>3, OnCourse, EmptyShape, SweepShape
  <2>2. looked.kind \in {"message", "stop", "start"} => Shape(Tail(Tail(looked.todo)), looked.kind)
    <3>1. ShapeAt(calls[c].todo, calls[c].kind, 1) /\ calls[c].todo[1] = "find"
          /\ DOMAIN calls[c].todo = 1..Len(calls[c].todo) /\ Len(calls[c].todo) \in Nat
      BY <1>1, OnCourse
    <3>2. calls[c].kind \in {"message", "stop", "start"} => Len(calls[c].todo) >= 2
      BY <3>1 DEF ShapeAt
    <3> QED BY <1>1, <1>3, <3>2, OnCourse
  <2> HIDE DEF looked
  <2> QED BY <1>3, <2>1, <2>2
<1>5. looked.kind # "none"
  BY <1>1, <1>3, OnCourse DEF Kinds
<1>6. made \in Nat
  BY DEF LeadInv, LeadShapes, LeadVarsOK
<1> HIDE DEF looked, rest
<1>7. CallOK(q, made, lcase.kinds)
  BY <1>3, <1>4, <1>5, <1>6, GoesOn, NoRequestOK
<1> HIDE DEF q
<1>8. LeadVarsOK' /\ made' = made /\ made <= made' /\ lcase'.kinds = lcase.kinds
      /\ contact' = contact /\ (last' = "list" => listed') /\ (last' = "unlist" => ~listed')
      /\ (EntryAwaited' <=> EntryAwaited) /\ (ScoreAwaited' <=> ScoreAwaited)
  BY <1>1, Untouched
<1> QED BY <1>1, <1>2, <1>7, <1>8, LeadChange

LEMMA InsertKeeps ==
  ASSUME LeadInv, NEW c \in LeadCalls, find_or_create_by_phone(c) PROVE LeadInv'
<1> DEFINE t == calls[c].todo
           q(id) == [calls[c] EXCEPT !.todo = Tail(t), !.id = id]
<1>1. /\ Active(c) /\ Head(t) = "insert" /\ UNCHANGED <<listed, leadHistory, lcase>>
  BY DEF find_or_create_by_phone, Doing
<1>2. ~Doing(c, "list") /\ ~Near(t) /\ made \in Nat /\ contact \in Contact /\ contact.id <= made
  BY <1>1 DEF Doing, Near, LeadInv, LeadShapes, LeadVarsOK
<1>3. Tail(t) # <<>> /\ Shape(Tail(t), calls[c].kind)
  <2>1. Len(t) >= 2
    BY <1>1, OnCourse DEF ShapeAt
  <2> QED BY <1>1, <2>1, OnCourse
<1>4. calls[c].kind # "none" /\ calls[c] \in CallType /\ CallOK(calls[c], made, lcase.kinds)
  BY <1>1, OnCourse DEF Kinds, CallOK
<1>5. ASSUME NEW top \in Nat, made <= top, NEW id \in Nat, id <= top
      PROVE  CallOK(q(id), top, lcase.kinds)
  <2>1. Tail(t) \in Seq(Steps)
    BY <1>3 DEF Shape
  <2>2. PICK x \in CallType : x = [calls[c] EXCEPT !.todo = Tail(t)]
    BY <1>4, <2>1 DEF CallType
  <2>3. [x EXCEPT !.id = id] \in CallType
    BY DEF CallType
  <2>4. q(id) \in CallType
    BY <2>2, <2>3
  <2>5. q(id).todo = Tail(t) /\ q(id).kind = calls[c].kind /\ q(id).id = id
    BY <1>4 DEF CallType
  <2> HIDE DEF q
  <2> QED BY <1>3, <1>4, <1>5, <2>4, <2>5 DEF CallOK
<1>6. CASE contact.id = 0
  <2>1. /\ contact' = [NoContact EXCEPT !.id = made + 1] /\ made' = made + 1
        /\ calls' = [calls EXCEPT ![c] = q(made + 1)]
    <3>1. calls' = [calls EXCEPT ![c].todo = Tail(@), ![c].id = made + 1]
          /\ contact' = [NoContact EXCEPT !.id = made + 1] /\ made' = made + 1
      BY <1>6 DEF find_or_create_by_phone
    <3>2. calls \in [LeadCalls -> CallType]
      BY DEF LeadInv, LeadShapes
    <3> QED BY <3>1, <3>2
  <2>2. contact' \in Contact /\ contact'.id = made + 1 /\ ~contact'.black
    <3>1. NoContact \in Contact /\ ~NoContact.black /\ made + 1 \in Nat
      BY <1>2 DEF NoContact, Contact, Consents
    <3> QED BY <2>1, <3>1 DEF Contact
  <2> HIDE DEF q
  <2>3. CallOK(q(made + 1), made', lcase.kinds)
    <3>1. made + 1 \in Nat /\ made <= made + 1
      BY <1>2
    <3> QED BY <1>5, <2>1, <3>1
  <2>4. LeadVarsOK' /\ made <= made' /\ lcase'.kinds = lcase.kinds
        /\ (last' = "list" => listed') /\ (last' = "unlist" => ~listed')
        /\ (EntryAwaited' <=> EntryAwaited) /\ ~ScoreAwaited'
    BY <1>1, <1>2, <2>1, <2>2 DEF LeadInv, LeadShapes, LeadVarsOK, Listing, leadHistory, EntryAwaited,
       ScoreAwaited
  <2> QED BY <1>2, <2>1, <2>3, <2>4, LeadChange
<1>7. CASE contact.id # 0 /\ calls[c].kind = "create"
  <2>1. Does(c, <<>>) /\ UNCHANGED <<contact, made>>
    BY <1>7 DEF find_or_create_by_phone, Leaves
  <2> QED BY <1>1, <1>2, <2>1, EmptyShape, OnlyContinues
<1>8. CASE contact.id # 0 /\ calls[c].kind # "create"
  <2>1. calls' = [calls EXCEPT ![c] = q(contact.id)] /\ UNCHANGED <<contact, made>>
    <3>1. calls' = [calls EXCEPT ![c].todo = Tail(@), ![c].id = contact.id]
            /\ UNCHANGED <<contact, made>>
      BY <1>8 DEF find_or_create_by_phone
    <3>2. calls \in [LeadCalls -> CallType]
      BY DEF LeadInv, LeadShapes
    <3> QED BY <3>1, <3>2
  <2> HIDE DEF q
  <2>2. CallOK(q(contact.id), made, lcase.kinds)
    <3>1. contact.id \in Nat /\ made <= made
      BY <1>2 DEF Contact
    <3> QED BY <1>2, <1>5, <3>1
  <2>3. LeadVarsOK' /\ made' = made /\ made <= made' /\ lcase'.kinds = lcase.kinds
      /\ contact' = contact /\ (last' = "list" => listed') /\ (last' = "unlist" => ~listed')
      /\ (EntryAwaited' <=> EntryAwaited) /\ (ScoreAwaited' <=> ScoreAwaited)
    BY <1>1, <2>1, Untouched
  <2> QED BY <1>2, <2>1, <2>2, <2>3, LeadChange
<1> QED BY <1>6, <1>7, <1>8

(* A step that writes, and goes on.                                        *)
LEMMA WritesKeep ==
  ASSUME LeadInv, NEW c \in LeadCalls, Active(c), NEW rest, Shape(rest, calls[c].kind), Does(c, rest),
         LeadVarsOK', lcase'.kinds = lcase.kinds, made' = made,
         last' = "list" => listed', last' = "unlist" => ~listed',
         EntryAwaited' => \/ rest # <<>> /\ Head(rest) = "list"
                          \/ EntryAwaited /\ ~Doing(c, "list"),
         ScoreAwaited' => \/ Near(rest) /\ Mine(c) /\ contact'.id = contact.id
                          \/ /\ ScoreAwaited /\ contact'.id = contact.id
                             /\ ~(Mine(c) /\ Near(calls[c].todo))
  PROVE  LeadInv'
<1>1. PICK q : /\ calls' = [calls EXCEPT ![c] = q] /\ CallOK(q, made, lcase.kinds)
               /\ q.todo = rest /\ (rest # <<>> => q.id = calls[c].id)
  BY DoesOK
<1>2. Near(rest) => rest # <<>>
  BY DEF Near
<1>3. made <= made'
  BY DEF LeadVarsOK
<1> QED BY <1>1, <1>2, <1>3, LeadChange DEF Mine

LEMMA ContinuesOK ==
  ASSUME LeadInv, NEW c \in LeadCalls, NEW s, Doing(c, s), Continues(c)
  PROVE  LET t == calls[c].todo IN
         /\ Active(c) /\ Shape(Tail(t), calls[c].kind) /\ Does(c, Tail(t)) /\ Head(t) = s
         /\ s \notin {"list", "read_score", "write_score"} => ~Doing(c, "list") /\ ~Near(t)
         /\ s # "list" => ~Doing(c, "list")
  BY OnCourse DEF Doing, Continues, Near

LEMMA LeavesOK ==
  ASSUME LeadInv, NEW c \in LeadCalls, NEW s, Doing(c, s), Leaves(c)
  PROVE  LET t == calls[c].todo IN
         /\ Active(c) /\ Shape(<<>>, calls[c].kind) /\ Does(c, <<>>) /\ Head(t) = s
         /\ s \notin {"list", "read_score", "write_score"} => ~Doing(c, "list") /\ ~Near(t)
         /\ s # "list" => ~Doing(c, "list")
  BY EmptyShape DEF Doing, Leaves, Near

(* The types, spelt out.                                                   *)
LEMMA LeadTypes ==
  ASSUME LeadInv
  PROVE  LeadVarsOK /\ Listing /\ contact \in Contact /\ made \in Nat
  BY DEF LeadInv, LeadShapes, LeadVarsOK

(* Steps that write the lead.                                              *)
LEMMA StoreMessageKeeps ==
  ASSUME LeadInv, NEW c \in LeadCalls, StoreMessage(c) PROVE LeadInv'
<1> DEFINE rest == Tail(calls[c].todo)
<1>1. /\ Active(c) /\ Shape(rest, calls[c].kind) /\ Does(c, rest)
      /\ ~Doing(c, "list") /\ ~Near(calls[c].todo) /\ Head(calls[c].todo) = "message"
  BY ContinuesOK DEF StoreMessage
<1>2. calls[c].kind \in {"message", "stop", "start"}
  BY <1>1, OnCourse DEF ShapeAt
<1>3. UNCHANGED <<listed, made, wish, stale, last, mingled, oldscore, lcase>>
  BY DEF StoreMessage, leadHistory
<1>4. contact' \in Contact /\ contact'.id = contact.id
      /\ contact'.black = contact.black /\ contact'.score = contact.score
  BY <1>2, LeadTypes DEF StoreMessage, Contact
<1>5. LeadVarsOK' /\ (last' = "list" => listed') /\ (last' = "unlist" => ~listed')
      /\ (EntryAwaited' <=> EntryAwaited) /\ (ScoreAwaited' <=> ScoreAwaited)
  BY <1>3, <1>4, LeadTypes DEF LeadVarsOK, Listing, EntryAwaited, ScoreAwaited
<1> QED BY <1>1, <1>3, <1>4, <1>5, WritesKeep

LEMMA UpdateKeeps ==
  ASSUME LeadInv, NEW c \in LeadCalls, update_lead(c) PROVE LeadInv'
<1> DEFINE rest == Tail(calls[c].todo)
<1>1. /\ Active(c) /\ Shape(rest, calls[c].kind) /\ Does(c, rest)
      /\ ~Doing(c, "list") /\ ~Near(calls[c].todo) /\ Head(calls[c].todo) = "patch"
  BY ContinuesOK DEF update_lead
<1>2. Near(rest)
  BY <1>1, OnCourse DEF ShapeAt, Near
<1>3. UNCHANGED <<listed, made, wish, stale, last, mingled, oldscore, lcase>>
  BY DEF update_lead, leadHistory
<1>4. contact' \in Contact /\ contact'.id = contact.id /\ (Mine(c) \/ contact' = contact)
  BY LeadTypes DEF update_lead, Contact
<1>5. LeadVarsOK' /\ (last' = "list" => listed') /\ (last' = "unlist" => ~listed')
      /\ (EntryAwaited' <=> EntryAwaited) /\ (contact' = contact => (ScoreAwaited' <=> ScoreAwaited))
  BY <1>3, <1>4, LeadTypes DEF LeadVarsOK, Listing, EntryAwaited, ScoreAwaited
<1> QED BY <1>1, <1>2, <1>3, <1>4, <1>5, WritesKeep

LEMMA NoContactOK == NoContact \in Contact /\ NoContact.id = 0 /\ ~NoContact.black
  BY DEF NoContact, Contact, Consents

(* The lead that is deleted, and the list.                                 *)
LEMMA DeleteKeeps ==
  ASSUME LeadInv, NEW c \in LeadCalls, delete_lead(c) PROVE LeadInv'
<1>1. /\ Active(c) /\ Shape(<<>>, calls[c].kind) /\ Does(c, <<>>)
      /\ ~Doing(c, "list") /\ ~Near(calls[c].todo)
  BY LeavesOK DEF delete_lead
<1>2. UNCHANGED <<listed, made, stale, last, mingled, oldscore, lcase>>
  BY DEF delete_lead
<1>3. \/ contact' = NoContact /\ wish' = "none"
      \/ contact' = contact /\ wish' = wish
  BY DEF delete_lead
<1>4. LeadVarsOK' /\ (last' = "list" => listed') /\ (last' = "unlist" => ~listed')
      /\ (EntryAwaited' => EntryAwaited)
      /\ (ScoreAwaited' => ScoreAwaited /\ contact' = contact)
  BY <1>2, <1>3, LeadTypes, NoContactOK DEF LeadVarsOK, Listing, EntryAwaited, ScoreAwaited
<1> QED BY <1>1, <1>2, <1>4, WritesKeep

LEMMA ListKeeps ==
  ASSUME LeadInv, NEW c \in LeadCalls, ListPhone(c) \/ UnlistPhone(c) PROVE LeadInv'
<1> DEFINE t == calls[c].todo
<1>1. /\ Active(c) /\ Shape(Tail(t), calls[c].kind) /\ Does(c, Tail(t))
      /\ Head(t) \in {"list", "unlist"}
  BY ContinuesOK DEF ListPhone, UnlistPhone
<1>2. UNCHANGED <<contact, made, wish, stale, mingled, oldscore, lcase>>
      /\ \/ last' = "list" /\ listed' = TRUE
         \/ last' = "unlist" /\ listed' = FALSE
  BY Zenon DEF ListPhone, UnlistPhone
<1>3. LeadVarsOK' /\ (last' = "list" => listed') /\ (last' = "unlist" => ~listed')
      /\ ~EntryAwaited' /\ (ScoreAwaited' <=> ScoreAwaited)
  BY <1>2, LeadTypes DEF LeadVarsOK, Listing, EntryAwaited, ScoreAwaited
<1>4. Near(t) => Near(Tail(t))
  <2> SUFFICES ASSUME Near(t) PROVE Near(Tail(t))
    OBVIOUS
  <2>1. 2 \in DOMAIN t /\ t[2] = "read_score"
    BY <1>1 DEF Near
  <2>2. Len(t) >= 2
    BY <1>1, <2>1, OnCourse
  <2> QED BY <1>1, <2>1, <2>2, OnCourse DEF Near
<1> QED BY <1>1, <1>2, <1>3, <1>4, WritesKeep

LEMMA ClearKeeps ==
  ASSUME LeadInv, NEW c \in LeadCalls, remove_blacklist(c) PROVE LeadInv'
<1> DEFINE rest == Tail(calls[c].todo)
<1>1. /\ Active(c) /\ Shape(rest, calls[c].kind) /\ Does(c, rest)
      /\ ~Doing(c, "list") /\ ~Near(calls[c].todo)
  BY ContinuesOK DEF remove_blacklist
<1>2. UNCHANGED <<listed, made, wish, stale, last, mingled, oldscore, lcase>>
  BY DEF remove_blacklist, leadHistory
<1>3. contact' \in Contact /\ contact'.id = contact.id /\ (contact' = contact \/ ~contact'.black)
  BY LeadTypes DEF remove_blacklist, Contact
<1>4. LeadVarsOK' /\ (last' = "list" => listed') /\ (last' = "unlist" => ~listed')
      /\ (EntryAwaited' <=> EntryAwaited) /\ (ScoreAwaited' => ScoreAwaited)
  BY <1>2, <1>3, LeadTypes DEF LeadVarsOK, Listing, EntryAwaited, ScoreAwaited
<1> QED BY <1>1, <1>2, <1>3, <1>4, WritesKeep

(* The sweep that clears scores, and the scoring that may write one.       *)
LEMMA SweepKeeps ==
  ASSUME LeadInv, NEW c \in LeadCalls, add_blacklist(c) PROVE LeadInv'
<1>1. /\ Active(c) /\ Shape(<<>>, calls[c].kind) /\ Does(c, <<>>)
      /\ ~Doing(c, "list") /\ ~Near(calls[c].todo)
  BY LeavesOK DEF add_blacklist
<1>2. UNCHANGED <<listed, made, wish, stale, last, mingled, lcase>>
  BY DEF add_blacklist
<1>3. contact' \in Contact /\ contact'.id = contact.id
      /\ oldscore' \in BOOLEAN /\ (oldscore' \/ (contact' = contact /\ oldscore' = oldscore))
  BY LeadTypes DEF add_blacklist, Contact, LeadVarsOK
<1>4. LeadVarsOK' /\ (last' = "list" => listed') /\ (last' = "unlist" => ~listed')
      /\ (EntryAwaited' <=> EntryAwaited) /\ (ScoreAwaited' => ScoreAwaited)
  BY <1>2, <1>3, LeadTypes DEF LeadVarsOK, Listing, EntryAwaited, ScoreAwaited
<1> QED BY <1>1, <1>2, <1>3, <1>4, WritesKeep

LEMMA ReadScoreKeeps ==
  ASSUME LeadInv, NEW c \in LeadCalls, ReadForScore(c) PROVE LeadInv'
<1> DEFINE t == calls[c].todo
<1>1. /\ Active(c) /\ Head(t) = "read_score" /\ ~Doing(c, "list")
      /\ UNCHANGED <<contact, listed, made, leadHistory, lcase>>
  BY DEF ReadForScore, Doing
<1>2. Len(t) >= 2 /\ t[2] = "write_score"
  BY <1>1, OnCourse DEF ShapeAt
<1>3. Tail(t) # <<>> /\ Shape(Tail(t), calls[c].kind) /\ Shape(Tail(Tail(t)), calls[c].kind)
      /\ Head(Tail(t)) = "write_score"
  BY <1>1, <1>2, OnCourse
<1>4. CASE ~Mine(c)
  BY <1>1, <1>3, <1>4, OnlyContinues DEF ReadForScore, SkipsTwo
<1>5. CASE Mine(c)
  <2> DEFINE q == [calls[c] EXCEPT !.todo = Tail(t), !.black = calculate_lead_score]
  <2>1. calls' = [calls EXCEPT ![c] = q]
    <3>1. calls' = [calls EXCEPT ![c].todo = Tail(@), ![c].black = calculate_lead_score]
      BY <1>5 DEF ReadForScore
    <3>2. calls \in [LeadCalls -> CallType]
      BY DEF LeadInv, LeadShapes
    <3> QED BY <3>1, <3>2
  <2>2. calls[c] \in CallType /\ CallOK(calls[c], made, lcase.kinds) /\ calls[c].kind # "none"
    BY <1>1, OnCourse DEF CallOK, Kinds
  <2>3. q \in CallType /\ q.todo = Tail(t) /\ q.kind = calls[c].kind /\ q.id = calls[c].id
    <3>1. Tail(t) \in Seq(Steps) /\ calculate_lead_score \in BOOLEAN
      BY <1>3, LeadTypes DEF Shape, calculate_lead_score, LeadVarsOK, Contact
    <3>2. PICK x \in CallType : x = [calls[c] EXCEPT !.todo = Tail(t)]
      BY <2>2, <3>1 DEF CallType
    <3>3. [x EXCEPT !.black = calculate_lead_score] \in CallType
      BY <3>1 DEF CallType
    <3>4. q \in CallType
      BY <3>2, <3>3
    <3>5. q.todo = Tail(t) /\ q.kind = calls[c].kind /\ q.id = calls[c].id
      BY <2>2 DEF CallType
    <3> QED BY <3>4, <3>5
  <2> HIDE DEF q
  <2>4. CallOK(q, made, lcase.kinds) /\ Near(q.todo)
    BY <1>3, <2>2, <2>3 DEF CallOK, Near
  <2>5. LeadVarsOK' /\ made' = made /\ made <= made' /\ lcase'.kinds = lcase.kinds
      /\ contact' = contact /\ (last' = "list" => listed') /\ (last' = "unlist" => ~listed')
      /\ (EntryAwaited' <=> EntryAwaited) /\ (ScoreAwaited' <=> ScoreAwaited)
    BY <1>1, Untouched
  <2> QED BY <1>1, <1>5, <2>1, <2>3, <2>4, <2>5, LeadChange DEF Mine
<1> QED BY <1>4, <1>5

(* A score written for a blocked lead is none, unless it is an old one.    *)
LEMMA WriteScoreKeeps ==
  ASSUME LeadInv, NEW c \in LeadCalls, recalculate_lead_score(c) PROVE LeadInv'
<1> DEFINE rest == Tail(calls[c].todo)
<1>1. /\ Active(c) /\ Shape(rest, calls[c].kind) /\ Does(c, rest) /\ ~Doing(c, "list")
  BY ContinuesOK DEF recalculate_lead_score
<1>2. UNCHANGED <<listed, made, wish, stale, last, mingled, lcase>>
  BY DEF recalculate_lead_score
<1>3. calls[c].black \in BOOLEAN /\ calculate_lead_score \in BOOLEAN
  <2>1. calls[c] \in CallType
    BY <1>1, OnCourse DEF CallOK
  <2> QED BY <2>1, LeadTypes DEF CallType, calculate_lead_score, LeadVarsOK, Contact
<1>4. CASE Mine(c)
  <2>1. contact' = [contact EXCEPT !.score = calls[c].black]
        /\ oldscore' = (calls[c].black # calculate_lead_score)
    BY <1>4 DEF recalculate_lead_score
  <2>2. contact' \in Contact /\ contact'.id = contact.id /\ contact'.black = contact.black
        /\ contact'.score = calls[c].black /\ oldscore' \in BOOLEAN
    BY <1>3, <2>1, LeadTypes DEF Contact
  <2>3. ~ScoreAwaited'
    BY <1>3, <2>1, <2>2, LeadTypes DEF ScoreAwaited, calculate_lead_score, Contact
  <2>4. LeadVarsOK' /\ (last' = "list" => listed') /\ (last' = "unlist" => ~listed')
      /\ (EntryAwaited' <=> EntryAwaited)
    BY <1>2, <2>2, LeadTypes DEF LeadVarsOK, Listing, EntryAwaited
  <2> QED BY <1>1, <1>2, <2>3, <2>4, WritesKeep
<1>5. CASE ~Mine(c)
  <2>1. contact' = contact /\ oldscore' = oldscore
    BY <1>5 DEF recalculate_lead_score
  <2>2. LeadVarsOK' /\ (last' = "list" => listed') /\ (last' = "unlist" => ~listed')
      /\ (EntryAwaited' <=> EntryAwaited) /\ (ScoreAwaited' <=> ScoreAwaited)
    BY <1>2, <2>1, LeadTypes DEF LeadVarsOK, Listing, EntryAwaited, ScoreAwaited
  <2> QED BY <1>1, <1>2, <1>5, <2>1, <2>2, WritesKeep
<1> QED BY <1>4, <1>5

(* What a step that sets the consent leaves, and what is awaited then.     *)
LEMMA ConsentTypes ==
  ASSUME LeadInv, NEW status \in Consents
  PROVE  /\ consent_update_fields(status) \in Contact
         /\ consent_update_fields(status).id = contact.id
         /\ consent_update_fields(status).black = (status = "opted_out")
  BY LeadTypes DEF Contact, consent_update_fields

LEMMA ConsentKeeps ==
  ASSUME LeadInv, NEW c \in LeadCalls, OptOutLead(c) \/ OptInLead(c) PROVE LeadInv'
<1> DEFINE t == calls[c].todo
           rest == Tail(t)
<1>1. PICK step, status, said :
        /\ apply_consent_change(c, step, status, said)
        /\ \/ step = "out" /\ status = "opted_out" /\ said = "out"
           \/ step = "in" /\ status = "opted_in" /\ said = "in"
  BY DEF OptOutLead, OptInLead
<1>2. /\ Active(c) /\ Head(t) = step /\ ~Doing(c, "list") /\ ~Near(t)
      /\ UNCHANGED <<listed, made, last, mingled, oldscore, lcase>>
  BY <1>1 DEF apply_consent_change, Doing, Near
<1>3. Len(t) >= 3 /\ Len(t) >= 2 /\ (step = "out" => t[2] = "list" /\ t[3] = "read_score")
  BY <1>1, <1>2, OnCourse DEF ShapeAt
<1>4. /\ Shape(rest, calls[c].kind) /\ Shape(Tail(rest), calls[c].kind) /\ rest # <<>>
      /\ step = "out" => Head(rest) = "list" /\ Near(rest)
  BY <1>2, <1>3, OnCourse DEF Near
<1>5. CASE Mine(c)
  <2>1. /\ Does(c, rest) /\ contact' = consent_update_fields(status)
        /\ wish' = said /\ stale' = FALSE
    BY <1>1, <1>5 DEF apply_consent_change, Continues
  <2>2. contact' \in Contact /\ contact'.id = contact.id /\ contact'.black = (status = "opted_out")
    BY <1>1, <2>1, ConsentTypes DEF Consents
  <2>3. LeadVarsOK' /\ (last' = "list" => listed') /\ (last' = "unlist" => ~listed')
        /\ (step = "in" => ~EntryAwaited' /\ ~ScoreAwaited')
    BY <1>1, <1>2, <2>1, <2>2, LeadTypes DEF LeadVarsOK, Listing, EntryAwaited, ScoreAwaited
  <2> QED BY <1>1, <1>2, <1>4, <1>5, <2>1, <2>2, <2>3, WritesKeep
<1>6. CASE ~Mine(c)
  <2>1. \E r : Shape(r, calls[c].kind) /\ Does(c, r)
    BY <1>1, <1>4, <1>6, SweepShape, EmptyShape DEF apply_consent_change, SkipsTwo, Leaves
  <2>2. UNCHANGED <<contact, listed, made, leadHistory, lcase>>
    BY <1>1, <1>2, <1>6 DEF apply_consent_change, leadHistory
  <2> QED BY <1>2, <2>1, <2>2, OnlyContinues
<1> QED BY <1>5, <1>6

(* A row of an import.                                                     *)
LEMMA RowTypes ==
  ASSUME NEW l \in Contact, NEW row \in Consents
  PROVE  LET m == _consent_fields_from_row(l, row) IN
         m \in Contact /\ m.id = l.id /\ m.score = l.score
<1> DEFINE m == _consent_fields_from_row(l, row)
<1>1. PICK x \in Contact : x = [l EXCEPT !.status = row]
  BY DEF Contact
<1>2. PICK b \in BOOLEAN : b = CASE row = "opted_in" -> FALSE [] row = "opted_out" -> TRUE [] OTHER -> l.black
  BY DEF Contact
<1>3. [x EXCEPT !.black = b] \in Contact
  BY DEF Contact
<1>4. m = [x EXCEPT !.black = b]
  BY <1>1, <1>2 DEF _consent_fields_from_row
<1>5. m.id = l.id /\ m.score = l.score
  BY DEF _consent_fields_from_row, Contact
<1> QED BY <1>3, <1>4, <1>5

LEMMA RowKeeps ==
  ASSUME LeadInv, NEW c \in LeadCalls, import_leads_csv(c) PROVE LeadInv'
<1> DEFINE t == calls[c].todo
           rest == Tail(t)
           row == calls[c].row
<1>1. /\ Active(c) /\ Head(t) = "row" /\ ~Doing(c, "list") /\ ~Near(t)
      /\ UNCHANGED <<listed, last, mingled, oldscore, lcase>>
  BY DEF import_leads_csv, Doing, Near
<1>2. /\ Shape(rest, calls[c].kind) /\ Shape(<<>>, calls[c].kind) /\ Near(rest)
      /\ calls[c].kind = "import"
  BY <1>1, OnCourse, EmptyShape DEF ShapeAt, Near
<1>3. "import" \in lcase.kinds /\ row \in Consents
  <2>1. calls[c] \in CallType
    BY <1>1, OnCourse DEF CallOK
  <2> QED BY <1>1, <1>2, <2>1, OnCourse DEF CallType
<1>4. ~EntryAwaited'
  BY <1>1, <1>3 DEF EntryAwaited
<1>5. CASE UNCHANGED <<contact, made, wish, stale>>
  <2>1. \E r : Shape(r, calls[c].kind) /\ Does(c, r)
    BY <1>2 DEF import_leads_csv, Continues, Leaves
  <2>2. UNCHANGED <<contact, listed, made, leadHistory, lcase>>
    BY <1>1, <1>5 DEF leadHistory
  <2> QED BY <1>1, <2>1, <2>2, OnlyContinues
<1>6. CASE /\ Leaves(c) /\ stale' = stale /\ made' = made + 1
           /\ wish' \in {"out", "none"}
           /\ contact' = _consent_fields_from_row([NoContact EXCEPT !.id = made + 1], row)
  <2>0. NoContact \in Contact /\ ~NoContact.score /\ made + 1 \in Nat
    BY NoContactOK, LeadTypes DEF NoContact
  <2>1. [NoContact EXCEPT !.id = made + 1] \in Contact /\ made + 1 \in Nat
        /\ [NoContact EXCEPT !.id = made + 1].id = made + 1
        /\ ~[NoContact EXCEPT !.id = made + 1].score
    BY <2>0 DEF Contact
  <2>2. contact' \in Contact /\ contact'.id = made + 1 /\ ~contact'.score
    BY <1>3, <1>6, <2>1, RowTypes
  <2>3. LeadVarsOK' /\ (last' = "list" => listed') /\ (last' = "unlist" => ~listed') /\ ~ScoreAwaited'
        /\ made <= made' /\ lcase'.kinds = lcase.kinds
    BY <1>1, <1>6, <2>1, <2>2, LeadTypes DEF LeadVarsOK, Listing, ScoreAwaited
  <2>4. calls' = [calls EXCEPT ![c] = NoRequest]
    BY <1>6 DEF Leaves, Does
  <2>5. CallOK(NoRequest, made', lcase.kinds)
    BY <2>3, NoRequestOK DEF LeadVarsOK
  <2> QED BY <1>4, <2>3, <2>4, <2>5, LeadChange
<1>7. CASE /\ Continues(c) /\ made' = made /\ Mine(c) /\ wish' \in {"out", wish} /\ stale' \in BOOLEAN
           /\ contact' = _consent_fields_from_row(contact, row)
  <2>1. contact' \in Contact /\ contact'.id = contact.id
    BY <1>3, <1>7, LeadTypes, RowTypes
  <2>2. LeadVarsOK' /\ (last' = "list" => listed') /\ (last' = "unlist" => ~listed')
    BY <1>1, <1>7, <2>1, LeadTypes DEF LeadVarsOK, Listing
  <2> QED BY <1>1, <1>2, <1>4, <1>7, <2>1, <2>2, WritesKeep DEF Continues
<1> QED BY <1>5, <1>6, <1>7 DEF import_leads_csv

(* A request that begins has everything to do, and one that dies leaves    *)
(* nothing to be done.                                                     *)
LEMMA BeginKeeps ==
  ASSUME LeadInv, NEW c \in LeadCalls, NEW kind \in Kinds, Begin(c, kind) PROVE LeadInv'
<1>1. /\ kind \in lcase.kinds /\ ~Active(c) /\ lcase.acts > 0 /\ lcase' = [lcase EXCEPT !.acts = @ - 1]
      /\ UNCHANGED <<contact, listed, made, wish, stale, last, oldscore>>
      /\ (mingled => mingled')
  BY DEF Begin
<1>2. PICK row \in IF kind = "import" THEN lcase.rows ELSE {"unknown"} :
        calls' = [calls EXCEPT ![c] = [NoRequest EXCEPT !.kind = kind, !.todo = Program(kind),
                                                       !.id = contact.id, !.row = row]]
  BY DEF Begin
<1> DEFINE q == [NoRequest EXCEPT !.kind = kind, !.todo = Program(kind), !.id = contact.id, !.row = row]
<1>3. row \in Consents /\ lcase.rows \subseteq Consents /\ contact.id \in Nat /\ contact.id <= made
  BY LeadTypes DEF LeadVarsOK, LeadCaseTypes, Contact, Consents
<1>4. Program(kind) \in Seq(Steps) /\ made \in Nat
  BY ProgramShape, LeadTypes DEF Shape
<1>5. q \in CallType /\ q.todo = Program(kind) /\ q.kind = kind /\ q.id = contact.id
  <2>1. NoRequest \in CallType
    BY <1>4, NoRequestOK DEF CallOK
  <2>2. PICK x \in CallType : x = [NoRequest EXCEPT !.kind = kind]
    BY <2>1 DEF CallType
  <2>3. PICK y \in CallType : y = [x EXCEPT !.todo = Program(kind)]
    BY <1>4 DEF CallType
  <2>4. PICK z \in CallType : z = [y EXCEPT !.id = contact.id]
    BY <1>3 DEF CallType
  <2>5. [z EXCEPT !.row = row] \in CallType
    BY <1>3 DEF CallType
  <2>6. q \in CallType
    BY <2>2, <2>3, <2>4, <2>5
  <2>7. q.todo = Program(kind) /\ q.kind = kind /\ q.id = contact.id
    BY <2>1 DEF CallType
  <2> QED BY <2>6, <2>7
<1> HIDE DEF q
<1>6. CallOK(q, made, lcase.kinds)
  BY <1>1, <1>3, <1>5, ProgramShape DEF CallOK, Kinds
<1>7. lcase' \in LeadCaseTypes /\ lcase'.kinds = lcase.kinds
  BY <1>1, LeadTypes DEF LeadVarsOK, LeadCaseTypes
<1>8. mingled' \in BOOLEAN
  BY LeadTypes DEF Begin, LeadVarsOK
<1>9. LeadVarsOK' /\ (last' = "list" => listed') /\ (last' = "unlist" => ~listed') /\ made <= made'
      /\ (EntryAwaited' => EntryAwaited) /\ (ScoreAwaited' <=> ScoreAwaited)
  BY <1>1, <1>7, <1>8, LeadTypes DEF LeadVarsOK, Listing, EntryAwaited, ScoreAwaited
<1>10. ~Doing(c, "list") /\ ~Near(calls[c].todo)
  BY <1>1 DEF Doing, Active, Near
<1> QED BY <1>1, <1>2, <1>6, <1>7, <1>9, <1>10, LeadChange DEF q

LEMMA CallDiesKeeps ==
  ASSUME LeadInv, NEW c \in LeadCalls, LeadCallDies(c) PROVE LeadInv'
<1>1. /\ Active(c) /\ Does(c, <<>>) /\ lcase.deaths > 0 /\ lcase' = [lcase EXCEPT !.deaths = @ - 1]
      /\ oldscore' = TRUE /\ mingled' = (mingled \/ calls[c].kind \in Consenting)
      /\ UNCHANGED <<contact, listed, made, wish, stale, last>>
  BY DEF LeadCallDies, Leaves
<1>2. lcase' \in LeadCaseTypes /\ lcase'.kinds = lcase.kinds
  BY <1>1, LeadTypes DEF LeadVarsOK, LeadCaseTypes
<1>3. Doing(c, "list") => calls[c].kind \in Consenting
  BY <1>1, OnCourse DEF Doing, ShapeAt
<1>4. LeadVarsOK' /\ (last' = "list" => listed') /\ (last' = "unlist" => ~listed') /\ ~ScoreAwaited'
      /\ (EntryAwaited' => EntryAwaited /\ ~Doing(c, "list"))
  BY <1>1, <1>2, <1>3, LeadTypes DEF LeadVarsOK, Listing, EntryAwaited, ScoreAwaited
<1>5. Shape(<<>>, calls[c].kind)
  BY EmptyShape
<1> QED BY <1>1, <1>2, <1>4, <1>5, WritesKeep

(* The invariant holds at the start, every step keeps it, and it gives     *)
(* what is promised.                                                       *)
LEMMA LeadInvInit == LeadInit => LeadInv
<1> SUFFICES ASSUME LeadInit PROVE LeadInv
  OBVIOUS
<1>1. lcase \in LeadCaseTypes
  BY LeadCasesAssumption DEF LeadInit
<1>2. LeadVarsOK
  <2>1. lcase.listed \in BOOLEAN
    BY <1>1 DEF LeadCaseTypes
  <2>2. contact \in Contact /\ contact.id = 0 /\ made = 0
    BY NoContactOK DEF LeadInit
  <2>3. contact.id <= made /\ made \in Nat
    BY <2>2
  <2>4. listed \in BOOLEAN /\ stale \in BOOLEAN /\ mingled \in BOOLEAN /\ oldscore \in BOOLEAN
    BY <2>1, Zenon DEF LeadInit
  <2> QED BY <1>1, <2>2, <2>3, <2>4 DEF LeadInit, LeadVarsOK
<1>3. calls \in [LeadCalls -> CallType] /\ \A c \in LeadCalls : CallOK(calls[c], made, lcase.kinds)
  <2>1. 0 \in Nat
    OBVIOUS
  <2>2. CallOK(NoRequest, 0, lcase.kinds) /\ NoRequest \in CallType
    BY <2>1, NoRequestOK DEF CallOK
  <2> QED BY <2>2 DEF LeadInit
<1>4. Listing /\ Scoring
  BY NoContactOK DEF LeadInit, Listing, Scoring, EntryAwaited, ScoreAwaited
<1> QED BY <1>2, <1>3, <1>4 DEF LeadInv, LeadShapes

LEMMA LeadInvStep == LeadInv /\ [LeadNext]_leadVars => LeadInv'
<1>1. ASSUME LeadInv, UNCHANGED leadVars PROVE LeadInv'
  BY <1>1 DEF leadVars, LeadInv, LeadShapes, LeadVarsOK, Listing, Scoring, EntryAwaited, ScoreAwaited,
     Doing, Active, Mine
<1>2. ASSUME LeadInv, NEW c \in LeadCalls, LeadStep(c) PROVE LeadInv'
  BY <1>2, HearNumberKeeps, FindKeeps, InsertKeeps, StoreMessageKeeps, UpdateKeeps, DeleteKeeps,
     ConsentKeeps, ListKeeps, ClearKeeps, LookAgainKeeps, SweepKeeps, RowKeeps, ReadScoreKeeps,
     WriteScoreKeeps DEF LeadStep
<1> QED BY <1>1, <1>2, BeginKeeps, CallDiesKeeps DEF LeadNext

LEMMA LeadKeeps == LeadInv => LeadTypeOK /\ EntryIsTheLast /\ BlockedHasNoScore
<1> SUFFICES ASSUME LeadInv PROVE LeadTypeOK /\ EntryIsTheLast /\ BlockedHasNoScore
  OBVIOUS
<1>1. LeadTypeOK
  <2>1. ASSUME NEW c \in LeadCalls
        PROVE  /\ calls[c].kind \in Kinds \cup {"none"} /\ calls[c].id \in 0..made
               /\ calls[c].status \in Consents /\ calls[c].black \in BOOLEAN
                  /\ calls[c].row \in Consents
               /\ Active(c) <=> calls[c].kind # "none"
    <3>1. CallOK(calls[c], made, lcase.kinds) /\ calls[c] \in CallType /\ made \in Nat
      BY LeadTypes DEF LeadInv, LeadShapes
    <3> QED BY <3>1 DEF CallOK, CallType, Active
  <2> QED BY <2>1, LeadTypes DEF LeadVarsOK, LeadTypeOK
<1>2. EntryIsTheLast
  BY LeadTypes DEF EntryIsTheLast, Listing, EntryAwaited, AtRest, Doing, LeadVarsOK
<1>3. BlockedHasNoScore
  BY DEF BlockedHasNoScore, LeadInv, Scoring, ScoreAwaited, AtRest, Active, Near
<1> QED BY <1>1, <1>2, <1>3

(* Whatever messages, edits, imports, sweeps and deletions of one number   *)
(* interleave, and wherever they die: who has said stop stays opted out;   *)
(* when nobody is at work the list has the number's last wish              *)
(* (set_consent, blacklist routes); and a blocked lead has no score.       *)
THEOREM LeadsKept ==
  LeadInit /\ [][LeadNext]_leadVars =>
    [](LeadTypeOK /\ OptOutStands /\ EntryIsTheLast /\ BlockedHasNoScore)
<1>1. ConsentInv => OptOutStands
  BY DEF ConsentInv
<1> QED BY <1>1, ConsentInvInit, ConsentInvStep, LeadInvInit, LeadInvStep, LeadKeeps, PTL

-----------------------------------------------------------------------------
(* The whole *)

(* The whole does what each part does, and lets the others rest.           *)
LEMMA EachPart ==
  Spec => /\ MetaInit /\ [][MetaNext]_metaVars
          /\ AiInit /\ [][AiNext]_aiVars
          /\ LeadInit /\ [][LeadNext]_leadVars
          /\ BillingInit /\ [][BillingNext]_billingVars
          /\ KbInit /\ [][KbNext]_kbVars
          /\ UsageInit /\ [][UsageNext]_usageVars
<1>1. Init => /\ MetaInit /\ AiInit /\ LeadInit /\ BillingInit /\ KbInit /\ UsageInit
  BY DEF Init
<1> QED BY <1>1, PartsStep, PTL DEF Spec

(* Every variable of every part keeps its type, whichever is followed.     *)
THEOREM TypesKept == Spec => []TypeOK
<1>1. MetaTypeOK /\ AiTypeOK /\ LeadTypeOK /\ BillingTypeOK /\ KbTypeOK /\ UsageTypeOK => TypeOK
  BY DEF TypeOK
<1> QED BY <1>1, EachPart, MetaKept, AiKept, LeadsKept, BillingKept, KnowledgeKept, UsageKept, PTL

(* All that the parts promise holds at every moment, for any numbers of    *)
(* workers, requests and documents: customers and plans, senders and       *)
(* tokens, reviewed texts, the knowledge and its index, opt-outs, and the  *)
(* AI's costs.                                                             *)
THEOREM ServicesSafe == Spec => []ServicesInv
<1>1. /\ OneCustomer /\ EntitledToWhatIsPaid
      /\ SentAsItself /\ SessionUsedOnce /\ ConnectedHasItsToken
      /\ ReviewedFirst
      /\ ReadyIsIndexed /\ DeletedIsForgotten /\ KnowledgeWithinPlan
      /\ OptOutStands /\ EntryIsTheLast /\ BlockedHasNoScore
      /\ SpendsWithinLimits /\ CallsBounded
      => ServicesInv
  BY DEF ServicesInv
<1> QED BY <1>1, EachPart, MetaKept, AiKept, LeadsKept, BillingKept, KnowledgeKept, UsageKept, PTL

(* No step of the whole undoes what a person decided: neither an event of  *)
(* Stripe a plan given by hand, nor a batch an approved text.              *)
THEOREM DecisionsKept == Spec => DecisionsStay
<1> QED BY EachPart, HandKept, ApprovalsKept, PTL DEF DecisionsStay

=============================================================================
