------------------------------- MODULE MCOutbox -------------------------------
(* Outbox on small instances, for TLC. *)
EXTENDS Outbox

Plain == [provider |-> "twilio", keyed |-> FALSE, campaign |-> FALSE,
          answers |-> {"sent"}, requests |-> 1, faults |-> 0, crashes |-> 0,
          running |-> {CHOOSE s \in Schedulers : TRUE}, trouble |-> 0]

(* Three requests with one key, of which one may die. *)
Keyed == [Plain EXCEPT !.keyed = TRUE, !.requests = 3, !.crashes = 1,
                       !.answers = {"sent", "ineligible"}]

(* Every way an attempt may end; the request, its worker or both die. *)
Twilio == [Plain EXCEPT !.answers = Answers \ {"denied"}, !.faults = 1]
Meta   == [Plain EXCEPT !.provider = "meta", !.answers = {"sent", "retryable"},
                        !.faults = 1]
Dying == [Plain EXCEPT !.answers = {"sent", "retryable"}, !.crashes = 2]
PutOff == [Plain EXCEPT !.answers = {"sent", "sending", "denied", "retryable"}]

(* Schedulers stop and die while a message of a campaign is stale. *)
Failover == [Plain EXCEPT !.requests = 0, !.campaign = TRUE, !.trouble = 2,
                          !.running = Schedulers]

AllScenarios == {Keyed, Twilio, Meta, Dying, PutOff,
                 Failover}
=============================================================================
