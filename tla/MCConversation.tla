---------------------------- MODULE MCConversation ----------------------------
(* Conversation on small instances, for TLC. *)
EXTENDS Conversation

One(S) == {CHOOSE x \in S : TRUE}

Plain == [twilio |-> FALSE, kinds |-> <<"chat">>, arrived |-> TRUE, troubles |-> {},
          handback |-> FALSE, ops |-> {}, workers |-> One(Workers),
          scanners |-> One(Scanners), attempts |-> 1,
          deliveries |-> 0, crashes |-> 0, calls |-> 0, time |-> 3]

(* Deliveries that overlap, a new customer, requests that die. *)
Arrivals == [Plain EXCEPT !.twilio = TRUE, !.arrived = FALSE, !.deliveries = 2,
                          !.crashes = 1, !.scanners = {}, !.time = 0]
Newcomer == [Arrivals EXCEPT !.kinds = <<"chat", "chat">>, !.crashes = 0,
               !.deliveries = 1]

(* Jobs and scans that overlap. *)
Slow  == [Plain EXCEPT !.workers = Workers]
Scans == [Plain EXCEPT !.scanners = Scanners]

(* The AI fails or is down; the provider refuses or its answer is lost. *)
Outage  == [Plain EXCEPT !.troubles = {"fail", "blocked", "down"}, !.attempts = 2]
Refused == [Plain EXCEPT !.troubles = {"denied", "retryable", "lost"}]
Dying   == [Plain EXCEPT !.crashes = 2]

(* The team takes over and hands back; two messages; consent comes and goes.*)
Team   == [Plain EXCEPT !.ops = {"take_over", "hand_back", "reply"}, !.calls = 2,
                        !.handback = TRUE]
Paused == [Plain EXCEPT !.ops = {"pause_ai", "resume_ai", "clear_needs_human"},
                        !.calls = 2, !.troubles = {"fail"}]
Two    == [Plain EXCEPT !.kinds = <<"chat", "chat">>, !.deliveries = 1,
                        !.workers = Workers, !.scanners = {},
                        !.time = 1]
Stop   == [Plain EXCEPT !.kinds = <<"chat", "stop">>, !.deliveries = 1,
                        !.troubles = {"denied", "permanent"}, !.workers = Workers, !.scanners = {},
                        !.time = 1]
Back   == [Plain EXCEPT !.kinds = <<"foreign", "start">>, !.twilio = TRUE,
             !.arrived = FALSE, !.calls = 1, !.scanners = {}, !.time = 0,
             !.ops = {"opt_out", "opt_in", "add_blacklist", "remove_blacklist"}]

(* What the system sends itself comes between message and catch-up.        *)
Welcomed  == [Arrivals EXCEPT !.deliveries = 0, !.scanners = One(Scanners), !.time = 1]
Confirmed == [Welcomed EXCEPT !.kinds = <<"stop">>, !.crashes = 0, !.time = 2,
                              !.ops = {"opt_in", "resume_ai"}, !.calls = 2]

AllScenarios == {Arrivals, Newcomer, Slow, Scans, Outage, Refused, Dying, Team,
                 Paused, Two, Stop, Back, Welcomed, Confirmed}
=============================================================================
