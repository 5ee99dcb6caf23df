-------------------------- MODULE MCCampaignEngine --------------------------
(* CampaignEngine on small instances, for TLC: the scenarios of each run.   *)
EXTENDS CampaignEngine, TLC

Symmetry == Permutations(Recipients) \cup Permutations(Workers)

(* Nothing happens but what a scenario adds to this. *)
Plain ==
  [provider |-> "twilio", pending |-> 1, ops |-> {"start"}, outcomes |-> {},
   calls |-> 1, crashes |-> 0, faults |-> 0, expiries |-> 0]

(* Duplicate jobs of two recipients, against pause, resume and cancel. *)
Races ==
  [Plain EXCEPT !.pending = 2, !.calls = 3,
                !.ops = {"start", "pause", "resume", "cancel"},
                !.outcomes = {"denied"}]

(* Every way a recipient may end, without cancel and retry. *)
Endings ==
  [Plain EXCEPT !.pending = 2, !.calls = 2,
                !.ops = {"start", "pause", "resume"},
                !.outcomes = {"blocked", "permanent", "policy", "skip",
                              "review"}]

(* The same ends while the campaign is cancelled. *)
CancelledEndings == [Endings EXCEPT !.ops = {"start", "cancel"}]

(* A crash, a fault and the end of a key's life, with retries. *)
Failures ==
  [Plain EXCEPT !.calls = 2, !.crashes = 1, !.faults = 1, !.expiries = 1,
                !.ops = {"start", "resume", "retry"},
                !.outcomes = {"denied", "blocked", "retryable", "permanent",
                              "fault"}]

(* Meta, with delivery events that race each of the requests. *)
Callbacks ==
  [Plain EXCEPT !.provider = "meta", !.calls = 2,
                !.ops = {"start", "retry", "cancel", "edit", "delete"},
                !.outcomes = {"permanent", "policy", "event"}]

(* Longer sequences of requests: retried, cancelled, edited and deleted. *)
Requests ==
  [Callbacks EXCEPT !.calls = 3, !.outcomes = {"permanent", "policy"}]

SafetyScenarios ==
  {Races, Endings, CancelledEndings, Failures, Callbacks, Requests}

(* Nothing breaks: the ends that are final, with pause, ...               *)
Straight ==
  {[Plain EXCEPT !.pending = n, !.calls = 2, !.ops = {"start", "pause"},
                 !.outcomes = IF n = 1 THEN {"permanent", "policy", "skip"}
                              ELSE {"permanent"}] : n \in {1, 2}}

(* ... answers after which a recipient is put back, ...                    *)
PutBack ==
  {[Plain EXCEPT !.pending = 2, !.outcomes = {o, "permanent"}] :
     o \in {"retryable", "denied", "review"}}

(* ... and requests that queue it again.                                   *)
QueuedAgain ==
  {[Plain EXCEPT !.calls = 3, !.ops = {"start", "pause", "resume"}],
   [Plain EXCEPT !.calls = 2, !.ops = {"start", "resume"}, !.outcomes = {"blocked"}],
   [Plain EXCEPT !.calls = 2, !.ops = {"start", "retry"}, !.outcomes = {"permanent"}]}

LiveScenarios == Straight \cup PutBack \cup QueuedAgain

(* The three scenarios that contradict what the repository says. *)
ResumeScenarios ==
  {[Plain EXCEPT !.calls = 2, !.ops = {"start", "resume"},
                 !.outcomes = {"blocked"}]}

OverwriteScenarios ==
  {[Plain EXCEPT !.calls = 2, !.ops = {"start", "cancel"}]}

RetryScenarios ==
  {[Plain EXCEPT !.provider = "meta", !.calls = 2, !.ops = {"start", "retry"},
                 !.outcomes = {"event"}]}

=============================================================================
