---------------------------- MODULE MCBlastEngine ----------------------------
(* BlastEngine on small instances, for TLC. *)
EXTENDS BlastEngine

Plain == [provider |-> "twilio", ops |-> {}, answers |-> {"accepted"},
          calls |-> 0, faults |-> 0, reports |-> 0]

(* Two chains of jobs after pause and resume, cancel and delete. *)
Races == [Plain EXCEPT !.ops = {"pause", "resume", "cancel"}, !.calls = 3,
                       !.answers = {"accepted", "permanent"}]

(* Every way an attempt may end. *)
Blocked == [Plain EXCEPT !.ops = {"resume"}, !.calls = 1,
                         !.answers = {"accepted", "blocked"}]
Unseen == [Plain EXCEPT !.ops = {"delete"}, !.calls = 1,
                        !.answers = {"accepted", "lost"}]
Denied == [Plain EXCEPT !.answers = Answers \ {"lost", "blocked"}]

(* A worker dies; the blast is paused and resumed to free its recipient. *)
Crashing == [Plain EXCEPT !.ops = {"pause", "resume", "crash"}, !.calls = 3]

(* Retry of what failed or was sent without a trace, and of what the       *)
(* provider accepted and reported failed.                                  *)
Faulty      == [Plain EXCEPT !.ops = {"retry"}, !.calls = 1, !.faults = 1,
                             !.answers = {"accepted", "permanent"}]
Reported(p) == [Plain EXCEPT !.provider = p, !.ops = {"retry"}, !.calls = 1,
                             !.reports = 1]

(* Retry while two chains of jobs run. *)
Chains == [Plain EXCEPT !.ops = {"retry"}, !.calls = 2,
                        !.answers = {"accepted", "permanent"}]

AllScenarios ==
  {Races, Blocked, Unseen, Denied, Crashing, Chains,
   Faulty, Reported("twilio"), Reported("meta")}
=============================================================================
