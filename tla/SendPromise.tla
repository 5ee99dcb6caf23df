----------------------------- MODULE SendPromise -----------------------------
(***************************************************************************)
(* What the sending engines promise the people they write to, without      *)
(* saying how: nobody gets a second message while the first one stands,    *)
(* unless the system could not know that the first had been accepted.      *)
(* BlastEngine and Outbox implement this specification.                    *)
(***************************************************************************)
EXTENDS Integers

CONSTANT Targets  \* blast recipients, or messages of a conversation

VARIABLES
  live,  \* messages the provider accepted and has not reported failed
  lost   \* messages accepted in a way the system could not take note of

PromiseInit ==
  /\ live = [t \in Targets |-> 0]
  /\ lost = [t \in Targets |-> 0]

(* The provider accepts a message; unseen if the answer does not arrive. *)
Accept(t, unseen) ==
  /\ live[t] <= lost[t]
  /\ live' = [live EXCEPT ![t] = @ + 1]
  /\ lost' = IF unseen THEN [lost EXCEPT ![t] = @ + 1] ELSE lost

(* The note of an accepted message gets lost. *)
Forget(t) ==
  /\ live[t] > 0
  /\ lost' = [lost EXCEPT ![t] = @ + 1]
  /\ UNCHANGED live

(* The provider reports that a message it accepted has failed after all. *)
Withdraw(t) ==
  /\ live[t] > 0
  /\ live' = [live EXCEPT ![t] = @ - 1]
  /\ UNCHANGED lost

PromiseNext ==
  \E t \in Targets :
    Forget(t) \/ Withdraw(t) \/ \E unseen \in BOOLEAN : Accept(t, unseen)

PromiseSpec == PromiseInit /\ [][PromiseNext]_<<live, lost>>

=============================================================================
