------------------------- MODULE MCStatusCallbacks -------------------------
(* StatusCallbacks on small instances, for TLC.                             *)
EXTENDS StatusCallbacks, TLC

Symmetry == Permutations(Handlers)

Setting(provider, parent, overlap, callbacks, crashes) ==
  [provider |-> provider, parent |-> parent, overlap |-> overlap,
   callbacks |-> callbacks, crashes |-> crashes]

(* Reports one after the other, and overlapping ones on a blast. *)
SafetySettings ==
  {Setting(p, d, FALSE, 5, IF d = "campaign" THEN 1 ELSE 0) :
     p \in {"twilio", "meta"}, d \in {"campaign", "blast"}}
  \cup {Setting(p, "blast", TRUE, 3, 0) : p \in {"twilio", "meta"}}

OverlapSettings == {Setting("twilio", "campaign", TRUE, 2, 0)}

=============================================================================
