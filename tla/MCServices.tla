------------------------------ MODULE MCServices ------------------------------
(* Services on small instances, for TLC. *)
EXTENDS Services

CONSTANTS k1, b1, ta, tb, n1, n2, s1, q1, r1, l1  \* members of the sets below

-----------------------------------------------------------------------------
(* Billing *)

Ev(k, p, s) == [kind |-> k, plan |-> p, status |-> s]
Closed == [story |-> <<>>, customer |-> "live", buyers |-> {}, hooks |-> {k1},
           stripe_fails |-> FALSE, db_fails |-> FALSE, slow |-> FALSE,
           again |-> 0, deaths |-> 0, admin |-> <<>>]
Renewed == Ev("subscription", "starter", "active")
Ended   == Ev("deleted", "starter", "canceled")

(* A subscription from the first session to its end; two events at a time. *)
Life == [Closed EXCEPT !.buyers = {b1},
  !.story = <<Ev("checkout", "starter", "trialing"), Renewed,
              Ev("failed", "starter", "past_due"), Ev("paid", "starter", "active"), Ended>>]
Tangle == [Closed EXCEPT !.hooks = Hooks,
  !.story = <<Renewed, Ev("paid", "starter", "active"), Ended>>]

(* Invoices after a subscription that had ended, or not begun.             *)
Revived == [Closed EXCEPT
  !.story = <<Ev("subscription", "starter", "unpaid"), Ev("paid", "starter", "active"),
              Ev("failed", "starter", "past_due"), Ev("subscription", "business", "incomplete"),
              Ev("paid", "business", "active")>>]

(* Events nobody waits for, and handlers that fail and die. *)
Odd1 == [Closed EXCEPT !.db_fails = TRUE,
  !.story = <<Ev("finalized", "starter", "active"), Ev("unmapped", "business", "unpaid"),
              Ev("subscription", "business", "unpaid")>>]
Odd2 == [Closed EXCEPT !.deaths = 1,
  !.story = <<Ev("action_required", "starter", "active"), Ev("stranger", "starter", "active"),
              Ev("conflict", "starter", "active")>>]
Redelivered == [Closed EXCEPT !.story = <<Renewed>>, !.hooks = Hooks, !.again = 1,
  !.deaths = 1, !.slow = TRUE, !.db_fails = TRUE]

(* An admin gives plans; two first checkouts, one after a change of mode. *)
ByHand == [Closed EXCEPT !.story = <<Renewed, Ended>>, !.admin = <<"business", "enterprise", "free">>]
Rush   == [Closed EXCEPT !.buyers = Buyers, !.customer = "old", !.stripe_fails = TRUE, !.deaths = 1]
First  == [Rush EXCEPT !.customer = ""]

BillingSome == {Closed, Life, Tangle, Revived, Odd1, Odd2, Redelivered, ByHand, Rush, First}

-----------------------------------------------------------------------------
(* AI campaigns *)

Draft ==
  [scope |-> "all_eligible_recipients", review |-> "sample_review", need |-> FALSE,
   personalise |-> TRUE, declared |-> TRUE, knowledge |-> "none", enabled |-> TRUE,
   on_ai_failure |-> "use_static_template", on_moderation_block |-> "require_manual_review",
   on_quota_exceeded |-> "skip", answers |-> {"good"}, closed |-> {}, gone |-> {},
   scheduled |-> FALSE, twice |-> FALSE, people |-> {}, acts |-> 0, deaths |-> 0, turns |-> 0]

(* Reviewers at work while contents are written, twice at a time, sent.    *)
Review == [Draft EXCEPT !.review = "full_review", !.closed = {2}, !.acts = 2,
                        !.people = {"approve", "reject", "regenerate"}]
Rejected == [Draft EXCEPT !.people = {"reject", "regenerate"}, !.acts = 3, !.gone = {2}]
Twice    == [Draft EXCEPT !.review = "full_review", !.people = {"approve", "reject"},
                          !.acts = 2, !.twice = TRUE, !.gone = {2}]
Preview  == [Draft EXCEPT !.review = "full_review", !.need = TRUE, !.acts = 4, !.gone = {2},
                          !.people = {"preview", "preview_again", "approve"}]

(* Every answer of the AI; with a knowledge base; without the AI; leads    *)
(* whose window opens and closes.                                          *)
Mixed    == [Draft EXCEPT !.answers = Answers, !.closed = {2}, !.turns = 1]
Informed == [Draft EXCEPT !.knowledge = "text", !.closed = {2}, !.turns = 2]
Ignorant == [Draft EXCEPT !.knowledge = "empty", !.closed = {2}, !.declared = FALSE]
Static   == [Draft EXCEPT !.scope = "template_only", !.personalise = FALSE, !.review = "no_manual_review"]
Fixed1   == [Draft EXCEPT !.declared = FALSE, !.closed = {1, 2}, !.turns = 1]
Stale    == [Draft EXCEPT !.personalise = FALSE, !.review = "full_review", !.closed = {1},
                          !.gone = {2}, !.turns = 1, !.people = {"regenerate", "approve"}, !.acts = 2]
Off      == [Draft EXCEPT !.enabled = FALSE, !.on_ai_failure = "require_manual_review",
                          !.people = {"approve_all"}, !.acts = 1]

Scheduled == [Draft EXCEPT !.scheduled = TRUE, !.people = {"preview", "approve_all"},
                           !.acts = 2, !.deaths = 1]
Stopped   == [Draft EXCEPT !.people = {"pause", "resume", "cancel"}, !.acts = 3,
                           !.scope = "open_window_only", !.closed = {2}, !.turns = 1]

AiSome == {Draft, Review, Rejected, Twice, Preview, Mixed, Informed, Ignorant, Static,
           Fixed1, Stale, Off, Scheduled, Stopped}

-----------------------------------------------------------------------------
(* Numbers at Meta: q1 is ta's request with session s1 for n1 *)

AloneWith(n) == [t \in Tenants |-> IF t = ta THEN n ELSE None]
Other(t, s, n) == [q \in Requests |-> IF q = q1 THEN [t |-> ta, s |-> s1, n |-> n1]
                                      ELSE [t |-> t, s |-> s, n |-> n]]
Unlinked ==
  [linked |-> AloneWith(None), owner |-> [s \in Sessions |-> ta], asks |-> Other(ta, s1, n1),
   running |-> Requests, meta_fails |-> FALSE, db_fails |-> 0, slow |-> FALSE, revokes |-> 0,
   sends |-> 0, disconnects |-> 0, patches |-> 0, crashes |-> 0]
s2 == CHOOSE s \in Sessions : s # s1

(* One session twice, by its owner and by someone else; two tenants and one*)
(* number; two sessions of one tenant; a number changed, given up, dead.   *)
Replayed == [Unlinked EXCEPT !.db_fails = 1, !.meta_fails = TRUE, !.slow = TRUE]
Stolen   == [Unlinked EXCEPT !.asks = Other(tb, s1, n2), !.crashes = 1]
Wanted   == [Unlinked EXCEPT !.linked = AloneWith(n2), !.asks = Other(tb, s2, n1),
                             !.owner = [s \in Sessions |-> IF s = s1 THEN ta ELSE tb],
                             !.disconnects = 1]
Crossed  == [Unlinked EXCEPT !.asks = Other(ta, s2, n2), !.sends = 2, !.db_fails = 1]
Changed  == [Unlinked EXCEPT !.linked = AloneWith(n2), !.running = {q1}, !.sends = 2,
                             !.revokes = 1, !.patches = 1]
GivenUp  == [Unlinked EXCEPT !.linked = AloneWith(n1), !.running = {q1}, !.sends = 1,
                             !.disconnects = 1, !.crashes = 1]

MetaSome == {Unlinked, Replayed, Stolen, Wanted, Crossed, Changed, GivenUp}

-----------------------------------------------------------------------------
(* Knowledge *)

Only(kind) == [s \in KbSources |-> IF s = r1 THEN kind ELSE "unused"]
Still == [kind |-> Only("crawl"), plan |-> 9, acts |-> 0, deletes |-> FALSE, refreshes |-> 0,
          changes |-> 0, faults |-> 0, deaths |-> 0, budget |-> FALSE, slow |-> FALSE]

(* A site that changes; failures; overlapping jobs; deletion; the plan. *)
Refresh == [Still EXCEPT !.changes = 2, !.refreshes = 1, !.budget = TRUE]
OneUrl  == [Still EXCEPT !.kind = Only("url"), !.changes = 1, !.refreshes = 1, !.acts = 1]
Broken  == [Still EXCEPT !.faults = 1, !.acts = 1, !.deaths = 1]
Again   == [Still EXCEPT !.acts = 2]
Slow    == [Still EXCEPT !.kind = Only("url"), !.acts = 2, !.slow = TRUE]
Removed == [Still EXCEPT !.kind = Only("url"), !.deletes = TRUE, !.acts = 1, !.deaths = 1]
Full    == [Still EXCEPT !.kind = [s \in KbSources |-> IF s = r1 THEN "file" ELSE "crawl"], !.plan = 2]

KbSome == {Still, Refresh, OneUrl, Broken, Again, Slow, Removed, Full}

-----------------------------------------------------------------------------
(* A phone number *)

Quiet == [listed |-> FALSE, kinds |-> {}, rows |-> {}, acts |-> 0, deaths |-> 0]

(* Its person and the team; the blacklist; files that are imported; a lead *)
(* deleted and made again; a number that was listed before.                *)
Spoken == [Quiet EXCEPT !.kinds = {"stop", "start", "opt_out"}, !.acts = 3]
Team   == [Quiet EXCEPT !.kinds = {"message", "opt_in", "blacklist", "unblacklist", "block", "unblock"},
                        !.acts = 3]
Files  == [Quiet EXCEPT !.kinds = {"create", "import", "stop", "unblacklist"}, !.acts = 3,
                        !.rows = {"unknown", "opted_in", "opted_out"}]
Anew   == [Quiet EXCEPT !.kinds = {"message", "create", "delete", "stop", "blacklist"}, !.acts = 3]
Listed == [Quiet EXCEPT !.listed = TRUE, !.kinds = {"message", "start", "import", "unblacklist"},
                        !.rows = Consents, !.acts = 2, !.deaths = 1]

LeadSome == {Quiet, Spoken, Team, Files, Anew, Listed}

-----------------------------------------------------------------------------
(* What the AI may cost *)

Unspent == [tokens |-> 0, conversations |-> 0, models |-> 1, retries |-> 0, replies |-> {"text"},
            chats |-> {}, acts |-> 0, days |-> 0, months |-> 0, outages |-> 0]

(* A day's tokens, a month's conversations, errors of the provider and of  *)
(* Redis.                                                                  *)
Day    == [Unspent EXCEPT !.tokens = 2, !.conversations = -1, !.chats = {l1}, !.acts = 4, !.days = 1,
                          !.replies = {"text", "length", "empty"}]
Month  == [Unspent EXCEPT !.tokens = 3, !.conversations = 1, !.chats = Chats, !.acts = 3, !.months = 1]
Errors == [Unspent EXCEPT !.tokens = 2, !.acts = 2, !.models = 2, !.retries = 1,
                          !.replies = Replies, !.outages = 1]
Blind  == [Unspent EXCEPT !.tokens = 1, !.conversations = 1, !.chats = {l1}, !.acts = 2, !.outages = 1]

UsageSome == {Unspent, Day, Month, Errors, Blind}
=============================================================================
