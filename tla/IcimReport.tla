-------------------------------- MODULE IcimReport --------------------------------
(* What the IC/IM mail may say: the identity of a signal day, the plans for the   *)
(* next opening, the cost of a short Put, the summary line and the reminder of    *)
(* the monthly Put maintenance.                                                   *)
(*   scripts/build_ic_im_v1_4_digest.py, ic_im_v1_4_delivery_contract.py,         *)
(*   ic_im_put_execution_contract.py, ic_im_option_maintenance_notice.py,         *)
(*   check_ic_im_v1_4_delivery.py                                                 *)
EXTENDS Integers, FiniteSets, FiniteSetsExt

-------------------------------------------------------------------------------
(* Identities. Days are numbered from 2026-09-01.                                *)

Sep26 == 26
Sep28 == 28
Sep29 == 29
Oct8 == 38
\* expected_identity_for_day
BuildOf(day) ==
  CASE day >= Oct8 -> "fix11" [] day >= Sep29 /\ day < Oct8 -> "fix9"
    [] day >= Sep28 /\ day < Sep29 -> "fix7" [] day >= Sep26 /\ day < Sep28 -> "fix6" [] OTHER -> "legacy"
\* marker_prefix
TagOf(day) ==
  CASE day < Sep26 -> "t0" [] day >= Sep26 /\ day < Sep28 -> "t6" [] day >= Sep28 /\ day < Sep29 -> "t7"
    [] day >= Sep29 /\ day < Oct8 -> "t9" [] OTHER -> "t11"
\* expected_rule_revision_for_day
RuleOf(day) ==
  CASE day >= Oct8 -> "ma105" [] day >= Sep29 /\ day < Oct8 -> "seller" [] day >= Sep28 /\ day < Sep29 -> "open"
    [] day >= Sep26 /\ day < Sep28 -> "nocall" [] day >= 18 /\ day < Sep26 -> "iciv30" [] OTHER -> "fixed95"

-------------------------------------------------------------------------------
(* Plans for the next opening.                                                   *)

\* A position is a contract with its size, Flat is none. Days are consecutive sessions.
Flat == "flat"

\* A signal: [day, product, route, profit, action, monthly, close, priced, cur, tgt, old3,
\* new3, trigger, exec3, plan]; cur and tgt: [core, mom]; plan: NoPlan or [signal, exec,
\* core, mom], a leg [old, new, changed]. profit: a 3x re-entry is pending; action "none" |
\* "reenter" | "execute"; old3, new3: its positions, for an executed one those of the
\* confirmed opening.
NoPlan == [exec |-> 0]
Routes == {"future", "short_put", "assigned_etf", "cash_wait", "recovery_future"}
ThreeTimes(s) == s.profit \/ s.action # "none"
CoreIsOwned(s) == s.route # "future" \/ ThreeTimes(s)

\* validate_pending_plans: who may touch the core leg.
PendingUnowned(s) ==   \* mutant: an ordinary plan may move a core that a 3x plan sells
  s.plan # NoPlan => ~s.monthly
PendingAccepted(s) ==
  /\ s.route \in Routes
  /\ s.plan # NoPlan => ~s.monthly /\ (CoreIsOwned(s) => ~s.plan.core.changed)
  /\ s.profit =>
       /\ s.route = "future" /\ ~(s.monthly /\ s.close /\ s.priced)
       /\ s.trigger <= s.day /\ s.exec3 = s.trigger + 1
       /\ s.old3 # Flat /\ s.new3 # Flat
  /\ ~s.profit => s.exec3 = 0

\* ordinary_put_transition_identity_only: a record of one day that trades nothing.
MigrationDay == Sep29
Migration(s) ==
  /\ s.product = "IC" /\ s.day = MigrationDay
  /\ s.cur = s.tgt /\ s.cur.core # Flat /\ s.cur.mom = Flat
  /\ s.plan.core = [old |-> Flat, new |-> s.tgt.core, changed |-> TRUE]
  /\ s.plan.mom = [old |-> Flat, new |-> Flat, changed |-> FALSE]

\* validate_ordinary_put_plan: a core that another plan owns keeps the position that plan
\* starts from, the other legs go from the held position to the target.
OwnedCore(s) ==
  CASE s.route # "future" -> Flat
    [] s.route = "future" /\ s.action = "execute" -> s.new3
    [] OTHER -> s.old3
OwnerIsSound(s) ==
  CASE s.route # "future" -> ~ThreeTimes(s) /\ s.tgt.core = Flat
    [] s.route = "future" /\ s.action = "execute" ->
         ~s.profit /\ s.new3 = s.tgt.core /\ s.old3 = s.cur.core /\ s.new3 # Flat /\ s.old3 # Flat
    [] s.route = "future" /\ s.action # "execute" /\ ThreeTimes(s) ->
         s.profit /\ s.old3 = s.cur.core /\ s.old3 # Flat
    [] OTHER -> TRUE
Leg(old, new) == [old |-> old, new |-> new, changed |-> old # new]
PlanAccepted(s) ==
  s.plan # NoPlan =>
    /\ s.plan.signal = s.day /\ s.plan.exec = s.day + 1
    /\ \/ Migration(s)
       \/ /\ OwnerIsSound(s)
          /\ s.plan.core = IF CoreIsOwned(s) THEN Leg(OwnedCore(s), OwnedCore(s)) ELSE Leg(s.cur.core, s.tgt.core)
          /\ s.plan.mom = Leg(s.cur.mom, s.tgt.mom)

SignalAccepted(s) == PendingAccepted(s) /\ PlanAccepted(s)

\* What the next opening trades: the changed legs of the ordinary plan and the 3x plan.
NextOpening(s) ==
  (IF s.plan = NoPlan \/ Migration(s) THEN {}
   ELSE {<<l, s.plan[l].old, s.plan[l].new>> : l \in {k \in {"core", "mom"} : s.plan[k].changed}})
  \cup (IF s.profit THEN {<<"core", s.old3, s.new3>>} ELSE {})

-------------------------------------------------------------------------------
(* Sums of the quantity table: validate_quantities.                               *)

\* [core, mom, grid, total, change, weight], the first four [cur, tgt], in halves; the momentum
\* leg is half its weight, so its entry here equals the weight.
SumsAccepted(t) ==
  /\ \A w \in {"cur", "tgt"} : t.mom[w] = t.weight[w] /\ t.total[w] = t.core[w] + t.mom[w] + t.grid[w]
  /\ t.change = t.total.tgt - t.total.cur

-------------------------------------------------------------------------------
(* The cost of a short Put: validate_execution.                                   *)

\* A snapshot: [day, route, held, basis, premium, priceDay, pending, events]; events:
\* [kind, exec, legs, new, status, prices]; prices: [leg, day, open]; pending: an event's
\* plan [exec, new] or NoPlan; 0 is no premium, no day.
EventAccepted(e, day) ==
  /\ e.new \in e.legs /\ e.exec <= day + 1
  /\ CASE e.status = "confirmed" -> /\ e.exec = day
                                    /\ {p.leg : p \in e.prices} = e.legs /\ \A p \in e.prices : p.day = day
       [] e.status = "awaiting" -> e.kind = "short_put" /\ day < e.exec /\ e.prices = {}
       [] e.status = "no_price" -> e.exec = day
       [] e.status = "missed" -> e.kind = "short_put" /\ day > e.exec /\ e.prices = {}
       [] OTHER -> FALSE

CostAccepted(x) ==
  /\ \A e \in x.events : EventAccepted(e, x.day)
  /\ \A e, f \in x.events : e.kind = f.kind => e = f
  /\ x.route = "short_put" => x.held # Flat /\ (x.pending = NoPlan => x.premium # 0)
  /\ CASE x.pending # NoPlan -> /\ x.pending.exec = x.day + 1 /\ x.route = "short_put" /\ x.basis = "pending"
                                /\ x.premium = 0 /\ x.priceDay = 0 /\ x.held = x.pending.new
       [] x.pending = NoPlan /\ x.basis = "confirmed" ->
            /\ x.premium # 0 /\ x.priceDay # 0 /\ x.priceDay <= x.day /\ x.route = "short_put"
            /\ x.priceDay = x.day =>
                 \E e \in x.events : /\ e.kind = "short_put" /\ e.status = "confirmed" /\ e.new = x.held
                                     /\ \E p \in e.prices : p.leg = x.held /\ p.open = x.premium
       [] OTHER -> x.basis # "pending" /\ x.priceDay = 0

NeedsAttention(x) ==
  \/ x.pending # NoPlan
  \/ x.route = "short_put" /\ x.basis # "confirmed"
  \/ \E e \in x.events : e.status # "confirmed"

-------------------------------------------------------------------------------
(* The summary: action_parts, build_success, build_success_html.                  *)

\* What a mail has to say: [hold, plan, notices, attention, partial, replay];
\* hold: every leg's action is one of HOLD_ACTIONS, plan: a 3x or an ordinary
\* plan is scheduled.
ToAdjust(f) == ~f.hold \/ f.plan
SubjectTag(f) ==
  CASE f.partial -> "partial"
    [] ~f.partial /\ f.notices -> IF f.replay THEN "calendar" ELSE "maintenance"
    [] ~f.partial /\ ~f.notices /\ f.attention -> "opening"
    [] OTHER -> IF ToAdjust(f) THEN (IF f.replay THEN "difference" ELSE "adjust") ELSE "quiet"
Headline(f) ==
  CASE f.notices -> IF f.replay THEN "calendar" ELSE "maintenance"
    [] ~f.notices /\ f.attention -> "opening"
    [] ~f.notices /\ ~f.attention /\ f.partial -> "partial"
    [] OTHER -> IF ToAdjust(f) THEN (IF f.replay THEN "difference" ELSE "adjust") ELSE "quiet"

-------------------------------------------------------------------------------
(* The reminder of the monthly maintenance.                                       *)

\* A month: [first, closed]: the weekday of its first day, Monday is 0, and the holidays.
WeekdayIn(m, n) == (m.first + n - 1) % 7
Opens(m, n) == WeekdayIn(m, n) < 5 /\ n \notin m.closed
NextOpen(m, n) == CHOOSE k \in n + 1 .. n + 20 : Opens(m, k) /\ \A j \in n + 1 .. k - 1 : ~Opens(m, j)
ThirdFriday(m) == 1 + ((4 - m.first) % 7) + 14
Maintenance(m) == IF Opens(m, ThirdFriday(m)) THEN ThirdFriday(m) ELSE NextOpen(m, ThirdFriday(m))

\* reminder: exec, next and preview come from the producer (external) or, for a failed
\* run, from failed_calendar_notices.
Reminder(m, day, close, exec, next, preview) ==
  CASE exec # Maintenance(m) -> "none"
    [] exec = Maintenance(m) /\ close /\ preview /\ exec = next /\ exec > day -> "next"
    [] exec = Maintenance(m) /\ ~close /\ exec = day -> "today"
    [] OTHER -> "none"
ReminderOfSuccess(m, day, close) ==
  Reminder(m, day, close, Maintenance(m), NextOpen(m, day), close /\ NextOpen(m, day) = Maintenance(m))
\* A failed run trusts only its own clock: generated on the day it is about, on a session,
\* in the open session or after the close. Quarters: 0 morning, 1 session, 2 after 15:00.
ReminderOfFailure(m, day, close, clock, today) ==
  IF clock = day /\ today = day /\ Opens(m, day)
  THEN Reminder(m, day, close, Maintenance(m), NextOpen(m, day), close) ELSE "none"
-------------------------------------------------------------------------------
(* Properties.                                                                   *)

\* The key of the delivery gate separates exactly the builds the mail accepts, and two
\* builds never share a rule: a mail of one build is never taken for the mail of another
\* (marker_prefix, expected_identity_for_day, expected_rule_revision_for_day).
IdentitiesAgree(d, e) ==
  /\ TagOf(d) = TagOf(e) <=> BuildOf(d) = BuildOf(e)
  /\ RuleOf(d) = RuleOf(e) => BuildOf(d) = BuildOf(e)

\* Accepted plans leave every leg to one owner: no leg is traded twice at the next opening,
\* what is sold is what is held, and after an ordinary plan without an owner of the core the
\* book is the target book ("A route switch owns the core exit; a concurrent 3x event
\* owns its own core trade. In either case only momentum may change in this ordinary T+1
\* plan.", build_ic_im_v1_4_digest.py:262).
OneOwnerForEveryLeg(s) ==
  (SignalAccepted(s) /\ s.plan # NoPlan) =>
    LET trades == NextOpening(s)
        After(l) == IF \E t \in trades : t[1] = l THEN (CHOOSE t \in trades : t[1] = l)[3] ELSE s.cur[l]
    IN /\ \A t, u \in trades : t[1] = u[1] => t = u
       /\ \A t \in trades : t[2] = s.cur[t[1]]
       /\ After("mom") = s.tgt.mom
       /\ ~CoreIsOwned(s) => After("core") = s.tgt.core
       /\ s.route # "future" => s.plan.core = Leg(Flat, Flat)

\* The change of the total is the change of its legs (validate_quantities).
ChangesAddUp(t) ==
  SumsAccepted(t) =>
    t.change = (t.core.tgt - t.core.cur) + (t.weight.tgt - t.weight.cur) + (t.grid.tgt - t.grid.cur)

\* A mail that raises no attention for openings shows no cost that is not a dated opening:
\* every leg of every event was priced that day, the short Put stands at a confirmed cost,
\* of an earlier day or of an event of this one (validate_execution, needs_attention).
QuietMeansPriced(x) ==
  (CostAccepted(x) /\ ~NeedsAttention(x)) =>
    /\ \A e \in x.events : \A l \in e.legs : \E p \in e.prices : p.leg = l /\ p.day = x.day
    /\ x.route = "short_put" =>
         /\ x.premium # 0 /\ x.priceDay # 0 /\ x.priceDay <= x.day
         /\ x.priceDay = x.day => \E e \in x.events : \E p \in e.prices : p.leg = x.held /\ p.open = x.premium

\* Neither the subject nor the headline is quiet when there is work: an action, a scheduled
\* plan, a maintenance, an unconfirmed opening or a missing reading (build_success and
\* build_success_html compute them apart, in a different order).
WorkIsNeverQuiet(f) ==
  LET work == ToAdjust(f) \/ f.notices \/ f.attention \/ f.partial IN
  /\ work <=> SubjectTag(f) # "quiet"
  /\ work <=> Headline(f) # "quiet"

\* The maintenance is announced by the close mail of the session before and by the mail of
\* the open session of its day, and by no other, whether the run succeeded or failed; a
\* run that reports of another day than it ran announces nothing (reminder,
\* failed_calendar_notices).
AnnouncedOnTheDay(m, day, close, clock, today) ==
  LET right == CASE close /\ NextOpen(m, day) = Maintenance(m) -> "next"
                 [] ~close /\ day = Maintenance(m) -> "today"
                 [] OTHER -> "none"
  IN Opens(m, day) =>
       /\ ReminderOfSuccess(m, day, close) = right
       /\ ReminderOfFailure(m, day, close, clock, today) =
            IF clock = day /\ today = day THEN right ELSE "none"
=================================================================================
