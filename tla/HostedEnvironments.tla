------------------------- MODULE HostedEnvironments -------------------------
(***************************************************************************)
(* The hosted environment that one customer rents                          *)
(* (features/claude-env/server/scheduler.ts, with the self-test reports of *)
(* relay-api.ts and the actions of admin-actions.ts).                      *)
(*                                                                         *)
(* A paid item becomes a subscription, for which the shop buys an address  *)
(* at a provider; later items renew it, which extends the provider's       *)
(* order.  A run of the minute cron goes through its steps one after the   *)
(* other.  Between any two of its statements and calls administrators      *)
(* write the subscription by its id alone, the relay reports its tests,    *)
(* orders are refunded, and the process may die.  The provider may refuse  *)
(* a call, answer it, or not answer whether it took effect or not.         *)
(*                                                                         *)
(* There is no clock.  Once the subscription has a date, the date may have *)
(* come or not whenever it is asked.  The five minutes after which a claim *)
(* counts as abandoned are over when the next run looks at it, and may be  *)
(* over whenever an administrator does.                                    *)
(* Relays, cities, balances and delays after a failure only appear as runs *)
(* that pass over an order they could place.  An item bought when no       *)
(* subscription is alive starts a new one, which is not followed.  Days    *)
(* added by hand (extend_days) only move the date, which is not counted.   *)
(*                                                                         *)
(* Each definition whose comment begins with SLIP is a wrong variant of    *)
(* the one that follows it, used to see that the properties notice.        *)
(***************************************************************************)
EXTENDS Naturals, FiniteSets

CONSTANTS
  First,     \* the item that the subscription was bought with
  Renewals,  \* items that the customer buys later
  Units,     \* terms that an item pays for
  Ticks,     \* runs of the cron at a time: one in the Node build, any number
             \* in the Cloudflare build
  Reports,   \* requests of the relay
  Admins,    \* requests of administrators
  None,      \* no item
  MaxRefunds,\* items that are refunded
  MaxUpsets  \* actions of administrators, and runs and requests that die

Items == Renewals \cup {First}
Processes == Ticks \cup Reports

ASSUME HostedAssumption ==
  /\ First \notin Renewals
  /\ Units \in [Items -> Nat \ {0}]
  /\ IsFiniteSet(Ticks)
  /\ Ticks \cap Reports = {}
  /\ None \notin Items
  /\ {MaxRefunds, MaxUpsets} \subseteq Nat

VARIABLES
  sub,       \* the row of claude_env_subscriptions
  period,    \* the rows of claude_env_periods, one for each item
  sale,      \* shop_orders.status of each item
  orders,    \* how many orders there are at the provider
  purchases, \* orders that the shop bought at the provider
  reorders,  \* permissions of an administrator to buy again
  extended,  \* terms that the provider added for each item
  again,     \* permissions of an administrator to extend again
  miscounted,\* terms of each item that a late write of a run left out of the count
  restarted, \* an administrator wrote the subscription alive after its refund
  run,       \* what each run and request has read, and where it is
  overlapped,\* a run has started while another went on
  admin,     \* what each administrator has read and is about to write
  upsets     \* actions of administrators and deaths so far

shop == <<sub, period>>
provider == <<orders, purchases, extended>>
permits == <<reorders, again, restarted, miscounted>>
world == <<sale, upsets, overlapped>>
vars == <<shop, provider, permits, world, run, admin>>

Running == {"awaiting_ip", "provisioning", "needs_replace", "active"}

NoSubscription ==
  [status |-> "absent", before |-> "none", state |-> "none", order |-> 0,
   ip |-> FALSE, relayOk |-> FALSE, activated |-> FALSE, dated |-> FALSE,
   alerted |-> FALSE, refundSeen |-> FALSE]

Period(status) ==
  [status |-> status, units |-> 0, alerted |-> FALSE, handled |-> FALSE]

\* A run or request at a place of its program, with nothing read.
At(pc) ==
  [pc |-> pc, item |-> None, order |-> 0, saw |-> "absent", todo |-> {},
   seen |-> [i \in Items |-> 0]]

Act(name, item, saw, order) == [act |-> name, item |-> item, saw |-> saw, order |-> order]

NoAct == Act("none", None, "absent", 0)

Init ==
  /\ upsets = 0 /\ overlapped = FALSE
  /\ sub = NoSubscription
  /\ period = [i \in Items |-> Period("absent")]
  /\ sale = [i \in Items |-> "unpaid"]
  /\ orders = 0 /\ purchases = 0
  /\ reorders = 0 /\ restarted = FALSE
  /\ extended = [i \in Items |-> 0]
  /\ again = [i \in Items |-> 0]
  /\ miscounted = [i \in Items |-> 0]
  /\ run = [p \in Processes |-> At("idle")]
  /\ admin = [a \in Admins |-> NoAct]

-----------------------------------------------------------------------------
(***************************************************************************)
(* The world outside.                                                      *)
(***************************************************************************)
Pay(i) ==
  /\ sale[i] = "unpaid"
  /\ i = First \/ sub.status # "absent"
  /\ sale' = [sale EXCEPT ![i] = "paid"]
  /\ UNCHANGED <<shop, provider, permits, upsets, overlapped, run, admin>>

Refund(i) ==
  /\ sale[i] = "paid"
  /\ Cardinality({j \in Items : sale[j] = "refunded"}) < MaxRefunds
  /\ sale' = [sale EXCEPT ![i] = "refunded"]
  /\ UNCHANGED <<shop, provider, permits, upsets, overlapped, run, admin>>

\* The provider takes a new order.
Bought == orders' = orders + 1

\* The process moves to a place of its program and forgets what it read.
Go(p, pc) == run' = [run EXCEPT ![p] = At(pc)]

Upset == upsets < MaxUpsets /\ upsets' = upsets + 1

Crash(p) ==
  /\ run[p].pc # "idle"
  /\ Upset
  /\ run' = [run EXCEPT ![p] = At("idle")]
  /\ UNCHANGED <<shop, provider, permits, sale, overlapped, admin>>

-----------------------------------------------------------------------------
(***************************************************************************)
(* runClaudeEnv: the steps in their order, and ingestOrders.               *)
(***************************************************************************)
After ==
  [ingest |-> "refunds", refunds |-> "renewals", renewals |-> "order",
   order |-> "posting", poll |-> "posting", posting |-> "activate", activate |-> "extend",
   extend |-> "extending", extending |-> "sync", sync |-> "expire", expire |-> "idle"]

Start(t) ==
  /\ run[t].pc = "idle"
  /\ run' = [run EXCEPT ![t] = At("ingest")]
  /\ overlapped' = (overlapped \/ \E u \in Ticks : run[u].pc # "idle")
  /\ UNCHANGED <<shop, provider, permits, sale, upsets, admin>>

\* processPaidItem looks for the customer's subscription, which counts until
\* its date has come,
ReadItem(t, i) ==
  /\ run[t].pc = "ingest"
  /\ sale[i] = "paid" /\ period[i].status = "absent"
  /\ \E saw \in {sub.status, "absent"} :
       /\ saw = "absent" \/ saw \in Running \cup {"suspended"}
       /\ saw = "absent" /\ sub.status \in Running \cup {"suspended"} => sub.dated
       /\ run' = [run EXCEPT ![t] = [At("insert") EXCEPT !.item = i, !.saw = saw]]
  /\ UNCHANGED <<shop, provider, permits, world, admin>>

\* and renews it or starts one.  An item that another run has taken meanwhile
\* breaks the primary key, which ends the step.
Insert(t) ==
  LET i == run[t].item IN
  /\ run[t].pc = "insert"
  /\ IF period[i].status # "absent"
       THEN UNCHANGED shop /\ Go(t, "refunds")
       ELSE /\ period' = [period EXCEPT ![i] =
                 Period(IF run[t].saw # "absent" THEN "pending"
                        ELSE IF i = First THEN "none" ELSE "elsewhere")]
            /\ sub' = IF run[t].saw = "absent" /\ i = First
                        THEN [NoSubscription EXCEPT !.status = "awaiting_ip"] ELSE sub
            /\ Go(t, "ingest")
  /\ UNCHANGED <<provider, permits, world, admin>>

-----------------------------------------------------------------------------
(***************************************************************************)
(* handleRefunds and handleRenewalRefunds.                                 *)
(***************************************************************************)
RefundUnseen == sub.status # "absent" /\ sale[First] = "refunded" /\ ~ sub.refundSeen

ReadRefund(t) ==
  /\ run[t].pc = "refunds"
  /\ RefundUnseen
  /\ run' = [run EXCEPT ![t] = [At(
       IF sub.status = "awaiting_ip" /\ sub.state = "none" THEN "revoke" ELSE "stop")
       EXCEPT !.saw = sub.status]]
  /\ UNCHANGED <<shop, provider, permits, world, admin>>

\* Nothing has been bought, unless a purchase has just begun.
Revoke(t) ==
  /\ run[t].pc = "revoke"
  /\ IF sub.status = "awaiting_ip" /\ sub.state = "none"
       THEN /\ sub' = [sub EXCEPT !.status = "cancelled", !.refundSeen = TRUE]
            /\ Go(t, "renewals")
       ELSE /\ UNCHANGED sub
            /\ run' = [run EXCEPT ![t].pc = "stop"]
  /\ UNCHANGED <<period, provider, permits, world, admin>>

\* Whether to suspend is decided by the status that was read.
Stop(t) ==
  /\ run[t].pc = "stop"
  /\ sub' = IF run[t].saw \in Running
              THEN [sub EXCEPT !.refundSeen = TRUE, !.before = sub.status, !.status = "suspended"]
              ELSE [sub EXCEPT !.refundSeen = TRUE]
  /\ Go(t, "renewals")
  /\ UNCHANGED <<period, provider, permits, world, admin>>

RenewalRefunded(i) ==
  period[i].status \notin {"absent", "elsewhere"} /\ sale[i] = "refunded" /\ ~ period[i].handled

\* A renewal that has begun is left to run on; the owner is told.
CancelRenewal(t, i) ==
  /\ run[t].pc = "renewals"
  /\ RenewalRefunded(i)
  /\ IF period[i].status \in {"pending", "failed"} /\ period[i].units = 0
       THEN /\ period' = [period EXCEPT ![i].status = "cancelled", ![i].handled = TRUE]
            /\ UNCHANGED run
       ELSE /\ UNCHANGED period
            /\ run' = [run EXCEPT ![t].pc = "handled", ![t].item = i]
  /\ UNCHANGED <<sub, provider, permits, world, admin>>

Handled(t) ==
  /\ run[t].pc = "handled"
  /\ period' = [period EXCEPT ![run[t].item].handled = TRUE]
  /\ Go(t, "renewals")
  /\ UNCHANGED <<sub, provider, permits, world, admin>>

-----------------------------------------------------------------------------
(***************************************************************************)
(* provisionSubscriptions and alertStalePosting.                           *)
(***************************************************************************)
MayOrder == sub.status = "awaiting_ip" /\ sub.state = "none"

\* placeOrder claims the one purchase before it calls the provider.
ClaimOrder(t) ==
  /\ run[t].pc = "order"
  /\ MayOrder
  /\ sub' = [sub EXCEPT !.state = "posting", !.alerted = FALSE]
  /\ Go(t, "post")
  /\ UNCHANGED <<period, provider, permits, world, admin>>

\* createOrder: refused, bought, or no answer, whatever has happened.
PostOrder(t) ==
  /\ run[t].pc = "post"
  /\ \/ Go(t, "refused") /\ UNCHANGED provider
     \/ Go(t, "lost") /\ UNCHANGED provider
     \/ /\ Bought /\ purchases' = purchases + 1
        /\ \/ Go(t, "lost")
           \/ run' = [run EXCEPT ![t] = [At("ordered") EXCEPT !.order = orders + 1]]
        /\ UNCHANGED extended
  /\ UNCHANGED <<shop, permits, world, admin>>

OrderRefused(t) ==
  /\ run[t].pc = "refused"
  /\ sub' = IF sub.state = "posting" THEN [sub EXCEPT !.state = "none"] ELSE sub
  /\ Go(t, "posting")
  /\ UNCHANGED <<period, provider, permits, world, admin>>

\* SLIP: an order of which nothing was heard is placed again.
OrderForgotten(t) ==
  /\ run[t].pc = "lost"
  /\ sub' = IF sub.state = "posting" THEN [sub EXCEPT !.state = "none"] ELSE sub
  /\ Go(t, "posting")
  /\ UNCHANGED <<period, provider, permits, world, admin>>

OrderLost(t) ==
  /\ run[t].pc = "lost"
  /\ sub' = IF sub.state = "posting"
              THEN [sub EXCEPT !.state = "unknown", !.alerted = TRUE] ELSE sub
  /\ Go(t, "posting")
  /\ UNCHANGED <<period, provider, permits, world, admin>>

\* The first term of the first item is the order itself.
FirstTerm(units) ==
  [period[First] EXCEPT !.units = units,
                        !.status = IF Units[First] > 1 THEN "pending" ELSE "done"]

\* The order is written unless the claim was changed.  Then it is polled.  The
\* count of the first item begins anew, even when an administrator has set this
\* order meanwhile and terms were added to it.
Ordered(t) ==
  LET n == run[t].order
      written == sub.state = "posting" IN
  /\ run[t].pc = "ordered"
  /\ sub' = IF written THEN [sub EXCEPT !.state = "ordered", !.order = n] ELSE sub
  /\ IF sub'.order = n
       THEN /\ period' = [period EXCEPT ![First] = FirstTerm(1)]
            /\ miscounted' = [miscounted EXCEPT ![First] = @ + period[First].units]
       ELSE UNCHANGED <<period, miscounted>>
  /\ Go(t, IF written THEN "poll" ELSE "posting")
  /\ UNCHANGED <<provider, reorders, again, restarted, world, admin>>

\* pollOrder: the address is not there yet, or it is,
PollOrder(t) ==
  /\ run[t].pc \in {"order", "poll"}
  /\ sub.status = "awaiting_ip" /\ sub.state = "ordered"
  /\ Go(t, "posting") \/ Go(t, "assign")
  /\ UNCHANGED <<shop, provider, permits, world, admin>>

\* with or without a date.
Assign(t) ==
  /\ run[t].pc = "assign"
  /\ \E date \in BOOLEAN :
       sub' = IF sub.status # "awaiting_ip" THEN sub ELSE
         [sub EXCEPT !.status = "provisioning", !.ip = TRUE, !.relayOk = FALSE,
                     !.dated = @ \/ date]
  /\ Go(t, "posting")
  /\ UNCHANGED <<period, provider, permits, world, admin>>

\* SLIP: only an order that was already declared unknown is looked for.
StaleUnknown == sub.state = "unknown" /\ ~ sub.alerted

StalePosting == sub.state \in {"posting", "unknown"} /\ ~ sub.alerted

ReadStale(t) ==
  /\ run[t].pc = "posting"
  /\ StalePosting
  /\ Go(t, "mark")
  /\ UNCHANGED <<shop, provider, permits, world, admin>>

\* The write asks for the alert only, not for the state that was read.
MarkUnknown(t) ==
  /\ run[t].pc = "mark"
  /\ sub' = IF sub.alerted THEN sub ELSE [sub EXCEPT !.state = "unknown", !.alerted = TRUE]
  /\ Go(t, "activate")
  /\ UNCHANGED <<period, provider, permits, world, admin>>

-----------------------------------------------------------------------------
(***************************************************************************)
(* Self-tests of the relay, and activateSubscriptions, which a request of  *)
(* the relay runs as well (activateReady).                                 *)
(***************************************************************************)
Report(r) ==
  /\ run[r].pc = "idle"
  /\ sub.status = "provisioning"
  /\ \/ /\ sub' = [sub EXCEPT !.relayOk = TRUE]
        /\ Go(r, "judge")
     \/ /\ \/ sub' = [sub EXCEPT !.relayOk = FALSE, !.status = "needs_replace"]
           \/ sub' = [sub EXCEPT !.relayOk = FALSE]
        /\ UNCHANGED run
  /\ UNCHANGED <<period, provider, permits, world, admin>>

\* What follows the activation: the next step of the cron, or the end.
Leave(p) == Go(p, IF p \in Ticks THEN "extend" ELSE "idle")

Testable == sub.status = "provisioning" /\ sub.relayOk

ReadTested(p) ==
  /\ run[p].pc = "activate"
  /\ Testable
  /\ Go(p, "judge")
  /\ UNCHANGED <<shop, provider, permits, world, admin>>

\* SLIP: what the row has become while the services were asked is not looked at.
JudgeAny(p) ==
  /\ run[p].pc = "judge"
  /\ sub' = [sub EXCEPT !.status = "active", !.dated = TRUE]
  /\ Leave(p)
  /\ UNCHANGED <<period, provider, permits, world, admin>>

\* The services that rate addresses have answered.
Judge(p) ==
  /\ run[p].pc = "judge"
  /\ \/ sub' = IF sub.status = "provisioning"
                 THEN [sub EXCEPT !.status = "needs_replace", !.relayOk = FALSE] ELSE sub
     \/ sub' = IF Testable
                 THEN [sub EXCEPT !.status = "active", !.activated = TRUE, !.dated = TRUE]
                 ELSE sub
  /\ Leave(p)
  /\ UNCHANGED <<period, provider, permits, world, admin>>

-----------------------------------------------------------------------------
(***************************************************************************)
(* extendPeriods, alertStaleExtending, refreshExpiry and syncExpiry.       *)
(***************************************************************************)
Extendable ==
  /\ sub.state = "ordered" /\ sub.ip
  /\ sub.status \notin {"expired", "cancelled", "needs_replace"}

\* SLIP: a renewal of which a term was added is forgotten.
PendingFresh == {i \in Items : period[i].status = "pending" /\ period[i].units = 0}

Pending == {i \in Items : period[i].status = "pending"}

ReadPeriods(t) ==
  /\ run[t].pc = "extend"
  /\ Extendable /\ Pending # {}
  /\ run' = [run EXCEPT ![t] = [At("extend1") EXCEPT !.todo = Pending,
       !.order = sub.order,
       !.seen = [i \in Items |-> IF i \in Pending THEN period[i].units ELSE 0]]]
  /\ UNCHANGED <<shop, provider, permits, world, admin>>

ClaimPeriod(t, i) ==
  /\ run[t].pc = "extend1"
  /\ i \in run[t].todo
  /\ IF period[i].status = "pending"
       THEN /\ period' = [period EXCEPT ![i].status = "extending", ![i].alerted = FALSE]
            /\ run' = [run EXCEPT ![t].pc = "prolong", ![t].item = i, ![t].todo = @ \ {i}]
       ELSE /\ UNCHANGED period
            /\ run' = [run EXCEPT ![t].todo = @ \ {i}]
  /\ UNCHANGED <<sub, provider, permits, world, admin>>

\* extendOrder: refused, extended, or no answer, whatever has happened.
Prolong(t) ==
  /\ run[t].pc = "prolong"
  /\ \/ \E pc \in {"refuse", "silent"} : run' = [run EXCEPT ![t].pc = pc] /\ UNCHANGED provider
     \/ /\ extended' = [extended EXCEPT ![run[t].item] = @ + 1]
        /\ \E pc \in {"prolonged", "silent"} : run' = [run EXCEPT ![t].pc = pc]
        /\ UNCHANGED <<orders, purchases>>
  /\ UNCHANGED <<shop, permits, world, admin>>

\* The outcome is written whatever has become of the period meanwhile.
Refused(t) ==
  /\ run[t].pc = "refuse"
  /\ period' = [period EXCEPT ![run[t].item].status = "failed"]
  /\ run' = [run EXCEPT ![t].pc = "extend1"]
  /\ UNCHANGED <<sub, provider, permits, world, admin>>

Silent(t) ==
  /\ run[t].pc = "silent"
  /\ period' = [period EXCEPT ![run[t].item].alerted = TRUE]
  /\ run' = [run EXCEPT ![t].pc = "extend1"]
  /\ UNCHANGED <<sub, provider, permits, world, admin>>

\* What is done is decided by the count that the run read before its calls.
Counts(t) ==
  LET i == run[t].item IN
  miscounted' = IF run[t].seen[i] = period[i].units THEN miscounted
                ELSE [miscounted EXCEPT ![i] = @ + 1]

\* SLIP: the term just added is not counted.
ProlongedUncounted(t) ==
  LET i == run[t].item IN
  /\ run[t].pc = "prolonged"
  /\ period' = [period EXCEPT ![i].units = @ + 1,
       ![i].status = IF run[t].seen[i] >= Units[i] THEN "done" ELSE "pending"]
  /\ Counts(t)
  /\ run' = [run EXCEPT ![t].pc = "reread"]
  /\ UNCHANGED <<sub, provider, reorders, again, restarted, world, admin>>

Prolonged(t) ==
  LET i == run[t].item IN
  /\ run[t].pc = "prolonged"
  /\ period' = [period EXCEPT ![i].units = @ + 1,
       ![i].status = IF run[t].seen[i] + 1 >= Units[i] THEN "done" ELSE "pending"]
  /\ Counts(t)
  /\ run' = [run EXCEPT ![t].pc = "reread"]
  /\ UNCHANGED <<sub, provider, reorders, again, restarted, world, admin>>

SyncDue ==
  /\ sub.state = "ordered" /\ sub.ip
  /\ sub.status \in {"provisioning", "active", "suspended", "needs_replace"}

\* refreshExpiry asks the provider for the date; both steps use it.
Dated(n, date) ==
  sub' = IF date /\ sub.order = n /\ sub.status # "expired"
           THEN [sub EXCEPT !.dated = TRUE] ELSE sub

RefreshExpiry(t) ==
  /\ \/ /\ run[t].pc = "reread"
        /\ \E date \in BOOLEAN : Dated(run[t].order, date)
        /\ run' = [run EXCEPT ![t].pc = "extend1"]
     \/ /\ run[t].pc = "sync" /\ SyncDue
        /\ run' = [run EXCEPT ![t].pc = "synced", ![t].order = sub.order]
        /\ UNCHANGED sub
     \/ /\ run[t].pc = "synced"
        /\ \E date \in BOOLEAN : Dated(run[t].order, date)
        /\ Go(t, "expire")
  /\ UNCHANGED <<period, provider, permits, world, admin>>

StaleExtending(i) == period[i].status = "extending" /\ ~ period[i].alerted

ReadExtending(t) ==
  /\ run[t].pc = "extending"
  /\ \E i \in Items : StaleExtending(i)
  /\ run' = [run EXCEPT ![t] = [At("marking") EXCEPT !.todo = {i \in Items : StaleExtending(i)}]]
  /\ UNCHANGED <<shop, provider, permits, world, admin>>

\* The write asks for the alert only, not for the status that was read.
MarkExtending(t, i) ==
  /\ run[t].pc = "marking"
  /\ i \in run[t].todo
  /\ period' = [period EXCEPT ![i].alerted = TRUE]
  /\ run' = [run EXCEPT ![t].todo = @ \ {i}]
  /\ UNCHANGED <<sub, provider, permits, world, admin>>

-----------------------------------------------------------------------------
(***************************************************************************)
(* expireSubscriptions, and passing over a step that finds nothing.        *)
(***************************************************************************)
Expirable == sub.status \in {"active", "suspended"} /\ sub.dated

Expire(t) ==
  /\ run[t].pc = "expire"
  /\ Expirable
  /\ sub' = [sub EXCEPT !.status = "expired", !.before = "none"]
  /\ Go(t, "cancel")
  /\ UNCHANGED <<period, provider, permits, world, admin>>

\* Renewals that were not applied are cancelled by a statement of its own.
CancelUnapplied(t) ==
  /\ run[t].pc = "cancel"
  /\ period' = [i \in Items |->
       IF i \in Renewals /\ period[i].status \in {"pending", "failed"}
         THEN [period[i] EXCEPT !.status = "cancelled"] ELSE period[i]]
  /\ Go(t, "idle")
  /\ UNCHANGED <<sub, provider, permits, world, admin>>

\* What keeps a run at a step.  Orders may have to wait for a relay, for stock
\* or for the balance, the date may have been read a moment ago, and it may not
\* have come.
Busy(t) ==
  CASE run[t].pc = "ingest" ->
         \E i \in Items : sale[i] = "paid" /\ period[i].status = "absent"
    [] run[t].pc = "refunds" -> RefundUnseen
    [] run[t].pc = "renewals" -> \E i \in Renewals : RenewalRefunded(i)
    [] run[t].pc = "posting" -> StalePosting
    [] run[t].pc = "activate" -> Testable
    [] run[t].pc = "extend" -> Extendable /\ Pending # {}
    [] run[t].pc = "extending" -> \E i \in Items : StaleExtending(i)
    [] OTHER -> FALSE

PassOver(p) ==
  /\ \/ run[p].pc \in DOMAIN After /\ ~ Busy(p)
        /\ Go(p, IF p \in Ticks THEN After[run[p].pc] ELSE "idle")
     \/ run[p].pc = "extend1" /\ run[p].todo = {} /\ Go(p, "extending")
     \/ run[p].pc = "marking" /\ run[p].todo = {} /\ Go(p, "sync")
  /\ UNCHANGED <<shop, provider, permits, world, admin>>

-----------------------------------------------------------------------------
(***************************************************************************)
(* applySubscriptionAction: it reads the row, decides, and writes by the   *)
(* row's id alone.                                                         *)
(***************************************************************************)
Begin(a, decided) ==
  /\ admin[a].act = "none"
  /\ Upset
  /\ admin' = [admin EXCEPT ![a] = decided]
  /\ UNCHANGED <<shop, purchases, extended, permits, sale, overlapped, run>>

BeginSuspend(a) ==
  sub.status \in Running /\ Begin(a, Act("suspend", None, "absent", 0)) /\ UNCHANGED orders

BeginResume(a) ==
  /\ sub.status = "suspended"
  /\ Begin(a, Act("resume", None,
       IF sub.before # "none" THEN sub.before
       ELSE IF sub.activated THEN "active" ELSE "awaiting_ip", 0))
  /\ UNCHANGED orders

\* SLIP: an address of the same order is taken where there is no order.
BeginReplaceAny(a) ==
  /\ sub.status \in {"needs_replace", "provisioning", "awaiting_ip"}
  /\ \/ /\ UNCHANGED orders
        /\ Begin(a, Act("replace", None, "absent", sub.order))
     \/ Bought /\ Begin(a, Act("replace", None, "absent", orders + 1))

\* The new address belongs to the same order, or to one bought by hand.
BeginReplace(a) ==
  /\ sub.status \in {"needs_replace", "provisioning", "awaiting_ip"}
  /\ \/ /\ sub.order # 0 /\ UNCHANGED orders
        /\ Begin(a, Act("replace", None, "absent", sub.order))
     \/ Bought /\ Begin(a, Act("replace", None, "absent", orders + 1))

Unclear == sub.status = "awaiting_ip" /\ sub.state \in {"posting", "unknown"}

BeginSetOrder(a) ==
  /\ Unclear
  /\ \E n \in 1 .. orders : Begin(a, Act("set", None, "absent", n))
  /\ UNCHANGED orders

BeginReorder(a) ==
  Unclear /\ Begin(a, Act("reorder", None, "absent", 0)) /\ UNCHANGED orders

\* period_done and period_retry.
BeginPeriod(a, i, name) ==
  /\ period[i].status \in {"failed", "extending"}
  /\ sub.status # "expired"
  /\ Begin(a, Act(name, i, period[i].status, 0))
  /\ UNCHANGED orders

End(a, name) ==
  /\ admin[a].act = name
  /\ admin' = [admin EXCEPT ![a] = NoAct]
  /\ UNCHANGED <<provider, world, run>>

\* An administrator takes the refunded subscription up again, knowingly or by
\* what was decided before the refund: the write asks for the id only.
Restart == restarted' = (restarted \/ sale[First] = "refunded")

Suspend(a) ==
  /\ End(a, "suspend")
  /\ sub' = [sub EXCEPT !.before = sub.status, !.status = "suspended"]
  /\ UNCHANGED <<period, permits>>

Resume(a) ==
  /\ End(a, "resume")
  /\ sub' = [sub EXCEPT !.status = admin[a].saw, !.before = "none"]
  /\ Restart
  /\ UNCHANGED <<period, reorders, again, miscounted>>

\* The first term of the item, whoever bought it, if it was not counted yet.
Counted ==
  [period[First] EXCEPT !.units = IF @ = 0 THEN 1 ELSE @]

Replace(a) ==
  /\ End(a, "replace")
  /\ sub' = [sub EXCEPT !.status = "provisioning", !.ip = TRUE, !.relayOk = FALSE,
               !.order = admin[a].order, !.state = "ordered"]
  /\ period' = [period EXCEPT ![First] =
       IF period[First].status = "none" THEN FirstTerm(Counted.units) ELSE Counted]
  /\ Restart
  /\ UNCHANGED <<reorders, again, miscounted>>

SetOrder(a) ==
  /\ End(a, "set")
  /\ sub' = [sub EXCEPT !.order = admin[a].order, !.state = "ordered"]
  /\ period' = [period EXCEPT ![First] = FirstTerm(Counted.units)]
  /\ again' = [again EXCEPT ![First] = @ + 1]
  /\ UNCHANGED <<reorders, restarted, miscounted>>

Reorder(a) ==
  /\ End(a, "reorder")
  /\ sub' = [sub EXCEPT !.state = "none", !.alerted = FALSE]
  /\ reorders' = reorders + 1
  /\ UNCHANGED <<period, again, restarted, miscounted>>

\* The one write that repeats what was read.
PeriodByHand(a, name) ==
  LET i == admin[a].item
      status == IF name = "done" THEN "done" ELSE "pending" IN
  /\ End(a, name)
  /\ period' = IF period[i].status = admin[a].saw
                 THEN [period EXCEPT ![i].status = status] ELSE period
  /\ again' = IF name = "retry" THEN [again EXCEPT ![i] = @ + 1] ELSE again
  /\ UNCHANGED <<sub, reorders, restarted, miscounted>>

-----------------------------------------------------------------------------
OrderSteps(t) ==
  ClaimOrder(t) \/ PostOrder(t) \/ OrderRefused(t) \/ OrderLost(t) \/ Ordered(t)
    \/ PollOrder(t) \/ Assign(t) \/ ReadStale(t) \/ MarkUnknown(t)

ExtendSteps(t) ==
  \/ ReadPeriods(t) \/ Prolong(t) \/ Refused(t) \/ Silent(t) \/ Prolonged(t)
  \/ RefreshExpiry(t) \/ ReadExtending(t)
  \/ \E i \in Items : ClaimPeriod(t, i) \/ MarkExtending(t, i)

TickSteps(t) ==
  \/ Insert(t) \/ ReadRefund(t) \/ Revoke(t) \/ Stop(t) \/ Handled(t)
  \/ Expire(t) \/ CancelUnapplied(t)
  \/ \E i \in Items : ReadItem(t, i)
  \/ \E i \in Renewals : CancelRenewal(t, i)
  \/ OrderSteps(t) \/ ExtendSteps(t)

Both(p) == ReadTested(p) \/ Judge(p) \/ PassOver(p)

AdminSteps(a) ==
  \/ BeginSuspend(a) \/ BeginResume(a) \/ BeginReplace(a) \/ BeginSetOrder(a) \/ BeginReorder(a)
  \/ Suspend(a) \/ Resume(a) \/ Replace(a) \/ SetOrder(a) \/ Reorder(a)
  \/ \E name \in {"done", "retry"} :
       PeriodByHand(a, name) \/ \E i \in Items : BeginPeriod(a, i, name)

Next ==
  \/ \E i \in Items : Pay(i) \/ Refund(i)
  \/ \E p \in Processes : Both(p) \/ Crash(p)
  \/ \E t \in Ticks : Start(t) \/ TickSteps(t)
  \/ \E r \in Reports : Report(r)
  \/ \E a \in Admins : AdminSteps(a)

\* The cron starts every minute, and a run goes on until it ends or dies: every
\* call in it times out.
Fairness == \A t \in Ticks : WF_vars(Start(t) \/ TickSteps(t) \/ Both(t))

Spec == Init /\ [][Next]_vars
FairSpec == Spec /\ Fairness

-----------------------------------------------------------------------------
(***************************************************************************)
(* Properties.                                                             *)
(***************************************************************************)
Statuses == Running \cup {"absent", "suspended", "expired", "cancelled"}

Subscriptions ==
  [status : Statuses, before : Statuses \cup {"none"},
   state : {"none", "posting", "unknown", "ordered"}, order : Nat,
   ip : BOOLEAN, relayOk : BOOLEAN, activated : BOOLEAN, dated : BOOLEAN,
   alerted : BOOLEAN, refundSeen : BOOLEAN]

Periods ==
  [status : {"absent", "none", "pending", "extending", "failed", "done", "cancelled", "elsewhere"},
   units : Nat, alerted : BOOLEAN, handled : BOOLEAN]

Places ==
  DOMAIN After \cup {"idle", "insert", "revoke", "stop", "handled", "post", "refused", "lost",
    "ordered", "assign", "mark", "judge", "extend1", "prolong", "refuse", "silent", "prolonged",
    "reread", "marking", "synced", "cancel"}

Runs ==
  [pc : Places, item : Items \cup {None}, order : Nat, saw : Statuses, todo : SUBSET Items, seen : [Items -> Nat]]

Deeds ==
  [act : {"none", "suspend", "resume", "replace", "set", "reorder", "done", "retry"},
   item : Items \cup {None}, order : Nat,
   saw : Statuses \cup {"failed", "extending"}]

\* Types of all variables; an address comes with the order that it belongs to.
TypeOK ==
  /\ sub \in Subscriptions
  /\ sub.ip => sub.order # 0
  /\ period \in [Items -> Periods]
  /\ sale \in [Items -> {"unpaid", "paid", "refunded"}]
  /\ {orders, purchases, reorders, upsets} \subseteq Nat
  /\ {extended, again, miscounted} \subseteq [Items -> Nat]
  /\ {restarted, overlapped} \subseteq BOOLEAN
  /\ run \in [Processes -> Runs]
  /\ admin \in [Admins -> Deeds]

\* The provider is asked to sell once for a subscription, and once more for
\* each time an administrator allows it: not after an answer that was lost, a
\* refused order, a crash in the call, a refund in between or a claim that
\* another run declared unknown (the comment of createOrder: "call at most once
\* per subscription").
NoSecondPurchase == purchases <= 1 + reorders

\* No more terms are added than were paid, apart from those an administrator
\* asks for again.  The first term is the purchase itself, and a permission to
\* buy again makes it void.  A run decides whether an item is done by the count
\* it read before its calls (extendPeriods): once runs have overlapped, which
\* the Cloudflare build does not prevent, each write on a count that has moved
\* may cost one more term.
ExtendedAsPaid ==
  \A i \in Items :
    (i = First => reorders = 0)
      => extended[i] + (IF i = First THEN 1 ELSE 0)
           <= Units[i] + again[i] + (IF overlapped THEN miscounted[i] ELSE 0)

\* Once the shop has seen the refund of the first item, nothing sets the
\* subscription going again, neither a purchase or a quality check that had
\* begun before nor what a run read earlier, but an administrator whose write
\* comes after the refund (handleRefunds).
RefundedIsStopped ==
  sub.refundSeen /\ ~ restarted => sub.status \notin Running

\* A claim that its run has left behind is noticed: a purchase becomes known,
\* unknown or free again, an extension is settled or shown to the owner
\* (alertStalePosting, alertStaleExtending).
ClaimIsReported ==
  /\ sub.state = "posting" ~> sub.state # "posting"
  /\ \A i \in Items :
       period[i].status = "extending" ~> period[i].status # "extending" \/ period[i].alerted

\* A renewal that could be applied does not wait in silence: it is tried, and
\* either applied, refused or shown to the owner, unless the subscription
\* loses its address, its order or its time meanwhile (extendPeriods).
RenewalSettles ==
  \A i \in Renewals :
    period[i].status = "pending" /\ Extendable
      ~> period[i].status # "pending" \/ ~ Extendable
=============================================================================
