--------------------- MODULE HostedEnvironmentsProofs ---------------------
(***************************************************************************)
(* Proofs about HostedEnvironments, for any renewals, any number of runs   *)
(* of the cron that overlap, of requests and of administrators, and any    *)
(* number of deaths: an address is bought once for each permission, and a  *)
(* refunded subscription runs only for an administrator who wants it to.   *)
(***************************************************************************)
EXTENDS HostedEnvironments, FiniteSetTheorems, TLAPS

\* The subscription exists once its first item was taken.
Begun == period[First].status # "absent"

\* Where a run has an item in its hands, and where the subscription exists.
WithItem == {"insert", "handled", "prolong", "refuse", "silent", "prolonged"}

AfterStart ==
  {"revoke", "stop", "post", "ordered", "assign", "mark", "extend1", "prolong", "refuse",
   "silent", "prolonged", "reread", "synced"}

\* What a run and an administrator may rely on.
RunKnows(p) ==
  /\ run[p].pc \in WithItem => run[p].item \in Items
  /\ run[p].pc \in AfterStart => Begun
  /\ run[p].pc = "ordered" => run[p].order # 0
  /\ run[p].pc = "assign" => sub.order # 0

DeedKnows(a) ==
  /\ admin[a].act \in {"suspend", "resume", "replace", "set", "reorder"} => Begun
  /\ admin[a].act = "resume" => admin[a].saw \in Statuses
  /\ admin[a].act \in {"replace", "set"} => admin[a].order # 0
  /\ admin[a].act \in {"done", "retry"} => admin[a].item \in Items

\* The parts of the type invariant with what makes them inductive.
ShopSound ==
  /\ sub \in Subscriptions
  /\ period \in [Items -> Periods]
  /\ sub.ip => sub.order # 0
  /\ sub.state = "ordered" => sub.order # 0
  /\ ~ Begun => sub = NoSubscription

WorldSound ==
  /\ sale \in [Items -> {"unpaid", "paid", "refunded"}]
  /\ orders \in Nat /\ purchases \in Nat /\ reorders \in Nat /\ upsets \in Nat
  /\ extended \in [Items -> Nat] /\ again \in [Items -> Nat] /\ miscounted \in [Items -> Nat]
  /\ restarted \in BOOLEAN /\ overlapped \in BOOLEAN

RunsSound == run \in [Processes -> Runs] /\ \A p \in Processes : RunKnows(p)

DeedsSound == admin \in [Admins -> Deeds] /\ \A a \in Admins : DeedKnows(a)

Inv == ShopSound /\ WorldSound /\ RunsSound /\ DeedsSound

\* The steps of the cron are places, and so is what follows each.
LEMMA PlacesOfAfter ==
  /\ DOMAIN After = {"ingest", "refunds", "renewals", "order", "poll", "posting", "activate",
                     "extend", "extending", "sync", "expire"}
  /\ \A s \in DOMAIN After : After[s] \in (DOMAIN After \ {"poll"}) \cup {"idle"}
BY DEF After

\* A process that has just come to a place.
LEMMA AtTyped == \A pc \in Places : At(pc) \in Runs
BY DEF At, Runs, Statuses

\* The names of the places, for facts that leave the set itself closed.
LEMMA PlaceNames ==
  \A s \in {"idle", "insert", "revoke", "stop", "handled", "post", "refused", "lost", "ordered",
            "assign", "mark", "judge", "extend1", "prolong", "refuse", "silent", "prolonged",
            "reread", "marking", "synced", "cancel", "ingest", "refunds", "renewals", "order", "poll",
            "posting", "activate", "extend", "extending", "sync", "expire"} : s \in Places
BY PlacesOfAfter DEF Places

\* Nothing is bought yet, and nobody acts.
LEMMA InvInit == Init => Inv
<1> SUFFICES ASSUME Init PROVE Inv
  OBVIOUS
<1> USE HostedAssumption DEF Init, Items
<1>1. ShopSound
  BY DEF ShopSound, NoSubscription, Subscriptions, Period, Periods, Statuses, Begun
<1>2. WorldSound
  BY DEF WorldSound
<1>3. RunsSound
  <2>1. At("idle") \in Runs /\ At("idle").pc = "idle"
    BY AtTyped, PlacesOfAfter DEF Places, At
  <2> QED
    BY <2>1 DEF RunsSound, RunKnows, WithItem, AfterStart
<1>4. DeedsSound
  BY DEF DeedsSound, DeedKnows, NoAct, Act, Deeds, Statuses
<1> QED
  BY <1>1, <1>2, <1>3, <1>4 DEF Inv

\* The rows stay sound.
LEMMA ShopStep ==
  ASSUME Inv, [Next]_vars
  PROVE  ShopSound'
<1> USE HostedAssumption
<1> USE DEF Go
<1>shop. /\ sub \in Subscriptions /\ period \in [Items -> Periods]
         /\ sub.ip => sub.order # 0
         /\ sub.state = "ordered" => sub.order # 0
         /\ sub.status # "absent" \/ sub.state # "none" => Begun
         /\ ~ Begun => sub = NoSubscription
  BY DEF Inv, ShopSound, NoSubscription
<1>1. ASSUME NEW i \in Items, Pay(i)
      PROVE  ShopSound'
  BY <1>1, <1>shop DEF Pay, shop, ShopSound, Begun
<1>2. ASSUME NEW i \in Items, Refund(i)
      PROVE  ShopSound'
  BY <1>2, <1>shop DEF Refund, shop, ShopSound, Begun
<1>3. ASSUME NEW p \in Processes, ReadTested(p)
      PROVE  ShopSound'
  BY <1>3, <1>shop DEF ReadTested, Testable, shop, ShopSound, Begun
<1>4. ASSUME NEW p \in Processes, Judge(p)
      PROVE  ShopSound'
  <2>1. sub' \in Subscriptions
    <3>1. CASE UNCHANGED sub
      BY <1>shop, <3>1
    <3>2. CASE sub' = [sub EXCEPT !.status = "needs_replace", !.relayOk = FALSE]
      BY <1>shop, <3>2 DEF Subscriptions, Statuses, Running
    <3>3. CASE sub' = [sub EXCEPT !.status = "active", !.activated = TRUE, !.dated = TRUE]
      BY <1>shop, <3>3 DEF Subscriptions, Statuses, Running
    <3> QED
      BY <1>4, <3>1, <3>2, <3>3 DEF Judge
  <2>2. period' \in [Items -> Periods]
    BY <1>4, <1>shop DEF Judge, Leave, Testable, Periods, Items, shop
  <2>3. (sub'.ip => sub'.order # 0) /\ (sub'.state = "ordered" => sub'.order # 0)
    BY <1>4, <1>shop DEF Judge, Leave, Testable, Subscriptions, shop
  <2>4. Begun' \/ sub' = NoSubscription
    BY <1>4, <1>shop DEF Judge, Leave, Testable, Begun, shop, NoSubscription, Running
  <2> QED
    BY <2>1, <2>2, <2>3, <2>4 DEF ShopSound
<1>5. ASSUME NEW p \in Processes, PassOver(p)
      PROVE  ShopSound'
  BY <1>5, <1>shop DEF PassOver, Busy, shop, ShopSound, Begun
<1>6. ASSUME NEW p \in Processes, Crash(p)
      PROVE  ShopSound'
  BY <1>6, <1>shop DEF Crash, Upset, shop, ShopSound, Begun
<1>7. ASSUME NEW t \in Ticks, Start(t)
      PROVE  ShopSound'
  BY <1>7, <1>shop DEF Start, shop, ShopSound, Begun
<1>8. ASSUME NEW t \in Ticks, Insert(t)
      PROVE  ShopSound'
  <2>0. run[t].item \in Items
    BY <1>8
       DEF Insert, Period, NoSubscription, Inv, RunsSound, RunKnows, DeedsSound, DeedKnows,
       WithItem, AfterStart, Processes, Runs, Deeds
  <2>1. sub' \in Subscriptions
    <3>1. [NoSubscription EXCEPT !.status = "awaiting_ip"] \in Subscriptions
      BY DEF NoSubscription, Subscriptions, Statuses, Running
    <3> QED
      BY <1>8, <1>shop, <3>1 DEF Insert, shop
  <2>2. period' \in [Items -> Periods]
    <3>1. \A s \in {"pending", "none", "elsewhere"} : Period(s) \in Periods
      BY DEF Period, Periods
    <3> QED
      BY <1>8, <1>shop, <2>0, <3>1 DEF Insert, shop
  <2>3. (sub'.ip => sub'.order # 0) /\ (sub'.state = "ordered" => sub'.order # 0)
    BY <1>8, <1>shop, <2>0 DEF Insert, Period, NoSubscription, Subscriptions, shop
  <2>4. Begun' \/ sub' = NoSubscription
    <3>1. First \in Items /\ \A s \in {"pending", "none", "elsewhere"} : Period(s).status = s
      BY DEF Items, Period
    <3>2. CASE run[t].item = First
      BY <1>8, <1>shop, <2>0, <3>1, <3>2 DEF Insert, Begun, shop
    <3>3. CASE run[t].item # First
      BY <1>8, <1>shop, <2>0, <3>1, <3>3 DEF Insert, Begun, shop
    <3> QED
      BY <3>2, <3>3
  <2> QED
    BY <2>1, <2>2, <2>3, <2>4 DEF ShopSound
<1>9. ASSUME NEW t \in Ticks, ReadRefund(t)
      PROVE  ShopSound'
  BY <1>9, <1>shop DEF ReadRefund, RefundUnseen, shop, ShopSound, Begun
<1>10. ASSUME NEW t \in Ticks, Revoke(t)
      PROVE  ShopSound'
  <2>0. Begun
    BY <1>10
       DEF Revoke, Inv, RunsSound, RunKnows, DeedsSound, DeedKnows, WithItem, AfterStart,
       Processes, Runs, Deeds
  <2>1. sub' \in Subscriptions
    BY <1>10, <1>shop, <2>0 DEF Revoke, Subscriptions, Statuses, Running, shop
  <2>2. period' \in [Items -> Periods]
    BY <1>10, <1>shop, <2>0 DEF Revoke, Periods, Items, shop
  <2>3. (sub'.ip => sub'.order # 0) /\ (sub'.state = "ordered" => sub'.order # 0)
    BY <1>10, <1>shop, <2>0 DEF Revoke, Subscriptions, shop
  <2>4. Begun' \/ sub' = NoSubscription
    BY <1>10, <1>shop, <2>0 DEF Revoke, Begun, shop, NoSubscription, Running
  <2> QED
    BY <2>1, <2>2, <2>3, <2>4 DEF ShopSound
<1>11. ASSUME NEW t \in Ticks, Stop(t)
      PROVE  ShopSound'
  <2>1. Begun
    BY <1>11 DEF Stop, End, Inv, RunsSound, RunKnows, AfterStart, Processes
  <2> QED
    BY <1>11, <1>shop, <2>1
       DEF Stop, End, ShopSound, Begun, Subscriptions, Statuses, Running
<1>12. ASSUME NEW t \in Ticks, Handled(t)
      PROVE  ShopSound'
  <2>0. run[t].item \in Items
    BY <1>12
       DEF Handled, Inv, RunsSound, RunKnows, DeedsSound, DeedKnows, WithItem, AfterStart,
       Processes, Runs, Deeds
  <2>1. sub' \in Subscriptions
    BY <1>12, <1>shop, <2>0 DEF Handled, Subscriptions, Statuses, Running, shop
  <2>2. period' \in [Items -> Periods]
    BY <1>12, <1>shop, <2>0 DEF Handled, Periods, Items, shop
  <2>3. (sub'.ip => sub'.order # 0) /\ (sub'.state = "ordered" => sub'.order # 0)
    BY <1>12, <1>shop, <2>0 DEF Handled, Subscriptions, shop
  <2>4. Begun' \/ sub' = NoSubscription
    BY <1>12, <1>shop, <2>0 DEF Handled, Begun, shop, NoSubscription, Running
  <2> QED
    BY <2>1, <2>2, <2>3, <2>4 DEF ShopSound
<1>13. ASSUME NEW t \in Ticks, Expire(t)
      PROVE  ShopSound'
  <2>1. sub' \in Subscriptions
    BY <1>13, <1>shop DEF Expire, Expirable, Subscriptions, Statuses, Running, shop
  <2>2. period' \in [Items -> Periods]
    BY <1>13, <1>shop DEF Expire, Expirable, Periods, Items, shop
  <2>3. (sub'.ip => sub'.order # 0) /\ (sub'.state = "ordered" => sub'.order # 0)
    BY <1>13, <1>shop DEF Expire, Expirable, Subscriptions, shop
  <2>4. Begun' \/ sub' = NoSubscription
    BY <1>13, <1>shop DEF Expire, Expirable, Begun, shop, NoSubscription, Running
  <2> QED
    BY <2>1, <2>2, <2>3, <2>4 DEF ShopSound
<1>14. ASSUME NEW t \in Ticks, CancelUnapplied(t)
      PROVE  ShopSound'
  BY <1>14, <1>shop DEF CancelUnapplied, End, Items, ShopSound, Begun, Periods
<1>15. ASSUME NEW t \in Ticks, NEW i \in Items, ReadItem(t, i)
      PROVE  ShopSound'
  BY <1>15, <1>shop DEF ReadItem, shop, ShopSound, Begun
<1>16. ASSUME NEW t \in Ticks, NEW i \in Renewals, CancelRenewal(t, i)
      PROVE  ShopSound'
  BY <1>16, <1>shop
     DEF CancelRenewal, RenewalRefunded, End, Items, ShopSound, Begun, Periods
<1>17. ASSUME NEW t \in Ticks, ClaimOrder(t)
      PROVE  ShopSound'
  <2>1. sub' \in Subscriptions
    BY <1>17, <1>shop DEF ClaimOrder, MayOrder, Subscriptions, Statuses, Running, shop
  <2>2. period' \in [Items -> Periods]
    BY <1>17, <1>shop DEF ClaimOrder, MayOrder, Periods, Items, shop
  <2>3. (sub'.ip => sub'.order # 0) /\ (sub'.state = "ordered" => sub'.order # 0)
    BY <1>17, <1>shop DEF ClaimOrder, MayOrder, Subscriptions, shop
  <2>4. Begun' \/ sub' = NoSubscription
    BY <1>17, <1>shop DEF ClaimOrder, MayOrder, Begun, shop, NoSubscription, Running
  <2> QED
    BY <2>1, <2>2, <2>3, <2>4 DEF ShopSound
<1>18. ASSUME NEW t \in Ticks, PostOrder(t)
      PROVE  ShopSound'
  BY <1>18, <1>shop DEF PostOrder, Bought, shop, ShopSound, Begun
<1>19. ASSUME NEW t \in Ticks, OrderRefused(t)
      PROVE  ShopSound'
  <2>1. sub' \in Subscriptions
    BY <1>19, <1>shop DEF OrderRefused, Subscriptions, Statuses, Running, shop
  <2>2. period' \in [Items -> Periods]
    BY <1>19, <1>shop DEF OrderRefused, Periods, Items, shop
  <2>3. (sub'.ip => sub'.order # 0) /\ (sub'.state = "ordered" => sub'.order # 0)
    BY <1>19, <1>shop DEF OrderRefused, Subscriptions, shop
  <2>4. Begun' \/ sub' = NoSubscription
    BY <1>19, <1>shop DEF OrderRefused, Begun, shop, NoSubscription, Running
  <2> QED
    BY <2>1, <2>2, <2>3, <2>4 DEF ShopSound
<1>20. ASSUME NEW t \in Ticks, OrderLost(t)
      PROVE  ShopSound'
  <2>1. sub' \in Subscriptions
    BY <1>20, <1>shop DEF OrderLost, Subscriptions, Statuses, Running, shop
  <2>2. period' \in [Items -> Periods]
    BY <1>20, <1>shop DEF OrderLost, Periods, Items, shop
  <2>3. (sub'.ip => sub'.order # 0) /\ (sub'.state = "ordered" => sub'.order # 0)
    BY <1>20, <1>shop DEF OrderLost, Subscriptions, shop
  <2>4. Begun' \/ sub' = NoSubscription
    BY <1>20, <1>shop DEF OrderLost, Begun, shop, NoSubscription, Running
  <2> QED
    BY <2>1, <2>2, <2>3, <2>4 DEF ShopSound
<1>21. ASSUME NEW t \in Ticks, Ordered(t)
      PROVE  ShopSound'
  <2>0. Begun /\ run[t].order \in Nat \ {0}
    BY <1>21
       DEF Ordered, FirstTerm, Inv, RunsSound, RunKnows, DeedsSound, DeedKnows, WithItem,
       AfterStart, Processes, Runs, Deeds
  <2>1. sub' \in Subscriptions
    BY <1>21, <1>shop, <2>0 DEF Ordered, FirstTerm, Subscriptions, Statuses, Running, shop
  <2>2. period' \in [Items -> Periods]
    <3>1. period' = period \/ period' = [period EXCEPT ![First] = FirstTerm(1)]
      BY <1>21 DEF Ordered
    <3>2. First \in Items /\ FirstTerm(1) \in Periods
      BY <1>shop DEF FirstTerm, Items, Periods
    <3> QED
      BY <1>shop, <3>1, <3>2
  <2>3. (sub'.ip => sub'.order # 0) /\ (sub'.state = "ordered" => sub'.order # 0)
    BY <1>21, <1>shop, <2>0 DEF Ordered, FirstTerm, Subscriptions, shop
  <2>4. Begun' \/ sub' = NoSubscription
    <3>1. period' = period \/ period' = [period EXCEPT ![First] = FirstTerm(1)]
      BY <1>21 DEF Ordered
    <3>2. First \in Items /\ FirstTerm(1).status # "absent"
      BY <1>shop DEF FirstTerm, Items, Periods
    <3> QED
      BY <1>shop, <2>0, <3>1, <3>2 DEF Begun
  <2> QED
    BY <2>1, <2>2, <2>3, <2>4 DEF ShopSound
<1>22. ASSUME NEW t \in Ticks, PollOrder(t)
      PROVE  ShopSound'
  BY <1>22, <1>shop DEF PollOrder, shop, ShopSound, Begun
<1>23. ASSUME NEW t \in Ticks, Assign(t)
      PROVE  ShopSound'
  <2>0. Begun /\ sub.order # 0
    BY <1>23
       DEF Assign, Inv, RunsSound, RunKnows, DeedsSound, DeedKnows, WithItem, AfterStart,
       Processes, Runs, Deeds
  <2>1. sub' \in Subscriptions
    BY <1>23, <1>shop, <2>0 DEF Assign, Subscriptions, Statuses, Running, shop
  <2>2. period' \in [Items -> Periods]
    BY <1>23, <1>shop, <2>0 DEF Assign, Periods, Items, shop
  <2>3. (sub'.ip => sub'.order # 0) /\ (sub'.state = "ordered" => sub'.order # 0)
    BY <1>23, <1>shop, <2>0 DEF Assign, Subscriptions, shop
  <2>4. Begun' \/ sub' = NoSubscription
    BY <1>23, <1>shop, <2>0 DEF Assign, Begun, shop, NoSubscription, Running
  <2> QED
    BY <2>1, <2>2, <2>3, <2>4 DEF ShopSound
<1>24. ASSUME NEW t \in Ticks, ReadStale(t)
      PROVE  ShopSound'
  BY <1>24, <1>shop DEF ReadStale, StalePosting, shop, ShopSound, Begun
<1>25. ASSUME NEW t \in Ticks, MarkUnknown(t)
      PROVE  ShopSound'
  <2>1. Begun
    BY <1>25 DEF MarkUnknown, End, Inv, RunsSound, RunKnows, AfterStart, Processes
  <2> QED
    BY <1>25, <1>shop, <2>1
       DEF MarkUnknown, End, ShopSound, Begun, Subscriptions, Statuses, Running
<1>26. ASSUME NEW t \in Ticks, ReadPeriods(t)
      PROVE  ShopSound'
  BY <1>26, <1>shop DEF ReadPeriods, Extendable, Pending, shop, ShopSound, Begun
<1>27. ASSUME NEW t \in Ticks, Prolong(t)
      PROVE  ShopSound'
  BY <1>27, <1>shop DEF Prolong, shop, ShopSound, Begun
<1>28. ASSUME NEW t \in Ticks, Refused(t)
      PROVE  ShopSound'
  <2>1. run[t].item \in Items
    BY <1>28 DEF Refused, End, Inv, RunsSound, RunKnows, WithItem, Processes
  <2> QED
    BY <1>28, <1>shop, <2>1 DEF Refused, End, ShopSound, Begun, Periods, Items
<1>29. ASSUME NEW t \in Ticks, Silent(t)
      PROVE  ShopSound'
  <2>0. run[t].item \in Items
    BY <1>29
       DEF Silent, Inv, RunsSound, RunKnows, DeedsSound, DeedKnows, WithItem, AfterStart,
       Processes, Runs, Deeds
  <2>1. sub' \in Subscriptions
    BY <1>29, <1>shop, <2>0 DEF Silent, Subscriptions, Statuses, Running, shop
  <2>2. period' \in [Items -> Periods]
    BY <1>29, <1>shop, <2>0 DEF Silent, Periods, Items, shop
  <2>3. (sub'.ip => sub'.order # 0) /\ (sub'.state = "ordered" => sub'.order # 0)
    BY <1>29, <1>shop, <2>0 DEF Silent, Subscriptions, shop
  <2>4. Begun' \/ sub' = NoSubscription
    BY <1>29, <1>shop, <2>0 DEF Silent, Begun, shop, NoSubscription, Running
  <2> QED
    BY <2>1, <2>2, <2>3, <2>4 DEF ShopSound
<1>30. ASSUME NEW t \in Ticks, Prolonged(t)
      PROVE  ShopSound'
  <2>1. run[t].item \in Items
    BY <1>30 DEF Prolonged, End, Inv, RunsSound, RunKnows, WithItem, Processes
  <2> QED
    BY <1>30, <1>shop, <2>1 DEF Prolonged, End, ShopSound, Begun, Periods, Items
<1>31. ASSUME NEW t \in Ticks, RefreshExpiry(t)
      PROVE  ShopSound'
  <2>0. run[t].pc \in {"reread", "synced"} => Begun
    BY <1>31
       DEF RefreshExpiry, SyncDue, Dated, Inv, RunsSound, RunKnows, DeedsSound, DeedKnows,
       WithItem, AfterStart, Processes, Runs, Deeds
  <2>1. sub' \in Subscriptions
    BY <1>31, <1>shop, <2>0
       DEF RefreshExpiry, SyncDue, Dated, Subscriptions, Statuses, Running, shop
  <2>2. period' \in [Items -> Periods]
    BY <1>31, <1>shop, <2>0 DEF RefreshExpiry, SyncDue, Dated, Periods, Items, shop
  <2>3. (sub'.ip => sub'.order # 0) /\ (sub'.state = "ordered" => sub'.order # 0)
    BY <1>31, <1>shop, <2>0 DEF RefreshExpiry, SyncDue, Dated, Subscriptions, shop
  <2>4. Begun' \/ sub' = NoSubscription
    BY <1>31, <1>shop, <2>0
       DEF RefreshExpiry, SyncDue, Dated, Begun, shop, NoSubscription, Running
  <2> QED
    BY <2>1, <2>2, <2>3, <2>4 DEF ShopSound
<1>32. ASSUME NEW t \in Ticks, NEW i \in Items, ClaimPeriod(t, i)
      PROVE  ShopSound'
  BY <1>32, <1>shop DEF ClaimPeriod, End, Items, ShopSound, Begun, Periods
<1>33. ASSUME NEW t \in Ticks, NEW i \in Items, MarkExtending(t, i)
      PROVE  ShopSound'
  <2>1. sub' \in Subscriptions
    BY <1>33, <1>shop
       DEF MarkExtending, Subscriptions, Statuses, Running, shop
  <2>2. period' \in [Items -> Periods]
    BY <1>33, <1>shop DEF MarkExtending, Periods, Items, shop
  <2>3. (sub'.ip => sub'.order # 0) /\ (sub'.state = "ordered" => sub'.order # 0)
    BY <1>33, <1>shop DEF MarkExtending, Subscriptions, shop
  <2>4. Begun' \/ sub' = NoSubscription
    BY <1>33, <1>shop
       DEF MarkExtending, Begun, shop, NoSubscription, Running
  <2> QED
    BY <2>1, <2>2, <2>3, <2>4 DEF ShopSound
<1>33a. ASSUME NEW t \in Ticks, ReadExtending(t)
      PROVE  ShopSound'
  BY <1>33a, <1>shop DEF ReadExtending, StaleExtending, shop, ShopSound, Begun
<1>34. ASSUME NEW r \in Reports, Report(r)
      PROVE  ShopSound'
  <2>1. sub' \in Subscriptions
    BY <1>34, <1>shop DEF Report, Subscriptions, Statuses, Running, shop
  <2>2. period' \in [Items -> Periods]
    BY <1>34, <1>shop DEF Report, Periods, Items, shop
  <2>3. (sub'.ip => sub'.order # 0) /\ (sub'.state = "ordered" => sub'.order # 0)
    BY <1>34, <1>shop DEF Report, Subscriptions, shop
  <2>4. Begun' \/ sub' = NoSubscription
    BY <1>34, <1>shop DEF Report, Begun, shop, NoSubscription, Running
  <2> QED
    BY <2>1, <2>2, <2>3, <2>4 DEF ShopSound
<1>35. ASSUME NEW a \in Admins, BeginSuspend(a)
      PROVE  ShopSound'
  BY <1>35, <1>shop DEF BeginSuspend, Begin, Act, Upset, shop, ShopSound, Begun
<1>36. ASSUME NEW a \in Admins, BeginResume(a)
      PROVE  ShopSound'
  BY <1>36, <1>shop DEF BeginResume, Begin, Act, Upset, shop, ShopSound, Begun
<1>37. ASSUME NEW a \in Admins, BeginReplace(a)
      PROVE  ShopSound'
  BY <1>37, <1>shop DEF BeginReplace, Begin, Act, Upset, Bought, shop, ShopSound, Begun
<1>38. ASSUME NEW a \in Admins, BeginSetOrder(a)
      PROVE  ShopSound'
  BY <1>38, <1>shop DEF BeginSetOrder, Begin, Act, Upset, Unclear, shop, ShopSound, Begun
<1>39. ASSUME NEW a \in Admins, BeginReorder(a)
      PROVE  ShopSound'
  BY <1>39, <1>shop DEF BeginReorder, Begin, Act, Upset, Unclear, shop, ShopSound, Begun
<1>40. ASSUME NEW a \in Admins, Suspend(a)
      PROVE  ShopSound'
  <2>1. Begun
    BY <1>40 DEF Suspend, End, End, Inv, DeedsSound, DeedKnows
  <2> QED
    BY <1>40, <1>shop, <2>1
       DEF Suspend, End, End, ShopSound, Begun, Subscriptions, Statuses, Running
<1>41. ASSUME NEW a \in Admins, Resume(a)
      PROVE  ShopSound'
  <2>1. Begun /\ admin[a].saw \in Statuses
    BY <1>41 DEF Resume, End, Restart, End, Inv, DeedsSound, DeedKnows
  <2> QED
    BY <1>41, <1>shop, <2>1
       DEF Resume, End, Restart, End, ShopSound, Begun, Subscriptions, Statuses, Running
<1>42. ASSUME NEW a \in Admins, Replace(a)
      PROVE  ShopSound'
  <2>0. Begun /\ admin[a].order \in Nat \ {0}
    BY <1>42
       DEF Replace, End, Restart, FirstTerm, Counted, Inv, RunsSound, RunKnows, DeedsSound,
       DeedKnows, WithItem, AfterStart, Processes, Runs, Deeds
  <2>1. sub' \in Subscriptions
    BY <1>42, <1>shop, <2>0
       DEF Replace, End, Restart, FirstTerm, Counted, Subscriptions, Statuses, Running, shop
  <2>2. period' \in [Items -> Periods]
    <3>1. First \in Items /\ period[First] \in Periods /\ period[First].units \in Nat
      BY <1>shop DEF Items, Periods
    <3>2. Counted \in Periods /\ Counted.units \in Nat
      BY <3>1 DEF Counted, Periods
    <3>3. FirstTerm(Counted.units) \in Periods
      BY <3>1, <3>2 DEF FirstTerm, Periods
    <3> QED
      BY <1>42, <1>shop, <3>2, <3>3 DEF Replace
  <2>3. (sub'.ip => sub'.order # 0) /\ (sub'.state = "ordered" => sub'.order # 0)
    BY <1>42, <1>shop, <2>0
       DEF Replace, End, Restart, FirstTerm, Counted, Subscriptions, shop
  <2>4. Begun' \/ sub' = NoSubscription
    BY <1>42, <1>shop, <2>0
       DEF Replace, End, Restart, FirstTerm, Counted, Begun, shop, NoSubscription, Running
  <2> QED
    BY <2>1, <2>2, <2>3, <2>4 DEF ShopSound
<1>43. ASSUME NEW a \in Admins, SetOrder(a)
      PROVE  ShopSound'
  <2>0. Begun /\ admin[a].order \in Nat \ {0}
    BY <1>43
       DEF SetOrder, End, FirstTerm, Counted, Inv, RunsSound, RunKnows, DeedsSound,
       DeedKnows, WithItem, AfterStart, Processes, Runs, Deeds
  <2>1. sub' \in Subscriptions
    BY <1>43, <1>shop, <2>0
       DEF SetOrder, End, FirstTerm, Counted, Subscriptions, Statuses, Running, shop
  <2>2. period' \in [Items -> Periods]
    <3>1. First \in Items /\ period[First] \in Periods /\ period[First].units \in Nat
      BY <1>shop DEF Items, Periods
    <3>2. Counted \in Periods /\ Counted.units \in Nat
      BY <3>1 DEF Counted, Periods
    <3>3. FirstTerm(Counted.units) \in Periods
      BY <3>1, <3>2 DEF FirstTerm, Periods
    <3> QED
      BY <1>43, <1>shop, <3>2, <3>3 DEF SetOrder
  <2>3. (sub'.ip => sub'.order # 0) /\ (sub'.state = "ordered" => sub'.order # 0)
    BY <1>43, <1>shop, <2>0 DEF SetOrder, End, FirstTerm, Counted, Subscriptions, shop
  <2>4. Begun' \/ sub' = NoSubscription
    BY <1>43, <1>shop, <2>0
       DEF SetOrder, End, FirstTerm, Counted, Begun, shop, NoSubscription, Running
  <2> QED
    BY <2>1, <2>2, <2>3, <2>4 DEF ShopSound
<1>44. ASSUME NEW a \in Admins, Reorder(a)
      PROVE  ShopSound'
  <2>1. Begun
    BY <1>44 DEF Reorder, End, End, Inv, DeedsSound, DeedKnows
  <2> QED
    BY <1>44, <1>shop, <2>1
       DEF Reorder, End, End, ShopSound, Begun, Subscriptions, Statuses, Running
<1>45. ASSUME NEW a \in Admins, NEW name \in {"done", "retry"}, PeriodByHand(a, name)
      PROVE  ShopSound'
  <2>1. admin[a].item \in Items
    BY <1>45 DEF PeriodByHand, End, End, Inv, DeedsSound, DeedKnows
  <2> QED
    BY <1>45, <1>shop, <2>1 DEF PeriodByHand, End, End, ShopSound, Begun, Periods, Items
<1>46. ASSUME NEW a \in Admins, NEW name \in {"done", "retry"}, NEW i \in Items, BeginPeriod(a, i, name)
      PROVE  ShopSound'
  BY <1>46, <1>shop DEF BeginPeriod, Begin, Act, Upset, shop, ShopSound, Begun
<1>47. CASE UNCHANGED vars
  BY <1>47, <1>shop DEF vars, shop, ShopSound, Begun
<1> QED
  BY <1>1, <1>2, <1>3, <1>4, <1>5, <1>6, <1>7, <1>8, <1>9, <1>10, <1>11, <1>12, <1>13,
     <1>14, <1>15, <1>16, <1>17, <1>18, <1>19, <1>20, <1>21, <1>22, <1>23, <1>24, <1>25,
     <1>26, <1>27, <1>28, <1>29, <1>30, <1>31, <1>32, <1>33, <1>33a, <1>34, <1>35, <1>36, <1>37,
     <1>38, <1>39, <1>40, <1>41, <1>42, <1>43, <1>44, <1>45, <1>46, <1>47
     DEF Next, Both, TickSteps, OrderSteps, ExtendSteps, AdminSteps, Processes

\* The orders, the counts and the permissions stay typed.
LEMMA WorldStep ==
  ASSUME Inv, [Next]_vars
  PROVE  WorldSound'
<1> USE HostedAssumption
<1> USE DEF Items
<1>world. WorldSound
  BY DEF Inv
<1>1. ASSUME NEW i \in Items, Pay(i)
      PROVE  WorldSound'
  BY <1>1, <1>world DEF Pay, world, provider, permits, WorldSound
<1>2. ASSUME NEW i \in Items, Refund(i)
      PROVE  WorldSound'
  BY <1>2, <1>world DEF Refund, world, provider, permits, WorldSound
<1>3. ASSUME NEW p \in Processes, ReadTested(p)
      PROVE  WorldSound'
  BY <1>3, <1>world DEF ReadTested, Testable, world, provider, permits, WorldSound
<1>4. ASSUME NEW p \in Processes, Judge(p)
      PROVE  WorldSound'
  BY <1>4, <1>world DEF Judge, Leave, Testable, world, provider, permits, WorldSound
<1>5. ASSUME NEW p \in Processes, PassOver(p)
      PROVE  WorldSound'
  BY <1>5, <1>world DEF PassOver, Busy, world, provider, permits, WorldSound
<1>6. ASSUME NEW p \in Processes, Crash(p)
      PROVE  WorldSound'
  BY <1>6, <1>world DEF Crash, Upset, world, provider, permits, WorldSound
<1>7. ASSUME NEW t \in Ticks, Start(t)
      PROVE  WorldSound'
  BY <1>7, <1>world DEF Start, world, provider, permits, WorldSound
<1>8. ASSUME NEW t \in Ticks, Insert(t)
      PROVE  WorldSound'
  BY <1>8, <1>world DEF Insert, Period, NoSubscription, world, provider, permits, WorldSound
<1>9. ASSUME NEW t \in Ticks, ReadRefund(t)
      PROVE  WorldSound'
  BY <1>9, <1>world DEF ReadRefund, RefundUnseen, world, provider, permits, WorldSound
<1>10. ASSUME NEW t \in Ticks, Revoke(t)
      PROVE  WorldSound'
  BY <1>10, <1>world DEF Revoke, world, provider, permits, WorldSound
<1>11. ASSUME NEW t \in Ticks, Stop(t)
      PROVE  WorldSound'
  BY <1>11, <1>world DEF Stop, world, provider, permits, WorldSound
<1>12. ASSUME NEW t \in Ticks, Handled(t)
      PROVE  WorldSound'
  BY <1>12, <1>world DEF Handled, world, provider, permits, WorldSound
<1>13. ASSUME NEW t \in Ticks, Expire(t)
      PROVE  WorldSound'
  BY <1>13, <1>world DEF Expire, Expirable, world, provider, permits, WorldSound
<1>14. ASSUME NEW t \in Ticks, CancelUnapplied(t)
      PROVE  WorldSound'
  BY <1>14, <1>world DEF CancelUnapplied, world, provider, permits, WorldSound
<1>15. ASSUME NEW t \in Ticks, NEW i \in Items, ReadItem(t, i)
      PROVE  WorldSound'
  BY <1>15, <1>world DEF ReadItem, world, provider, permits, WorldSound
<1>16. ASSUME NEW t \in Ticks, NEW i \in Renewals, CancelRenewal(t, i)
      PROVE  WorldSound'
  BY <1>16, <1>world
     DEF CancelRenewal, RenewalRefunded, world, provider, permits, WorldSound
<1>17. ASSUME NEW t \in Ticks, ClaimOrder(t)
      PROVE  WorldSound'
  BY <1>17, <1>world DEF ClaimOrder, MayOrder, world, provider, permits, WorldSound
<1>18. ASSUME NEW t \in Ticks, PostOrder(t)
      PROVE  WorldSound'
  BY <1>18, <1>world DEF PostOrder, Bought, world, provider, permits, WorldSound
<1>19. ASSUME NEW t \in Ticks, OrderRefused(t)
      PROVE  WorldSound'
  BY <1>19, <1>world DEF OrderRefused, world, provider, permits, WorldSound
<1>20. ASSUME NEW t \in Ticks, OrderLost(t)
      PROVE  WorldSound'
  BY <1>20, <1>world DEF OrderLost, world, provider, permits, WorldSound
<1>21. ASSUME NEW t \in Ticks, Ordered(t)
      PROVE  WorldSound'
  <2>1. period[First].units \in Nat
    BY DEF Inv, ShopSound, Periods
  <2>2. miscounted' \in [Items -> Nat]
    BY <1>21, <1>world, <2>1 DEF Ordered, WorldSound
  <2> QED
    BY <1>21, <1>world, <2>2 DEF Ordered, world, provider, WorldSound
<1>22. ASSUME NEW t \in Ticks, PollOrder(t)
      PROVE  WorldSound'
  BY <1>22, <1>world DEF PollOrder, world, provider, permits, WorldSound
<1>23. ASSUME NEW t \in Ticks, Assign(t)
      PROVE  WorldSound'
  BY <1>23, <1>world DEF Assign, world, provider, permits, WorldSound
<1>24. ASSUME NEW t \in Ticks, ReadStale(t)
      PROVE  WorldSound'
  BY <1>24, <1>world DEF ReadStale, StalePosting, world, provider, permits, WorldSound
<1>25. ASSUME NEW t \in Ticks, MarkUnknown(t)
      PROVE  WorldSound'
  BY <1>25, <1>world DEF MarkUnknown, world, provider, permits, WorldSound
<1>26. ASSUME NEW t \in Ticks, ReadPeriods(t)
      PROVE  WorldSound'
  BY <1>26, <1>world
     DEF ReadPeriods, Extendable, Pending, world, provider, permits, WorldSound
<1>27. ASSUME NEW t \in Ticks, Prolong(t)
      PROVE  WorldSound'
  <2>1. run[t].item \in Items
    BY <1>27 DEF Prolong, Inv, RunsSound, RunKnows, WithItem, Processes
  <2>2. extended' \in [Items -> Nat]
    BY <1>27, <1>world, <2>1 DEF Prolong, provider, WorldSound
  <2> QED
    BY <1>27, <1>world, <2>2 DEF Prolong, world, provider, permits, WorldSound
<1>28. ASSUME NEW t \in Ticks, Refused(t)
      PROVE  WorldSound'
  BY <1>28, <1>world DEF Refused, world, provider, permits, WorldSound
<1>29. ASSUME NEW t \in Ticks, Silent(t)
      PROVE  WorldSound'
  BY <1>29, <1>world DEF Silent, world, provider, permits, WorldSound
<1>30. ASSUME NEW t \in Ticks, Prolonged(t)
      PROVE  WorldSound'
  <2>1. run[t].item \in Items
    BY <1>30 DEF Prolonged, Inv, RunsSound, RunKnows, WithItem, Processes
  <2>2. miscounted' \in [Items -> Nat]
    BY <1>30, <1>world, <2>1 DEF Prolonged, Counts, WorldSound
  <2> QED
    BY <1>30, <1>world, <2>2 DEF Prolonged, world, provider, WorldSound
<1>31. ASSUME NEW t \in Ticks, RefreshExpiry(t)
      PROVE  WorldSound'
  BY <1>31, <1>world DEF RefreshExpiry, SyncDue, Dated, world, provider, permits, WorldSound
<1>32. ASSUME NEW t \in Ticks, NEW i \in Items, ClaimPeriod(t, i)
      PROVE  WorldSound'
  BY <1>32, <1>world DEF ClaimPeriod, world, provider, permits, WorldSound
<1>33. ASSUME NEW t \in Ticks, NEW i \in Items, MarkExtending(t, i)
      PROVE  WorldSound'
  BY <1>33, <1>world DEF MarkExtending, world, provider, permits, WorldSound
<1>33a. ASSUME NEW t \in Ticks, ReadExtending(t)
      PROVE  WorldSound'
  BY <1>33a, <1>world DEF ReadExtending, StaleExtending, world, provider, permits, WorldSound
<1>34. ASSUME NEW r \in Reports, Report(r)
      PROVE  WorldSound'
  BY <1>34, <1>world DEF Report, world, provider, permits, WorldSound
<1>35. ASSUME NEW a \in Admins, BeginSuspend(a)
      PROVE  WorldSound'
  BY <1>35, <1>world
     DEF BeginSuspend, Begin, Act, Upset, world, provider, permits, WorldSound
<1>36. ASSUME NEW a \in Admins, BeginResume(a)
      PROVE  WorldSound'
  BY <1>36, <1>world
     DEF BeginResume, Begin, Act, Upset, world, provider, permits, WorldSound
<1>37. ASSUME NEW a \in Admins, BeginReplace(a)
      PROVE  WorldSound'
  BY <1>37, <1>world
     DEF BeginReplace, Begin, Act, Upset, Bought, world, provider, permits, WorldSound
<1>38. ASSUME NEW a \in Admins, BeginSetOrder(a)
      PROVE  WorldSound'
  BY <1>38, <1>world
     DEF BeginSetOrder, Begin, Act, Upset, Unclear, world, provider, permits, WorldSound
<1>39. ASSUME NEW a \in Admins, BeginReorder(a)
      PROVE  WorldSound'
  BY <1>39, <1>world
     DEF BeginReorder, Begin, Act, Upset, Unclear, world, provider, permits, WorldSound
<1>40. ASSUME NEW a \in Admins, Suspend(a)
      PROVE  WorldSound'
  BY <1>40, <1>world DEF Suspend, End, world, provider, permits, WorldSound
<1>41. ASSUME NEW a \in Admins, Resume(a)
      PROVE  WorldSound'
  BY <1>41, <1>world DEF Resume, End, Restart, world, provider, permits, WorldSound
<1>42. ASSUME NEW a \in Admins, Replace(a)
      PROVE  WorldSound'
  BY <1>42, <1>world
     DEF Replace, End, Restart, FirstTerm, Counted, world, provider, permits, WorldSound
<1>43. ASSUME NEW a \in Admins, SetOrder(a)
      PROVE  WorldSound'
  BY <1>43, <1>world
     DEF SetOrder, End, FirstTerm, Counted, world, provider, permits, WorldSound
<1>44. ASSUME NEW a \in Admins, Reorder(a)
      PROVE  WorldSound'
  BY <1>44, <1>world DEF Reorder, End, world, provider, permits, WorldSound
<1>45. ASSUME NEW a \in Admins, NEW name \in {"done", "retry"}, PeriodByHand(a, name)
      PROVE  WorldSound'
  <2>1. admin[a].item \in Items
    BY <1>45 DEF PeriodByHand, End, Inv, DeedsSound, DeedKnows
  <2>2. again' \in [Items -> Nat]
    BY <1>45, <1>world, <2>1 DEF PeriodByHand, WorldSound
  <2> QED
    BY <1>45, <1>world, <2>2 DEF PeriodByHand, End, world, provider, permits, WorldSound
<1>46. ASSUME NEW a \in Admins, NEW name \in {"done", "retry"}, NEW i \in Items, BeginPeriod(a, i, name)
      PROVE  WorldSound'
  BY <1>46, <1>world
     DEF BeginPeriod, Begin, Act, Upset, world, provider, permits, WorldSound
<1>47. CASE UNCHANGED vars
  BY <1>47, <1>world DEF vars, world, provider, permits, WorldSound
<1> QED
  BY <1>1, <1>2, <1>3, <1>4, <1>5, <1>6, <1>7, <1>8, <1>9, <1>10, <1>11, <1>12, <1>13,
     <1>14, <1>15, <1>16, <1>17, <1>18, <1>19, <1>20, <1>21, <1>22, <1>23, <1>24, <1>25,
     <1>26, <1>27, <1>28, <1>29, <1>30, <1>31, <1>32, <1>33, <1>33a, <1>34, <1>35, <1>36, <1>37,
     <1>38, <1>39, <1>40, <1>41, <1>42, <1>43, <1>44, <1>45, <1>46, <1>47
     DEF Next, Both, TickSteps, OrderSteps, ExtendSteps, AdminSteps, Processes

\* What was begun stays begun, and an order is followed by an order at most.
LEMMA StartedStays ==
  ASSUME Inv, [Next]_vars
  PROVE  (Begun => Begun') /\ (sub.order # 0 => sub'.order # 0)
<1> USE HostedAssumption
<1> USE DEF Go, Items
<1>shop. /\ sub \in Subscriptions /\ period \in [Items -> Periods]
         /\ sub.ip => sub.order # 0
         /\ sub.state = "ordered" => sub.order # 0
         /\ sub.status # "absent" \/ sub.state # "none" => Begun
         /\ ~ Begun => sub = NoSubscription
         /\ sub.order # 0 => Begun
  BY DEF Inv, ShopSound, NoSubscription
<1>1. ASSUME NEW i \in Items, Pay(i)
      PROVE  (Begun => Begun') /\ (sub.order # 0 => sub'.order # 0)
  BY <1>1, <1>shop DEF Pay, shop, Begun, Subscriptions, Periods
<1>2. ASSUME NEW i \in Items, Refund(i)
      PROVE  (Begun => Begun') /\ (sub.order # 0 => sub'.order # 0)
  BY <1>2, <1>shop DEF Refund, shop, Begun, Subscriptions, Periods
<1>3. ASSUME NEW p \in Processes, ReadTested(p)
      PROVE  (Begun => Begun') /\ (sub.order # 0 => sub'.order # 0)
  BY <1>3, <1>shop DEF ReadTested, Testable, shop, Begun, Subscriptions, Periods
<1>4. ASSUME NEW p \in Processes, Judge(p)
      PROVE  (Begun => Begun') /\ (sub.order # 0 => sub'.order # 0)
  BY <1>4, <1>shop DEF Judge, Leave, Testable, shop, Begun, Subscriptions, Periods
<1>5. ASSUME NEW p \in Processes, PassOver(p)
      PROVE  (Begun => Begun') /\ (sub.order # 0 => sub'.order # 0)
  BY <1>5, <1>shop DEF PassOver, Busy, shop, Begun, Subscriptions, Periods
<1>6. ASSUME NEW p \in Processes, Crash(p)
      PROVE  (Begun => Begun') /\ (sub.order # 0 => sub'.order # 0)
  BY <1>6, <1>shop DEF Crash, Upset, shop, Begun, Subscriptions, Periods
<1>7. ASSUME NEW t \in Ticks, Start(t)
      PROVE  (Begun => Begun') /\ (sub.order # 0 => sub'.order # 0)
  BY <1>7, <1>shop DEF Start, shop, Begun, Subscriptions, Periods
<1>8. ASSUME NEW t \in Ticks, Insert(t)
      PROVE  (Begun => Begun') /\ (sub.order # 0 => sub'.order # 0)
  <2>1. run[t].item \in Items
    BY <1>8 DEF Insert, Inv, RunsSound, RunKnows, WithItem, Processes
  <2>2. \A s \in {"pending", "none", "elsewhere"} : Period(s).status # "absent"
    BY DEF Period
  <2>3. Begun => Begun'
    BY <1>8, <1>shop, <2>1, <2>2 DEF Insert, Begun, shop
  <2>4. Begun => sub'.order = sub.order
    BY <1>8, <1>shop, <2>1 DEF Insert, Begun, shop
  <2> QED
    BY <1>shop, <2>3, <2>4
<1>9. ASSUME NEW t \in Ticks, ReadRefund(t)
      PROVE  (Begun => Begun') /\ (sub.order # 0 => sub'.order # 0)
  BY <1>9, <1>shop DEF ReadRefund, RefundUnseen, shop, Begun, Subscriptions, Periods
<1>10. ASSUME NEW t \in Ticks, Revoke(t)
      PROVE  (Begun => Begun') /\ (sub.order # 0 => sub'.order # 0)
  BY <1>10, <1>shop DEF Revoke, shop, Begun, Subscriptions, Periods
<1>11. ASSUME NEW t \in Ticks, Stop(t)
      PROVE  (Begun => Begun') /\ (sub.order # 0 => sub'.order # 0)
  BY <1>11, <1>shop DEF Stop, shop, Begun, Subscriptions, Periods
<1>12. ASSUME NEW t \in Ticks, Handled(t)
      PROVE  (Begun => Begun') /\ (sub.order # 0 => sub'.order # 0)
  BY <1>12, <1>shop DEF Handled, shop, Begun, Subscriptions, Periods
<1>13. ASSUME NEW t \in Ticks, Expire(t)
      PROVE  (Begun => Begun') /\ (sub.order # 0 => sub'.order # 0)
  BY <1>13, <1>shop DEF Expire, Expirable, shop, Begun, Subscriptions, Periods
<1>14. ASSUME NEW t \in Ticks, CancelUnapplied(t)
      PROVE  (Begun => Begun') /\ (sub.order # 0 => sub'.order # 0)
  BY <1>14, <1>shop DEF CancelUnapplied, shop, Begun, Subscriptions, Periods
<1>15. ASSUME NEW t \in Ticks, NEW i \in Items, ReadItem(t, i)
      PROVE  (Begun => Begun') /\ (sub.order # 0 => sub'.order # 0)
  BY <1>15, <1>shop DEF ReadItem, shop, Begun, Subscriptions, Periods
<1>16. ASSUME NEW t \in Ticks, NEW i \in Renewals, CancelRenewal(t, i)
      PROVE  (Begun => Begun') /\ (sub.order # 0 => sub'.order # 0)
  BY <1>16, <1>shop DEF CancelRenewal, RenewalRefunded, shop, Begun, Subscriptions, Periods
<1>17. ASSUME NEW t \in Ticks, ClaimOrder(t)
      PROVE  (Begun => Begun') /\ (sub.order # 0 => sub'.order # 0)
  BY <1>17, <1>shop DEF ClaimOrder, MayOrder, shop, Begun, Subscriptions, Periods
<1>18. ASSUME NEW t \in Ticks, PostOrder(t)
      PROVE  (Begun => Begun') /\ (sub.order # 0 => sub'.order # 0)
  BY <1>18, <1>shop DEF PostOrder, Bought, shop, Begun, Subscriptions, Periods
<1>19. ASSUME NEW t \in Ticks, OrderRefused(t)
      PROVE  (Begun => Begun') /\ (sub.order # 0 => sub'.order # 0)
  BY <1>19, <1>shop DEF OrderRefused, shop, Begun, Subscriptions, Periods
<1>20. ASSUME NEW t \in Ticks, OrderLost(t)
      PROVE  (Begun => Begun') /\ (sub.order # 0 => sub'.order # 0)
  BY <1>20, <1>shop DEF OrderLost, shop, Begun, Subscriptions, Periods
<1>21. ASSUME NEW t \in Ticks, Ordered(t)
      PROVE  (Begun => Begun') /\ (sub.order # 0 => sub'.order # 0)
  <2>1. run[t].order # 0 /\ First \in Items
    BY <1>21
       DEF Ordered, FirstTerm, Inv, RunsSound, RunKnows, DeedsSound, DeedKnows, AfterStart,
       Processes
  <2>2. sub.order # 0 => sub'.order # 0
    BY <1>21, <1>shop, <2>1 DEF Ordered, Subscriptions
  <2>3. Counted.status = period[First].status /\ \A u \in Nat : FirstTerm(u).status \in {"pending", "done"}
    BY <1>shop, <2>1 DEF Counted, FirstTerm, Periods
  <2>4. Counted.units \in Nat
    BY <1>shop, <2>1 DEF Counted, Periods
  <2>5. Begun'
    BY <1>21, <1>shop, <2>1, <2>3, <2>4
       DEF Ordered, End, Begun, Inv, RunsSound, RunKnows, DeedsSound, DeedKnows,
       AfterStart, Processes
  <2> QED
    BY <2>2, <2>5
<1>22. ASSUME NEW t \in Ticks, PollOrder(t)
      PROVE  (Begun => Begun') /\ (sub.order # 0 => sub'.order # 0)
  BY <1>22, <1>shop DEF PollOrder, shop, Begun, Subscriptions, Periods
<1>23. ASSUME NEW t \in Ticks, Assign(t)
      PROVE  (Begun => Begun') /\ (sub.order # 0 => sub'.order # 0)
  BY <1>23, <1>shop DEF Assign, shop, Begun, Subscriptions, Periods
<1>24. ASSUME NEW t \in Ticks, ReadStale(t)
      PROVE  (Begun => Begun') /\ (sub.order # 0 => sub'.order # 0)
  BY <1>24, <1>shop DEF ReadStale, StalePosting, shop, Begun, Subscriptions, Periods
<1>25. ASSUME NEW t \in Ticks, MarkUnknown(t)
      PROVE  (Begun => Begun') /\ (sub.order # 0 => sub'.order # 0)
  BY <1>25, <1>shop DEF MarkUnknown, shop, Begun, Subscriptions, Periods
<1>26. ASSUME NEW t \in Ticks, ReadPeriods(t)
      PROVE  (Begun => Begun') /\ (sub.order # 0 => sub'.order # 0)
  BY <1>26, <1>shop
     DEF ReadPeriods, Extendable, Pending, shop, Begun, Subscriptions, Periods
<1>27. ASSUME NEW t \in Ticks, Prolong(t)
      PROVE  (Begun => Begun') /\ (sub.order # 0 => sub'.order # 0)
  BY <1>27, <1>shop DEF Prolong, shop, Begun, Subscriptions, Periods
<1>28. ASSUME NEW t \in Ticks, Refused(t)
      PROVE  (Begun => Begun') /\ (sub.order # 0 => sub'.order # 0)
  BY <1>28, <1>shop DEF Refused, shop, Begun, Subscriptions, Periods
<1>29. ASSUME NEW t \in Ticks, Silent(t)
      PROVE  (Begun => Begun') /\ (sub.order # 0 => sub'.order # 0)
  BY <1>29, <1>shop DEF Silent, shop, Begun, Subscriptions, Periods
<1>30. ASSUME NEW t \in Ticks, Prolonged(t)
      PROVE  (Begun => Begun') /\ (sub.order # 0 => sub'.order # 0)
  BY <1>30, <1>shop DEF Prolonged, shop, Begun, Subscriptions, Periods
<1>31. ASSUME NEW t \in Ticks, RefreshExpiry(t)
      PROVE  (Begun => Begun') /\ (sub.order # 0 => sub'.order # 0)
  BY <1>31, <1>shop DEF RefreshExpiry, SyncDue, Dated, shop, Begun, Subscriptions, Periods
<1>32. ASSUME NEW t \in Ticks, NEW i \in Items, ClaimPeriod(t, i)
      PROVE  (Begun => Begun') /\ (sub.order # 0 => sub'.order # 0)
  BY <1>32, <1>shop DEF ClaimPeriod, shop, Begun, Subscriptions, Periods
<1>33. ASSUME NEW t \in Ticks, NEW i \in Items, MarkExtending(t, i)
      PROVE  (Begun => Begun') /\ (sub.order # 0 => sub'.order # 0)
  BY <1>33, <1>shop DEF MarkExtending, shop, Begun, Subscriptions, Periods
<1>33a. ASSUME NEW t \in Ticks, ReadExtending(t)
      PROVE  (Begun => Begun') /\ (sub.order # 0 => sub'.order # 0)
  BY <1>33a, <1>shop DEF ReadExtending, StaleExtending, shop, Begun, Subscriptions, Periods
<1>34. ASSUME NEW r \in Reports, Report(r)
      PROVE  (Begun => Begun') /\ (sub.order # 0 => sub'.order # 0)
  BY <1>34, <1>shop DEF Report, shop, Begun, Subscriptions, Periods
<1>35. ASSUME NEW a \in Admins, BeginSuspend(a)
      PROVE  (Begun => Begun') /\ (sub.order # 0 => sub'.order # 0)
  BY <1>35, <1>shop DEF BeginSuspend, Begin, Act, Upset, shop, Begun, Subscriptions, Periods
<1>36. ASSUME NEW a \in Admins, BeginResume(a)
      PROVE  (Begun => Begun') /\ (sub.order # 0 => sub'.order # 0)
  BY <1>36, <1>shop DEF BeginResume, Begin, Act, Upset, shop, Begun, Subscriptions, Periods
<1>37. ASSUME NEW a \in Admins, BeginReplace(a)
      PROVE  (Begun => Begun') /\ (sub.order # 0 => sub'.order # 0)
  BY <1>37, <1>shop
     DEF BeginReplace, Begin, Act, Upset, Bought, shop, Begun, Subscriptions, Periods
<1>38. ASSUME NEW a \in Admins, BeginSetOrder(a)
      PROVE  (Begun => Begun') /\ (sub.order # 0 => sub'.order # 0)
  BY <1>38, <1>shop
     DEF BeginSetOrder, Begin, Act, Upset, Unclear, shop, Begun, Subscriptions, Periods
<1>39. ASSUME NEW a \in Admins, BeginReorder(a)
      PROVE  (Begun => Begun') /\ (sub.order # 0 => sub'.order # 0)
  BY <1>39, <1>shop
     DEF BeginReorder, Begin, Act, Upset, Unclear, shop, Begun, Subscriptions, Periods
<1>40. ASSUME NEW a \in Admins, Suspend(a)
      PROVE  (Begun => Begun') /\ (sub.order # 0 => sub'.order # 0)
  BY <1>40, <1>shop DEF Suspend, End, shop, Begun, Subscriptions, Periods
<1>41. ASSUME NEW a \in Admins, Resume(a)
      PROVE  (Begun => Begun') /\ (sub.order # 0 => sub'.order # 0)
  BY <1>41, <1>shop DEF Resume, End, Restart, shop, Begun, Subscriptions, Periods
<1>42. ASSUME NEW a \in Admins, Replace(a)
      PROVE  (Begun => Begun') /\ (sub.order # 0 => sub'.order # 0)
  <2>1. admin[a].order # 0 /\ First \in Items
    BY <1>42
       DEF Replace, End, Restart, FirstTerm, Counted, Inv, RunsSound, RunKnows, DeedsSound,
       DeedKnows, AfterStart, Processes
  <2>2. sub.order # 0 => sub'.order # 0
    BY <1>42, <1>shop, <2>1 DEF Replace, Subscriptions
  <2>3. Counted.status = period[First].status /\ \A u \in Nat : FirstTerm(u).status \in {"pending", "done"}
    BY <1>shop, <2>1 DEF Counted, FirstTerm, Periods
  <2>4. Counted.units \in Nat
    BY <1>shop, <2>1 DEF Counted, Periods
  <2>5. Begun'
    BY <1>42, <1>shop, <2>1, <2>3, <2>4
       DEF Replace, End, Begun, Inv, RunsSound, RunKnows, DeedsSound, DeedKnows,
       AfterStart, Processes
  <2> QED
    BY <2>2, <2>5
<1>43. ASSUME NEW a \in Admins, SetOrder(a)
      PROVE  (Begun => Begun') /\ (sub.order # 0 => sub'.order # 0)
  <2>1. admin[a].order # 0 /\ First \in Items
    BY <1>43
       DEF SetOrder, End, FirstTerm, Counted, Inv, RunsSound, RunKnows, DeedsSound,
       DeedKnows, AfterStart, Processes
  <2>2. sub.order # 0 => sub'.order # 0
    BY <1>43, <1>shop, <2>1 DEF SetOrder, Subscriptions
  <2>3. Counted.status = period[First].status /\ \A u \in Nat : FirstTerm(u).status \in {"pending", "done"}
    BY <1>shop, <2>1 DEF Counted, FirstTerm, Periods
  <2>4. Counted.units \in Nat
    BY <1>shop, <2>1 DEF Counted, Periods
  <2>5. Begun'
    BY <1>43, <1>shop, <2>1, <2>3, <2>4
       DEF SetOrder, End, Begun, Inv, RunsSound, RunKnows, DeedsSound, DeedKnows,
       AfterStart, Processes
  <2> QED
    BY <2>2, <2>5
<1>44. ASSUME NEW a \in Admins, Reorder(a)
      PROVE  (Begun => Begun') /\ (sub.order # 0 => sub'.order # 0)
  BY <1>44, <1>shop DEF Reorder, End, shop, Begun, Subscriptions, Periods
<1>45. ASSUME NEW a \in Admins, NEW name \in {"done", "retry"}, PeriodByHand(a, name)
      PROVE  (Begun => Begun') /\ (sub.order # 0 => sub'.order # 0)
  BY <1>45, <1>shop DEF PeriodByHand, End, shop, Begun, Subscriptions, Periods
<1>46. ASSUME NEW a \in Admins, NEW name \in {"done", "retry"}, NEW i \in Items, BeginPeriod(a, i, name)
      PROVE  (Begun => Begun') /\ (sub.order # 0 => sub'.order # 0)
  BY <1>46, <1>shop DEF BeginPeriod, Begin, Act, Upset, shop, Begun, Subscriptions, Periods
<1>47. CASE UNCHANGED vars
  BY <1>47, <1>shop DEF vars, shop, Begun, Subscriptions, Periods
<1> QED
  BY <1>1, <1>2, <1>3, <1>4, <1>5, <1>6, <1>7, <1>8, <1>9, <1>10, <1>11, <1>12, <1>13,
     <1>14, <1>15, <1>16, <1>17, <1>18, <1>19, <1>20, <1>21, <1>22, <1>23, <1>24, <1>25,
     <1>26, <1>27, <1>28, <1>29, <1>30, <1>31, <1>32, <1>33, <1>33a, <1>34, <1>35, <1>36, <1>37,
     <1>38, <1>39, <1>40, <1>41, <1>42, <1>43, <1>44, <1>45, <1>46, <1>47
     DEF Next, Both, TickSteps, OrderSteps, ExtendSteps, AdminSteps, Processes

\* What a run holds stays sound, whatever others do meanwhile.
LEMMA RunsStep ==
  ASSUME Inv, [Next]_vars
  PROVE  RunsSound'
<1> USE HostedAssumption
<1> USE DEF Go, Items
<1>run. RunsSound
  BY DEF Inv
<1>function. run \in [Processes -> Runs]
  BY <1>run DEF RunsSound
<1>world. WorldSound
  BY DEF Inv
<1>shop. /\ sub \in Subscriptions /\ period \in [Items -> Periods]
         /\ sub.ip => sub.order # 0
         /\ sub.state = "ordered" => sub.order # 0
         /\ sub.status # "absent" \/ sub.state # "none" => Begun
         /\ ~ Begun => sub = NoSubscription
  BY DEF Inv, ShopSound, NoSubscription
<1>stays. (Begun => Begun') /\ (sub.order # 0 => sub'.order # 0)
  BY StartedStays
<1>at. \A pc \in Places : At(pc) \in Runs /\ At(pc).pc = pc
  BY AtTyped DEF At
<1>1. ASSUME NEW i \in Items, Pay(i)
      PROVE  RunsSound'
  <2>1. UNCHANGED run
    BY <1>1 DEF Pay, End
  <2> QED
    BY <1>run, <1>stays, <2>1 DEF RunsSound, RunKnows
<1>2. ASSUME NEW i \in Items, Refund(i)
      PROVE  RunsSound'
  <2>1. UNCHANGED run
    BY <1>2 DEF Refund, End
  <2> QED
    BY <1>run, <1>stays, <2>1 DEF RunsSound, RunKnows
<1>3. ASSUME NEW p \in Processes, ReadTested(p)
      PROVE  RunsSound'
  <2>1. p \in Processes /\ run[p] \in Runs /\ RunKnows(p)
    BY <1>3, <1>run DEF Processes, RunsSound
  <2>2. run'[p] \in Runs /\ RunKnows(p)' /\ run' = [run EXCEPT ![p] = run'[p]]
    BY <1>3, <1>run, <1>shop, <1>world, <1>stays, <1>at, <2>1, PlacesOfAfter
       DEF ReadTested, Testable, RunsSound, RunKnows, Runs, Places, WithItem, AfterStart,
       Begun, WorldSound, provider
  <2> QED
    BY <1>run, <1>stays, <2>1, <2>2 DEF RunsSound, RunKnows
<1>4. ASSUME NEW p \in Processes, Judge(p)
      PROVE  RunsSound'
  <2>1. p \in Processes /\ run[p] \in Runs /\ RunKnows(p)
    BY <1>4, <1>run DEF Processes, RunsSound
  <2>2. run'[p] \in Runs /\ RunKnows(p)' /\ run' = [run EXCEPT ![p] = run'[p]]
    BY <1>4, <1>run, <1>shop, <1>world, <1>stays, <1>at, <2>1, PlacesOfAfter
       DEF Judge, Leave, Testable, RunsSound, RunKnows, Runs, Places, WithItem, AfterStart,
       Begun, WorldSound, provider
  <2> QED
    BY <1>run, <1>stays, <2>1, <2>2 DEF RunsSound, RunKnows
<1>5. ASSUME NEW p \in Processes, PassOver(p)
      PROVE  RunsSound'
  <2>1. p \in Processes /\ run[p] \in Runs /\ RunKnows(p)
    BY <1>5, <1>run DEF Processes, RunsSound
  <2>2. run'[p] \in Runs /\ RunKnows(p)' /\ run' = [run EXCEPT ![p] = run'[p]]
    <3>1. run' = [run EXCEPT ![p] = run'[p]]
      BY <1>5, <1>run DEF PassOver, Busy, RunsSound
    <3>2. \/ run'[p] = At("idle")
         \/ run'[p] = At(After[run[p].pc])
         \/ run'[p] = At("extending")
         \/ run'[p] = At("sync")
      BY <1>5, <1>function, <2>1 DEF PassOver, Busy
    <3>3. run'[p] \in Runs
      <4>1. CASE p \in Ticks /\ run[p].pc \in DOMAIN After
        <5>1. After[run[p].pc] \in Places
          BY <4>1, PlacesOfAfter DEF Places
        <5> QED
          BY <3>2, <5>1, <1>at, PlaceNames
      <4>2. CASE ~ (p \in Ticks /\ run[p].pc \in DOMAIN After)
        BY <1>5, <1>function, <2>1, <4>2, <1>at, PlaceNames DEF PassOver
      <4> QED
        BY <4>1, <4>2
    <3>4. RunKnows(p)'
      <4>1. CASE p \in Ticks /\ run[p].pc \in DOMAIN After
        <5>1. After[run[p].pc] \in Places /\ After[run[p].pc] \notin WithItem \cup AfterStart \cup {"ordered", "assign"}
          BY <4>1, PlacesOfAfter DEF Places, WithItem, AfterStart
        <5>2. run'[p].pc \in {After[run[p].pc], "idle", "extending", "sync"}
          BY <3>2, <5>1, <1>at, PlaceNames
        <5> QED
          BY <5>1, <5>2 DEF RunKnows, WithItem, AfterStart
      <4>2. CASE ~ (p \in Ticks /\ run[p].pc \in DOMAIN After)
        <5>1. run'[p].pc \in {"idle", "extending", "sync"}
          BY <1>5, <1>function, <2>1, <4>2, <1>at, PlaceNames DEF PassOver
        <5> QED
          BY <5>1 DEF RunKnows, WithItem, AfterStart
      <4> QED
        BY <4>1, <4>2
    <3> QED
      BY <3>1, <3>3, <3>4
  <2> QED
    BY <1>run, <1>stays, <2>1, <2>2 DEF RunsSound, RunKnows
<1>6. ASSUME NEW p \in Processes, Crash(p)
      PROVE  RunsSound'
  <2>1. p \in Processes /\ run[p] \in Runs /\ RunKnows(p)
    BY <1>6, <1>run DEF Processes, RunsSound
  <2>2. run'[p] \in Runs /\ RunKnows(p)' /\ run' = [run EXCEPT ![p] = run'[p]]
    BY <1>6, <1>run, <1>shop, <1>world, <1>stays, <1>at, <2>1, PlacesOfAfter
       DEF Crash, Upset, RunsSound, RunKnows, Runs, Places, WithItem, AfterStart, Begun,
       WorldSound, provider
  <2> QED
    BY <1>run, <1>stays, <2>1, <2>2 DEF RunsSound, RunKnows
<1>7. ASSUME NEW t \in Ticks, Start(t)
      PROVE  RunsSound'
  <2>1. t \in Processes /\ run[t] \in Runs /\ RunKnows(t)
    BY <1>7, <1>run DEF Processes, RunsSound
  <2>2. run'[t] \in Runs /\ RunKnows(t)' /\ run' = [run EXCEPT ![t] = run'[t]]
    BY <1>7, <1>run, <1>shop, <1>world, <1>stays, <1>at, <2>1, PlacesOfAfter
       DEF Start, RunsSound, RunKnows, Runs, Places, WithItem, AfterStart, Begun,
       WorldSound, provider
  <2> QED
    BY <1>run, <1>stays, <2>1, <2>2 DEF RunsSound, RunKnows
<1>8. ASSUME NEW t \in Ticks, Insert(t)
      PROVE  RunsSound'
  <2>1. t \in Processes /\ run[t] \in Runs /\ RunKnows(t)
    BY <1>8, <1>run DEF Processes, RunsSound
  <2>2. run'[t] \in Runs /\ RunKnows(t)' /\ run' = [run EXCEPT ![t] = run'[t]]
    BY <1>8, <1>run, <1>shop, <1>world, <1>stays, <1>at, <2>1, PlacesOfAfter
       DEF Insert, Period, NoSubscription, RunsSound, RunKnows, Runs, Places, WithItem,
       AfterStart, Begun, WorldSound, provider
  <2> QED
    BY <1>run, <1>stays, <2>1, <2>2 DEF RunsSound, RunKnows
<1>9. ASSUME NEW t \in Ticks, ReadRefund(t)
      PROVE  RunsSound'
  <2>1. t \in Processes /\ run[t] \in Runs /\ RunKnows(t)
    BY <1>9, <1>run DEF Processes, RunsSound
  <2>2. run'[t] \in Runs /\ RunKnows(t)' /\ run' = [run EXCEPT ![t] = run'[t]]
    <3>1. run' = [run EXCEPT ![t] = run'[t]]
      BY <1>9, <1>run DEF ReadRefund, RefundUnseen, RunsSound
    <3>2. \/ run'[t] = [At("revoke") EXCEPT !.saw = sub.status]
         \/ run'[t] = [At("stop") EXCEPT !.saw = sub.status]
      BY <1>9, <1>function, <2>1 DEF ReadRefund, RefundUnseen
    <3>3. run'[t] \in Runs
      <4>0. sub.status \in Statuses
        BY <1>shop DEF Subscriptions
      <4>1. CASE run'[t] = [At("revoke") EXCEPT !.saw = sub.status]
        <5>1. At("revoke") \in Runs
          BY <1>at, PlaceNames
        <5> QED
          BY <4>1, <4>0, <5>1, <2>1 DEF Runs
      <4>2. CASE run'[t] = [At("stop") EXCEPT !.saw = sub.status]
        <5>1. At("stop") \in Runs
          BY <1>at, PlaceNames
        <5> QED
          BY <4>2, <4>0, <5>1, <2>1 DEF Runs
      <4> QED
        BY <3>2, <4>1, <4>2
    <3>4. RunKnows(t)'
      BY <1>9, <3>2, <1>shop, <1>world, <1>stays, <1>at, <2>1, PlaceNames
         DEF ReadRefund, RefundUnseen, RunKnows, WithItem, AfterStart, Begun, Items, Runs,
         At, WorldSound
    <3> QED
      BY <3>1, <3>3, <3>4
  <2> QED
    BY <1>run, <1>stays, <2>1, <2>2 DEF RunsSound, RunKnows
<1>10. ASSUME NEW t \in Ticks, Revoke(t)
      PROVE  RunsSound'
  <2>1. t \in Processes /\ run[t] \in Runs /\ RunKnows(t)
    BY <1>10, <1>run DEF Processes, RunsSound
  <2>2. run'[t] \in Runs /\ RunKnows(t)' /\ run' = [run EXCEPT ![t] = run'[t]]
    <3>1. run' = [run EXCEPT ![t] = run'[t]]
      BY <1>10, <1>run DEF Revoke, RunsSound
    <3>2. \/ run'[t] = At("renewals")
         \/ run'[t] = [run[t] EXCEPT !.pc = "stop"]
      BY <1>10, <1>function, <2>1 DEF Revoke
    <3>3. run'[t] \in Runs
      <4>1. CASE run'[t] = At("renewals")
        <5>1. At("renewals") \in Runs
          BY <1>at, PlaceNames
        <5> QED
          BY <4>1, <5>1, <2>1 DEF Runs
      <4>2. CASE run'[t] = [run[t] EXCEPT !.pc = "stop"]
        <5>1. "stop" \in Places
          BY PlaceNames
        <5> QED
          BY <4>2, <5>1, <2>1 DEF Runs
      <4> QED
        BY <3>2, <4>1, <4>2
    <3>4. RunKnows(t)'
      BY <1>10, <3>2, <1>shop, <1>world, <1>stays, <1>at, <2>1, PlaceNames
         DEF Revoke, RunKnows, WithItem, AfterStart, Begun, Items, Runs, At, WorldSound
    <3> QED
      BY <3>1, <3>3, <3>4
  <2> QED
    BY <1>run, <1>stays, <2>1, <2>2 DEF RunsSound, RunKnows
<1>11. ASSUME NEW t \in Ticks, Stop(t)
      PROVE  RunsSound'
  <2>1. t \in Processes /\ run[t] \in Runs /\ RunKnows(t)
    BY <1>11, <1>run DEF Processes, RunsSound
  <2>2. run'[t] \in Runs /\ RunKnows(t)' /\ run' = [run EXCEPT ![t] = run'[t]]
    BY <1>11, <1>run, <1>shop, <1>world, <1>stays, <1>at, <2>1, PlacesOfAfter
       DEF Stop, RunsSound, RunKnows, Runs, Places, WithItem, AfterStart, Begun,
       WorldSound, provider
  <2> QED
    BY <1>run, <1>stays, <2>1, <2>2 DEF RunsSound, RunKnows
<1>12. ASSUME NEW t \in Ticks, Handled(t)
      PROVE  RunsSound'
  <2>1. t \in Processes /\ run[t] \in Runs /\ RunKnows(t)
    BY <1>12, <1>run DEF Processes, RunsSound
  <2>2. run'[t] \in Runs /\ RunKnows(t)' /\ run' = [run EXCEPT ![t] = run'[t]]
    BY <1>12, <1>run, <1>shop, <1>world, <1>stays, <1>at, <2>1, PlacesOfAfter
       DEF Handled, RunsSound, RunKnows, Runs, Places, WithItem, AfterStart, Begun,
       WorldSound, provider
  <2> QED
    BY <1>run, <1>stays, <2>1, <2>2 DEF RunsSound, RunKnows
<1>13. ASSUME NEW t \in Ticks, Expire(t)
      PROVE  RunsSound'
  <2>1. t \in Processes /\ run[t] \in Runs /\ RunKnows(t)
    BY <1>13, <1>run DEF Processes, RunsSound
  <2>2. run'[t] \in Runs /\ RunKnows(t)' /\ run' = [run EXCEPT ![t] = run'[t]]
    BY <1>13, <1>run, <1>shop, <1>world, <1>stays, <1>at, <2>1, PlacesOfAfter
       DEF Expire, Expirable, RunsSound, RunKnows, Runs, Places, WithItem, AfterStart,
       Begun, WorldSound, provider
  <2> QED
    BY <1>run, <1>stays, <2>1, <2>2 DEF RunsSound, RunKnows
<1>14. ASSUME NEW t \in Ticks, CancelUnapplied(t)
      PROVE  RunsSound'
  <2>1. t \in Processes /\ run[t] \in Runs /\ RunKnows(t)
    BY <1>14, <1>run DEF Processes, RunsSound
  <2>2. run'[t] \in Runs /\ RunKnows(t)' /\ run' = [run EXCEPT ![t] = run'[t]]
    BY <1>14, <1>run, <1>shop, <1>world, <1>stays, <1>at, <2>1, PlacesOfAfter
       DEF CancelUnapplied, RunsSound, RunKnows, Runs, Places, WithItem, AfterStart, Begun,
       WorldSound, provider
  <2> QED
    BY <1>run, <1>stays, <2>1, <2>2 DEF RunsSound, RunKnows
<1>15. ASSUME NEW t \in Ticks, NEW i \in Items, ReadItem(t, i)
      PROVE  RunsSound'
  <2>1. t \in Processes /\ run[t] \in Runs /\ RunKnows(t)
    BY <1>15, <1>run DEF Processes, RunsSound
  <2>2. run'[t] \in Runs /\ RunKnows(t)' /\ run' = [run EXCEPT ![t] = run'[t]]
    <3>1. run' = [run EXCEPT ![t] = run'[t]]
      BY <1>15, <1>run DEF ReadItem, RunsSound
    <3>2. \/ run'[t] = [At("insert") EXCEPT !.item = i, !.saw = "absent"]
         \/ run'[t] = [At("insert") EXCEPT !.item = i, !.saw = sub.status]
      BY <1>15, <1>function, <2>1 DEF ReadItem
    <3>3. run'[t] \in Runs
      <4>0. sub.status \in Statuses /\ "absent" \in Statuses
        BY <1>shop DEF Subscriptions, Statuses
      <4>1. CASE run'[t] = [At("insert") EXCEPT !.item = i, !.saw = "absent"]
        <5>1. At("insert") \in Runs
          BY <1>at, PlaceNames
        <5> QED
          BY <4>1, <4>0, <5>1, <2>1 DEF Runs
      <4>2. CASE run'[t] = [At("insert") EXCEPT !.item = i, !.saw = sub.status]
        <5>1. At("insert") \in Runs
          BY <1>at, PlaceNames
        <5> QED
          BY <4>2, <4>0, <5>1, <2>1 DEF Runs
      <4> QED
        BY <3>2, <4>1, <4>2
    <3>4. RunKnows(t)'
      BY <1>15, <3>2, <1>shop, <1>world, <1>stays, <1>at, <2>1, PlaceNames
         DEF ReadItem, RunKnows, WithItem, AfterStart, Begun, Items, Runs, At, WorldSound
    <3> QED
      BY <3>1, <3>3, <3>4
  <2> QED
    BY <1>run, <1>stays, <2>1, <2>2 DEF RunsSound, RunKnows
<1>16. ASSUME NEW t \in Ticks, NEW i \in Renewals, CancelRenewal(t, i)
      PROVE  RunsSound'
  <2>1. t \in Processes /\ run[t] \in Runs /\ RunKnows(t)
    BY <1>16, <1>run DEF Processes, RunsSound
  <2>2. run'[t] \in Runs /\ RunKnows(t)' /\ run' = [run EXCEPT ![t] = run'[t]]
    <3>1. run' = [run EXCEPT ![t] = run'[t]]
      BY <1>16, <1>run DEF CancelRenewal, RenewalRefunded, RunsSound
    <3>2. \/ run'[t] = run[t]
         \/ run'[t] = [run[t] EXCEPT !.pc = "handled", !.item = i]
      BY <1>16, <1>function, <2>1 DEF CancelRenewal, RenewalRefunded
    <3>3. run'[t] \in Runs
      <4>0. i \in Items
        BY DEF Items
      <4>1. CASE run'[t] = run[t]
        BY <4>1, <2>1
      <4>2. CASE run'[t] = [run[t] EXCEPT !.pc = "handled", !.item = i]
        <5>1. "handled" \in Places
          BY PlaceNames
        <5> QED
          BY <4>2, <4>0, <5>1, <2>1 DEF Runs
      <4> QED
        BY <3>2, <4>1, <4>2
    <3>4. RunKnows(t)'
      <4>1. CASE run'[t] = run[t]
        BY <4>1, <2>1, <1>stays DEF RunKnows
      <4>2. CASE run'[t] = [run[t] EXCEPT !.pc = "handled", !.item = i]
        <5>1. run'[t].pc = "handled" /\ run'[t].item = i /\ i \in Items
          BY <4>2, <2>1 DEF Runs, Items
        <5> QED
          BY <5>1 DEF RunKnows, WithItem, AfterStart
      <4> QED
        BY <3>2, <4>1, <4>2
    <3> QED
      BY <3>1, <3>3, <3>4
  <2> QED
    BY <1>run, <1>stays, <2>1, <2>2 DEF RunsSound, RunKnows
<1>17. ASSUME NEW t \in Ticks, ClaimOrder(t)
      PROVE  RunsSound'
  <2>1. t \in Processes /\ run[t] \in Runs /\ RunKnows(t)
    BY <1>17, <1>run DEF Processes, RunsSound
  <2>2. run'[t] \in Runs /\ RunKnows(t)' /\ run' = [run EXCEPT ![t] = run'[t]]
    BY <1>17, <1>run, <1>shop, <1>world, <1>stays, <1>at, <2>1, PlacesOfAfter
       DEF ClaimOrder, MayOrder, RunsSound, RunKnows, Runs, Places, WithItem, AfterStart,
       Begun, WorldSound, provider
  <2> QED
    BY <1>run, <1>stays, <2>1, <2>2 DEF RunsSound, RunKnows
<1>18. ASSUME NEW t \in Ticks, PostOrder(t)
      PROVE  RunsSound'
  <2>1. t \in Processes /\ run[t] \in Runs /\ RunKnows(t)
    BY <1>18, <1>run DEF Processes, RunsSound
  <2>2. run'[t] \in Runs /\ RunKnows(t)' /\ run' = [run EXCEPT ![t] = run'[t]]
    <3>1. run' = [run EXCEPT ![t] = run'[t]]
      BY <1>18, <1>run DEF PostOrder, Bought, RunsSound
    <3>2. \/ run'[t] = At("refused")
         \/ run'[t] = At("lost")
         \/ run'[t] = [At("ordered") EXCEPT !.order = orders + 1]
      BY <1>18, <1>function, <2>1 DEF PostOrder, Bought
    <3>3. run'[t] \in Runs
      <4>0. orders + 1 \in Nat
        BY <1>world DEF WorldSound
      <4>1. CASE run'[t] = At("refused")
        <5>1. At("refused") \in Runs
          BY <1>at, PlaceNames
        <5> QED
          BY <4>1, <4>0, <5>1, <2>1 DEF Runs
      <4>2. CASE run'[t] = At("lost")
        <5>1. At("lost") \in Runs
          BY <1>at, PlaceNames
        <5> QED
          BY <4>2, <4>0, <5>1, <2>1 DEF Runs
      <4>3. CASE run'[t] = [At("ordered") EXCEPT !.order = orders + 1]
        <5>1. At("ordered") \in Runs
          BY <1>at, PlaceNames
        <5> QED
          BY <4>3, <4>0, <5>1, <2>1 DEF Runs
      <4> QED
        BY <3>2, <4>1, <4>2, <4>3
    <3>4. RunKnows(t)'
      BY <1>18, <3>2, <1>shop, <1>world, <1>stays, <1>at, <2>1, PlaceNames
         DEF PostOrder, Bought, RunKnows, WithItem, AfterStart, Begun, Items, Runs, At,
         WorldSound
    <3> QED
      BY <3>1, <3>3, <3>4
  <2> QED
    BY <1>run, <1>stays, <2>1, <2>2 DEF RunsSound, RunKnows
<1>19. ASSUME NEW t \in Ticks, OrderRefused(t)
      PROVE  RunsSound'
  <2>1. t \in Processes /\ run[t] \in Runs /\ RunKnows(t)
    BY <1>19, <1>run DEF Processes, RunsSound
  <2>2. run'[t] \in Runs /\ RunKnows(t)' /\ run' = [run EXCEPT ![t] = run'[t]]
    BY <1>19, <1>run, <1>shop, <1>world, <1>stays, <1>at, <2>1, PlacesOfAfter
       DEF OrderRefused, RunsSound, RunKnows, Runs, Places, WithItem, AfterStart, Begun,
       WorldSound, provider
  <2> QED
    BY <1>run, <1>stays, <2>1, <2>2 DEF RunsSound, RunKnows
<1>20. ASSUME NEW t \in Ticks, OrderLost(t)
      PROVE  RunsSound'
  <2>1. t \in Processes /\ run[t] \in Runs /\ RunKnows(t)
    BY <1>20, <1>run DEF Processes, RunsSound
  <2>2. run'[t] \in Runs /\ RunKnows(t)' /\ run' = [run EXCEPT ![t] = run'[t]]
    BY <1>20, <1>run, <1>shop, <1>world, <1>stays, <1>at, <2>1, PlacesOfAfter
       DEF OrderLost, RunsSound, RunKnows, Runs, Places, WithItem, AfterStart, Begun,
       WorldSound, provider
  <2> QED
    BY <1>run, <1>stays, <2>1, <2>2 DEF RunsSound, RunKnows
<1>21. ASSUME NEW t \in Ticks, Ordered(t)
      PROVE  RunsSound'
  <2>1. t \in Processes /\ run[t] \in Runs /\ RunKnows(t)
    BY <1>21, <1>run DEF Processes, RunsSound
  <2>2. run'[t] \in Runs /\ RunKnows(t)' /\ run' = [run EXCEPT ![t] = run'[t]]
    BY <1>21, <1>run, <1>shop, <1>world, <1>stays, <1>at, <2>1, PlacesOfAfter
       DEF Ordered, FirstTerm, RunsSound, RunKnows, Runs, Places, WithItem, AfterStart,
       Begun, WorldSound, provider
  <2> QED
    BY <1>run, <1>stays, <2>1, <2>2 DEF RunsSound, RunKnows
<1>22. ASSUME NEW t \in Ticks, PollOrder(t)
      PROVE  RunsSound'
  <2>1. t \in Processes /\ run[t] \in Runs /\ RunKnows(t)
    BY <1>22, <1>run DEF Processes, RunsSound
  <2>2. run'[t] \in Runs /\ RunKnows(t)' /\ run' = [run EXCEPT ![t] = run'[t]]
    BY <1>22, <1>run, <1>shop, <1>world, <1>stays, <1>at, <2>1, PlacesOfAfter
       DEF PollOrder, RunsSound, RunKnows, Runs, Places, WithItem, AfterStart, Begun,
       WorldSound, provider
  <2> QED
    BY <1>run, <1>stays, <2>1, <2>2 DEF RunsSound, RunKnows
<1>23. ASSUME NEW t \in Ticks, Assign(t)
      PROVE  RunsSound'
  <2>1. t \in Processes /\ run[t] \in Runs /\ RunKnows(t)
    BY <1>23, <1>run DEF Processes, RunsSound
  <2>2. run'[t] \in Runs /\ RunKnows(t)' /\ run' = [run EXCEPT ![t] = run'[t]]
    BY <1>23, <1>run, <1>shop, <1>world, <1>stays, <1>at, <2>1, PlacesOfAfter
       DEF Assign, RunsSound, RunKnows, Runs, Places, WithItem, AfterStart, Begun,
       WorldSound, provider
  <2> QED
    BY <1>run, <1>stays, <2>1, <2>2 DEF RunsSound, RunKnows
<1>24. ASSUME NEW t \in Ticks, ReadStale(t)
      PROVE  RunsSound'
  <2>1. t \in Processes /\ run[t] \in Runs /\ RunKnows(t)
    BY <1>24, <1>run DEF Processes, RunsSound
  <2>2. run'[t] \in Runs /\ RunKnows(t)' /\ run' = [run EXCEPT ![t] = run'[t]]
    BY <1>24, <1>run, <1>shop, <1>world, <1>stays, <1>at, <2>1, PlacesOfAfter
       DEF ReadStale, StalePosting, RunsSound, RunKnows, Runs, Places, WithItem,
       AfterStart, Begun, WorldSound, provider
  <2> QED
    BY <1>run, <1>stays, <2>1, <2>2 DEF RunsSound, RunKnows
<1>25. ASSUME NEW t \in Ticks, MarkUnknown(t)
      PROVE  RunsSound'
  <2>1. t \in Processes /\ run[t] \in Runs /\ RunKnows(t)
    BY <1>25, <1>run DEF Processes, RunsSound
  <2>2. run'[t] \in Runs /\ RunKnows(t)' /\ run' = [run EXCEPT ![t] = run'[t]]
    BY <1>25, <1>run, <1>shop, <1>world, <1>stays, <1>at, <2>1, PlacesOfAfter
       DEF MarkUnknown, RunsSound, RunKnows, Runs, Places, WithItem, AfterStart, Begun,
       WorldSound, provider
  <2> QED
    BY <1>run, <1>stays, <2>1, <2>2 DEF RunsSound, RunKnows
<1>26. ASSUME NEW t \in Ticks, ReadPeriods(t)
      PROVE  RunsSound'
  <2>1. t \in Processes /\ run[t] \in Runs /\ RunKnows(t)
    BY <1>26, <1>run DEF Processes, RunsSound
  <2>2. run'[t] \in Runs /\ RunKnows(t)' /\ run' = [run EXCEPT ![t] = run'[t]]
    <3>1. run' = [run EXCEPT ![t] = run'[t]]
      BY <1>26, <1>run DEF ReadPeriods, Extendable, Pending, RunsSound
    <3>2. run'[t] = [At("extend1") EXCEPT !.todo = Pending, !.order = sub.order,
                 !.seen = [i \in Items |-> IF i \in Pending THEN period[i].units ELSE 0]]
      BY <1>26, <1>function, <2>1 DEF ReadPeriods, Extendable, Pending
    <3>3. run'[t] \in Runs
      <4>0. /\ sub.order \in Nat /\ Pending \in SUBSET Items
           /\ [i \in Items |-> IF i \in Pending THEN period[i].units ELSE 0] \in [Items -> Nat]
        BY <1>shop DEF Subscriptions, Periods, Pending
      <4>1. CASE run'[t] = [At("extend1") EXCEPT !.todo = Pending, !.order = sub.order,
                 !.seen = [i \in Items |-> IF i \in Pending THEN period[i].units ELSE 0]]
        <5>1. At("extend1") \in Runs
          BY <1>at, PlaceNames
        <5> QED
          BY <4>1, <4>0, <5>1, <2>1 DEF Runs
      <4> QED
        BY <3>2, <4>1
    <3>4. RunKnows(t)'
      BY <1>26, <3>2, <1>shop, <1>world, <1>stays, <1>at, <2>1, PlaceNames
         DEF ReadPeriods, Extendable, Pending, RunKnows, WithItem, AfterStart, Begun,
         Items, Runs, At, WorldSound
    <3> QED
      BY <3>1, <3>3, <3>4
  <2> QED
    BY <1>run, <1>stays, <2>1, <2>2 DEF RunsSound, RunKnows
<1>27. ASSUME NEW t \in Ticks, Prolong(t)
      PROVE  RunsSound'
  <2>1. t \in Processes /\ run[t] \in Runs /\ RunKnows(t)
    BY <1>27, <1>run DEF Processes, RunsSound
  <2>2. run'[t] \in Runs /\ RunKnows(t)' /\ run' = [run EXCEPT ![t] = run'[t]]
    <3>1. run' = [run EXCEPT ![t] = run'[t]]
      BY <1>27, <1>run DEF Prolong, RunsSound
    <3>2. \/ run'[t] = [run[t] EXCEPT !.pc = "refuse"]
         \/ run'[t] = [run[t] EXCEPT !.pc = "silent"]
         \/ run'[t] = [run[t] EXCEPT !.pc = "prolonged"]
      BY <1>27, <1>function, <2>1 DEF Prolong
    <3>3. run'[t] \in Runs
      <4>1. CASE run'[t] = [run[t] EXCEPT !.pc = "refuse"]
        <5>1. "refuse" \in Places
          BY PlaceNames
        <5> QED
          BY <4>1, <5>1, <2>1 DEF Runs
      <4>2. CASE run'[t] = [run[t] EXCEPT !.pc = "silent"]
        <5>1. "silent" \in Places
          BY PlaceNames
        <5> QED
          BY <4>2, <5>1, <2>1 DEF Runs
      <4>3. CASE run'[t] = [run[t] EXCEPT !.pc = "prolonged"]
        <5>1. "prolonged" \in Places
          BY PlaceNames
        <5> QED
          BY <4>3, <5>1, <2>1 DEF Runs
      <4> QED
        BY <3>2, <4>1, <4>2, <4>3
    <3>4. RunKnows(t)'
      BY <1>27, <3>2, <1>shop, <1>world, <1>stays, <1>at, <2>1, PlaceNames
         DEF Prolong, RunKnows, WithItem, AfterStart, Begun, Items, Runs, At, WorldSound
    <3> QED
      BY <3>1, <3>3, <3>4
  <2> QED
    BY <1>run, <1>stays, <2>1, <2>2 DEF RunsSound, RunKnows
<1>28. ASSUME NEW t \in Ticks, Refused(t)
      PROVE  RunsSound'
  <2>1. t \in Processes /\ run[t] \in Runs /\ RunKnows(t)
    BY <1>28, <1>run DEF Processes, RunsSound
  <2>2. run'[t] \in Runs /\ RunKnows(t)' /\ run' = [run EXCEPT ![t] = run'[t]]
    <3>1. run' = [run EXCEPT ![t] = run'[t]]
      BY <1>28, <1>run DEF Refused, RunsSound
    <3>2. run'[t] = [run[t] EXCEPT !.pc = "extend1"]
      BY <1>28, <1>function, <2>1 DEF Refused
    <3>3. run'[t] \in Runs
      <4>1. CASE run'[t] = [run[t] EXCEPT !.pc = "extend1"]
        <5>1. "extend1" \in Places
          BY PlaceNames
        <5> QED
          BY <4>1, <5>1, <2>1 DEF Runs
      <4> QED
        BY <3>2, <4>1
    <3>4. RunKnows(t)'
      BY <1>28, <3>2, <1>shop, <1>world, <1>stays, <1>at, <2>1, PlaceNames
         DEF Refused, RunKnows, WithItem, AfterStart, Begun, Items, Runs, At, WorldSound
    <3> QED
      BY <3>1, <3>3, <3>4
  <2> QED
    BY <1>run, <1>stays, <2>1, <2>2 DEF RunsSound, RunKnows
<1>29. ASSUME NEW t \in Ticks, Silent(t)
      PROVE  RunsSound'
  <2>1. t \in Processes /\ run[t] \in Runs /\ RunKnows(t)
    BY <1>29, <1>run DEF Processes, RunsSound
  <2>2. run'[t] \in Runs /\ RunKnows(t)' /\ run' = [run EXCEPT ![t] = run'[t]]
    <3>1. run' = [run EXCEPT ![t] = run'[t]]
      BY <1>29, <1>run DEF Silent, RunsSound
    <3>2. run'[t] = [run[t] EXCEPT !.pc = "extend1"]
      BY <1>29, <1>function, <2>1 DEF Silent
    <3>3. run'[t] \in Runs
      <4>1. CASE run'[t] = [run[t] EXCEPT !.pc = "extend1"]
        <5>1. "extend1" \in Places
          BY PlaceNames
        <5> QED
          BY <4>1, <5>1, <2>1 DEF Runs
      <4> QED
        BY <3>2, <4>1
    <3>4. RunKnows(t)'
      BY <1>29, <3>2, <1>shop, <1>world, <1>stays, <1>at, <2>1, PlaceNames
         DEF Silent, RunKnows, WithItem, AfterStart, Begun, Items, Runs, At, WorldSound
    <3> QED
      BY <3>1, <3>3, <3>4
  <2> QED
    BY <1>run, <1>stays, <2>1, <2>2 DEF RunsSound, RunKnows
<1>30. ASSUME NEW t \in Ticks, Prolonged(t)
      PROVE  RunsSound'
  <2>1. t \in Processes /\ run[t] \in Runs /\ RunKnows(t)
    BY <1>30, <1>run DEF Processes, RunsSound
  <2>2. run'[t] \in Runs /\ RunKnows(t)' /\ run' = [run EXCEPT ![t] = run'[t]]
    <3>1. run' = [run EXCEPT ![t] = run'[t]]
      BY <1>30, <1>run DEF Prolonged, RunsSound
    <3>2. run'[t] = [run[t] EXCEPT !.pc = "reread"]
      BY <1>30, <1>function, <2>1 DEF Prolonged
    <3>3. run'[t] \in Runs
      <4>1. CASE run'[t] = [run[t] EXCEPT !.pc = "reread"]
        <5>1. "reread" \in Places
          BY PlaceNames
        <5> QED
          BY <4>1, <5>1, <2>1 DEF Runs
      <4> QED
        BY <3>2, <4>1
    <3>4. RunKnows(t)'
      BY <1>30, <3>2, <1>shop, <1>world, <1>stays, <1>at, <2>1, PlaceNames
         DEF Prolonged, RunKnows, WithItem, AfterStart, Begun, Items, Runs, At, WorldSound
    <3> QED
      BY <3>1, <3>3, <3>4
  <2> QED
    BY <1>run, <1>stays, <2>1, <2>2 DEF RunsSound, RunKnows
<1>31. ASSUME NEW t \in Ticks, RefreshExpiry(t)
      PROVE  RunsSound'
  <2>1. t \in Processes /\ run[t] \in Runs /\ RunKnows(t)
    BY <1>31, <1>run DEF Processes, RunsSound
  <2>2. run'[t] \in Runs /\ RunKnows(t)' /\ run' = [run EXCEPT ![t] = run'[t]]
    <3>1. run' = [run EXCEPT ![t] = run'[t]]
      BY <1>31, <1>run DEF RefreshExpiry, SyncDue, Dated, RunsSound
    <3>2. \/ run'[t] = [run[t] EXCEPT !.pc = "extend1"]
         \/ run'[t] = [run[t] EXCEPT !.pc = "synced", !.order = sub.order]
         \/ run'[t] = At("expire")
      BY <1>31, <1>function, <2>1 DEF RefreshExpiry, SyncDue, Dated
    <3>3. run'[t] \in Runs
      <4>0. sub.order \in Nat
        BY <1>shop DEF Subscriptions
      <4>1. CASE run'[t] = [run[t] EXCEPT !.pc = "extend1"]
        <5>1. "extend1" \in Places
          BY PlaceNames
        <5> QED
          BY <4>1, <4>0, <5>1, <2>1 DEF Runs
      <4>2. CASE run'[t] = [run[t] EXCEPT !.pc = "synced", !.order = sub.order]
        <5>1. "synced" \in Places
          BY PlaceNames
        <5> QED
          BY <4>2, <4>0, <5>1, <2>1 DEF Runs
      <4>3. CASE run'[t] = At("expire")
        <5>1. At("expire") \in Runs
          BY <1>at, PlaceNames
        <5> QED
          BY <4>3, <4>0, <5>1, <2>1 DEF Runs
      <4> QED
        BY <3>2, <4>1, <4>2, <4>3
    <3>4. RunKnows(t)'
      <4>1. CASE run'[t] = [run[t] EXCEPT !.pc = "extend1"]
        <5>1. run'[t].pc = "extend1"
          BY <4>1, <2>1 DEF Runs
        <5>2. Begun
          BY <1>31, <2>1, <1>shop, <1>at, <4>1, <5>1, PlaceNames
             DEF RefreshExpiry, SyncDue, RunKnows, AfterStart, Go, At
        <5> QED
          BY <5>1, <5>2, <1>stays DEF RunKnows, WithItem, AfterStart
      <4>2. CASE run'[t] = [run[t] EXCEPT !.pc = "synced", !.order = sub.order]
        <5>1. run'[t].pc = "synced"
          BY <4>2, <2>1 DEF Runs
        <5>2. Begun
          BY <1>31, <2>1, <1>shop, <1>at, <4>2, <5>1, PlaceNames
             DEF RefreshExpiry, SyncDue, RunKnows, AfterStart, Go, At
        <5> QED
          BY <5>1, <5>2, <1>stays DEF RunKnows, WithItem, AfterStart
      <4>3. CASE run'[t] = At("expire")
        <5>1. run'[t].pc = "expire"
          BY <4>3, <1>at, PlaceNames
        <5> QED
          BY <5>1 DEF RunKnows, WithItem, AfterStart
      <4> QED
        BY <3>2, <4>1, <4>2, <4>3
    <3> QED
      BY <3>1, <3>3, <3>4
  <2> QED
    BY <1>run, <1>stays, <2>1, <2>2 DEF RunsSound, RunKnows
<1>32. ASSUME NEW t \in Ticks, NEW i \in Items, ClaimPeriod(t, i)
      PROVE  RunsSound'
  <2>1. t \in Processes /\ run[t] \in Runs /\ RunKnows(t)
    BY <1>32, <1>run DEF Processes, RunsSound
  <2>2. run'[t] \in Runs /\ RunKnows(t)' /\ run' = [run EXCEPT ![t] = run'[t]]
    <3>1. run' = [run EXCEPT ![t] = run'[t]]
      BY <1>32, <1>run DEF ClaimPeriod, RunsSound
    <3>2. \/ run'[t] = [run[t] EXCEPT !.todo = @ \ {i}]
         \/ run'[t] = [run[t] EXCEPT !.pc = "prolong", !.item = i, !.todo = @ \ {i}]
      BY <1>32, <1>function, <2>1 DEF ClaimPeriod
    <3>3. run'[t] \in Runs
      <4>0. i \in Items /\ run[t].todo \ {i} \in SUBSET Items
        BY <2>1 DEF Runs
      <4>1. CASE run'[t] = [run[t] EXCEPT !.todo = @ \ {i}]
        BY <4>1, <4>0, <2>1 DEF Runs
      <4>2. CASE run'[t] = [run[t] EXCEPT !.pc = "prolong", !.item = i, !.todo = @ \ {i}]
        <5>1. "prolong" \in Places
          BY PlaceNames
        <5> QED
          BY <4>2, <4>0, <5>1, <2>1 DEF Runs
      <4> QED
        BY <3>2, <4>1, <4>2
    <3>4. RunKnows(t)'
      <4>1. CASE run'[t] = [run[t] EXCEPT !.todo = @ \ {i}]
        <5>1. run'[t].pc = run[t].pc
          BY <4>1, <2>1 DEF Runs
        <5>2. Begun /\ run[t].pc = "extend1"
          BY <1>32, <2>1 DEF ClaimPeriod, RunKnows, AfterStart
        <5> QED
          BY <5>1, <5>2, <1>stays DEF RunKnows, WithItem, AfterStart
      <4>2. CASE run'[t] = [run[t] EXCEPT !.pc = "prolong", !.item = i, !.todo = @ \ {i}]
        <5>1. run'[t].pc = "prolong" /\ run'[t].item = i /\ i \in Items
          BY <4>2, <2>1 DEF Runs, Items
        <5>2. Begun /\ run[t].pc = "extend1"
          BY <1>32, <2>1 DEF ClaimPeriod, RunKnows, AfterStart
        <5> QED
          BY <5>1, <5>2, <1>stays DEF RunKnows, WithItem, AfterStart
      <4> QED
        BY <3>2, <4>1, <4>2
    <3> QED
      BY <3>1, <3>3, <3>4
  <2> QED
    BY <1>run, <1>stays, <2>1, <2>2 DEF RunsSound, RunKnows
<1>33. ASSUME NEW t \in Ticks, NEW i \in Items, MarkExtending(t, i)
      PROVE  RunsSound'
  <2>1. t \in Processes /\ run[t] \in Runs /\ RunKnows(t)
    BY <1>33, <1>run DEF Processes, RunsSound
  <2>2. run'[t] \in Runs /\ RunKnows(t)' /\ run' = [run EXCEPT ![t] = run'[t]]
    <3>1. /\ run[t].pc = "marking"
          /\ run' = [run EXCEPT ![t] = [run[t] EXCEPT !.todo = @ \ {i}]]
      BY <1>33, <1>run, <2>1 DEF MarkExtending, RunsSound
    <3>2. run'[t] = [run[t] EXCEPT !.todo = @ \ {i}]
      BY <1>function, <2>1, <3>1
    <3>3. run'[t] \in Runs /\ run'[t].pc = "marking"
      BY <2>1, <3>1, <3>2 DEF Runs
    <3>4. RunKnows(t)'
      BY <3>3 DEF RunKnows, WithItem, AfterStart
    <3> QED
      BY <3>1, <3>2, <3>3, <3>4
  <2> QED
    BY <1>run, <1>stays, <2>1, <2>2 DEF RunsSound, RunKnows
<1>33a. ASSUME NEW t \in Ticks, ReadExtending(t)
      PROVE  RunsSound'
  <2>1. t \in Processes /\ run[t] \in Runs /\ RunKnows(t)
    BY <1>33a, <1>run DEF Processes, RunsSound
  <2>2. run'[t] \in Runs /\ RunKnows(t)' /\ run' = [run EXCEPT ![t] = run'[t]]
    <3>1. run' = [run EXCEPT ![t] =
                   [At("marking") EXCEPT !.todo = {i \in Items : StaleExtending(i)}]]
      BY <1>33a DEF ReadExtending
    <3>2. run'[t] = [At("marking") EXCEPT !.todo = {i \in Items : StaleExtending(i)}]
      BY <1>function, <2>1, <3>1
    <3>3. At("marking") \in Runs /\ At("marking").pc = "marking"
      BY <1>at, PlaceNames
    <3>4. run'[t] \in Runs /\ run'[t].pc = "marking"
      BY <3>2, <3>3 DEF Runs
    <3>5. RunKnows(t)'
      BY <3>4 DEF RunKnows, WithItem, AfterStart
    <3> QED
      BY <3>1, <3>2, <3>4, <3>5
  <2> QED
    BY <1>run, <1>stays, <2>1, <2>2 DEF RunsSound, RunKnows
<1>34. ASSUME NEW r \in Reports, Report(r)
      PROVE  RunsSound'
  <2>1. r \in Processes /\ run[r] \in Runs /\ RunKnows(r)
    BY <1>34, <1>run DEF Processes, RunsSound
  <2>2. run'[r] \in Runs /\ RunKnows(r)' /\ run' = [run EXCEPT ![r] = run'[r]]
    BY <1>34, <1>run, <1>shop, <1>world, <1>stays, <1>at, <2>1, PlacesOfAfter
       DEF Report, RunsSound, RunKnows, Runs, Places, WithItem, AfterStart, Begun,
       WorldSound, provider
  <2> QED
    BY <1>run, <1>stays, <2>1, <2>2 DEF RunsSound, RunKnows
<1>35. ASSUME NEW a \in Admins, BeginSuspend(a)
      PROVE  RunsSound'
  <2>1. UNCHANGED run
    BY <1>35 DEF BeginSuspend, Begin, Act, Upset, End
  <2> QED
    BY <1>run, <1>stays, <2>1 DEF RunsSound, RunKnows
<1>36. ASSUME NEW a \in Admins, BeginResume(a)
      PROVE  RunsSound'
  <2>1. UNCHANGED run
    BY <1>36 DEF BeginResume, Begin, Act, Upset, End
  <2> QED
    BY <1>run, <1>stays, <2>1 DEF RunsSound, RunKnows
<1>37. ASSUME NEW a \in Admins, BeginReplace(a)
      PROVE  RunsSound'
  <2>1. UNCHANGED run
    BY <1>37 DEF BeginReplace, Begin, Act, Upset, Bought, End
  <2> QED
    BY <1>run, <1>stays, <2>1 DEF RunsSound, RunKnows
<1>38. ASSUME NEW a \in Admins, BeginSetOrder(a)
      PROVE  RunsSound'
  <2>1. UNCHANGED run
    BY <1>38 DEF BeginSetOrder, Begin, Act, Upset, Unclear, End
  <2> QED
    BY <1>run, <1>stays, <2>1 DEF RunsSound, RunKnows
<1>39. ASSUME NEW a \in Admins, BeginReorder(a)
      PROVE  RunsSound'
  <2>1. UNCHANGED run
    BY <1>39 DEF BeginReorder, Begin, Act, Upset, Unclear, End
  <2> QED
    BY <1>run, <1>stays, <2>1 DEF RunsSound, RunKnows
<1>40. ASSUME NEW a \in Admins, Suspend(a)
      PROVE  RunsSound'
  <2>1. UNCHANGED run
    BY <1>40 DEF Suspend, End, End
  <2> QED
    BY <1>run, <1>stays, <2>1 DEF RunsSound, RunKnows
<1>41. ASSUME NEW a \in Admins, Resume(a)
      PROVE  RunsSound'
  <2>1. UNCHANGED run
    BY <1>41 DEF Resume, End, Restart, End
  <2> QED
    BY <1>run, <1>stays, <2>1 DEF RunsSound, RunKnows
<1>42. ASSUME NEW a \in Admins, Replace(a)
      PROVE  RunsSound'
  <2>1. UNCHANGED run
    BY <1>42 DEF Replace, End, Restart, FirstTerm, Counted, End
  <2> QED
    BY <1>run, <1>stays, <2>1 DEF RunsSound, RunKnows
<1>43. ASSUME NEW a \in Admins, SetOrder(a)
      PROVE  RunsSound'
  <2>1. UNCHANGED run
    BY <1>43 DEF SetOrder, End, FirstTerm, Counted, End
  <2> QED
    BY <1>run, <1>stays, <2>1 DEF RunsSound, RunKnows
<1>44. ASSUME NEW a \in Admins, Reorder(a)
      PROVE  RunsSound'
  <2>1. UNCHANGED run
    BY <1>44 DEF Reorder, End, End
  <2> QED
    BY <1>run, <1>stays, <2>1 DEF RunsSound, RunKnows
<1>45. ASSUME NEW a \in Admins, NEW name \in {"done", "retry"}, PeriodByHand(a, name)
      PROVE  RunsSound'
  <2>1. UNCHANGED run
    BY <1>45 DEF PeriodByHand, End, End
  <2> QED
    BY <1>run, <1>stays, <2>1 DEF RunsSound, RunKnows
<1>46. ASSUME NEW a \in Admins, NEW name \in {"done", "retry"}, NEW i \in Items, BeginPeriod(a, i, name)
      PROVE  RunsSound'
  <2>1. UNCHANGED run
    BY <1>46 DEF BeginPeriod, Begin, Act, Upset, End
  <2> QED
    BY <1>run, <1>stays, <2>1 DEF RunsSound, RunKnows
<1>47. CASE UNCHANGED vars
  <2>1. UNCHANGED run
    BY <1>47 DEF vars, End
  <2> QED
    BY <1>run, <1>stays, <2>1 DEF RunsSound, RunKnows
<1> QED
  BY <1>1, <1>2, <1>3, <1>4, <1>5, <1>6, <1>7, <1>8, <1>9, <1>10, <1>11, <1>12, <1>13,
     <1>14, <1>15, <1>16, <1>17, <1>18, <1>19, <1>20, <1>21, <1>22, <1>23, <1>24, <1>25,
     <1>26, <1>27, <1>28, <1>29, <1>30, <1>31, <1>32, <1>33, <1>33a, <1>34, <1>35, <1>36, <1>37,
     <1>38, <1>39, <1>40, <1>41, <1>42, <1>43, <1>44, <1>45, <1>46, <1>47
     DEF Next, Both, TickSteps, OrderSteps, ExtendSteps, AdminSteps, Processes

\* What an administrator is about to write stays sound.
LEMMA DeedsStep ==
  ASSUME Inv, [Next]_vars
  PROVE  DeedsSound'
<1> USE HostedAssumption
<1> USE DEF Go, Items
<1>deed. DeedsSound
  BY DEF Inv
<1>world. WorldSound
  BY DEF Inv
<1>shop. /\ sub \in Subscriptions /\ period \in [Items -> Periods]
         /\ sub.ip => sub.order # 0
         /\ sub.state = "ordered" => sub.order # 0
         /\ sub.status # "absent" \/ sub.state # "none" => Begun
         /\ ~ Begun => sub = NoSubscription
  BY DEF Inv, ShopSound, NoSubscription
<1>stays. Begun => Begun'
  BY StartedStays
<1>none. NoAct \in Deeds /\ NoAct.act = "none"
  BY DEF NoAct, Act, Deeds, Statuses
<1>1. ASSUME NEW i \in Items, Pay(i)
      PROVE  DeedsSound'
  <2>1. UNCHANGED admin
    BY <1>1 DEF Pay
  <2> QED
    BY <1>deed, <1>stays, <2>1 DEF DeedsSound, DeedKnows
<1>2. ASSUME NEW i \in Items, Refund(i)
      PROVE  DeedsSound'
  <2>1. UNCHANGED admin
    BY <1>2 DEF Refund
  <2> QED
    BY <1>deed, <1>stays, <2>1 DEF DeedsSound, DeedKnows
<1>3. ASSUME NEW p \in Processes, ReadTested(p)
      PROVE  DeedsSound'
  <2>1. UNCHANGED admin
    BY <1>3 DEF ReadTested, Testable
  <2> QED
    BY <1>deed, <1>stays, <2>1 DEF DeedsSound, DeedKnows
<1>4. ASSUME NEW p \in Processes, Judge(p)
      PROVE  DeedsSound'
  <2>1. UNCHANGED admin
    BY <1>4 DEF Judge, Leave, Testable
  <2> QED
    BY <1>deed, <1>stays, <2>1 DEF DeedsSound, DeedKnows
<1>5. ASSUME NEW p \in Processes, PassOver(p)
      PROVE  DeedsSound'
  <2>1. UNCHANGED admin
    BY <1>5 DEF PassOver, Busy
  <2> QED
    BY <1>deed, <1>stays, <2>1 DEF DeedsSound, DeedKnows
<1>6. ASSUME NEW p \in Processes, Crash(p)
      PROVE  DeedsSound'
  <2>1. UNCHANGED admin
    BY <1>6 DEF Crash, Upset
  <2> QED
    BY <1>deed, <1>stays, <2>1 DEF DeedsSound, DeedKnows
<1>7. ASSUME NEW t \in Ticks, Start(t)
      PROVE  DeedsSound'
  <2>1. UNCHANGED admin
    BY <1>7 DEF Start
  <2> QED
    BY <1>deed, <1>stays, <2>1 DEF DeedsSound, DeedKnows
<1>8. ASSUME NEW t \in Ticks, Insert(t)
      PROVE  DeedsSound'
  <2>1. UNCHANGED admin
    BY <1>8 DEF Insert, Period, NoSubscription
  <2> QED
    BY <1>deed, <1>stays, <2>1 DEF DeedsSound, DeedKnows
<1>9. ASSUME NEW t \in Ticks, ReadRefund(t)
      PROVE  DeedsSound'
  <2>1. UNCHANGED admin
    BY <1>9 DEF ReadRefund, RefundUnseen
  <2> QED
    BY <1>deed, <1>stays, <2>1 DEF DeedsSound, DeedKnows
<1>10. ASSUME NEW t \in Ticks, Revoke(t)
      PROVE  DeedsSound'
  <2>1. UNCHANGED admin
    BY <1>10 DEF Revoke
  <2> QED
    BY <1>deed, <1>stays, <2>1 DEF DeedsSound, DeedKnows
<1>11. ASSUME NEW t \in Ticks, Stop(t)
      PROVE  DeedsSound'
  <2>1. UNCHANGED admin
    BY <1>11 DEF Stop
  <2> QED
    BY <1>deed, <1>stays, <2>1 DEF DeedsSound, DeedKnows
<1>12. ASSUME NEW t \in Ticks, Handled(t)
      PROVE  DeedsSound'
  <2>1. UNCHANGED admin
    BY <1>12 DEF Handled
  <2> QED
    BY <1>deed, <1>stays, <2>1 DEF DeedsSound, DeedKnows
<1>13. ASSUME NEW t \in Ticks, Expire(t)
      PROVE  DeedsSound'
  <2>1. UNCHANGED admin
    BY <1>13 DEF Expire, Expirable
  <2> QED
    BY <1>deed, <1>stays, <2>1 DEF DeedsSound, DeedKnows
<1>14. ASSUME NEW t \in Ticks, CancelUnapplied(t)
      PROVE  DeedsSound'
  <2>1. UNCHANGED admin
    BY <1>14 DEF CancelUnapplied
  <2> QED
    BY <1>deed, <1>stays, <2>1 DEF DeedsSound, DeedKnows
<1>15. ASSUME NEW t \in Ticks, NEW i \in Items, ReadItem(t, i)
      PROVE  DeedsSound'
  <2>1. UNCHANGED admin
    BY <1>15 DEF ReadItem
  <2> QED
    BY <1>deed, <1>stays, <2>1 DEF DeedsSound, DeedKnows
<1>16. ASSUME NEW t \in Ticks, NEW i \in Renewals, CancelRenewal(t, i)
      PROVE  DeedsSound'
  <2>1. UNCHANGED admin
    BY <1>16 DEF CancelRenewal, RenewalRefunded
  <2> QED
    BY <1>deed, <1>stays, <2>1 DEF DeedsSound, DeedKnows
<1>17. ASSUME NEW t \in Ticks, ClaimOrder(t)
      PROVE  DeedsSound'
  <2>1. UNCHANGED admin
    BY <1>17 DEF ClaimOrder, MayOrder
  <2> QED
    BY <1>deed, <1>stays, <2>1 DEF DeedsSound, DeedKnows
<1>18. ASSUME NEW t \in Ticks, PostOrder(t)
      PROVE  DeedsSound'
  <2>1. UNCHANGED admin
    BY <1>18 DEF PostOrder, Bought
  <2> QED
    BY <1>deed, <1>stays, <2>1 DEF DeedsSound, DeedKnows
<1>19. ASSUME NEW t \in Ticks, OrderRefused(t)
      PROVE  DeedsSound'
  <2>1. UNCHANGED admin
    BY <1>19 DEF OrderRefused
  <2> QED
    BY <1>deed, <1>stays, <2>1 DEF DeedsSound, DeedKnows
<1>20. ASSUME NEW t \in Ticks, OrderLost(t)
      PROVE  DeedsSound'
  <2>1. UNCHANGED admin
    BY <1>20 DEF OrderLost
  <2> QED
    BY <1>deed, <1>stays, <2>1 DEF DeedsSound, DeedKnows
<1>21. ASSUME NEW t \in Ticks, Ordered(t)
      PROVE  DeedsSound'
  <2>1. UNCHANGED admin
    BY <1>21 DEF Ordered, FirstTerm
  <2> QED
    BY <1>deed, <1>stays, <2>1 DEF DeedsSound, DeedKnows
<1>22. ASSUME NEW t \in Ticks, PollOrder(t)
      PROVE  DeedsSound'
  <2>1. UNCHANGED admin
    BY <1>22 DEF PollOrder
  <2> QED
    BY <1>deed, <1>stays, <2>1 DEF DeedsSound, DeedKnows
<1>23. ASSUME NEW t \in Ticks, Assign(t)
      PROVE  DeedsSound'
  <2>1. UNCHANGED admin
    BY <1>23 DEF Assign
  <2> QED
    BY <1>deed, <1>stays, <2>1 DEF DeedsSound, DeedKnows
<1>24. ASSUME NEW t \in Ticks, ReadStale(t)
      PROVE  DeedsSound'
  <2>1. UNCHANGED admin
    BY <1>24 DEF ReadStale, StalePosting
  <2> QED
    BY <1>deed, <1>stays, <2>1 DEF DeedsSound, DeedKnows
<1>25. ASSUME NEW t \in Ticks, MarkUnknown(t)
      PROVE  DeedsSound'
  <2>1. UNCHANGED admin
    BY <1>25 DEF MarkUnknown
  <2> QED
    BY <1>deed, <1>stays, <2>1 DEF DeedsSound, DeedKnows
<1>26. ASSUME NEW t \in Ticks, ReadPeriods(t)
      PROVE  DeedsSound'
  <2>1. UNCHANGED admin
    BY <1>26 DEF ReadPeriods, Extendable, Pending
  <2> QED
    BY <1>deed, <1>stays, <2>1 DEF DeedsSound, DeedKnows
<1>27. ASSUME NEW t \in Ticks, Prolong(t)
      PROVE  DeedsSound'
  <2>1. UNCHANGED admin
    BY <1>27 DEF Prolong
  <2> QED
    BY <1>deed, <1>stays, <2>1 DEF DeedsSound, DeedKnows
<1>28. ASSUME NEW t \in Ticks, Refused(t)
      PROVE  DeedsSound'
  <2>1. UNCHANGED admin
    BY <1>28 DEF Refused
  <2> QED
    BY <1>deed, <1>stays, <2>1 DEF DeedsSound, DeedKnows
<1>29. ASSUME NEW t \in Ticks, Silent(t)
      PROVE  DeedsSound'
  <2>1. UNCHANGED admin
    BY <1>29 DEF Silent
  <2> QED
    BY <1>deed, <1>stays, <2>1 DEF DeedsSound, DeedKnows
<1>30. ASSUME NEW t \in Ticks, Prolonged(t)
      PROVE  DeedsSound'
  <2>1. UNCHANGED admin
    BY <1>30 DEF Prolonged
  <2> QED
    BY <1>deed, <1>stays, <2>1 DEF DeedsSound, DeedKnows
<1>31. ASSUME NEW t \in Ticks, RefreshExpiry(t)
      PROVE  DeedsSound'
  <2>1. UNCHANGED admin
    BY <1>31 DEF RefreshExpiry, SyncDue, Dated
  <2> QED
    BY <1>deed, <1>stays, <2>1 DEF DeedsSound, DeedKnows
<1>32. ASSUME NEW t \in Ticks, NEW i \in Items, ClaimPeriod(t, i)
      PROVE  DeedsSound'
  <2>1. UNCHANGED admin
    BY <1>32 DEF ClaimPeriod
  <2> QED
    BY <1>deed, <1>stays, <2>1 DEF DeedsSound, DeedKnows
<1>33. ASSUME NEW t \in Ticks, NEW i \in Items, MarkExtending(t, i)
      PROVE  DeedsSound'
  <2>1. UNCHANGED admin
    BY <1>33 DEF MarkExtending
  <2> QED
    BY <1>deed, <1>stays, <2>1 DEF DeedsSound, DeedKnows
<1>33a. ASSUME NEW t \in Ticks, ReadExtending(t)
      PROVE  DeedsSound'
  <2>1. UNCHANGED admin
    BY <1>33a DEF ReadExtending, StaleExtending
  <2> QED
    BY <1>deed, <1>stays, <2>1 DEF DeedsSound, DeedKnows
<1>34. ASSUME NEW r \in Reports, Report(r)
      PROVE  DeedsSound'
  <2>1. UNCHANGED admin
    BY <1>34 DEF Report
  <2> QED
    BY <1>deed, <1>stays, <2>1 DEF DeedsSound, DeedKnows
<1>35. ASSUME NEW a \in Admins, BeginSuspend(a)
      PROVE  DeedsSound'
  <2>1. admin'[a] \in Deeds /\ DeedKnows(a)' /\ admin' = [admin EXCEPT ![a] = admin'[a]]
    BY <1>35, <1>deed, <1>shop, <1>world, <1>stays
       DEF BeginSuspend, Begin, Act, Upset, DeedsSound, DeedKnows, Deeds, Subscriptions,
       Periods, Statuses, Running, WorldSound
  <2> QED
    BY <1>deed, <1>stays, <2>1 DEF DeedsSound, DeedKnows
<1>36. ASSUME NEW a \in Admins, BeginResume(a)
      PROVE  DeedsSound'
  <2>1. admin'[a] \in Deeds /\ DeedKnows(a)' /\ admin' = [admin EXCEPT ![a] = admin'[a]]
    BY <1>36, <1>deed, <1>shop, <1>world, <1>stays
       DEF BeginResume, Begin, Act, Upset, DeedsSound, DeedKnows, Deeds, Subscriptions,
       Periods, Statuses, Running, WorldSound
  <2> QED
    BY <1>deed, <1>stays, <2>1 DEF DeedsSound, DeedKnows
<1>37. ASSUME NEW a \in Admins, BeginReplace(a)
      PROVE  DeedsSound'
  <2>1. admin'[a] \in Deeds /\ DeedKnows(a)' /\ admin' = [admin EXCEPT ![a] = admin'[a]]
    BY <1>37, <1>deed, <1>shop, <1>world, <1>stays
       DEF BeginReplace, Begin, Act, Upset, Bought, DeedsSound, DeedKnows, Deeds,
       Subscriptions, Periods, Statuses, Running, WorldSound
  <2> QED
    BY <1>deed, <1>stays, <2>1 DEF DeedsSound, DeedKnows
<1>38. ASSUME NEW a \in Admins, BeginSetOrder(a)
      PROVE  DeedsSound'
  <2>1. admin'[a] \in Deeds /\ DeedKnows(a)' /\ admin' = [admin EXCEPT ![a] = admin'[a]]
    BY <1>38, <1>deed, <1>shop, <1>world, <1>stays
       DEF BeginSetOrder, Begin, Act, Upset, Unclear, DeedsSound, DeedKnows, Deeds,
       Subscriptions, Periods, Statuses, Running, WorldSound
  <2> QED
    BY <1>deed, <1>stays, <2>1 DEF DeedsSound, DeedKnows
<1>39. ASSUME NEW a \in Admins, BeginReorder(a)
      PROVE  DeedsSound'
  <2>1. admin'[a] \in Deeds /\ DeedKnows(a)' /\ admin' = [admin EXCEPT ![a] = admin'[a]]
    BY <1>39, <1>deed, <1>shop, <1>world, <1>stays
       DEF BeginReorder, Begin, Act, Upset, Unclear, DeedsSound, DeedKnows, Deeds,
       Subscriptions, Periods, Statuses, Running, WorldSound
  <2> QED
    BY <1>deed, <1>stays, <2>1 DEF DeedsSound, DeedKnows
<1>40. ASSUME NEW a \in Admins, Suspend(a)
      PROVE  DeedsSound'
  <2>1. admin'[a] \in Deeds /\ DeedKnows(a)' /\ admin' = [admin EXCEPT ![a] = admin'[a]]
    BY <1>40, <1>deed, <1>none DEF Suspend, End, End, DeedsSound, DeedKnows
  <2> QED
    BY <1>deed, <1>stays, <2>1 DEF DeedsSound, DeedKnows
<1>41. ASSUME NEW a \in Admins, Resume(a)
      PROVE  DeedsSound'
  <2>1. admin'[a] \in Deeds /\ DeedKnows(a)' /\ admin' = [admin EXCEPT ![a] = admin'[a]]
    BY <1>41, <1>deed, <1>none DEF Resume, End, Restart, End, DeedsSound, DeedKnows
  <2> QED
    BY <1>deed, <1>stays, <2>1 DEF DeedsSound, DeedKnows
<1>42. ASSUME NEW a \in Admins, Replace(a)
      PROVE  DeedsSound'
  <2>1. admin'[a] \in Deeds /\ DeedKnows(a)' /\ admin' = [admin EXCEPT ![a] = admin'[a]]
    BY <1>42, <1>deed, <1>none
       DEF Replace, End, Restart, FirstTerm, Counted, End, DeedsSound, DeedKnows
  <2> QED
    BY <1>deed, <1>stays, <2>1 DEF DeedsSound, DeedKnows
<1>43. ASSUME NEW a \in Admins, SetOrder(a)
      PROVE  DeedsSound'
  <2>1. admin'[a] \in Deeds /\ DeedKnows(a)' /\ admin' = [admin EXCEPT ![a] = admin'[a]]
    BY <1>43, <1>deed, <1>none
       DEF SetOrder, End, FirstTerm, Counted, End, DeedsSound, DeedKnows
  <2> QED
    BY <1>deed, <1>stays, <2>1 DEF DeedsSound, DeedKnows
<1>44. ASSUME NEW a \in Admins, Reorder(a)
      PROVE  DeedsSound'
  <2>1. admin'[a] \in Deeds /\ DeedKnows(a)' /\ admin' = [admin EXCEPT ![a] = admin'[a]]
    BY <1>44, <1>deed, <1>none DEF Reorder, End, End, DeedsSound, DeedKnows
  <2> QED
    BY <1>deed, <1>stays, <2>1 DEF DeedsSound, DeedKnows
<1>45. ASSUME NEW a \in Admins, NEW name \in {"done", "retry"}, PeriodByHand(a, name)
      PROVE  DeedsSound'
  <2>1. admin'[a] \in Deeds /\ DeedKnows(a)' /\ admin' = [admin EXCEPT ![a] = admin'[a]]
    BY <1>45, <1>deed, <1>none DEF PeriodByHand, End, End, DeedsSound, DeedKnows
  <2> QED
    BY <1>deed, <1>stays, <2>1 DEF DeedsSound, DeedKnows
<1>46. ASSUME NEW a \in Admins, NEW name \in {"done", "retry"}, NEW i \in Items, BeginPeriod(a, i, name)
      PROVE  DeedsSound'
  <2>1. admin'[a] \in Deeds /\ DeedKnows(a)' /\ admin' = [admin EXCEPT ![a] = admin'[a]]
    BY <1>46, <1>deed, <1>shop, <1>world, <1>stays
       DEF BeginPeriod, Begin, Act, Upset, DeedsSound, DeedKnows, Deeds, Subscriptions,
       Periods, Statuses, Running, WorldSound
  <2> QED
    BY <1>deed, <1>stays, <2>1 DEF DeedsSound, DeedKnows
<1>47. CASE UNCHANGED vars
  <2>1. UNCHANGED admin
    BY <1>47 DEF vars
  <2> QED
    BY <1>deed, <1>stays, <2>1 DEF DeedsSound, DeedKnows
<1> QED
  BY <1>1, <1>2, <1>3, <1>4, <1>5, <1>6, <1>7, <1>8, <1>9, <1>10, <1>11, <1>12, <1>13,
     <1>14, <1>15, <1>16, <1>17, <1>18, <1>19, <1>20, <1>21, <1>22, <1>23, <1>24, <1>25,
     <1>26, <1>27, <1>28, <1>29, <1>30, <1>31, <1>32, <1>33, <1>33a, <1>34, <1>35, <1>36, <1>37,
     <1>38, <1>39, <1>40, <1>41, <1>42, <1>43, <1>44, <1>45, <1>46, <1>47
     DEF Next, Both, TickSteps, OrderSteps, ExtendSteps, AdminSteps, Processes

\* Every step keeps the invariant.
LEMMA InvNext == Inv /\ [Next]_vars => Inv'
BY ShopStep, WorldStep, RunsStep, DeedsStep DEF Inv

\* All variables keep their types and an address comes with its order: whatever
\* the cron, the relay, administrators and deaths do in between.
THEOREM TypeCorrect == Spec => []TypeOK
<1>1. Inv => TypeOK
  BY DEF Inv, ShopSound, WorldSound, RunsSound, DeedsSound, TypeOK
<1> QED
  BY InvInit, InvNext, <1>1, PTL DEF Spec

\* The runs that hold the claim of the one purchase and have not bought yet.
Buying == {t \in Ticks : run[t].pc \in {"post", "refused"}}

\* What may still be bought is paid for: a free claim or a run that holds it,
\* against the first purchase and the permissions.
Budget == purchases + (IF sub.state = "none" THEN 1 ELSE 0) + Cardinality(Buying) <= 1 + reorders

\* The runs that hold the claim are finitely many, and one of them may leave.
LEMMA BuyingFinite == IsFiniteSet(Buying) /\ Cardinality(Buying) \in Nat
BY HostedAssumption, FS_Subset, FS_CardinalityType DEF Buying

\* A step that takes no claim, frees none and buys nothing.
LEMMA BudgetKept ==
  ASSUME WorldSound, Budget, Buying' \subseteq Buying, purchases' = purchases,
         reorders' = reorders, sub'.state = "none" => sub.state = "none"
  PROVE  Budget'
<1>1. IsFiniteSet(Buying') /\ Cardinality(Buying') <= Cardinality(Buying)
  BY BuyingFinite, FS_Subset
<1>2. Cardinality(Buying') \in Nat /\ Cardinality(Buying) \in Nat
  BY BuyingFinite, <1>1, FS_CardinalityType
<1> QED
  BY <1>1, <1>2 DEF Budget, WorldSound

\* Who takes the claim may buy once, who gives it back has not bought, and only an
\* administrator frees it again.
LEMMA BudgetStep ==
  ASSUME Inv, Budget, [Next]_vars
  PROVE  Budget'
<1> USE HostedAssumption
<1> USE DEF Go, Items
<1>budget. Budget
  OBVIOUS
<1>run. run \in [Processes -> Runs]
  BY DEF Inv, RunsSound
<1>world. WorldSound
  BY DEF Inv
<1>shop. /\ sub \in Subscriptions /\ period \in [Items -> Periods]
         /\ sub.ip => sub.order # 0
         /\ sub.state = "ordered" => sub.order # 0
         /\ sub.status # "absent" \/ sub.state # "none" => Begun
         /\ ~ Begun => sub = NoSubscription
  BY DEF Inv, ShopSound, NoSubscription
<1>1. ASSUME NEW i \in Items, Pay(i)
      PROVE  Budget'
  <2>1. Buying' = Buying
    BY <1>1 DEF Pay, shop, provider, permits, world, Buying
  <2>2. purchases' = purchases /\ reorders' = reorders /\ (sub'.state = "none" => sub.state = "none")
    BY <1>1, <1>shop DEF Pay, shop, provider, permits, world, Subscriptions
  <2> QED
    BY <1>world, <1>budget, <2>1, <2>2, BudgetKept
<1>2. ASSUME NEW i \in Items, Refund(i)
      PROVE  Budget'
  <2>1. Buying' = Buying
    BY <1>2 DEF Refund, shop, provider, permits, world, Buying
  <2>2. purchases' = purchases /\ reorders' = reorders /\ (sub'.state = "none" => sub.state = "none")
    BY <1>2, <1>shop DEF Refund, shop, provider, permits, world, Subscriptions
  <2> QED
    BY <1>world, <1>budget, <2>1, <2>2, BudgetKept
<1>3. ASSUME NEW p \in Processes, ReadTested(p)
      PROVE  Budget'
  <2>1. Buying' \subseteq Buying
    BY <1>3, <1>run
       DEF ReadTested, Testable, shop, provider, permits, world, At, Buying, Processes
  <2>2. purchases' = purchases /\ reorders' = reorders /\ (sub'.state = "none" => sub.state = "none")
    BY <1>3, <1>shop DEF ReadTested, Testable, shop, provider, permits, world, Subscriptions
  <2> QED
    BY <1>world, <1>budget, <2>1, <2>2, BudgetKept
<1>4. ASSUME NEW p \in Processes, Judge(p)
      PROVE  Budget'
  <2>1. Buying' \subseteq Buying
    BY <1>4, <1>run
       DEF Judge, Leave, Testable, shop, provider, permits, world, At, Buying, Processes
  <2>2. purchases' = purchases /\ reorders' = reorders /\ (sub'.state = "none" => sub.state = "none")
    BY <1>4, <1>shop
       DEF Judge, Leave, Testable, shop, provider, permits, world, Subscriptions
  <2> QED
    BY <1>world, <1>budget, <2>1, <2>2, BudgetKept
<1>5. ASSUME NEW p \in Processes, PassOver(p)
      PROVE  Budget'
  <2>1. Buying' \subseteq Buying
    <3>1. CASE p \in Ticks /\ run[p].pc \in DOMAIN After
      <4>1. After[run[p].pc] \notin {"post", "refused"}
        BY <3>1, PlacesOfAfter
      <4> QED
        BY <1>5, <1>run, <4>1 DEF PassOver, At, Buying, Processes
    <3>2. CASE ~ (p \in Ticks /\ run[p].pc \in DOMAIN After)
      BY <1>5, <1>run, <3>2 DEF PassOver, At, Buying, Processes
    <3> QED
      BY <3>1, <3>2
  <2>2. purchases' = purchases /\ reorders' = reorders /\ (sub'.state = "none" => sub.state = "none")
    BY <1>5, <1>shop DEF PassOver, Busy, shop, provider, permits, world, Subscriptions
  <2> QED
    BY <1>world, <1>budget, <2>1, <2>2, BudgetKept
<1>6. ASSUME NEW p \in Processes, Crash(p)
      PROVE  Budget'
  <2>1. Buying' \subseteq Buying
    BY <1>6, <1>run DEF Crash, Upset, shop, provider, permits, world, At, Buying, Processes
  <2>2. purchases' = purchases /\ reorders' = reorders /\ (sub'.state = "none" => sub.state = "none")
    BY <1>6, <1>shop DEF Crash, Upset, shop, provider, permits, world, Subscriptions
  <2> QED
    BY <1>world, <1>budget, <2>1, <2>2, BudgetKept
<1>7. ASSUME NEW t \in Ticks, Start(t)
      PROVE  Budget'
  <2>1. Buying' \subseteq Buying
    BY <1>7, <1>run DEF Start, shop, provider, permits, world, At, Buying, Processes
  <2>2. purchases' = purchases /\ reorders' = reorders /\ (sub'.state = "none" => sub.state = "none")
    BY <1>7, <1>shop DEF Start, shop, provider, permits, world, Subscriptions
  <2> QED
    BY <1>world, <1>budget, <2>1, <2>2, BudgetKept
<1>8. ASSUME NEW t \in Ticks, Insert(t)
      PROVE  Budget'
  <2>1. Buying' \subseteq Buying
    BY <1>8, <1>run DEF Insert, At, Buying, Processes
  <2>2. sub'.state = "none" => sub.state = "none"
    <3>1. [NoSubscription EXCEPT !.status = "awaiting_ip"].state = "none" /\ NoSubscription.state = "none"
      BY DEF NoSubscription
    <3> QED
      BY <1>8, <1>shop, <3>1 DEF Insert, Begun, shop
  <2>3. purchases' = purchases /\ reorders' = reorders
    BY <1>8 DEF Insert, provider, permits
  <2> QED
    BY <1>world, <1>budget, <2>1, <2>2, <2>3, BudgetKept
<1>9. ASSUME NEW t \in Ticks, ReadRefund(t)
      PROVE  Budget'
  <2>1. Buying' \subseteq Buying
    BY <1>9, <1>run
       DEF ReadRefund, RefundUnseen, shop, provider, permits, world, At, Buying, Processes
  <2>2. purchases' = purchases /\ reorders' = reorders /\ (sub'.state = "none" => sub.state = "none")
    BY <1>9, <1>shop
       DEF ReadRefund, RefundUnseen, shop, provider, permits, world, Subscriptions
  <2> QED
    BY <1>world, <1>budget, <2>1, <2>2, BudgetKept
<1>10. ASSUME NEW t \in Ticks, Revoke(t)
      PROVE  Budget'
  <2>1. Buying' \subseteq Buying
    <3>1. t \in Processes /\ run[t] \in Runs
      BY <1>10, <1>run DEF Processes
    <3>2. run'[t].pc \in {"post", "refused"} => run'[t].pc = run[t].pc
      BY <1>10, <1>run, <3>1 DEF Revoke, At, Runs
    <3>3. \A q \in Processes \ {t} : run'[q] = run[q]
      BY <1>10, <1>run, <3>1 DEF Revoke
    <3> QED
      BY <3>2, <3>3 DEF Buying, Processes
  <2>2. purchases' = purchases /\ reorders' = reorders /\ (sub'.state = "none" => sub.state = "none")
    BY <1>10, <1>shop DEF Revoke, shop, provider, permits, world, Subscriptions
  <2> QED
    BY <1>world, <1>budget, <2>1, <2>2, BudgetKept
<1>11. ASSUME NEW t \in Ticks, Stop(t)
      PROVE  Budget'
  <2>1. Buying' \subseteq Buying
    BY <1>11, <1>run DEF Stop, shop, provider, permits, world, At, Buying, Processes
  <2>2. purchases' = purchases /\ reorders' = reorders /\ (sub'.state = "none" => sub.state = "none")
    BY <1>11, <1>shop DEF Stop, shop, provider, permits, world, Subscriptions
  <2> QED
    BY <1>world, <1>budget, <2>1, <2>2, BudgetKept
<1>12. ASSUME NEW t \in Ticks, Handled(t)
      PROVE  Budget'
  <2>1. Buying' \subseteq Buying
    BY <1>12, <1>run DEF Handled, shop, provider, permits, world, At, Buying, Processes
  <2>2. purchases' = purchases /\ reorders' = reorders /\ (sub'.state = "none" => sub.state = "none")
    BY <1>12, <1>shop DEF Handled, shop, provider, permits, world, Subscriptions
  <2> QED
    BY <1>world, <1>budget, <2>1, <2>2, BudgetKept
<1>13. ASSUME NEW t \in Ticks, Expire(t)
      PROVE  Budget'
  <2>1. Buying' \subseteq Buying
    BY <1>13, <1>run
       DEF Expire, Expirable, shop, provider, permits, world, At, Buying, Processes
  <2>2. purchases' = purchases /\ reorders' = reorders /\ (sub'.state = "none" => sub.state = "none")
    BY <1>13, <1>shop DEF Expire, Expirable, shop, provider, permits, world, Subscriptions
  <2> QED
    BY <1>world, <1>budget, <2>1, <2>2, BudgetKept
<1>14. ASSUME NEW t \in Ticks, CancelUnapplied(t)
      PROVE  Budget'
  <2>1. Buying' \subseteq Buying
    BY <1>14, <1>run
       DEF CancelUnapplied, shop, provider, permits, world, At, Buying, Processes
  <2>2. purchases' = purchases /\ reorders' = reorders /\ (sub'.state = "none" => sub.state = "none")
    BY <1>14, <1>shop DEF CancelUnapplied, shop, provider, permits, world, Subscriptions
  <2> QED
    BY <1>world, <1>budget, <2>1, <2>2, BudgetKept
<1>15. ASSUME NEW t \in Ticks, NEW i \in Items, ReadItem(t, i)
      PROVE  Budget'
  <2>1. Buying' \subseteq Buying
    BY <1>15, <1>run DEF ReadItem, shop, provider, permits, world, At, Buying, Processes
  <2>2. purchases' = purchases /\ reorders' = reorders /\ (sub'.state = "none" => sub.state = "none")
    BY <1>15, <1>shop DEF ReadItem, shop, provider, permits, world, Subscriptions
  <2> QED
    BY <1>world, <1>budget, <2>1, <2>2, BudgetKept
<1>16. ASSUME NEW t \in Ticks, NEW i \in Renewals, CancelRenewal(t, i)
      PROVE  Budget'
  <2>1. Buying' \subseteq Buying
    <3>1. t \in Processes /\ run[t] \in Runs
      BY <1>16, <1>run DEF Processes
    <3>2. run'[t].pc \in {"post", "refused"} => run'[t].pc = run[t].pc
      BY <1>16, <1>run, <3>1 DEF CancelRenewal, At, Runs
    <3>3. \A q \in Processes \ {t} : run'[q] = run[q]
      BY <1>16, <1>run, <3>1 DEF CancelRenewal
    <3> QED
      BY <3>2, <3>3 DEF Buying, Processes
  <2>2. purchases' = purchases /\ reorders' = reorders /\ (sub'.state = "none" => sub.state = "none")
    BY <1>16, <1>shop
       DEF CancelRenewal, RenewalRefunded, shop, provider, permits, world, Subscriptions
  <2> QED
    BY <1>world, <1>budget, <2>1, <2>2, BudgetKept
<1>17. ASSUME NEW t \in Ticks, ClaimOrder(t)
      PROVE  Budget'
  <2>1. t \notin Buying /\ Buying' = Buying \cup {t}
    BY <1>17, <1>run DEF ClaimOrder, At, Buying, Processes
  <2>2. Cardinality(Buying') = Cardinality(Buying) + 1
    BY <2>1, BuyingFinite, FS_AddElement
  <2>3. sub.state = "none" /\ sub'.state = "posting" /\ purchases' = purchases /\ reorders' = reorders
    BY <1>17, <1>shop DEF ClaimOrder, MayOrder, provider, permits, Subscriptions
  <2> QED
    BY <1>world, <1>budget, <2>2, <2>3, BuyingFinite DEF Budget, WorldSound
<1>18. ASSUME NEW t \in Ticks, PostOrder(t)
      PROVE  Budget'
  <2>1. CASE Go(t, "refused") /\ UNCHANGED provider
    <3>1. Buying' = Buying
      BY <1>18, <2>1, <1>run DEF PostOrder, At, Buying, Processes
    <3> QED
      BY <1>18, <2>1, <3>1, <1>world, <1>budget, BudgetKept
         DEF PostOrder, provider, permits, shop
  <2>2. CASE Go(t, "lost") /\ UNCHANGED provider
    <3>1. Buying' \subseteq Buying
      BY <2>2, <1>run DEF At, Buying, Processes
    <3> QED
      BY <1>18, <2>2, <3>1, <1>world, <1>budget, BudgetKept
         DEF PostOrder, provider, permits, shop
  <2>3. CASE purchases' = purchases + 1
    <3>1. t \in Buying
      BY <1>18 DEF PostOrder, Buying
    <3>2. Buying' = Buying \ {t}
      BY <1>18, <2>3, <1>run, <1>world
         DEF PostOrder, At, Buying, Processes, provider, WorldSound
    <3>3. Cardinality(Buying') = Cardinality(Buying) - 1
      BY <3>1, <3>2, BuyingFinite, FS_RemoveElement
    <3> QED
      BY <1>18, <2>3, <3>3, <1>world, <1>budget, BuyingFinite
         DEF PostOrder, shop, permits, Budget, WorldSound
  <2> QED
    BY <1>18, <2>1, <2>2, <2>3 DEF PostOrder
<1>19. ASSUME NEW t \in Ticks, OrderRefused(t)
      PROVE  Budget'
  <2>1. t \in Buying /\ Buying' = Buying \ {t}
    BY <1>19, <1>run DEF OrderRefused, At, Buying, Processes
  <2>2. Cardinality(Buying') = Cardinality(Buying) - 1
    BY <2>1, BuyingFinite, FS_RemoveElement
  <2>3. purchases' = purchases /\ reorders' = reorders
    BY <1>19 DEF OrderRefused, provider, permits
  <2>4. sub.state = "none" => sub'.state = "none"
    BY <1>19, <1>shop DEF OrderRefused, Subscriptions
  <2> QED
    BY <1>world, <1>budget, <2>2, <2>3, <2>4, BuyingFinite DEF Budget, WorldSound
<1>20. ASSUME NEW t \in Ticks, OrderLost(t)
      PROVE  Budget'
  <2>1. Buying' \subseteq Buying
    BY <1>20, <1>run DEF OrderLost, shop, provider, permits, world, At, Buying, Processes
  <2>2. purchases' = purchases /\ reorders' = reorders /\ (sub'.state = "none" => sub.state = "none")
    BY <1>20, <1>shop DEF OrderLost, shop, provider, permits, world, Subscriptions
  <2> QED
    BY <1>world, <1>budget, <2>1, <2>2, BudgetKept
<1>21. ASSUME NEW t \in Ticks, Ordered(t)
      PROVE  Budget'
  <2>1. Buying' \subseteq Buying
    BY <1>21, <1>run
       DEF Ordered, FirstTerm, shop, provider, permits, world, At, Buying, Processes
  <2>2. purchases' = purchases /\ reorders' = reorders /\ (sub'.state = "none" => sub.state = "none")
    BY <1>21, <1>shop DEF Ordered, FirstTerm, shop, provider, permits, world, Subscriptions
  <2> QED
    BY <1>world, <1>budget, <2>1, <2>2, BudgetKept
<1>22. ASSUME NEW t \in Ticks, PollOrder(t)
      PROVE  Budget'
  <2>1. Buying' \subseteq Buying
    BY <1>22, <1>run DEF PollOrder, shop, provider, permits, world, At, Buying, Processes
  <2>2. purchases' = purchases /\ reorders' = reorders /\ (sub'.state = "none" => sub.state = "none")
    BY <1>22, <1>shop DEF PollOrder, shop, provider, permits, world, Subscriptions
  <2> QED
    BY <1>world, <1>budget, <2>1, <2>2, BudgetKept
<1>23. ASSUME NEW t \in Ticks, Assign(t)
      PROVE  Budget'
  <2>1. Buying' \subseteq Buying
    BY <1>23, <1>run DEF Assign, shop, provider, permits, world, At, Buying, Processes
  <2>2. purchases' = purchases /\ reorders' = reorders /\ (sub'.state = "none" => sub.state = "none")
    BY <1>23, <1>shop DEF Assign, shop, provider, permits, world, Subscriptions
  <2> QED
    BY <1>world, <1>budget, <2>1, <2>2, BudgetKept
<1>24. ASSUME NEW t \in Ticks, ReadStale(t)
      PROVE  Budget'
  <2>1. Buying' \subseteq Buying
    BY <1>24, <1>run
       DEF ReadStale, StalePosting, shop, provider, permits, world, At, Buying, Processes
  <2>2. purchases' = purchases /\ reorders' = reorders /\ (sub'.state = "none" => sub.state = "none")
    BY <1>24, <1>shop
       DEF ReadStale, StalePosting, shop, provider, permits, world, Subscriptions
  <2> QED
    BY <1>world, <1>budget, <2>1, <2>2, BudgetKept
<1>25. ASSUME NEW t \in Ticks, MarkUnknown(t)
      PROVE  Budget'
  <2>1. Buying' \subseteq Buying
    BY <1>25, <1>run DEF MarkUnknown, shop, provider, permits, world, At, Buying, Processes
  <2>2. purchases' = purchases /\ reorders' = reorders /\ (sub'.state = "none" => sub.state = "none")
    BY <1>25, <1>shop DEF MarkUnknown, shop, provider, permits, world, Subscriptions
  <2> QED
    BY <1>world, <1>budget, <2>1, <2>2, BudgetKept
<1>26. ASSUME NEW t \in Ticks, ReadPeriods(t)
      PROVE  Budget'
  <2>1. Buying' \subseteq Buying
    BY <1>26, <1>run
       DEF ReadPeriods, Extendable, Pending, shop, provider, permits, world, At, Buying,
       Processes
  <2>2. purchases' = purchases /\ reorders' = reorders /\ (sub'.state = "none" => sub.state = "none")
    BY <1>26, <1>shop
       DEF ReadPeriods, Extendable, Pending, shop, provider, permits, world, Subscriptions
  <2> QED
    BY <1>world, <1>budget, <2>1, <2>2, BudgetKept
<1>27. ASSUME NEW t \in Ticks, Prolong(t)
      PROVE  Budget'
  <2>1. Buying' \subseteq Buying
    <3>1. t \in Processes /\ run[t] \in Runs
      BY <1>27, <1>run DEF Processes
    <3>2. run'[t].pc \in {"post", "refused"} => run'[t].pc = run[t].pc
      BY <1>27, <1>run, <3>1 DEF Prolong, At, Runs
    <3>3. \A q \in Processes \ {t} : run'[q] = run[q]
      BY <1>27, <1>run, <3>1 DEF Prolong
    <3> QED
      BY <3>2, <3>3 DEF Buying, Processes
  <2>2. purchases' = purchases /\ reorders' = reorders /\ (sub'.state = "none" => sub.state = "none")
    BY <1>27, <1>shop DEF Prolong, shop, provider, permits, world, Subscriptions
  <2> QED
    BY <1>world, <1>budget, <2>1, <2>2, BudgetKept
<1>28. ASSUME NEW t \in Ticks, Refused(t)
      PROVE  Budget'
  <2>1. Buying' \subseteq Buying
    BY <1>28, <1>run DEF Refused, shop, provider, permits, world, At, Buying, Processes
  <2>2. purchases' = purchases /\ reorders' = reorders /\ (sub'.state = "none" => sub.state = "none")
    BY <1>28, <1>shop DEF Refused, shop, provider, permits, world, Subscriptions
  <2> QED
    BY <1>world, <1>budget, <2>1, <2>2, BudgetKept
<1>29. ASSUME NEW t \in Ticks, Silent(t)
      PROVE  Budget'
  <2>1. Buying' \subseteq Buying
    BY <1>29, <1>run DEF Silent, shop, provider, permits, world, At, Buying, Processes
  <2>2. purchases' = purchases /\ reorders' = reorders /\ (sub'.state = "none" => sub.state = "none")
    BY <1>29, <1>shop DEF Silent, shop, provider, permits, world, Subscriptions
  <2> QED
    BY <1>world, <1>budget, <2>1, <2>2, BudgetKept
<1>30. ASSUME NEW t \in Ticks, Prolonged(t)
      PROVE  Budget'
  <2>1. Buying' \subseteq Buying
    BY <1>30, <1>run DEF Prolonged, shop, provider, permits, world, At, Buying, Processes
  <2>2. purchases' = purchases /\ reorders' = reorders /\ (sub'.state = "none" => sub.state = "none")
    BY <1>30, <1>shop DEF Prolonged, shop, provider, permits, world, Subscriptions
  <2> QED
    BY <1>world, <1>budget, <2>1, <2>2, BudgetKept
<1>31. ASSUME NEW t \in Ticks, RefreshExpiry(t)
      PROVE  Budget'
  <2>1. Buying' \subseteq Buying
    <3>1. t \in Processes /\ run[t] \in Runs
      BY <1>31, <1>run DEF Processes
    <3>2. run'[t].pc \in {"post", "refused"} => run'[t].pc = run[t].pc
      BY <1>31, <1>run, <3>1 DEF RefreshExpiry, At, Runs
    <3>3. \A q \in Processes \ {t} : run'[q] = run[q]
      BY <1>31, <1>run, <3>1 DEF RefreshExpiry
    <3> QED
      BY <3>2, <3>3 DEF Buying, Processes
  <2>2. purchases' = purchases /\ reorders' = reorders /\ (sub'.state = "none" => sub.state = "none")
    BY <1>31, <1>shop
       DEF RefreshExpiry, SyncDue, Dated, shop, provider, permits, world, Subscriptions
  <2> QED
    BY <1>world, <1>budget, <2>1, <2>2, BudgetKept
<1>32. ASSUME NEW t \in Ticks, NEW i \in Items, ClaimPeriod(t, i)
      PROVE  Budget'
  <2>1. Buying' \subseteq Buying
    <3>1. t \in Processes /\ run[t] \in Runs
      BY <1>32, <1>run DEF Processes
    <3>2. run'[t].pc \in {"post", "refused"} => run'[t].pc = run[t].pc
      BY <1>32, <1>run, <3>1 DEF ClaimPeriod, At, Runs
    <3>3. \A q \in Processes \ {t} : run'[q] = run[q]
      BY <1>32, <1>run, <3>1 DEF ClaimPeriod
    <3> QED
      BY <3>2, <3>3 DEF Buying, Processes
  <2>2. purchases' = purchases /\ reorders' = reorders /\ (sub'.state = "none" => sub.state = "none")
    BY <1>32, <1>shop DEF ClaimPeriod, shop, provider, permits, world, Subscriptions
  <2> QED
    BY <1>world, <1>budget, <2>1, <2>2, BudgetKept
<1>33. ASSUME NEW t \in Ticks, NEW i \in Items, MarkExtending(t, i)
      PROVE  Budget'
  <2>1. Buying' \subseteq Buying
    BY <1>33, <1>run DEF MarkExtending, shop, provider, permits, world, At, Buying, Processes
  <2>2. purchases' = purchases /\ reorders' = reorders /\ (sub'.state = "none" => sub.state = "none")
    BY <1>33, <1>shop
       DEF MarkExtending, shop, provider, permits, world, Subscriptions
  <2> QED
    BY <1>world, <1>budget, <2>1, <2>2, BudgetKept
<1>33a. ASSUME NEW t \in Ticks, ReadExtending(t)
      PROVE  Budget'
  <2>1. Buying' \subseteq Buying
    BY <1>33a, <1>run
       DEF ReadExtending, StaleExtending, shop, provider, permits, world, At, Buying, Processes
  <2>2. purchases' = purchases /\ reorders' = reorders /\ (sub'.state = "none" => sub.state = "none")
    BY <1>33a, <1>shop
       DEF ReadExtending, StaleExtending, shop, provider, permits, world, Subscriptions
  <2> QED
    BY <1>world, <1>budget, <2>1, <2>2, BudgetKept
<1>34. ASSUME NEW r \in Reports, Report(r)
      PROVE  Budget'
  <2>1. Buying' \subseteq Buying
    BY <1>34, <1>run DEF Report, shop, provider, permits, world, At, Buying, Processes
  <2>2. purchases' = purchases /\ reorders' = reorders /\ (sub'.state = "none" => sub.state = "none")
    BY <1>34, <1>shop DEF Report, shop, provider, permits, world, Subscriptions
  <2> QED
    BY <1>world, <1>budget, <2>1, <2>2, BudgetKept
<1>35. ASSUME NEW a \in Admins, BeginSuspend(a)
      PROVE  Budget'
  <2>1. Buying' = Buying
    BY <1>35 DEF BeginSuspend, Begin, Act, Upset, shop, provider, permits, world, Buying
  <2>2. purchases' = purchases /\ reorders' = reorders /\ (sub'.state = "none" => sub.state = "none")
    BY <1>35, <1>shop
       DEF BeginSuspend, Begin, Act, Upset, shop, provider, permits, world, Subscriptions
  <2> QED
    BY <1>world, <1>budget, <2>1, <2>2, BudgetKept
<1>36. ASSUME NEW a \in Admins, BeginResume(a)
      PROVE  Budget'
  <2>1. Buying' = Buying
    BY <1>36 DEF BeginResume, Begin, Act, Upset, shop, provider, permits, world, Buying
  <2>2. purchases' = purchases /\ reorders' = reorders /\ (sub'.state = "none" => sub.state = "none")
    BY <1>36, <1>shop
       DEF BeginResume, Begin, Act, Upset, shop, provider, permits, world, Subscriptions
  <2> QED
    BY <1>world, <1>budget, <2>1, <2>2, BudgetKept
<1>37. ASSUME NEW a \in Admins, BeginReplace(a)
      PROVE  Budget'
  <2>1. Buying' = Buying
    BY <1>37
       DEF BeginReplace, Begin, Act, Upset, Bought, shop, provider, permits, world, Buying
  <2>2. purchases' = purchases /\ reorders' = reorders /\ (sub'.state = "none" => sub.state = "none")
    BY <1>37, <1>shop
       DEF BeginReplace, Begin, Act, Upset, Bought, shop, provider, permits, world,
       Subscriptions
  <2> QED
    BY <1>world, <1>budget, <2>1, <2>2, BudgetKept
<1>38. ASSUME NEW a \in Admins, BeginSetOrder(a)
      PROVE  Budget'
  <2>1. Buying' = Buying
    BY <1>38
       DEF BeginSetOrder, Begin, Act, Upset, Unclear, shop, provider, permits, world, Buying
  <2>2. purchases' = purchases /\ reorders' = reorders /\ (sub'.state = "none" => sub.state = "none")
    BY <1>38, <1>shop
       DEF BeginSetOrder, Begin, Act, Upset, Unclear, shop, provider, permits, world,
       Subscriptions
  <2> QED
    BY <1>world, <1>budget, <2>1, <2>2, BudgetKept
<1>39. ASSUME NEW a \in Admins, BeginReorder(a)
      PROVE  Budget'
  <2>1. Buying' = Buying
    BY <1>39
       DEF BeginReorder, Begin, Act, Upset, Unclear, shop, provider, permits, world, Buying
  <2>2. purchases' = purchases /\ reorders' = reorders /\ (sub'.state = "none" => sub.state = "none")
    BY <1>39, <1>shop
       DEF BeginReorder, Begin, Act, Upset, Unclear, shop, provider, permits, world,
       Subscriptions
  <2> QED
    BY <1>world, <1>budget, <2>1, <2>2, BudgetKept
<1>40. ASSUME NEW a \in Admins, Suspend(a)
      PROVE  Budget'
  <2>1. Buying' = Buying
    BY <1>40 DEF Suspend, End, shop, provider, permits, world, End, Buying
  <2>2. purchases' = purchases /\ reorders' = reorders /\ (sub'.state = "none" => sub.state = "none")
    BY <1>40, <1>shop DEF Suspend, End, shop, provider, permits, world, End, Subscriptions
  <2> QED
    BY <1>world, <1>budget, <2>1, <2>2, BudgetKept
<1>41. ASSUME NEW a \in Admins, Resume(a)
      PROVE  Budget'
  <2>1. Buying' = Buying
    BY <1>41 DEF Resume, End, Restart, shop, provider, permits, world, End, Buying
  <2>2. purchases' = purchases /\ reorders' = reorders /\ (sub'.state = "none" => sub.state = "none")
    BY <1>41, <1>shop
       DEF Resume, End, Restart, shop, provider, permits, world, End, Subscriptions
  <2> QED
    BY <1>world, <1>budget, <2>1, <2>2, BudgetKept
<1>42. ASSUME NEW a \in Admins, Replace(a)
      PROVE  Budget'
  <2>1. Buying' = Buying
    BY <1>42
       DEF Replace, End, Restart, FirstTerm, Counted, shop, provider, permits, world, End,
       Buying
  <2>2. purchases' = purchases /\ reorders' = reorders /\ (sub'.state = "none" => sub.state = "none")
    BY <1>42, <1>shop
       DEF Replace, End, Restart, FirstTerm, Counted, shop, provider, permits, world, End,
       Subscriptions
  <2> QED
    BY <1>world, <1>budget, <2>1, <2>2, BudgetKept
<1>43. ASSUME NEW a \in Admins, SetOrder(a)
      PROVE  Budget'
  <2>1. Buying' = Buying
    BY <1>43
       DEF SetOrder, End, FirstTerm, Counted, shop, provider, permits, world, End, Buying
  <2>2. purchases' = purchases /\ reorders' = reorders /\ (sub'.state = "none" => sub.state = "none")
    BY <1>43, <1>shop
       DEF SetOrder, End, FirstTerm, Counted, shop, provider, permits, world, End,
       Subscriptions
  <2> QED
    BY <1>world, <1>budget, <2>1, <2>2, BudgetKept
<1>44. ASSUME NEW a \in Admins, Reorder(a)
      PROVE  Budget'
  <2>1. Buying' = Buying
    BY <1>44 DEF Reorder, End, Buying
  <2>2. purchases' = purchases /\ reorders' = reorders + 1
    BY <1>44 DEF Reorder, End, provider
  <2> QED
    BY <1>world, <1>budget, <2>1, <2>2, BuyingFinite DEF Budget, WorldSound
<1>45. ASSUME NEW a \in Admins, NEW name \in {"done", "retry"}, PeriodByHand(a, name)
      PROVE  Budget'
  <2>1. Buying' = Buying
    BY <1>45 DEF PeriodByHand, End, shop, provider, permits, world, End, Buying
  <2>2. purchases' = purchases /\ reorders' = reorders /\ (sub'.state = "none" => sub.state = "none")
    BY <1>45, <1>shop
       DEF PeriodByHand, End, shop, provider, permits, world, End, Subscriptions
  <2> QED
    BY <1>world, <1>budget, <2>1, <2>2, BudgetKept
<1>46. ASSUME NEW a \in Admins, NEW name \in {"done", "retry"}, NEW i \in Items, BeginPeriod(a, i, name)
      PROVE  Budget'
  <2>1. Buying' = Buying
    BY <1>46 DEF BeginPeriod, Begin, Act, Upset, shop, provider, permits, world, Buying
  <2>2. purchases' = purchases /\ reorders' = reorders /\ (sub'.state = "none" => sub.state = "none")
    BY <1>46, <1>shop
       DEF BeginPeriod, Begin, Act, Upset, shop, provider, permits, world, Subscriptions
  <2> QED
    BY <1>world, <1>budget, <2>1, <2>2, BudgetKept
<1>47. CASE UNCHANGED vars
  <2>1. Buying' = Buying
    BY <1>47 DEF vars, shop, provider, permits, Buying
  <2>2. purchases' = purchases /\ reorders' = reorders /\ (sub'.state = "none" => sub.state = "none")
    BY <1>47, <1>shop DEF vars, shop, provider, permits, Subscriptions
  <2> QED
    BY <1>world, <1>budget, <2>1, <2>2, BudgetKept
<1> QED
  BY <1>1, <1>2, <1>3, <1>4, <1>5, <1>6, <1>7, <1>8, <1>9, <1>10, <1>11, <1>12, <1>13,
     <1>14, <1>15, <1>16, <1>17, <1>18, <1>19, <1>20, <1>21, <1>22, <1>23, <1>24, <1>25,
     <1>26, <1>27, <1>28, <1>29, <1>30, <1>31, <1>32, <1>33, <1>33a, <1>34, <1>35, <1>36, <1>37,
     <1>38, <1>39, <1>40, <1>41, <1>42, <1>43, <1>44, <1>45, <1>46, <1>47
     DEF Next, Both, TickSteps, OrderSteps, ExtendSteps, AdminSteps, Processes

\* The shop asks the provider to sell once for a subscription, and once more for
\* each permission of an administrator (createOrder is called under the claim that
\* placeOrder takes, and a call without an answer does not give it back).
THEOREM PurchasedOnce == Spec => []NoSecondPurchase
<1>1. Init => Budget
  <2> SUFFICES ASSUME Init PROVE Budget
    OBVIOUS
  <2>1. Buying = {}
    BY DEF Init, At, Buying, Processes
  <2> QED
    BY <2>1, FS_EmptySet DEF Init, NoSubscription, Budget
<1>2. Inv /\ Budget /\ [Next]_vars => Budget'
  BY BudgetStep
<1>3. Inv /\ Budget => NoSecondPurchase
  BY BuyingFinite DEF Inv, WorldSound, Budget, NoSecondPurchase
<1> QED
  BY InvInit, InvNext, <1>1, <1>2, <1>3, PTL DEF Spec

\* A refund that was seen is there, and stops the subscription; a run that is about
\* to write what it saw has seen the refund too, and if what it saw does not run,
\* the subscription does not run now.
Ending == {"revoke", "stop"}

Stopped ==
  /\ sub.refundSeen => sale[First] = "refunded"
  /\ sub.refundSeen /\ ~ restarted => sub.status \notin Running
  /\ \A p \in Processes : run[p].pc \in Ending =>
       /\ sale[First] = "refunded"
       /\ run[p].saw \notin Running /\ ~ restarted => sub.status \notin Running

\* A step that sees no refund and sets nothing going.
Calm ==
  /\ sub'.refundSeen => sub.refundSeen
  /\ sub'.status \in Running => sub.status \in Running
  /\ restarted => restarted'
  /\ sale[First] = "refunded" => sale'[First] = "refunded"
  /\ \A p \in Processes :
       run'[p].pc \in Ending => run[p].pc \in Ending /\ run'[p].saw = run[p].saw

LEMMA CalmKeeps == Stopped /\ WorldSound /\ WorldSound' /\ Calm => Stopped'
BY DEF Stopped, Calm, WorldSound

\* Nothing but an administrator sets a refunded subscription going.
LEMMA StoppedStep ==
  ASSUME Inv, Stopped, [Next]_vars
  PROVE  Stopped'
<1> USE HostedAssumption
<1> USE DEF Go, Items
<1>stopped. Stopped
  OBVIOUS
<1>run. run \in [Processes -> Runs]
  BY DEF Inv, RunsSound
<1>knows. \A p \in Processes : RunKnows(p)
  BY DEF Inv, RunsSound
<1>world. WorldSound /\ WorldSound'
  BY WorldStep DEF Inv
<1>shop. /\ sub \in Subscriptions /\ period \in [Items -> Periods]
         /\ sub.ip => sub.order # 0
         /\ sub.state = "ordered" => sub.order # 0
         /\ sub.status # "absent" \/ sub.state # "none" => Begun
         /\ ~ Begun => sub = NoSubscription
  BY DEF Inv, ShopSound, NoSubscription
<1>1. ASSUME NEW i \in Items, Pay(i)
      PROVE  Stopped'
  <2>1. Calm
    <3>1. sub'.refundSeen => sub.refundSeen
      BY <1>1, <1>shop DEF Pay, shop, permits, world, Subscriptions
    <3>2. sub'.status \in Running => sub.status \in Running
      BY <1>1, <1>shop DEF Pay, shop, permits, world, Subscriptions, Running
    <3>3. (restarted => restarted') /\ (sale[First] = "refunded" => sale'[First] = "refunded")
      BY <1>1, <1>world DEF Pay, shop, permits, world, WorldSound
    <3>4. \A q \in Processes : run'[q].pc \in Ending => run[q].pc \in Ending /\ run'[q].saw = run[q].saw
      BY <1>1 DEF Pay, shop, permits, world
    <3> QED
      BY <3>1, <3>2, <3>3, <3>4 DEF Calm
  <2> QED
    BY <1>stopped, <1>world, <2>1, CalmKeeps
<1>2. ASSUME NEW i \in Items, Refund(i)
      PROVE  Stopped'
  <2>1. Calm
    <3>1. sub'.refundSeen => sub.refundSeen
      BY <1>2, <1>shop DEF Refund, shop, permits, world, Subscriptions
    <3>2. sub'.status \in Running => sub.status \in Running
      BY <1>2, <1>shop DEF Refund, shop, permits, world, Subscriptions, Running
    <3>3. (restarted => restarted') /\ (sale[First] = "refunded" => sale'[First] = "refunded")
      BY <1>2, <1>world DEF Refund, shop, permits, world, WorldSound
    <3>4. \A q \in Processes : run'[q].pc \in Ending => run[q].pc \in Ending /\ run'[q].saw = run[q].saw
      BY <1>2 DEF Refund, shop, permits, world
    <3> QED
      BY <3>1, <3>2, <3>3, <3>4 DEF Calm
  <2> QED
    BY <1>stopped, <1>world, <2>1, CalmKeeps
<1>3. ASSUME NEW p \in Processes, ReadTested(p)
      PROVE  Stopped'
  <2>1. Calm
    <3>1. sub'.refundSeen => sub.refundSeen
      BY <1>3, <1>shop DEF ReadTested, Testable, shop, permits, world, Subscriptions
    <3>2. sub'.status \in Running => sub.status \in Running
      BY <1>3, <1>shop
         DEF ReadTested, Testable, shop, permits, world, Subscriptions, Running
    <3>3. (restarted => restarted') /\ (sale[First] = "refunded" => sale'[First] = "refunded")
      BY <1>3, <1>world DEF ReadTested, Testable, shop, permits, world, WorldSound
    <3>4. \A q \in Processes : run'[q].pc \in Ending => run[q].pc \in Ending /\ run'[q].saw = run[q].saw
      BY <1>3, <1>run
         DEF ReadTested, Testable, shop, permits, world, At, Ending, Processes, Runs
    <3> QED
      BY <3>1, <3>2, <3>3, <3>4 DEF Calm
  <2> QED
    BY <1>stopped, <1>world, <2>1, CalmKeeps
<1>4. ASSUME NEW p \in Processes, Judge(p)
      PROVE  Stopped'
  <2>1. Calm
    <3>1. sub'.refundSeen => sub.refundSeen
      BY <1>4, <1>shop DEF Judge, Leave, Testable, shop, permits, world, Subscriptions
    <3>2. sub'.status \in Running => sub.status \in Running
      BY <1>4, <1>shop
         DEF Judge, Leave, Testable, shop, permits, world, Subscriptions, Running
    <3>3. (restarted => restarted') /\ (sale[First] = "refunded" => sale'[First] = "refunded")
      BY <1>4, <1>world DEF Judge, Leave, Testable, shop, permits, world, WorldSound
    <3>4. \A q \in Processes : run'[q].pc \in Ending => run[q].pc \in Ending /\ run'[q].saw = run[q].saw
      BY <1>4, <1>run
         DEF Judge, Leave, Testable, shop, permits, world, At, Ending, Processes, Runs
    <3> QED
      BY <3>1, <3>2, <3>3, <3>4 DEF Calm
  <2> QED
    BY <1>stopped, <1>world, <2>1, CalmKeeps
<1>5. ASSUME NEW p \in Processes, PassOver(p)
      PROVE  Stopped'
  <2>1. Calm
    <3>1. sub'.refundSeen => sub.refundSeen
      BY <1>5, <1>shop DEF PassOver, Busy, shop, permits, world, Subscriptions
    <3>2. sub'.status \in Running => sub.status \in Running
      BY <1>5, <1>shop DEF PassOver, Busy, shop, permits, world, Subscriptions, Running
    <3>3. (restarted => restarted') /\ (sale[First] = "refunded" => sale'[First] = "refunded")
      BY <1>5, <1>world DEF PassOver, Busy, shop, permits, world, WorldSound
    <3>4. \A q \in Processes : run'[q].pc \in Ending => run[q].pc \in Ending /\ run'[q].saw = run[q].saw
      <4>1. CASE p \in Ticks /\ run[p].pc \in DOMAIN After
        <5>1. After[run[p].pc] \notin Ending
          BY <4>1, PlacesOfAfter DEF Ending
        <5> QED
          BY <1>5, <1>run, <5>1 DEF PassOver, At, Ending, Processes
      <4>2. CASE ~ (p \in Ticks /\ run[p].pc \in DOMAIN After)
        BY <1>5, <1>run, <4>2 DEF PassOver, At, Ending, Processes
      <4> QED
        BY <4>1, <4>2
    <3> QED
      BY <3>1, <3>2, <3>3, <3>4 DEF Calm
  <2> QED
    BY <1>stopped, <1>world, <2>1, CalmKeeps
<1>6. ASSUME NEW p \in Processes, Crash(p)
      PROVE  Stopped'
  <2>1. Calm
    <3>1. sub'.refundSeen => sub.refundSeen
      BY <1>6, <1>shop DEF Crash, Upset, shop, permits, world, Subscriptions
    <3>2. sub'.status \in Running => sub.status \in Running
      BY <1>6, <1>shop DEF Crash, Upset, shop, permits, world, Subscriptions, Running
    <3>3. (restarted => restarted') /\ (sale[First] = "refunded" => sale'[First] = "refunded")
      BY <1>6, <1>world DEF Crash, Upset, shop, permits, world, WorldSound
    <3>4. \A q \in Processes : run'[q].pc \in Ending => run[q].pc \in Ending /\ run'[q].saw = run[q].saw
      BY <1>6, <1>run DEF Crash, Upset, shop, permits, world, At, Ending, Processes, Runs
    <3> QED
      BY <3>1, <3>2, <3>3, <3>4 DEF Calm
  <2> QED
    BY <1>stopped, <1>world, <2>1, CalmKeeps
<1>7. ASSUME NEW t \in Ticks, Start(t)
      PROVE  Stopped'
  <2>1. Calm
    <3>1. sub'.refundSeen => sub.refundSeen
      BY <1>7, <1>shop DEF Start, shop, permits, world, Subscriptions
    <3>2. sub'.status \in Running => sub.status \in Running
      BY <1>7, <1>shop DEF Start, shop, permits, world, Subscriptions, Running
    <3>3. (restarted => restarted') /\ (sale[First] = "refunded" => sale'[First] = "refunded")
      BY <1>7, <1>world DEF Start, shop, permits, world, WorldSound
    <3>4. \A q \in Processes : run'[q].pc \in Ending => run[q].pc \in Ending /\ run'[q].saw = run[q].saw
      BY <1>7, <1>run DEF Start, shop, permits, world, At, Ending, Processes, Runs
    <3> QED
      BY <3>1, <3>2, <3>3, <3>4 DEF Calm
  <2> QED
    BY <1>stopped, <1>world, <2>1, CalmKeeps
<1>8. ASSUME NEW t \in Ticks, Insert(t)
      PROVE  Stopped'
  <2>1. \A p \in Processes : run'[p].pc \in Ending => run'[p] = run[p]
    BY <1>8, <1>run DEF Insert, At, Ending, Processes
  <2>2. UNCHANGED <<sale, restarted>>
    BY <1>8 DEF Insert, Period, NoSubscription, shop, permits, world
  <2>3. CASE UNCHANGED sub
    <3>1. Calm
      BY <2>1, <2>2, <2>3 DEF Calm
    <3> QED
      BY <1>stopped, <1>world, <3>1, CalmKeeps
  <2>4. CASE ~ UNCHANGED sub
    <3>1. ~ Begun /\ sub'.refundSeen = FALSE
      BY <1>8, <2>4 DEF Insert, Period, NoSubscription, shop, permits, world, Begun
    <3>2. \A p \in Processes : run[p].pc \notin Ending
      BY <1>knows, <3>1 DEF RunKnows, AfterStart, Ending
    <3> QED
      BY <2>1, <3>1, <3>2 DEF Stopped
  <2> QED
    BY <2>3, <2>4
<1>9. ASSUME NEW t \in Ticks, ReadRefund(t)
      PROVE  Stopped'
  <2>1. sale[First] = "refunded" /\ UNCHANGED <<sub, sale, restarted>>
    BY <1>9 DEF ReadRefund, RefundUnseen, shop, permits, world
  <2>2. run'[t].saw = sub.status
    BY <1>9, <1>run DEF ReadRefund, At, Processes
  <2>3. \A p \in Processes \ {t} : run'[p] = run[p]
    BY <1>9, <1>run DEF ReadRefund
  <2> QED
    BY <1>stopped, <2>1, <2>2, <2>3 DEF Stopped
<1>10. ASSUME NEW t \in Ticks, Revoke(t)
      PROVE  Stopped'
  <2>1. sale[First] = "refunded"
    BY <1>10, <1>stopped DEF Revoke, Stopped, Ending, Processes
  <2>2. CASE sub.status = "awaiting_ip" /\ sub.state = "none"
    <3>1. sub'.status = "cancelled" /\ UNCHANGED <<sale, restarted>>
      BY <1>10, <2>2, <1>shop DEF Revoke, shop, permits, world, Subscriptions
    <3>2. \A p \in Processes : run'[p].pc \in Ending => run[p].pc \in Ending
      BY <1>10, <2>2, <1>run DEF Revoke, At, Ending
    <3> QED
      BY <1>stopped, <2>1, <3>1, <3>2 DEF Stopped, Running
  <2>3. CASE ~ (sub.status = "awaiting_ip" /\ sub.state = "none")
    <3>1. UNCHANGED <<sub, sale, restarted>>
      BY <1>10, <2>3 DEF Revoke, shop, permits, world
    <3>2. run'[t].saw = run[t].saw /\ run[t].pc \in Ending
      BY <1>10, <2>3, <1>run DEF Revoke, Processes, Runs, Ending
    <3>3. \A p \in Processes \ {t} : run'[p] = run[p]
      BY <1>10, <2>3, <1>run DEF Revoke
    <3>4. Calm
      BY <3>1, <3>2, <3>3 DEF Calm
    <3> QED
      BY <1>stopped, <1>world, <3>4, CalmKeeps
  <2> QED
    BY <2>2, <2>3
<1>11. ASSUME NEW t \in Ticks, Stop(t)
      PROVE  Stopped'
  <2>1. sale[First] = "refunded" /\ (run[t].saw \notin Running /\ ~ restarted => sub.status \notin Running)
    BY <1>11, <1>stopped DEF Stop, Stopped, Ending, Processes
  <2>2. sub'.status \in {sub.status, "suspended"} /\ UNCHANGED <<sale, restarted>>
    BY <1>11, <1>shop DEF Stop, shop, permits, world, Subscriptions
  <2>3. run[t].saw \in Running => sub'.status = "suspended"
    BY <1>11, <1>shop DEF Stop, Subscriptions
  <2>4. \A p \in Processes : run'[p].pc \in Ending => run'[p] = run[p]
    BY <1>11, <1>run DEF Stop, At, Ending
  <2> QED
    BY <1>stopped, <2>1, <2>2, <2>3, <2>4 DEF Stopped, Running
<1>12. ASSUME NEW t \in Ticks, Handled(t)
      PROVE  Stopped'
  <2>1. Calm
    <3>1. sub'.refundSeen => sub.refundSeen
      BY <1>12, <1>shop DEF Handled, shop, permits, world, Subscriptions
    <3>2. sub'.status \in Running => sub.status \in Running
      BY <1>12, <1>shop DEF Handled, shop, permits, world, Subscriptions, Running
    <3>3. (restarted => restarted') /\ (sale[First] = "refunded" => sale'[First] = "refunded")
      BY <1>12, <1>world DEF Handled, shop, permits, world, WorldSound
    <3>4. \A q \in Processes : run'[q].pc \in Ending => run[q].pc \in Ending /\ run'[q].saw = run[q].saw
      BY <1>12, <1>run DEF Handled, shop, permits, world, At, Ending, Processes, Runs
    <3> QED
      BY <3>1, <3>2, <3>3, <3>4 DEF Calm
  <2> QED
    BY <1>stopped, <1>world, <2>1, CalmKeeps
<1>13. ASSUME NEW t \in Ticks, Expire(t)
      PROVE  Stopped'
  <2>1. Calm
    <3>1. sub'.refundSeen => sub.refundSeen
      BY <1>13, <1>shop DEF Expire, Expirable, shop, permits, world, Subscriptions
    <3>2. sub'.status \in Running => sub.status \in Running
      BY <1>13, <1>shop DEF Expire, Expirable, shop, permits, world, Subscriptions, Running
    <3>3. (restarted => restarted') /\ (sale[First] = "refunded" => sale'[First] = "refunded")
      BY <1>13, <1>world DEF Expire, Expirable, shop, permits, world, WorldSound
    <3>4. \A q \in Processes : run'[q].pc \in Ending => run[q].pc \in Ending /\ run'[q].saw = run[q].saw
      BY <1>13, <1>run
         DEF Expire, Expirable, shop, permits, world, At, Ending, Processes, Runs
    <3> QED
      BY <3>1, <3>2, <3>3, <3>4 DEF Calm
  <2> QED
    BY <1>stopped, <1>world, <2>1, CalmKeeps
<1>14. ASSUME NEW t \in Ticks, CancelUnapplied(t)
      PROVE  Stopped'
  <2>1. Calm
    <3>1. sub'.refundSeen => sub.refundSeen
      BY <1>14, <1>shop DEF CancelUnapplied, shop, permits, world, Subscriptions
    <3>2. sub'.status \in Running => sub.status \in Running
      BY <1>14, <1>shop DEF CancelUnapplied, shop, permits, world, Subscriptions, Running
    <3>3. (restarted => restarted') /\ (sale[First] = "refunded" => sale'[First] = "refunded")
      BY <1>14, <1>world DEF CancelUnapplied, shop, permits, world, WorldSound
    <3>4. \A q \in Processes : run'[q].pc \in Ending => run[q].pc \in Ending /\ run'[q].saw = run[q].saw
      BY <1>14, <1>run
         DEF CancelUnapplied, shop, permits, world, At, Ending, Processes, Runs
    <3> QED
      BY <3>1, <3>2, <3>3, <3>4 DEF Calm
  <2> QED
    BY <1>stopped, <1>world, <2>1, CalmKeeps
<1>15. ASSUME NEW t \in Ticks, NEW i \in Items, ReadItem(t, i)
      PROVE  Stopped'
  <2>1. Calm
    <3>1. sub'.refundSeen => sub.refundSeen
      BY <1>15, <1>shop DEF ReadItem, shop, permits, world, Subscriptions
    <3>2. sub'.status \in Running => sub.status \in Running
      BY <1>15, <1>shop DEF ReadItem, shop, permits, world, Subscriptions, Running
    <3>3. (restarted => restarted') /\ (sale[First] = "refunded" => sale'[First] = "refunded")
      BY <1>15, <1>world DEF ReadItem, shop, permits, world, WorldSound
    <3>4. \A q \in Processes : run'[q].pc \in Ending => run[q].pc \in Ending /\ run'[q].saw = run[q].saw
      BY <1>15, <1>run DEF ReadItem, shop, permits, world, At, Ending, Processes, Runs
    <3> QED
      BY <3>1, <3>2, <3>3, <3>4 DEF Calm
  <2> QED
    BY <1>stopped, <1>world, <2>1, CalmKeeps
<1>16. ASSUME NEW t \in Ticks, NEW i \in Renewals, CancelRenewal(t, i)
      PROVE  Stopped'
  <2>1. Calm
    <3>1. sub'.refundSeen => sub.refundSeen
      BY <1>16, <1>shop
         DEF CancelRenewal, RenewalRefunded, shop, permits, world, Subscriptions
    <3>2. sub'.status \in Running => sub.status \in Running
      BY <1>16, <1>shop
         DEF CancelRenewal, RenewalRefunded, shop, permits, world, Subscriptions, Running
    <3>3. (restarted => restarted') /\ (sale[First] = "refunded" => sale'[First] = "refunded")
      BY <1>16, <1>world
         DEF CancelRenewal, RenewalRefunded, shop, permits, world, WorldSound
    <3>4. \A q \in Processes : run'[q].pc \in Ending => run[q].pc \in Ending /\ run'[q].saw = run[q].saw
      BY <1>16, <1>run
         DEF CancelRenewal, RenewalRefunded, shop, permits, world, At, Ending, Processes,
         Runs
    <3> QED
      BY <3>1, <3>2, <3>3, <3>4 DEF Calm
  <2> QED
    BY <1>stopped, <1>world, <2>1, CalmKeeps
<1>17. ASSUME NEW t \in Ticks, ClaimOrder(t)
      PROVE  Stopped'
  <2>1. Calm
    <3>1. sub'.refundSeen => sub.refundSeen
      BY <1>17, <1>shop DEF ClaimOrder, MayOrder, shop, permits, world, Subscriptions
    <3>2. sub'.status \in Running => sub.status \in Running
      BY <1>17, <1>shop
         DEF ClaimOrder, MayOrder, shop, permits, world, Subscriptions, Running
    <3>3. (restarted => restarted') /\ (sale[First] = "refunded" => sale'[First] = "refunded")
      BY <1>17, <1>world DEF ClaimOrder, MayOrder, shop, permits, world, WorldSound
    <3>4. \A q \in Processes : run'[q].pc \in Ending => run[q].pc \in Ending /\ run'[q].saw = run[q].saw
      BY <1>17, <1>run
         DEF ClaimOrder, MayOrder, shop, permits, world, At, Ending, Processes, Runs
    <3> QED
      BY <3>1, <3>2, <3>3, <3>4 DEF Calm
  <2> QED
    BY <1>stopped, <1>world, <2>1, CalmKeeps
<1>18. ASSUME NEW t \in Ticks, PostOrder(t)
      PROVE  Stopped'
  <2>1. Calm
    <3>1. sub'.refundSeen => sub.refundSeen
      BY <1>18, <1>shop DEF PostOrder, Bought, shop, permits, world, Subscriptions
    <3>2. sub'.status \in Running => sub.status \in Running
      BY <1>18, <1>shop DEF PostOrder, Bought, shop, permits, world, Subscriptions, Running
    <3>3. (restarted => restarted') /\ (sale[First] = "refunded" => sale'[First] = "refunded")
      BY <1>18, <1>world DEF PostOrder, Bought, shop, permits, world, WorldSound
    <3>4. \A q \in Processes : run'[q].pc \in Ending => run[q].pc \in Ending /\ run'[q].saw = run[q].saw
      BY <1>18, <1>run
         DEF PostOrder, Bought, shop, permits, world, At, Ending, Processes, Runs
    <3> QED
      BY <3>1, <3>2, <3>3, <3>4 DEF Calm
  <2> QED
    BY <1>stopped, <1>world, <2>1, CalmKeeps
<1>19. ASSUME NEW t \in Ticks, OrderRefused(t)
      PROVE  Stopped'
  <2>1. Calm
    <3>1. sub'.refundSeen => sub.refundSeen
      BY <1>19, <1>shop DEF OrderRefused, shop, permits, world, Subscriptions
    <3>2. sub'.status \in Running => sub.status \in Running
      BY <1>19, <1>shop DEF OrderRefused, shop, permits, world, Subscriptions, Running
    <3>3. (restarted => restarted') /\ (sale[First] = "refunded" => sale'[First] = "refunded")
      BY <1>19, <1>world DEF OrderRefused, shop, permits, world, WorldSound
    <3>4. \A q \in Processes : run'[q].pc \in Ending => run[q].pc \in Ending /\ run'[q].saw = run[q].saw
      BY <1>19, <1>run DEF OrderRefused, shop, permits, world, At, Ending, Processes, Runs
    <3> QED
      BY <3>1, <3>2, <3>3, <3>4 DEF Calm
  <2> QED
    BY <1>stopped, <1>world, <2>1, CalmKeeps
<1>20. ASSUME NEW t \in Ticks, OrderLost(t)
      PROVE  Stopped'
  <2>1. Calm
    <3>1. sub'.refundSeen => sub.refundSeen
      BY <1>20, <1>shop DEF OrderLost, shop, permits, world, Subscriptions
    <3>2. sub'.status \in Running => sub.status \in Running
      BY <1>20, <1>shop DEF OrderLost, shop, permits, world, Subscriptions, Running
    <3>3. (restarted => restarted') /\ (sale[First] = "refunded" => sale'[First] = "refunded")
      BY <1>20, <1>world DEF OrderLost, shop, permits, world, WorldSound
    <3>4. \A q \in Processes : run'[q].pc \in Ending => run[q].pc \in Ending /\ run'[q].saw = run[q].saw
      BY <1>20, <1>run DEF OrderLost, shop, permits, world, At, Ending, Processes, Runs
    <3> QED
      BY <3>1, <3>2, <3>3, <3>4 DEF Calm
  <2> QED
    BY <1>stopped, <1>world, <2>1, CalmKeeps
<1>21. ASSUME NEW t \in Ticks, Ordered(t)
      PROVE  Stopped'
  <2>1. Calm
    <3>1. sub'.refundSeen => sub.refundSeen
      BY <1>21, <1>shop DEF Ordered, FirstTerm, shop, permits, world, Subscriptions
    <3>2. sub'.status \in Running => sub.status \in Running
      BY <1>21, <1>shop DEF Ordered, FirstTerm, shop, permits, world, Subscriptions, Running
    <3>3. (restarted => restarted') /\ (sale[First] = "refunded" => sale'[First] = "refunded")
      BY <1>21, <1>world DEF Ordered, FirstTerm, shop, permits, world, WorldSound
    <3>4. \A q \in Processes : run'[q].pc \in Ending => run[q].pc \in Ending /\ run'[q].saw = run[q].saw
      BY <1>21, <1>run
         DEF Ordered, FirstTerm, shop, permits, world, At, Ending, Processes, Runs
    <3> QED
      BY <3>1, <3>2, <3>3, <3>4 DEF Calm
  <2> QED
    BY <1>stopped, <1>world, <2>1, CalmKeeps
<1>22. ASSUME NEW t \in Ticks, PollOrder(t)
      PROVE  Stopped'
  <2>1. Calm
    <3>1. sub'.refundSeen => sub.refundSeen
      BY <1>22, <1>shop DEF PollOrder, shop, permits, world, Subscriptions
    <3>2. sub'.status \in Running => sub.status \in Running
      BY <1>22, <1>shop DEF PollOrder, shop, permits, world, Subscriptions, Running
    <3>3. (restarted => restarted') /\ (sale[First] = "refunded" => sale'[First] = "refunded")
      BY <1>22, <1>world DEF PollOrder, shop, permits, world, WorldSound
    <3>4. \A q \in Processes : run'[q].pc \in Ending => run[q].pc \in Ending /\ run'[q].saw = run[q].saw
      <4>1. \A q \in Processes : run'[q].pc \in {"posting", "assign"} \/ run'[q] = run[q]
        BY <1>22, <1>run DEF PollOrder, At, Processes
      <4> QED
        BY <4>1 DEF Ending
    <3> QED
      BY <3>1, <3>2, <3>3, <3>4 DEF Calm
  <2> QED
    BY <1>stopped, <1>world, <2>1, CalmKeeps
<1>23. ASSUME NEW t \in Ticks, Assign(t)
      PROVE  Stopped'
  <2>1. Calm
    <3>1. sub'.refundSeen => sub.refundSeen
      BY <1>23, <1>shop DEF Assign, shop, permits, world, Subscriptions
    <3>2. sub'.status \in Running => sub.status \in Running
      BY <1>23, <1>shop DEF Assign, shop, permits, world, Subscriptions, Running
    <3>3. (restarted => restarted') /\ (sale[First] = "refunded" => sale'[First] = "refunded")
      BY <1>23, <1>world DEF Assign, shop, permits, world, WorldSound
    <3>4. \A q \in Processes : run'[q].pc \in Ending => run[q].pc \in Ending /\ run'[q].saw = run[q].saw
      BY <1>23, <1>run DEF Assign, shop, permits, world, At, Ending, Processes, Runs
    <3> QED
      BY <3>1, <3>2, <3>3, <3>4 DEF Calm
  <2> QED
    BY <1>stopped, <1>world, <2>1, CalmKeeps
<1>24. ASSUME NEW t \in Ticks, ReadStale(t)
      PROVE  Stopped'
  <2>1. Calm
    <3>1. sub'.refundSeen => sub.refundSeen
      BY <1>24, <1>shop DEF ReadStale, StalePosting, shop, permits, world, Subscriptions
    <3>2. sub'.status \in Running => sub.status \in Running
      BY <1>24, <1>shop
         DEF ReadStale, StalePosting, shop, permits, world, Subscriptions, Running
    <3>3. (restarted => restarted') /\ (sale[First] = "refunded" => sale'[First] = "refunded")
      BY <1>24, <1>world DEF ReadStale, StalePosting, shop, permits, world, WorldSound
    <3>4. \A q \in Processes : run'[q].pc \in Ending => run[q].pc \in Ending /\ run'[q].saw = run[q].saw
      BY <1>24, <1>run
         DEF ReadStale, StalePosting, shop, permits, world, At, Ending, Processes, Runs
    <3> QED
      BY <3>1, <3>2, <3>3, <3>4 DEF Calm
  <2> QED
    BY <1>stopped, <1>world, <2>1, CalmKeeps
<1>25. ASSUME NEW t \in Ticks, MarkUnknown(t)
      PROVE  Stopped'
  <2>1. Calm
    <3>1. sub'.refundSeen => sub.refundSeen
      BY <1>25, <1>shop DEF MarkUnknown, shop, permits, world, Subscriptions
    <3>2. sub'.status \in Running => sub.status \in Running
      BY <1>25, <1>shop DEF MarkUnknown, shop, permits, world, Subscriptions, Running
    <3>3. (restarted => restarted') /\ (sale[First] = "refunded" => sale'[First] = "refunded")
      BY <1>25, <1>world DEF MarkUnknown, shop, permits, world, WorldSound
    <3>4. \A q \in Processes : run'[q].pc \in Ending => run[q].pc \in Ending /\ run'[q].saw = run[q].saw
      BY <1>25, <1>run DEF MarkUnknown, shop, permits, world, At, Ending, Processes, Runs
    <3> QED
      BY <3>1, <3>2, <3>3, <3>4 DEF Calm
  <2> QED
    BY <1>stopped, <1>world, <2>1, CalmKeeps
<1>26. ASSUME NEW t \in Ticks, ReadPeriods(t)
      PROVE  Stopped'
  <2>1. Calm
    <3>1. sub'.refundSeen => sub.refundSeen
      BY <1>26, <1>shop
         DEF ReadPeriods, Extendable, Pending, shop, permits, world, Subscriptions
    <3>2. sub'.status \in Running => sub.status \in Running
      BY <1>26, <1>shop
         DEF ReadPeriods, Extendable, Pending, shop, permits, world, Subscriptions, Running
    <3>3. (restarted => restarted') /\ (sale[First] = "refunded" => sale'[First] = "refunded")
      BY <1>26, <1>world
         DEF ReadPeriods, Extendable, Pending, shop, permits, world, WorldSound
    <3>4. \A q \in Processes : run'[q].pc \in Ending => run[q].pc \in Ending /\ run'[q].saw = run[q].saw
      BY <1>26, <1>run
         DEF ReadPeriods, Extendable, Pending, shop, permits, world, At, Ending, Processes,
         Runs
    <3> QED
      BY <3>1, <3>2, <3>3, <3>4 DEF Calm
  <2> QED
    BY <1>stopped, <1>world, <2>1, CalmKeeps
<1>27. ASSUME NEW t \in Ticks, Prolong(t)
      PROVE  Stopped'
  <2>1. Calm
    <3>1. sub'.refundSeen => sub.refundSeen
      BY <1>27, <1>shop DEF Prolong, shop, permits, world, Subscriptions
    <3>2. sub'.status \in Running => sub.status \in Running
      BY <1>27, <1>shop DEF Prolong, shop, permits, world, Subscriptions, Running
    <3>3. (restarted => restarted') /\ (sale[First] = "refunded" => sale'[First] = "refunded")
      BY <1>27, <1>world DEF Prolong, shop, permits, world, WorldSound
    <3>4. \A q \in Processes : run'[q].pc \in Ending => run[q].pc \in Ending /\ run'[q].saw = run[q].saw
      BY <1>27, <1>run DEF Prolong, shop, permits, world, At, Ending, Processes, Runs
    <3> QED
      BY <3>1, <3>2, <3>3, <3>4 DEF Calm
  <2> QED
    BY <1>stopped, <1>world, <2>1, CalmKeeps
<1>28. ASSUME NEW t \in Ticks, Refused(t)
      PROVE  Stopped'
  <2>1. Calm
    <3>1. sub'.refundSeen => sub.refundSeen
      BY <1>28, <1>shop DEF Refused, shop, permits, world, Subscriptions
    <3>2. sub'.status \in Running => sub.status \in Running
      BY <1>28, <1>shop DEF Refused, shop, permits, world, Subscriptions, Running
    <3>3. (restarted => restarted') /\ (sale[First] = "refunded" => sale'[First] = "refunded")
      BY <1>28, <1>world DEF Refused, shop, permits, world, WorldSound
    <3>4. \A q \in Processes : run'[q].pc \in Ending => run[q].pc \in Ending /\ run'[q].saw = run[q].saw
      BY <1>28, <1>run DEF Refused, shop, permits, world, At, Ending, Processes, Runs
    <3> QED
      BY <3>1, <3>2, <3>3, <3>4 DEF Calm
  <2> QED
    BY <1>stopped, <1>world, <2>1, CalmKeeps
<1>29. ASSUME NEW t \in Ticks, Silent(t)
      PROVE  Stopped'
  <2>1. Calm
    <3>1. sub'.refundSeen => sub.refundSeen
      BY <1>29, <1>shop DEF Silent, shop, permits, world, Subscriptions
    <3>2. sub'.status \in Running => sub.status \in Running
      BY <1>29, <1>shop DEF Silent, shop, permits, world, Subscriptions, Running
    <3>3. (restarted => restarted') /\ (sale[First] = "refunded" => sale'[First] = "refunded")
      BY <1>29, <1>world DEF Silent, shop, permits, world, WorldSound
    <3>4. \A q \in Processes : run'[q].pc \in Ending => run[q].pc \in Ending /\ run'[q].saw = run[q].saw
      BY <1>29, <1>run DEF Silent, shop, permits, world, At, Ending, Processes, Runs
    <3> QED
      BY <3>1, <3>2, <3>3, <3>4 DEF Calm
  <2> QED
    BY <1>stopped, <1>world, <2>1, CalmKeeps
<1>30. ASSUME NEW t \in Ticks, Prolonged(t)
      PROVE  Stopped'
  <2>1. Calm
    <3>1. sub'.refundSeen => sub.refundSeen
      BY <1>30, <1>shop DEF Prolonged, shop, permits, world, Subscriptions
    <3>2. sub'.status \in Running => sub.status \in Running
      BY <1>30, <1>shop DEF Prolonged, shop, permits, world, Subscriptions, Running
    <3>3. (restarted => restarted') /\ (sale[First] = "refunded" => sale'[First] = "refunded")
      BY <1>30, <1>world DEF Prolonged, shop, permits, world, WorldSound
    <3>4. \A q \in Processes : run'[q].pc \in Ending => run[q].pc \in Ending /\ run'[q].saw = run[q].saw
      BY <1>30, <1>run DEF Prolonged, shop, permits, world, At, Ending, Processes, Runs
    <3> QED
      BY <3>1, <3>2, <3>3, <3>4 DEF Calm
  <2> QED
    BY <1>stopped, <1>world, <2>1, CalmKeeps
<1>31. ASSUME NEW t \in Ticks, RefreshExpiry(t)
      PROVE  Stopped'
  <2>1. Calm
    <3>1. sub'.refundSeen => sub.refundSeen
      BY <1>31, <1>shop
         DEF RefreshExpiry, SyncDue, Dated, shop, permits, world, Subscriptions
    <3>2. sub'.status \in Running => sub.status \in Running
      BY <1>31, <1>shop
         DEF RefreshExpiry, SyncDue, Dated, shop, permits, world, Subscriptions, Running
    <3>3. (restarted => restarted') /\ (sale[First] = "refunded" => sale'[First] = "refunded")
      BY <1>31, <1>world DEF RefreshExpiry, SyncDue, Dated, shop, permits, world, WorldSound
    <3>4. \A q \in Processes : run'[q].pc \in Ending => run[q].pc \in Ending /\ run'[q].saw = run[q].saw
      BY <1>31, <1>run
         DEF RefreshExpiry, SyncDue, Dated, shop, permits, world, At, Ending, Processes,
         Runs
    <3> QED
      BY <3>1, <3>2, <3>3, <3>4 DEF Calm
  <2> QED
    BY <1>stopped, <1>world, <2>1, CalmKeeps
<1>32. ASSUME NEW t \in Ticks, NEW i \in Items, ClaimPeriod(t, i)
      PROVE  Stopped'
  <2>1. Calm
    <3>1. sub'.refundSeen => sub.refundSeen
      BY <1>32, <1>shop DEF ClaimPeriod, shop, permits, world, Subscriptions
    <3>2. sub'.status \in Running => sub.status \in Running
      BY <1>32, <1>shop DEF ClaimPeriod, shop, permits, world, Subscriptions, Running
    <3>3. (restarted => restarted') /\ (sale[First] = "refunded" => sale'[First] = "refunded")
      BY <1>32, <1>world DEF ClaimPeriod, shop, permits, world, WorldSound
    <3>4. \A q \in Processes : run'[q].pc \in Ending => run[q].pc \in Ending /\ run'[q].saw = run[q].saw
      BY <1>32, <1>run DEF ClaimPeriod, shop, permits, world, At, Ending, Processes, Runs
    <3> QED
      BY <3>1, <3>2, <3>3, <3>4 DEF Calm
  <2> QED
    BY <1>stopped, <1>world, <2>1, CalmKeeps
<1>33. ASSUME NEW t \in Ticks, NEW i \in Items, MarkExtending(t, i)
      PROVE  Stopped'
  <2>1. Calm
    <3>1. sub'.refundSeen => sub.refundSeen
      BY <1>33, <1>shop
         DEF MarkExtending, shop, permits, world, Subscriptions
    <3>2. sub'.status \in Running => sub.status \in Running
      BY <1>33, <1>shop
         DEF MarkExtending, shop, permits, world, Subscriptions, Running
    <3>3. (restarted => restarted') /\ (sale[First] = "refunded" => sale'[First] = "refunded")
      BY <1>33, <1>world DEF MarkExtending, shop, permits, world, WorldSound
    <3>4. \A q \in Processes : run'[q].pc \in Ending => run[q].pc \in Ending /\ run'[q].saw = run[q].saw
      BY <1>33, <1>run DEF MarkExtending, shop, permits, world, At, Ending, Processes, Runs
    <3> QED
      BY <3>1, <3>2, <3>3, <3>4 DEF Calm
  <2> QED
    BY <1>stopped, <1>world, <2>1, CalmKeeps
<1>33a. ASSUME NEW t \in Ticks, ReadExtending(t)
      PROVE  Stopped'
  <2>1. Calm
    <3>1. sub'.refundSeen => sub.refundSeen
      BY <1>33a, <1>shop DEF ReadExtending, StaleExtending, shop, permits, world, Subscriptions
    <3>2. sub'.status \in Running => sub.status \in Running
      BY <1>33a, <1>shop
         DEF ReadExtending, StaleExtending, shop, permits, world, Subscriptions, Running
    <3>3. (restarted => restarted') /\ (sale[First] = "refunded" => sale'[First] = "refunded")
      BY <1>33a, <1>world DEF ReadExtending, StaleExtending, shop, permits, world, WorldSound
    <3>4. \A q \in Processes : run'[q].pc \in Ending => run[q].pc \in Ending /\ run'[q].saw = run[q].saw
      BY <1>33a, <1>run
         DEF ReadExtending, StaleExtending, shop, permits, world, At, Ending, Processes, Runs
    <3> QED
      BY <3>1, <3>2, <3>3, <3>4 DEF Calm
  <2> QED
    BY <1>stopped, <1>world, <2>1, CalmKeeps
<1>34. ASSUME NEW r \in Reports, Report(r)
      PROVE  Stopped'
  <2>1. Calm
    <3>1. sub'.refundSeen => sub.refundSeen
      BY <1>34, <1>shop DEF Report, shop, permits, world, Subscriptions
    <3>2. sub'.status \in Running => sub.status \in Running
      BY <1>34, <1>shop DEF Report, shop, permits, world, Subscriptions, Running
    <3>3. (restarted => restarted') /\ (sale[First] = "refunded" => sale'[First] = "refunded")
      BY <1>34, <1>world DEF Report, shop, permits, world, WorldSound
    <3>4. \A q \in Processes : run'[q].pc \in Ending => run[q].pc \in Ending /\ run'[q].saw = run[q].saw
      BY <1>34, <1>run DEF Report, shop, permits, world, At, Ending, Processes, Runs
    <3> QED
      BY <3>1, <3>2, <3>3, <3>4 DEF Calm
  <2> QED
    BY <1>stopped, <1>world, <2>1, CalmKeeps
<1>35. ASSUME NEW a \in Admins, BeginSuspend(a)
      PROVE  Stopped'
  <2>1. Calm
    <3>1. sub'.refundSeen => sub.refundSeen
      BY <1>35, <1>shop
         DEF BeginSuspend, Begin, Act, Upset, shop, permits, world, Subscriptions
    <3>2. sub'.status \in Running => sub.status \in Running
      BY <1>35, <1>shop
         DEF BeginSuspend, Begin, Act, Upset, shop, permits, world, Subscriptions, Running
    <3>3. (restarted => restarted') /\ (sale[First] = "refunded" => sale'[First] = "refunded")
      BY <1>35, <1>world
         DEF BeginSuspend, Begin, Act, Upset, shop, permits, world, WorldSound
    <3>4. \A q \in Processes : run'[q].pc \in Ending => run[q].pc \in Ending /\ run'[q].saw = run[q].saw
      BY <1>35 DEF BeginSuspend, Begin, Act, Upset, shop, permits, world
    <3> QED
      BY <3>1, <3>2, <3>3, <3>4 DEF Calm
  <2> QED
    BY <1>stopped, <1>world, <2>1, CalmKeeps
<1>36. ASSUME NEW a \in Admins, BeginResume(a)
      PROVE  Stopped'
  <2>1. Calm
    <3>1. sub'.refundSeen => sub.refundSeen
      BY <1>36, <1>shop
         DEF BeginResume, Begin, Act, Upset, shop, permits, world, Subscriptions
    <3>2. sub'.status \in Running => sub.status \in Running
      BY <1>36, <1>shop
         DEF BeginResume, Begin, Act, Upset, shop, permits, world, Subscriptions, Running
    <3>3. (restarted => restarted') /\ (sale[First] = "refunded" => sale'[First] = "refunded")
      BY <1>36, <1>world
         DEF BeginResume, Begin, Act, Upset, shop, permits, world, WorldSound
    <3>4. \A q \in Processes : run'[q].pc \in Ending => run[q].pc \in Ending /\ run'[q].saw = run[q].saw
      BY <1>36 DEF BeginResume, Begin, Act, Upset, shop, permits, world
    <3> QED
      BY <3>1, <3>2, <3>3, <3>4 DEF Calm
  <2> QED
    BY <1>stopped, <1>world, <2>1, CalmKeeps
<1>37. ASSUME NEW a \in Admins, BeginReplace(a)
      PROVE  Stopped'
  <2>1. Calm
    <3>1. sub'.refundSeen => sub.refundSeen
      BY <1>37, <1>shop
         DEF BeginReplace, Begin, Act, Upset, Bought, shop, permits, world, Subscriptions
    <3>2. sub'.status \in Running => sub.status \in Running
      BY <1>37, <1>shop
         DEF BeginReplace, Begin, Act, Upset, Bought, shop, permits, world, Subscriptions,
         Running
    <3>3. (restarted => restarted') /\ (sale[First] = "refunded" => sale'[First] = "refunded")
      BY <1>37, <1>world
         DEF BeginReplace, Begin, Act, Upset, Bought, shop, permits, world, WorldSound
    <3>4. \A q \in Processes : run'[q].pc \in Ending => run[q].pc \in Ending /\ run'[q].saw = run[q].saw
      BY <1>37 DEF BeginReplace, Begin, Act, Upset, Bought, shop, permits, world
    <3> QED
      BY <3>1, <3>2, <3>3, <3>4 DEF Calm
  <2> QED
    BY <1>stopped, <1>world, <2>1, CalmKeeps
<1>38. ASSUME NEW a \in Admins, BeginSetOrder(a)
      PROVE  Stopped'
  <2>1. Calm
    <3>1. sub'.refundSeen => sub.refundSeen
      BY <1>38, <1>shop
         DEF BeginSetOrder, Begin, Act, Upset, Unclear, shop, permits, world, Subscriptions
    <3>2. sub'.status \in Running => sub.status \in Running
      BY <1>38, <1>shop
         DEF BeginSetOrder, Begin, Act, Upset, Unclear, shop, permits, world,
         Subscriptions, Running
    <3>3. (restarted => restarted') /\ (sale[First] = "refunded" => sale'[First] = "refunded")
      BY <1>38, <1>world
         DEF BeginSetOrder, Begin, Act, Upset, Unclear, shop, permits, world, WorldSound
    <3>4. \A q \in Processes : run'[q].pc \in Ending => run[q].pc \in Ending /\ run'[q].saw = run[q].saw
      BY <1>38 DEF BeginSetOrder, Begin, Act, Upset, Unclear, shop, permits, world
    <3> QED
      BY <3>1, <3>2, <3>3, <3>4 DEF Calm
  <2> QED
    BY <1>stopped, <1>world, <2>1, CalmKeeps
<1>39. ASSUME NEW a \in Admins, BeginReorder(a)
      PROVE  Stopped'
  <2>1. Calm
    <3>1. sub'.refundSeen => sub.refundSeen
      BY <1>39, <1>shop
         DEF BeginReorder, Begin, Act, Upset, Unclear, shop, permits, world, Subscriptions
    <3>2. sub'.status \in Running => sub.status \in Running
      BY <1>39, <1>shop
         DEF BeginReorder, Begin, Act, Upset, Unclear, shop, permits, world, Subscriptions,
         Running
    <3>3. (restarted => restarted') /\ (sale[First] = "refunded" => sale'[First] = "refunded")
      BY <1>39, <1>world
         DEF BeginReorder, Begin, Act, Upset, Unclear, shop, permits, world, WorldSound
    <3>4. \A q \in Processes : run'[q].pc \in Ending => run[q].pc \in Ending /\ run'[q].saw = run[q].saw
      BY <1>39 DEF BeginReorder, Begin, Act, Upset, Unclear, shop, permits, world
    <3> QED
      BY <3>1, <3>2, <3>3, <3>4 DEF Calm
  <2> QED
    BY <1>stopped, <1>world, <2>1, CalmKeeps
<1>40. ASSUME NEW a \in Admins, Suspend(a)
      PROVE  Stopped'
  <2>1. Calm
    <3>1. sub'.refundSeen => sub.refundSeen
      BY <1>40, <1>shop DEF Suspend, End, shop, permits, world, End, Subscriptions
    <3>2. sub'.status \in Running => sub.status \in Running
      BY <1>40, <1>shop DEF Suspend, End, shop, permits, world, End, Subscriptions, Running
    <3>3. (restarted => restarted') /\ (sale[First] = "refunded" => sale'[First] = "refunded")
      BY <1>40, <1>world DEF Suspend, End, shop, permits, world, End, WorldSound
    <3>4. \A q \in Processes : run'[q].pc \in Ending => run[q].pc \in Ending /\ run'[q].saw = run[q].saw
      BY <1>40 DEF Suspend, End, shop, permits, world, End
    <3> QED
      BY <3>1, <3>2, <3>3, <3>4 DEF Calm
  <2> QED
    BY <1>stopped, <1>world, <2>1, CalmKeeps
<1>41. ASSUME NEW a \in Admins, Resume(a)
      PROVE  Stopped'
  <2>1. UNCHANGED <<sale, run>> /\ Restart
    BY <1>41 DEF Resume, End, Restart, shop, permits, world, End
  <2>2. sub'.refundSeen = sub.refundSeen
    BY <1>41, <1>shop DEF Resume, Subscriptions
  <2>3. CASE sale[First] = "refunded"
    BY <1>stopped, <2>1, <2>2, <2>3 DEF Stopped, Restart
  <2>4. CASE sale[First] # "refunded"
    BY <1>stopped, <2>1, <2>2, <2>4 DEF Stopped
  <2> QED
    BY <2>3, <2>4
<1>42. ASSUME NEW a \in Admins, Replace(a)
      PROVE  Stopped'
  <2>1. UNCHANGED <<sale, run>> /\ Restart
    BY <1>42 DEF Replace, End, Restart, FirstTerm, Counted, shop, permits, world, End
  <2>2. sub'.refundSeen = sub.refundSeen
    BY <1>42, <1>shop DEF Replace, Subscriptions
  <2>3. CASE sale[First] = "refunded"
    BY <1>stopped, <2>1, <2>2, <2>3 DEF Stopped, Restart
  <2>4. CASE sale[First] # "refunded"
    BY <1>stopped, <2>1, <2>2, <2>4 DEF Stopped
  <2> QED
    BY <2>3, <2>4
<1>43. ASSUME NEW a \in Admins, SetOrder(a)
      PROVE  Stopped'
  <2>1. Calm
    <3>1. sub'.refundSeen => sub.refundSeen
      BY <1>43, <1>shop
         DEF SetOrder, End, FirstTerm, Counted, shop, permits, world, End, Subscriptions
    <3>2. sub'.status \in Running => sub.status \in Running
      BY <1>43, <1>shop
         DEF SetOrder, End, FirstTerm, Counted, shop, permits, world, End, Subscriptions,
         Running
    <3>3. (restarted => restarted') /\ (sale[First] = "refunded" => sale'[First] = "refunded")
      BY <1>43, <1>world
         DEF SetOrder, End, FirstTerm, Counted, shop, permits, world, End, WorldSound
    <3>4. \A q \in Processes : run'[q].pc \in Ending => run[q].pc \in Ending /\ run'[q].saw = run[q].saw
      BY <1>43 DEF SetOrder, End, FirstTerm, Counted, shop, permits, world, End
    <3> QED
      BY <3>1, <3>2, <3>3, <3>4 DEF Calm
  <2> QED
    BY <1>stopped, <1>world, <2>1, CalmKeeps
<1>44. ASSUME NEW a \in Admins, Reorder(a)
      PROVE  Stopped'
  <2>1. Calm
    <3>1. sub'.refundSeen => sub.refundSeen
      BY <1>44, <1>shop DEF Reorder, End, shop, permits, world, End, Subscriptions
    <3>2. sub'.status \in Running => sub.status \in Running
      BY <1>44, <1>shop DEF Reorder, End, shop, permits, world, End, Subscriptions, Running
    <3>3. (restarted => restarted') /\ (sale[First] = "refunded" => sale'[First] = "refunded")
      BY <1>44, <1>world DEF Reorder, End, shop, permits, world, End, WorldSound
    <3>4. \A q \in Processes : run'[q].pc \in Ending => run[q].pc \in Ending /\ run'[q].saw = run[q].saw
      BY <1>44 DEF Reorder, End, shop, permits, world, End
    <3> QED
      BY <3>1, <3>2, <3>3, <3>4 DEF Calm
  <2> QED
    BY <1>stopped, <1>world, <2>1, CalmKeeps
<1>45. ASSUME NEW a \in Admins, NEW name \in {"done", "retry"}, PeriodByHand(a, name)
      PROVE  Stopped'
  <2>1. Calm
    <3>1. sub'.refundSeen => sub.refundSeen
      BY <1>45, <1>shop DEF PeriodByHand, End, shop, permits, world, End, Subscriptions
    <3>2. sub'.status \in Running => sub.status \in Running
      BY <1>45, <1>shop
         DEF PeriodByHand, End, shop, permits, world, End, Subscriptions, Running
    <3>3. (restarted => restarted') /\ (sale[First] = "refunded" => sale'[First] = "refunded")
      BY <1>45, <1>world DEF PeriodByHand, End, shop, permits, world, End, WorldSound
    <3>4. \A q \in Processes : run'[q].pc \in Ending => run[q].pc \in Ending /\ run'[q].saw = run[q].saw
      BY <1>45 DEF PeriodByHand, End, shop, permits, world, End
    <3> QED
      BY <3>1, <3>2, <3>3, <3>4 DEF Calm
  <2> QED
    BY <1>stopped, <1>world, <2>1, CalmKeeps
<1>46. ASSUME NEW a \in Admins, NEW name \in {"done", "retry"}, NEW i \in Items, BeginPeriod(a, i, name)
      PROVE  Stopped'
  <2>1. Calm
    <3>1. sub'.refundSeen => sub.refundSeen
      BY <1>46, <1>shop
         DEF BeginPeriod, Begin, Act, Upset, shop, permits, world, Subscriptions
    <3>2. sub'.status \in Running => sub.status \in Running
      BY <1>46, <1>shop
         DEF BeginPeriod, Begin, Act, Upset, shop, permits, world, Subscriptions, Running
    <3>3. (restarted => restarted') /\ (sale[First] = "refunded" => sale'[First] = "refunded")
      BY <1>46, <1>world
         DEF BeginPeriod, Begin, Act, Upset, shop, permits, world, WorldSound
    <3>4. \A q \in Processes : run'[q].pc \in Ending => run[q].pc \in Ending /\ run'[q].saw = run[q].saw
      BY <1>46 DEF BeginPeriod, Begin, Act, Upset, shop, permits, world
    <3> QED
      BY <3>1, <3>2, <3>3, <3>4 DEF Calm
  <2> QED
    BY <1>stopped, <1>world, <2>1, CalmKeeps
<1>47. CASE UNCHANGED vars
  <2>1. Calm
    <3>1. sub'.refundSeen => sub.refundSeen
      BY <1>47, <1>shop DEF vars, shop, provider, permits, world, Subscriptions
    <3>2. sub'.status \in Running => sub.status \in Running
      BY <1>47, <1>shop DEF vars, shop, provider, permits, world, Subscriptions, Running
    <3>3. (restarted => restarted') /\ (sale[First] = "refunded" => sale'[First] = "refunded")
      BY <1>47, <1>world DEF vars, shop, provider, permits, world, WorldSound
    <3>4. \A q \in Processes : run'[q].pc \in Ending => run[q].pc \in Ending /\ run'[q].saw = run[q].saw
      BY <1>47 DEF vars, shop, provider, permits, world
    <3> QED
      BY <3>1, <3>2, <3>3, <3>4 DEF Calm
  <2> QED
    BY <1>stopped, <1>world, <2>1, CalmKeeps
<1> QED
  BY <1>1, <1>2, <1>3, <1>4, <1>5, <1>6, <1>7, <1>8, <1>9, <1>10, <1>11, <1>12, <1>13,
     <1>14, <1>15, <1>16, <1>17, <1>18, <1>19, <1>20, <1>21, <1>22, <1>23, <1>24, <1>25,
     <1>26, <1>27, <1>28, <1>29, <1>30, <1>31, <1>32, <1>33, <1>33a, <1>34, <1>35, <1>36, <1>37,
     <1>38, <1>39, <1>40, <1>41, <1>42, <1>43, <1>44, <1>45, <1>46, <1>47
     DEF Next, Both, TickSteps, OrderSteps, ExtendSteps, AdminSteps, Processes

\* Once handleRefunds has seen the refund, no purchase, test or write that was
\* begun before sets the subscription going again; only an administrator does who
\* acts after the refund.
THEOREM RefundStops == Spec => []RefundedIsStopped
<1>1. Init => Stopped
  BY DEF Init, NoSubscription, At, Ending, Stopped
<1>2. Inv /\ Stopped /\ [Next]_vars => Stopped'
  BY StoppedStep
<1>3. Stopped => RefundedIsStopped
  BY DEF Stopped, RefundedIsStopped
<1> QED
  BY InvInit, InvNext, <1>1, <1>2, <1>3, PTL DEF Spec
=============================================================================
