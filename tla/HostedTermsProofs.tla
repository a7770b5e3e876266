------------------------- MODULE HostedTermsProofs -------------------------
(***************************************************************************)
(* Proof that terms are added as they are paid, for any renewals, requests *)
(* of the relay, administrators, deaths and runs of the cron: to the term  *)
(* as long as no run has started while another went on, which the Node     *)
(* build sees to, and up to the terms that late writes left out of the     *)
(* count once runs have overlapped, as they may in the Cloudflare build.   *)
(***************************************************************************)
EXTENDS HostedEnvironmentsProofs

\* One run of the cron goes on at a time.
Alone == \A t, u \in Ticks : run[t].pc # "idle" /\ run[u].pc # "idle" => t = u

\* The terms that the provider gave for an item.
Given(i) == extended[i] + (IF i = First THEN 1 ELSE 0)

\* An item that was not taken, that waits for its address, or that started
\* another subscription.
Unserved == {"absent", "none", "elsewhere"}

\* After n more terms at most one is missing in the count, and none was given
\* beyond the ones paid and the ones asked for again.
Left(i, n) ==
  /\ Given(i) + n <= period[i].units + again[i] + 1
  /\ Given(i) + n <= Units[i] + again[i]

\* A permission to buy again makes the first term void.
Countable(i) == i = First => reorders = 0

\* A period that waits or has failed has a term left.
Paced(i) ==
  /\ period[i].status \in Unserved => period[i].units = 0
  /\ i = First => period[i].status # "elsewhere"
  /\ i = First /\ period[i].status \notin Unserved => period[i].units >= 1
  /\ Countable(i) =>
       /\ period[i].status \in Unserved => extended[i] = 0
       /\ Left(i, 0)
       /\ period[i].status \in {"pending", "failed"} => Left(i, 1)

Extending == {"extend1", "prolong", "refuse", "silent", "prolonged", "reread"}
Holding == {"prolong", "refuse", "silent", "prolonged"}
Ordering == {"post", "refused", "lost", "ordered"}

\* What a run has read is still so: of an item that renews, that there is a
\* subscription, and of periods, their terms;
Read(t) ==
  /\ run[t].pc = "insert" /\ run[t].saw # "absent" => Begun
  /\ run[t].pc \in Extending =>
       \A j \in run[t].todo :
         run[t].seen[j] = period[j].units /\ period[j].status \notin Unserved
  /\ run[t].pc \in Holding =>
       /\ run[t].item \notin run[t].todo
       /\ run[t].seen[run[t].item] = period[run[t].item].units
       /\ period[run[t].item].status \notin Unserved

\* and the term that it asks for is left, also when an administrator has
\* meanwhile asked for it again.
Asks(t) ==
  Countable(run[t].item) =>
    /\ run[t].pc \in {"prolong", "refuse"} => Left(run[t].item, 1)
    /\ run[t].pc = "prolong" /\ period[run[t].item].status \in {"pending", "failed"}
       => Left(run[t].item, 2)

\* Before the address is bought nothing is extended.
FirstSold ==
  reorders = 0 =>
    /\ sub.state \in {"none", "posting"} => extended[First] = 0
    /\ \A t \in Ticks :
         /\ run[t].pc \in Ordering => extended[First] = 0
         /\ run[t].pc \in Extending => sub.state \notin {"none", "posting"}

\* An administrator settles a period that failed or hangs.
Sighted ==
  \A a \in Admins :
    admin[a].act \in {"done", "retry"} => admin[a].saw \in {"failed", "extending"}

Pace ==
  /\ Alone
  /\ \A i \in Items : Paced(i)
  /\ \A t \in Ticks : Read(t) /\ Asks(t)
  /\ FirstSold
  /\ Sighted

\* What the numbers are.
LEMMA Numbers ==
  ASSUME Inv, NEW i \in Items
  PROVE  /\ Units[i] \in Nat \ {0} /\ again[i] \in Nat /\ extended[i] \in Nat
         /\ Given(i) \in Nat /\ period[i].units \in Nat /\ reorders \in Nat
         /\ period[i] \in Periods /\ First \in Items
BY HostedAssumption DEF Inv, ShopSound, WorldSound, Periods, Given, Items

LEMMA PaceInit == Init => Pace
<1> SUFFICES ASSUME Init PROVE Pace
  OBVIOUS
<1>1. ASSUME NEW i \in Items PROVE Paced(i)
  <2>1. /\ period[i].status = "absent" /\ period[i].units = 0 /\ extended[i] = 0
        /\ again[i] = 0 /\ Units[i] \in Nat \ {0}
    BY HostedAssumption DEF Init, Period
  <2> QED
    BY <2>1 DEF Paced, Unserved, Left, Given
<1>2. ASSUME NEW t \in Ticks PROVE run[t].pc = "idle"
  BY DEF Init, At, Processes
<1>3. sub.state = "none" /\ extended[First] = 0
  BY DEF Init, NoSubscription, Items
<1>4. \A a \in Admins : admin[a].act = "none"
  BY DEF Init, NoAct, Act
<1> QED
  BY <1>1, <1>2, <1>3, <1>4
     DEF Pace, Alone, Read, Asks, FirstSold, Sighted, Extending, Holding, Ordering

-----------------------------------------------------------------------------
(***************************************************************************)
(* Steps that change no period's terms.                                    *)
(***************************************************************************)
\* The same period, for what is counted.
Same(i) ==
  /\ period'[i].status = period[i].status /\ period'[i].units = period[i].units
  /\ extended'[i] = extended[i] /\ again'[i] = again[i]

\* A run that stays where it is, or comes to a place where it knows no period.
Rests(t) ==
  \/ run'[t] = run[t]
  \/ /\ run'[t].pc \notin Extending \cup Ordering
     /\ run'[t].pc = "insert" /\ run'[t].saw # "absent" => Begun
  \/ run'[t].pc \in Ordering /\ run[t].pc \in Ordering
  \/ /\ run'[t].pc \in {"extend1", "reread"} /\ run[t].pc \in Extending
     /\ run'[t].todo \subseteq run[t].todo /\ run'[t].seen = run[t].seen

Quiet ==
  /\ \A i \in Items : Same(i)
  /\ reorders' = reorders /\ miscounted' = miscounted
  /\ sub'.state \in {"none", "posting"} => sub.state \in {"none", "posting"}
  /\ \A t \in Ticks : Rests(t)

LEMMA PacedKept ==
  ASSUME NEW i \in Items, Same(i), reorders' = 0 => reorders = 0, Paced(i)
  PROVE  Paced(i)'
BY DEF Same, Paced, Countable, Left, Given

\* What a run knows that does not move, or that comes from a call.
LEMMA RunKept ==
  ASSUME Inv, NEW t \in Ticks, Rests(t), \A i \in Items : Same(i), Begun => Begun',
         reorders' = 0 => reorders = 0, Read(t), Asks(t)
  PROVE  Read(t)' /\ Asks(t)'
<1>1. /\ run[t].todo \subseteq Items
      /\ run[t].pc \in Holding => run[t].item \in Items
  BY DEF Inv, RunsSound, RunKnows, Runs, Processes, Holding, WithItem
<1>2. CASE run'[t] = run[t]
  <2>1. Read(t)'
    BY <1>1, <1>2 DEF Read, Same, Extending, Holding
  <2>2. Asks(t)'
    BY <1>1, <1>2 DEF Asks, Same, Holding, Countable, Left, Given
  <2> QED
    BY <2>1, <2>2
<1>3. CASE /\ run'[t].pc \notin Extending \cup Ordering
           /\ run'[t].pc = "insert" /\ run'[t].saw # "absent" => Begun
  BY <1>3 DEF Read, Asks, Extending, Holding
<1>4. CASE run'[t].pc \in Ordering /\ run[t].pc \in Ordering
  BY <1>4 DEF Read, Asks, Extending, Holding, Ordering
<1>5. CASE /\ run'[t].pc \in {"extend1", "reread"} /\ run[t].pc \in Extending
           /\ run'[t].todo \subseteq run[t].todo /\ run'[t].seen = run[t].seen
  <2>1. Read(t)'
    BY <1>1, <1>5 DEF Read, Same, Extending, Holding
  <2> QED
    BY <1>5, <2>1 DEF Asks
<1> QED
  BY <1>2, <1>3, <1>4, <1>5 DEF Rests

LEMMA QuietKeeps ==
  ASSUME Inv, Pace, Quiet, Begun => Begun', Sighted', Alone'
  PROVE  Pace'
<1>1. \A i \in Items : Paced(i)'
  BY PacedKept DEF Pace, Quiet
<1>2. \A t \in Ticks : Read(t)' /\ Asks(t)'
  BY RunKept DEF Pace, Quiet
<1>3. FirstSold'
  <2>1. extended'[First] = extended[First] /\ reorders' = reorders
    BY DEF Quiet, Same, Items
  <2>2. ASSUME NEW t \in Ticks
        PROVE  /\ run'[t].pc \in Ordering => run[t].pc \in Ordering
               /\ run'[t].pc \in Extending => run[t].pc \in Extending
    BY DEF Quiet, Rests, Extending, Ordering
  <2> QED
    BY <2>1, <2>2 DEF Pace, FirstSold, Quiet
<1> QED
  BY <1>1, <1>2, <1>3 DEF Pace

\* Period, subscription and permissions as they are.
Still == UNCHANGED <<period, extended, again, reorders, miscounted>>

LEMMA StillSame ==
  ASSUME Still
  PROVE  (\A i \in Items : Same(i)) /\ reorders' = reorders /\ miscounted' = miscounted
BY DEF Still, Same

\* Steps of the world, of requests, of deaths, and of the cron where it does
\* not touch what is counted.
LEMMA WorldQuiet ==
  ASSUME Inv, [Next]_vars,
         \/ \E i \in Items : Pay(i) \/ Refund(i)
         \/ \E p \in Processes : Both(p) \/ Crash(p)
         \/ \E t \in Ticks : Start(t)
         \/ \E r \in Reports : Report(r)
         \/ UNCHANGED vars
  PROVE  Quiet
<1> USE DEF shop, provider, permits, world
<1>run. run \in [Processes -> Runs] /\ \A t \in Ticks : t \in Processes
  BY DEF Inv, RunsSound, Processes
<1>sub. sub \in Subscriptions
  BY DEF Inv, ShopSound
<1>at. \A pc : At(pc).pc = pc /\ At(pc).saw = "absent"
  BY DEF At
<1> DEFINE Silenced == sub'.state \in {"none", "posting"} => sub.state \in {"none", "posting"}
<1> SUFFICES Still /\ Silenced /\ \A t \in Ticks : Rests(t)
  BY StillSame DEF Quiet
<1>1. ASSUME NEW i \in Items, Pay(i) \/ Refund(i)
      PROVE  Still /\ Silenced /\ \A t \in Ticks : Rests(t)
  BY <1>1 DEF Pay, Refund, Still, Rests
<1>2. ASSUME NEW p \in Processes, NEW pc, Go(p, pc),
             pc \notin Extending \cup Ordering
      PROVE  \A t \in Ticks : Rests(t)
  BY <1>2, <1>run, <1>at DEF Go, Rests
<1>3. ASSUME NEW p \in Processes, ReadTested(p)
      PROVE  Still /\ Silenced /\ \A t \in Ticks : Rests(t)
  BY <1>2, <1>3 DEF ReadTested, Still, Extending, Ordering
<1>4. ASSUME NEW p \in Processes, Judge(p)
      PROVE  Still /\ Silenced /\ \A t \in Ticks : Rests(t)
  <2>1. \A t \in Ticks : Rests(t)
    BY <1>2, <1>4 DEF Judge, Leave, Extending, Ordering
  <2> QED
    BY <1>4, <1>sub, <2>1 DEF Judge, Still, Subscriptions
<1>5. ASSUME NEW p \in Processes, PassOver(p)
      PROVE  Still /\ Silenced /\ \A t \in Ticks : Rests(t)
  <2>1. \A s \in DOMAIN After : After[s] \notin Extending \cup Ordering
    BY PlacesOfAfter DEF Extending, Ordering
  <2>2. PICK pc : Go(p, pc) /\ pc \notin Extending \cup Ordering
    <3>1. CASE run[p].pc \in DOMAIN After /\ p \in Ticks /\ Go(p, After[run[p].pc])
      BY <2>1, <3>1
    <3>2. CASE Go(p, "idle") \/ Go(p, "extending") \/ Go(p, "sync")
      BY <3>2 DEF Extending, Ordering
    <3> QED
      BY <1>5, <3>1, <3>2 DEF PassOver
  <2>3. Still /\ sub' = sub
    BY <1>5 DEF PassOver, Still
  <2> QED
    BY <1>2, <2>2, <2>3
<1>6. ASSUME NEW p \in Processes, Crash(p)
      PROVE  Still /\ Silenced /\ \A t \in Ticks : Rests(t)
  <2>1. Go(p, "idle")
    BY <1>6 DEF Crash, Go
  <2> QED
    BY <1>2, <1>6, <2>1 DEF Crash, Upset, Still, Extending, Ordering
<1>7. ASSUME NEW t \in Ticks, Start(t)
      PROVE  Still /\ Silenced /\ \A u \in Ticks : Rests(u)
  <2>1. Go(t, "ingest")
    BY <1>7 DEF Start, Go
  <2> QED
    BY <1>2, <1>7, <1>run, <2>1 DEF Start, Still, Extending, Ordering
<1>8. ASSUME NEW r \in Reports, Report(r)
      PROVE  Still /\ Silenced /\ \A t \in Ticks : Rests(t)
  <2>1. \A t \in Ticks : run'[t] = run[t]
    BY <1>8, <1>run, HostedAssumption DEF Report, Go
  <2> QED
    BY <1>8, <1>sub, <2>1 DEF Report, Still, Rests, Subscriptions
<1>9. CASE UNCHANGED vars
  BY <1>9 DEF vars, Still, Rests
<1> HIDE DEF Silenced
<1> QED
  BY <1>1, <1>3, <1>4, <1>5, <1>6, <1>7, <1>8, <1>9 DEF Both

LEMMA CronQuiet ==
  ASSUME Inv, [Next]_vars, NEW t \in Ticks,
         \/ ReadRefund(t) \/ Revoke(t) \/ Stop(t) \/ Handled(t) \/ Expire(t)
         \/ \E i \in Items : ReadItem(t, i) \/ MarkExtending(t, i)
         \/ PostOrder(t) \/ OrderRefused(t) \/ OrderLost(t) \/ PollOrder(t)
         \/ Assign(t) \/ ReadStale(t) \/ MarkUnknown(t) \/ Silent(t)
         \/ RefreshExpiry(t) \/ ReadExtending(t)
  PROVE  Quiet
<1> USE DEF shop, provider, permits, world
<1>run. run \in [Processes -> Runs] /\ \A u \in Ticks : u \in Processes
  BY DEF Inv, RunsSound, Processes
<1>sub. sub \in Subscriptions /\ period \in [Items -> Periods]
  BY DEF Inv, ShopSound
<1>at. \A pc : At(pc).pc = pc /\ At(pc).saw = "absent"
  BY DEF At
<1> DEFINE Silenced == sub'.state \in {"none", "posting"} => sub.state \in {"none", "posting"}
           Kept == (\A i \in Items : Same(i)) /\ reorders' = reorders /\ miscounted' = miscounted
<1> SUFFICES Kept /\ Silenced /\ Rests(t)
  <2>1. \A u \in Ticks : u # t => run'[u] = run[u]
    BY <1>run DEF ReadRefund, Revoke, Stop, Handled, Expire, ReadItem, MarkExtending,
       PostOrder, OrderRefused, OrderLost, PollOrder, Assign, ReadStale, MarkUnknown,
       Silent, RefreshExpiry, ReadExtending, Go
  <2> QED
    BY <2>1 DEF Quiet, Rests
<1>1. ASSUME NEW pc, Go(t, pc), pc \notin Extending \cup Ordering
      PROVE  Rests(t)
  BY <1>1, <1>run, <1>at DEF Go, Rests
<1>2. ASSUME ReadRefund(t) \/ PollOrder(t) \/ ReadStale(t)
      PROVE  Kept /\ Silenced /\ Rests(t)
  <2>1. Still /\ sub' = sub
    BY <1>2 DEF ReadRefund, PollOrder, ReadStale, Still
  <2>2. CASE ReadRefund(t)
    <3>1. run'[t].pc \in {"revoke", "stop"}
      BY <2>2, <1>run, <1>at DEF ReadRefund, At
    <3> QED
      BY <2>1, <3>1, StillSame DEF Rests, Extending, Ordering
  <2>3. CASE PollOrder(t) \/ ReadStale(t)
    BY <1>1, <2>1, <2>3, StillSame DEF PollOrder, ReadStale, Extending, Ordering
  <2> QED
    BY <1>2, <2>2, <2>3
<1>3. ASSUME Revoke(t) \/ Stop(t) \/ Expire(t) \/ OrderRefused(t) \/ OrderLost(t)
             \/ Assign(t) \/ MarkUnknown(t)
      PROVE  Kept /\ Silenced /\ Rests(t)
  <2>1. Still
    BY <1>3 DEF Revoke, Stop, Expire, OrderRefused, OrderLost, Assign, MarkUnknown, Still
  <2>2. Silenced
    BY <1>3, <1>sub DEF Revoke, Stop, Expire, OrderRefused, OrderLost, Assign,
       MarkUnknown, Subscriptions
  <2>3. Rests(t)
    <3>1. CASE Revoke(t) /\ run' = [run EXCEPT ![t].pc = "stop"]
      BY <1>run, <3>1 DEF Rests, Runs, Extending, Ordering
    <3>2. CASE \/ Go(t, "renewals") \/ Go(t, "cancel") \/ Go(t, "posting")
               \/ Go(t, "activate")
      BY <1>1, <3>2 DEF Extending, Ordering
    <3> QED
      BY <1>3, <3>1, <3>2
         DEF Revoke, Stop, Expire, OrderRefused, OrderLost, Assign, MarkUnknown
  <2> QED
    BY <2>1, <2>2, <2>3, StillSame
<1>4. ASSUME NEW i \in Items, ReadItem(t, i)
      PROVE  Kept /\ Silenced /\ Rests(t)
  <2>1. Still /\ sub' = sub
    BY <1>4 DEF ReadItem, Still
  <2>2. /\ run'[t].pc = "insert"
        /\ run'[t].saw # "absent" => run'[t].saw = sub.status
    BY <1>4, <1>run, <1>at DEF ReadItem, At
  <2>3. sub.status # "absent" => Begun
    BY DEF Inv, ShopSound, NoSubscription
  <2> QED
    BY <2>1, <2>2, <2>3, StillSame DEF Rests, Extending, Ordering
<1>5. ASSUME NEW i \in Items, MarkExtending(t, i)
      PROVE  Kept /\ Silenced /\ Rests(t)
  <2>1. Kept /\ Silenced
    BY <1>5, <1>sub DEF MarkExtending, Same, Periods
  <2>2. run'[t].pc = "marking"
    BY <1>5, <1>run DEF MarkExtending, Runs
  <2> QED
    BY <2>1, <2>2 DEF Rests, Extending, Ordering
<1>9. ASSUME ReadExtending(t)
      PROVE  Kept /\ Silenced /\ Rests(t)
  <2>1. Still /\ sub' = sub
    BY <1>9 DEF ReadExtending, Still
  <2>2. run'[t].pc = "marking"
    BY <1>9, <1>run, <1>at DEF ReadExtending, At
  <2> QED
    BY <2>1, <2>2, StillSame DEF Rests, Extending, Ordering
<1>6. ASSUME Handled(t) \/ Silent(t)
      PROVE  Kept /\ Silenced /\ Rests(t)
  <2>1. run[t].item \in Items
    BY <1>6, <1>run DEF Handled, Silent, Inv, RunsSound, RunKnows, WithItem
  <2>2. Kept /\ Silenced
    BY <1>6, <1>sub, <2>1 DEF Handled, Silent, Same, Periods
  <2>3. CASE Handled(t)
    BY <1>1, <2>2, <2>3 DEF Handled, Extending, Ordering
  <2>4. CASE Silent(t)
    <3>1. run'[t] = [run[t] EXCEPT !.pc = "extend1"] /\ run[t] \in Runs
      BY <1>run, <2>4 DEF Silent
    <3> QED
      BY <2>2, <2>4, <3>1 DEF Silent, Rests, Runs, Extending
  <2> QED
    BY <1>6, <2>3, <2>4
<1>7. ASSUME PostOrder(t)
      PROVE  Kept /\ Silenced /\ Rests(t)
  <2>1. run'[t].pc \in {"refused", "lost", "ordered"}
    BY <1>7, <1>run, <1>at DEF PostOrder, Go, At
  <2>2. Still /\ sub' = sub
    BY <1>7 DEF PostOrder, Still
  <2> QED
    BY <1>7, <2>1, <2>2, StillSame DEF PostOrder, Rests, Ordering
<1>8. ASSUME RefreshExpiry(t)
      PROVE  Kept /\ Silenced /\ Rests(t)
  <2>1. Still
    BY <1>8 DEF RefreshExpiry, Still
  <2>2. Silenced
    BY <1>8, <1>sub DEF RefreshExpiry, Dated, Subscriptions
  <2>3. CASE run[t].pc = "reread" /\ run' = [run EXCEPT ![t].pc = "extend1"]
    <3>1. run'[t] = [run[t] EXCEPT !.pc = "extend1"] /\ run[t] \in Runs
      BY <1>run, <2>3
    <3> QED
      BY <2>1, <2>2, <2>3, <3>1, StillSame DEF Rests, Runs, Extending
  <2>4. CASE run' = [run EXCEPT ![t].pc = "synced", ![t].order = sub.order]
    <3>1. run'[t].pc = "synced"
      BY <1>run, <2>4 DEF Runs
    <3> QED
      BY <2>1, <2>2, <3>1, StillSame DEF Rests, Extending, Ordering
  <2>5. CASE Go(t, "expire")
    BY <1>1, <2>1, <2>2, <2>5, StillSame DEF Extending, Ordering
  <2> QED
    BY <1>8, <2>3, <2>4, <2>5 DEF RefreshExpiry
<1> HIDE DEF Kept, Silenced
<1> QED
  BY <1>2, <1>3, <1>4, <1>5, <1>6, <1>7, <1>8, <1>9

LEMMA AdminQuiet ==
  ASSUME Inv, NEW a \in Admins,
         \/ BeginSuspend(a) \/ BeginResume(a) \/ BeginReplace(a) \/ BeginSetOrder(a)
         \/ BeginReorder(a) \/ Suspend(a) \/ Resume(a)
         \/ \E name \in {"done", "retry"}, i \in Items : BeginPeriod(a, i, name)
  PROVE  Quiet
<1> USE DEF shop, provider, permits, world
<1>1. Still /\ run' = run
  BY DEF BeginSuspend, BeginResume, BeginReplace, BeginSetOrder, BeginReorder,
     BeginPeriod, Begin, Suspend, Resume, End, Still
<1>2. sub'.state = sub.state
  BY DEF BeginSuspend, BeginResume, BeginReplace, BeginSetOrder, BeginReorder,
     BeginPeriod, Begin, Suspend, Resume, End, Inv, ShopSound, Subscriptions
<1> QED
  BY <1>1, <1>2, StillSame DEF Quiet, Rests

\* An administrator asks again for a period that failed or hangs.
LEMMA SightedStep ==
  ASSUME Inv, Sighted, [Next]_vars
  PROVE  Sighted'
<1>1. admin \in [Admins -> Deeds]
  BY DEF Inv, DeedsSound
<1>2. ASSUME admin' = admin PROVE Sighted'
  BY <1>2 DEF Sighted
<1>3. ASSUME NEW a \in Admins, NEW deed, admin' = [admin EXCEPT ![a] = deed],
             deed.act \in {"done", "retry"} => deed.saw \in {"failed", "extending"}
      PROVE  Sighted'
  BY <1>1, <1>3 DEF Sighted
<1>4. ASSUME \/ \E i \in Items : Pay(i) \/ Refund(i)
             \/ \E p \in Processes : Both(p) \/ Crash(p)
             \/ \E t \in Ticks : Start(t)
             \/ \E r \in Reports : Report(r)
             \/ UNCHANGED vars
      PROVE  admin' = admin
  BY <1>4 DEF Pay, Refund, Both, ReadTested, Judge, PassOver, Crash, Start, Report, vars
<1>5. ASSUME NEW t \in Ticks, OrderSteps(t) \/ ExtendSteps(t)
      PROVE  admin' = admin
  BY <1>5 DEF OrderSteps, ClaimOrder, PostOrder, OrderRefused, OrderLost, Ordered,
     PollOrder, Assign, ReadStale, MarkUnknown, ExtendSteps, ReadPeriods, Prolong,
     Refused, Silent, Prolonged, RefreshExpiry, ClaimPeriod, ReadExtending, MarkExtending
<1>6. ASSUME NEW t \in Ticks, TickSteps(t)
      PROVE  admin' = admin
  BY <1>5, <1>6 DEF TickSteps, Insert, ReadRefund, Revoke, Stop, Handled, Expire,
     CancelUnapplied, ReadItem, CancelRenewal
<1>7. ASSUME NEW a \in Admins, AdminSteps(a)
      PROVE  Sighted'
  <2>1. ASSUME \/ Suspend(a) \/ Resume(a) \/ Replace(a) \/ SetOrder(a) \/ Reorder(a)
               \/ \E name \in {"done", "retry"} : PeriodByHand(a, name)
        PROVE  Sighted'
    <3>1. admin' = [admin EXCEPT ![a] = NoAct]
      BY <2>1 DEF Suspend, Resume, Replace, SetOrder, Reorder, PeriodByHand, End
    <3> QED
      BY <1>3, <3>1 DEF NoAct, Act
  <2>2. ASSUME \/ BeginSuspend(a) \/ BeginResume(a) \/ BeginReplace(a)
               \/ BeginSetOrder(a) \/ BeginReorder(a)
        PROVE  Sighted'
    <3>1. PICK deed : /\ admin' = [admin EXCEPT ![a] = deed]
                      /\ deed.act \notin {"done", "retry"}
      BY <2>2 DEF BeginSuspend, BeginResume, BeginReplace, BeginSetOrder, BeginReorder,
         Begin, Act
    <3> QED
      BY <1>3, <3>1
  <2>3. ASSUME NEW name \in {"done", "retry"}, NEW i \in Items, BeginPeriod(a, i, name)
        PROVE  Sighted'
    <3>1. /\ admin' = [admin EXCEPT ![a] = Act(name, i, period[i].status, 0)]
          /\ period[i].status \in {"failed", "extending"}
      BY <2>3 DEF BeginPeriod, Begin
    <3> QED
      BY <1>3, <3>1 DEF Act
  <2> QED
    BY <1>7, <2>1, <2>2, <2>3 DEF AdminSteps
<1> QED
  BY <1>2, <1>4, <1>6, <1>7 DEF Next

-----------------------------------------------------------------------------
(***************************************************************************)
(* Runs that go on.                                                        *)
(***************************************************************************)
\* A step of the cron is one of a run that goes on, and touches no other.
LEMMA StepOfRun ==
  ASSUME Inv, NEW t \in Ticks, TickSteps(t)
  PROVE  /\ run[t].pc # "idle" /\ overlapped' = overlapped
         /\ \A u \in Ticks : u # t => run'[u] = run[u]
<1> DEFINE Steps == /\ run[t].pc # "idle" /\ overlapped' = overlapped
                    /\ \A u \in Ticks : u # t => run'[u] = run[u]
<1> USE DEF world
<1>run. run \in [Processes -> Runs] /\ \A u \in Ticks : u \in Processes
  BY DEF Inv, RunsSound, Processes
<1>1. ASSUME \/ Insert(t) \/ ReadRefund(t) \/ Revoke(t) \/ Stop(t) \/ Handled(t)
             \/ Expire(t) \/ CancelUnapplied(t)
      PROVE  Steps
  BY <1>1, <1>run DEF Insert, ReadRefund, Revoke, Stop, Handled, Expire, CancelUnapplied, Go
<1>2. ASSUME \/ \E i \in Items : ReadItem(t, i)
             \/ \E i \in Renewals : CancelRenewal(t, i)
      PROVE  Steps
  BY <1>2, <1>run DEF ReadItem, CancelRenewal
<1>3. ASSUME OrderSteps(t) PROVE Steps
  BY <1>3, <1>run DEF OrderSteps, ClaimOrder, PostOrder, OrderRefused, OrderLost, Ordered,
     PollOrder, Assign, ReadStale, MarkUnknown, Go
<1>4. ASSUME ExtendSteps(t) PROVE Steps
  <2>1. ASSUME ReadPeriods(t) \/ Prolong(t) \/ Refused(t) \/ Silent(t) \/ Prolonged(t)
        PROVE  Steps
    BY <2>1, <1>run DEF ReadPeriods, Prolong, Refused, Silent, Prolonged
  <2>2. ASSUME RefreshExpiry(t) \/ ReadExtending(t)
        PROVE  Steps
    BY <2>2, <1>run DEF RefreshExpiry, ReadExtending, Go
  <2>3. ASSUME NEW i \in Items, ClaimPeriod(t, i) \/ MarkExtending(t, i)
        PROVE  Steps
    BY <2>3, <1>run DEF ClaimPeriod, MarkExtending
  <2> QED
    BY <1>4, <2>1, <2>2, <2>3 DEF ExtendSteps
<1> HIDE DEF Steps
<1>5. Steps
  BY <1>1, <1>2, <1>3, <1>4 DEF TickSteps
<1> QED
  BY <1>5 DEF Steps

\* A run comes to life by its start, which sees every other that goes on.
LEMMA AloneStep ==
  ASSUME Inv, [Next]_vars
  PROVE  /\ overlapped => overlapped'
         /\ Alone /\ ~ overlapped' => Alone'
<1> DEFINE Wakes == \A u \in Ticks : run'[u].pc # "idle" => run[u].pc # "idle"
           Stays == overlapped' = overlapped
<1> USE DEF world
<1>run. run \in [Processes -> Runs] /\ \A u \in Ticks : u \in Processes
  BY DEF Inv, RunsSound, Processes
<1>1. ASSUME NEW i \in Items, Pay(i) \/ Refund(i) PROVE Wakes /\ Stays
  BY <1>1 DEF Pay, Refund
<1>2. ASSUME NEW p \in Processes, Both(p) \/ Crash(p) PROVE Wakes /\ Stays
  <2>1. run[p].pc # "idle" /\ Stays
    <3>1. "idle" \notin DOMAIN After
      BY PlacesOfAfter
    <3> QED
      BY <1>2, <3>1 DEF Both, ReadTested, Judge, PassOver, Crash
  <2>2. \A u \in Ticks : u # p => run'[u] = run[u]
    BY <1>2, <1>run DEF Both, ReadTested, Judge, Leave, PassOver, Crash, Go
  <2> QED
    BY <2>1, <2>2
<1>3. ASSUME NEW t \in Ticks, TickSteps(t) PROVE Wakes /\ Stays
  <2>1. run[t].pc # "idle" /\ overlapped' = overlapped
    BY <1>3, StepOfRun
  <2>2. \A u \in Ticks : u # t => run'[u] = run[u]
    BY <1>3, StepOfRun
  <2> QED
    BY <2>1, <2>2
<1>4. ASSUME NEW r \in Reports, Report(r) PROVE Wakes /\ Stays
  <2>1. \A u \in Ticks : run'[u] = run[u]
    BY <1>4, <1>run, HostedAssumption DEF Report, Go
  <2> QED
    BY <1>4, <2>1 DEF Report
<1>5. ASSUME NEW a \in Admins, AdminSteps(a) PROVE Wakes /\ Stays
  BY <1>5 DEF AdminSteps, BeginSuspend, BeginResume, BeginReplace, BeginSetOrder,
     BeginReorder, BeginPeriod, Begin, Suspend, Resume, Replace, SetOrder, Reorder,
     PeriodByHand, End
<1>6. ASSUME UNCHANGED vars PROVE Wakes /\ Stays
  BY <1>6 DEF vars
<1>7. ASSUME NEW t \in Ticks, Start(t)
      PROVE  (overlapped => overlapped') /\ (~ overlapped' => Alone')
  <2>1. overlapped' = (overlapped \/ \E u \in Ticks : run[u].pc # "idle")
    BY <1>7 DEF Start
  <2>2. \A u \in Ticks : u # t => run'[u] = run[u]
    BY <1>7, <1>run DEF Start
  <2> QED
    BY <2>1, <2>2 DEF Alone
<1>8. ASSUME Wakes, Stays
      PROVE  (overlapped => overlapped') /\ (Alone => Alone')
  BY <1>8 DEF Alone
<1> HIDE DEF Wakes, Stays
<1> QED
  BY <1>1, <1>2, <1>3, <1>4, <1>5, <1>6, <1>7, <1>8 DEF Next

\* The other runs do not go on.
Others(t) == \A u \in Ticks : u # t => run[u].pc = "idle" /\ run'[u] = run[u]

LEMMA OthersRest ==
  ASSUME NEW t \in Ticks, Others(t)
  PROVE  \A u \in Ticks : u # t => Read(u)' /\ Asks(u)'
BY DEF Others, Read, Asks, Extending, Holding

-----------------------------------------------------------------------------
(***************************************************************************)
(* Steps of the one run that touch the periods.                            *)
(***************************************************************************)
\* processPaidItem starts the first item without terms, and renewals with none
\* added yet.
LEMMA InsertStep ==
  ASSUME Inv, Pace, Sighted', Alone', NEW t \in Ticks, Others(t), Insert(t)
  PROVE  Pace'
<1> USE DEF shop, provider, permits, world
<1>i. PICK i \in Items : i = run[t].item
  BY DEF Insert, Inv, RunsSound, RunKnows, WithItem, Processes
<1>1. /\ run \in [Processes -> Runs] /\ t \in Processes
      /\ period \in [Items -> Periods] /\ sub \in Subscriptions /\ run[t].pc = "insert"
  BY DEF Insert, Inv, ShopSound, RunsSound, Processes
<1>2. run'[t].pc \in {"refunds", "ingest"} /\ \A u \in Ticks : u # t => run'[u].pc = "idle"
  BY <1>1 DEF Insert, Go, At, Others
<1>3. \A u \in Ticks : Read(u)' /\ Asks(u)'
  BY <1>2 DEF Read, Asks, Extending, Holding
<1>4. UNCHANGED <<extended, again, reorders>>
  BY DEF Insert
<1>5. CASE period[i].status # "absent"
  <2>1. Still /\ sub' = sub
    BY <1>i, <1>5 DEF Insert, Still
  <2>2. FirstSold'
    BY <1>2, <2>1 DEF Pace, FirstSold, Still, Extending, Ordering
  <2> QED
    BY <1>3, <2>1, <2>2, StillSame, PacedKept DEF Pace
<1>6. CASE period[i].status = "absent"
  <2>1. PICK s \in {"pending", "none", "elsewhere"} :
          /\ period' = [period EXCEPT ![i] = Period(s)]
          /\ s = "elsewhere" => i # First
          /\ s = "pending" => run[t].saw # "absent"
    BY <1>i, <1>6 DEF Insert
  <2>2. s = "pending" => i # First
    BY <1>i, <1>1, <1>6, <2>1 DEF Pace, Read, Begun
  <2>3. period'[i].status = s /\ period'[i].units = 0
    BY <1>1, <2>1 DEF Period
  <2>4. Paced(i)'
    <3>1. /\ Units[i] \in Nat \ {0} /\ again[i] \in Nat /\ extended[i] \in Nat
          /\ Countable(i) => extended[i] = 0
      BY <1>1, <1>6, Numbers DEF Pace, Paced, Unserved
    <3>2. /\ period'[i].units = 0
          /\ i = First => s = "none"
          /\ s \in {"pending", "none", "elsewhere"} /\ period'[i].status = s
      BY <2>1, <2>2, <2>3
    <3>3. Countable(i)' => Left(i, 0)' /\ (i # First => Left(i, 1)')
      BY <1>4, <2>3, <3>1 DEF Countable, Left, Given
    <3>4. Countable(i)' => extended'[i] = 0
      BY <1>4, <3>1 DEF Countable
    <3> QED
      BY <3>2, <3>3, <3>4 DEF Paced, Unserved
  <2>5. ASSUME NEW j \in Items, j # i PROVE Paced(j)'
    BY <1>1, <1>4, <2>1, <2>5, PacedKept DEF Pace, Same
  <2>6. FirstSold'
    <3>1. sub'.state \in {"none", "posting"} => sub.state \in {"none", "posting"} \/ i = First
      BY <1>i DEF Insert
    <3>2. i = First /\ reorders = 0 => extended[First] = 0
      BY <1>6 DEF Pace, Paced, Unserved, Countable
    <3> QED
      BY <1>2, <1>4, <3>1, <3>2 DEF Pace, FirstSold, Extending, Ordering
  <2> QED
    BY <1>1, <1>3, <2>4, <2>5, <2>6 DEF Pace
<1> QED
  BY <1>5, <1>6

\* placeOrder claims a subscription for which nothing was bought.
LEMMA ClaimOrderStep ==
  ASSUME Inv, Pace, Sighted', Alone', NEW t \in Ticks, Others(t), ClaimOrder(t)
  PROVE  Pace'
<1> USE DEF shop, provider, permits, world
<1>1. /\ run \in [Processes -> Runs] /\ t \in Processes
      /\ sub \in Subscriptions
  BY DEF Inv, ShopSound, RunsSound, Processes
<1>2. run'[t].pc = "post" /\ \A u \in Ticks : u # t => run'[u].pc = "idle"
  BY <1>1 DEF ClaimOrder, Go, At, Others
<1>3. Still /\ sub.state = "none"
  BY DEF ClaimOrder, MayOrder, Still
<1>4. \A u \in Ticks : Read(u)' /\ Asks(u)'
  BY <1>2 DEF Read, Asks, Extending, Holding
<1>5. FirstSold'
  BY <1>2, <1>3 DEF Pace, FirstSold, Still, Extending
<1> QED
  BY <1>3, <1>4, <1>5, StillSame, PacedKept DEF Pace

\* The first term that was bought is counted, and is the only one so far.
LEMMA FirstTermPaced ==
  ASSUME Inv, Inv', Pace, period'[First].status = (IF Units[First] > 1 THEN "pending" ELSE "done"),
         period'[First].units = 1, extended' = extended, again[First] <= again'[First],
         reorders' = reorders, reorders = 0 => extended[First] = 0
  PROVE  Paced(First)'
<1>1. /\ Units[First] \in Nat \ {0} /\ again[First] \in Nat /\ again'[First] \in Nat
      /\ extended[First] \in Nat
  BY Numbers DEF Inv, WorldSound, Items
<1> QED
  BY <1>1 DEF Paced, Left, Given, Countable, Unserved

LEMMA OrderedStep ==
  ASSUME Inv, Inv', Pace, Sighted', Alone', NEW t \in Ticks, Others(t), Ordered(t)
  PROVE  Pace'
<1> USE DEF shop, provider, permits, world
<1>1. /\ run \in [Processes -> Runs] /\ t \in Processes /\ First \in Items
      /\ sub \in Subscriptions /\ period \in [Items -> Periods]
  BY DEF Inv, ShopSound, RunsSound, Processes, Items
<1>2. run'[t].pc \in {"poll", "posting"} /\ \A u \in Ticks : u # t => run'[u].pc = "idle"
  BY <1>1 DEF Ordered, Go, At, Others
<1>3. /\ UNCHANGED <<extended, again, reorders>>
      /\ reorders = 0 => extended[First] = 0
  BY DEF Ordered, Pace, FirstSold, Ordering
<1>4. \A u \in Ticks : Read(u)' /\ Asks(u)'
  BY <1>2 DEF Read, Asks, Extending, Holding
<1>5. FirstSold'
  BY <1>2, <1>3 DEF FirstSold, Extending, Ordering
<1>6. ASSUME NEW i \in Items PROVE Paced(i)'
  <2>1. CASE period' = period
    BY <1>3, <2>1, PacedKept DEF Pace, Same
  <2>2. CASE period' = [period EXCEPT ![First] = FirstTerm(1)]
    <3>1. CASE i = First
      <4>1. /\ period'[First].status = (IF Units[First] > 1 THEN "pending" ELSE "done")
            /\ period'[First].units = 1
        BY <1>1, <2>2 DEF FirstTerm, Periods
      <4>2. again[First] <= again'[First]
        BY <1>1, <1>3, Numbers
      <4> QED
        BY <1>3, <3>1, <4>1, <4>2, FirstTermPaced
    <3>2. CASE i # First
      BY <1>1, <1>3, <2>2, <3>2, PacedKept DEF Pace, Same
    <3> QED
      BY <3>1, <3>2
  <2> QED
    BY <2>1, <2>2 DEF Ordered
<1> QED
  BY <1>4, <1>5, <1>6 DEF Pace

\* The run that is at work, and the rows, have their types.
LEMMA Typed ==
  ASSUME Inv, NEW t \in Ticks
  PROVE  /\ run \in [Processes -> Runs] /\ t \in Processes /\ run[t] \in Runs
         /\ run[t].todo \subseteq Items
         /\ sub \in Subscriptions /\ period \in [Items -> Periods]
         /\ extended \in [Items -> Nat] /\ again \in [Items -> Nat]
         /\ First \in Items
         /\ run[t].pc \in Holding => run[t].item \in Items
BY DEF Inv, ShopSound, WorldSound, RunsSound, RunKnows, Processes, Runs, Items, Holding,
   WithItem

\* extendPeriods reads the periods that wait.
LEMMA ReadPeriodsStep ==
  ASSUME Inv, Pace, Sighted', Alone', NEW t \in Ticks, Others(t), ReadPeriods(t)
  PROVE  Pace'
<1> USE DEF shop, provider, permits, world
<1>1. Still /\ sub' = sub /\ sub.state = "ordered"
  BY DEF ReadPeriods, Still, Extendable
<1>2. /\ run'[t].pc = "extend1" /\ run'[t].todo = Pending
      /\ run'[t].seen = [i \in Items |-> IF i \in Pending THEN period[i].units ELSE 0]
  BY Typed DEF ReadPeriods, At
<1>3. \A u \in Ticks : u # t => /\ run[u].pc = "idle" /\ run'[u] = run[u]
                               /\ Read(u)' /\ Asks(u)'
  BY OthersRest DEF Others
<1>4. Read(t)' /\ Asks(t)'
  <2>1. Read(t)'
    BY <1>1, <1>2 DEF Read, Still, Pending, Unserved, Holding
  <2> QED
    BY <1>2, <2>1 DEF Asks
<1>5. FirstSold'
  BY <1>1, <1>2, <1>3 DEF FirstSold, Ordering
<1> QED
  BY <1>1, <1>3, <1>4, <1>5, StillSame, PacedKept DEF Pace

\* claimPeriod takes a period that still waits, and passes over the others.
LEMMA ClaimPeriodStep ==
  ASSUME Inv, Pace, Sighted', Alone', NEW t \in Ticks, Others(t), NEW i \in Items, ClaimPeriod(t, i)
  PROVE  Pace'
<1> USE DEF shop, provider, permits, world
<1>1. \A u \in Ticks : u # t => /\ run[u].pc = "idle" /\ run'[u] = run[u]
                               /\ Read(u)' /\ Asks(u)'
  BY OthersRest DEF Others
<1>2. /\ sub' = sub /\ UNCHANGED <<extended, again, reorders>>
      /\ run[t].pc = "extend1" /\ i \in run[t].todo
  BY DEF ClaimPeriod
<1>3. /\ \A j \in run[t].todo : /\ run[t].seen[j] = period[j].units
                                /\ period[j].status \notin Unserved
  BY <1>2 DEF Pace, Read, Extending
<1>4. CASE period[i].status = "pending"
  <2>1. /\ run'[t].pc = "prolong" /\ run'[t].item = i
        /\ run'[t].todo = run[t].todo \ {i} /\ run'[t].seen = run[t].seen
    BY <1>4, Typed DEF ClaimPeriod, Runs
  <2>2. /\ period'[i].status = "extending" /\ period'[i].units = period[i].units
        /\ \A j \in Items : j # i => period'[j] = period[j]
    BY <1>4, Typed DEF ClaimPeriod, Periods
  <2>3. Paced(i) /\ Countable(i) => Left(i, 0) /\ Left(i, 1)
    BY <1>4 DEF Paced
  <2>4. Paced(i)'
    BY <1>2, <1>4, <2>2 DEF Pace, Paced, Unserved, Countable, Left, Given
  <2>5. ASSUME NEW j \in Items, j # i PROVE Paced(j)'
    BY <1>2, <2>2, <2>5, PacedKept DEF Pace, Same
  <2>6. Read(t)'
    BY <1>2, <1>3, <1>4, <2>1, <2>2, Typed DEF Read, Extending, Holding, Unserved
  <2>7. Asks(t)'
    BY <1>2, <2>1, <2>2, <2>3 DEF Pace, Asks, Countable, Left, Given
  <2>8. FirstSold'
    BY <1>1, <1>2, <2>1 DEF Pace, FirstSold, Ordering, Extending
  <2> QED
    BY <1>1, <2>4, <2>5, <2>6, <2>7, <2>8 DEF Pace
<1>5. CASE period[i].status # "pending"
  <2>1. /\ run'[t].pc = "extend1"
        /\ run'[t].todo \subseteq run[t].todo /\ run'[t].seen = run[t].seen
    BY <1>2, <1>5, Typed DEF ClaimPeriod, Runs
  <2>2. Quiet
    BY <1>1, <1>2, <1>5, <2>1 DEF ClaimPeriod, Quiet, Same, Rests, Extending
  <2>3. Begun => Begun'
    BY <1>5 DEF ClaimPeriod, Begun
  <2> QED
    BY <2>2, <2>3, QuietKeeps
<1> QED
  BY <1>4, <1>5

\* extendOrder adds the term that was left.
LEMMA ProlongStep ==
  ASSUME Inv, Pace, Sighted', Alone', NEW t \in Ticks, Others(t), Prolong(t)
  PROVE  Pace'
<1> USE DEF shop, provider, permits, world
<1>1. \A u \in Ticks : u # t => /\ run[u].pc = "idle" /\ run'[u] = run[u]
                               /\ Read(u)' /\ Asks(u)'
  BY OthersRest DEF Others
<1>2. /\ UNCHANGED <<sub, period, again, reorders>> /\ run[t].pc = "prolong"
  BY DEF Prolong
<1>i. PICK i \in Items : i = run[t].item
  BY <1>2, Typed DEF Holding
<1>3. /\ run'[t].pc \in {"refuse", "silent", "prolonged"}
      /\ run'[t].item = i /\ run'[t].todo = run[t].todo /\ run'[t].seen = run[t].seen
  BY <1>i, Typed DEF Prolong, Runs
<1>4. /\ period[i].status \notin Unserved
      /\ Countable(i) => Left(i, 1)
      /\ Countable(i) /\ period[i].status \in {"pending", "failed"} => Left(i, 2)
  BY <1>2, <1>i DEF Pace, Read, Asks, Holding
<1>5. Read(t)'
  BY <1>2, <1>3, <1>i DEF Pace, Read, Extending, Holding
<1>6. FirstSold'
  BY <1>1, <1>2, <1>3 DEF Pace, FirstSold, Extending, Ordering
<1>7. CASE extended' = extended /\ run'[t].pc \in {"refuse", "silent"}
  <2>1. \A j \in Items : Paced(j)'
    BY <1>2, <1>7, PacedKept DEF Pace, Same
  <2>2. Asks(t)'
    BY <1>2, <1>3, <1>4, <1>7 DEF Asks, Countable, Left, Given
  <2> QED
    BY <1>1, <1>5, <1>6, <2>1, <2>2 DEF Pace
<1>8. CASE /\ extended' = [extended EXCEPT ![run[t].item] = @ + 1]
           /\ run'[t].pc \in {"silent", "prolonged"}
  <2>1. /\ extended'[i] = extended[i] + 1
        /\ \A j \in Items : j # i => extended'[j] = extended[j]
    BY <1>8, <1>i, Typed
  <2>2. Paced(i)'
    <3>1. /\ again[i] \in Nat /\ extended[i] \in Nat /\ Units[i] \in Nat
          /\ period[i].units \in Nat
      BY Numbers
    <3>2. Countable(i)' => Left(i, 0)'
      BY <1>2, <1>4, <2>1, <3>1 DEF Countable, Left, Given
    <3>3. Countable(i)' /\ period[i].status \in {"pending", "failed"} => Left(i, 1)'
      BY <1>2, <1>4, <2>1, <3>1 DEF Countable, Left, Given
    <3> QED
      BY <1>2, <1>4, <3>2, <3>3 DEF Pace, Paced
  <2>3. ASSUME NEW j \in Items, j # i PROVE Paced(j)'
    BY <1>2, <2>1, <2>3, PacedKept DEF Pace, Same
  <2>4. Asks(t)'
    BY <1>8 DEF Asks
  <2> QED
    BY <1>1, <1>5, <1>6, <2>2, <2>3, <2>4 DEF Pace
<1>9. \/ extended' = extended /\ run'[t].pc \in {"refuse", "silent"}
      \/ /\ extended' = [extended EXCEPT ![run[t].item] = @ + 1]
         /\ run'[t].pc \in {"silent", "prolonged"}
  BY Typed DEF Prolong, Runs
<1> QED
  BY <1>7, <1>8, <1>9

\* A refusal is written over whatever an administrator wrote: the term that was
\* not added is left.
LEMMA RefusedStep ==
  ASSUME Inv, Pace, Sighted', Alone', NEW t \in Ticks, Others(t), Refused(t)
  PROVE  Pace'
<1> USE DEF shop, provider, permits, world
<1>1. \A u \in Ticks : u # t => /\ run[u].pc = "idle" /\ run'[u] = run[u]
                               /\ Read(u)' /\ Asks(u)'
  BY OthersRest DEF Others
<1>2. /\ UNCHANGED <<sub, extended, again, reorders>> /\ run[t].pc = "refuse"
  BY DEF Refused
<1>i. PICK i \in Items : i = run[t].item
  BY <1>2, Typed DEF Holding
<1>3. /\ run'[t].pc = "extend1" /\ run'[t].todo = run[t].todo /\ run'[t].seen = run[t].seen
  BY Typed DEF Refused, Runs
<1>4. /\ period'[i].status = "failed" /\ period'[i].units = period[i].units
      /\ \A j \in Items : j # i => period'[j] = period[j]
  BY <1>i, Typed DEF Refused, Periods
<1>5. /\ period[i].status \notin Unserved /\ i \notin run[t].todo
      /\ Countable(i) => Left(i, 1)
  BY <1>2, <1>i DEF Pace, Read, Asks, Holding
<1>6. Paced(i)'
  BY <1>2, <1>4, <1>5 DEF Pace, Paced, Unserved, Countable, Left, Given
<1>7. ASSUME NEW j \in Items, j # i PROVE Paced(j)'
  BY <1>2, <1>4, <1>7, PacedKept DEF Pace, Same
<1>8. Read(t)'
  BY <1>2, <1>3, <1>4, <1>5, Typed DEF Pace, Read, Extending, Holding
<1>9. Asks(t)'
  BY <1>3 DEF Asks
<1>10. FirstSold'
  BY <1>1, <1>2, <1>3 DEF Pace, FirstSold, Extending, Ordering
<1> QED
  BY <1>1, <1>6, <1>7, <1>8, <1>9, <1>10 DEF Pace

\* A term that was added is counted, and the period waits while one is left.
LEMMA ProlongedStep ==
  ASSUME Inv, Pace, Sighted', Alone', NEW t \in Ticks, Others(t), Prolonged(t)
  PROVE  Pace'
<1> USE DEF shop, provider, permits, world
<1>1. \A u \in Ticks : u # t => /\ run[u].pc = "idle" /\ run'[u] = run[u]
                               /\ Read(u)' /\ Asks(u)'
  BY OthersRest DEF Others
<1>2. /\ UNCHANGED <<sub, extended, again, reorders>> /\ run[t].pc = "prolonged"
  BY DEF Prolonged
<1>i. PICK i \in Items : i = run[t].item
  BY <1>2, Typed DEF Holding
<1>3. /\ run'[t].pc = "reread" /\ run'[t].todo = run[t].todo /\ run'[t].seen = run[t].seen
  BY Typed DEF Prolonged, Runs
<1>4. /\ period'[i].status = (IF run[t].seen[i] + 1 >= Units[i] THEN "done" ELSE "pending")
      /\ period'[i].units = period[i].units + 1
      /\ \A j \in Items : j # i => period'[j] = period[j]
  BY <1>i, Typed DEF Prolonged, Periods
<1>5. /\ period[i].status \notin Unserved /\ i \notin run[t].todo
      /\ run[t].seen[i] = period[i].units
  BY <1>2, <1>i DEF Pace, Read, Holding
<1>6. Paced(i)'
  <2>1. /\ again[i] \in Nat /\ extended[i] \in Nat /\ Units[i] \in Nat
        /\ period[i].units \in Nat /\ Given(i) \in Nat
    BY Numbers
  <2>2. Countable(i) => Left(i, 0)
    BY DEF Pace, Paced
  <2>3. Countable(i)' => Left(i, 0)'
    BY <1>2, <1>4, <2>1, <2>2 DEF Countable, Left, Given
  <2>4. Countable(i)' /\ period'[i].status = "pending" => Left(i, 1)'
    BY <1>2, <1>4, <1>5, <2>1, <2>2 DEF Countable, Left, Given
  <2> QED
    BY <1>4, <2>1, <2>3, <2>4 DEF Paced, Unserved
<1>7. ASSUME NEW j \in Items, j # i PROVE Paced(j)'
  BY <1>2, <1>4, <1>7, PacedKept DEF Pace, Same
<1>8. Read(t)'
  BY <1>2, <1>3, <1>4, <1>5, Typed DEF Pace, Read, Extending, Holding
<1>9. Asks(t)'
  BY <1>3 DEF Asks
<1>10. FirstSold'
  BY <1>1, <1>2, <1>3 DEF Pace, FirstSold, Extending, Ordering
<1> QED
  BY <1>1, <1>6, <1>7, <1>8, <1>9, <1>10 DEF Pace

\* Refunded and expired renewals that wait are cancelled.
LEMMA CancelStep ==
  ASSUME Inv, Pace, Sighted', Alone', NEW t \in Ticks, Others(t),
         CancelUnapplied(t) \/ \E i \in Renewals : CancelRenewal(t, i)
  PROVE  Pace'
<1> USE DEF shop, provider, permits, world
<1>1. \A u \in Ticks : u # t => /\ run[u].pc = "idle" /\ run'[u] = run[u]
                               /\ Read(u)' /\ Asks(u)'
  BY OthersRest DEF Others
<1>2. UNCHANGED <<sub, extended, again, reorders>>
  BY DEF CancelUnapplied, CancelRenewal
<1>3. run'[t].pc \in {"idle", "renewals", "handled"}
  <2>1. CASE CancelUnapplied(t)
    BY <2>1, Typed DEF CancelUnapplied, Go, At
  <2>2. ASSUME NEW i \in Renewals, CancelRenewal(t, i)
        PROVE  run'[t].pc \in {"idle", "renewals", "handled"}
    <3>1. CASE run' = run
      BY <2>2, <3>1 DEF CancelRenewal
    <3>2. CASE run' = [run EXCEPT ![t].pc = "handled", ![t].item = i]
      BY <3>2, Typed DEF Runs
    <3> QED
      BY <2>2, <3>1, <3>2 DEF CancelRenewal
  <2> QED
    BY <2>1, <2>2
<1>4. ASSUME NEW j \in Items
      PROVE  /\ period'[j].units = period[j].units
             /\ \/ period'[j].status = period[j].status
                \/ /\ period[j].status \in {"pending", "failed"}
                   /\ period'[j].status = "cancelled"
  <2>1. CASE CancelUnapplied(t)
    BY <2>1, Typed DEF CancelUnapplied, Periods
  <2>2. ASSUME NEW i \in Renewals, CancelRenewal(t, i)
        PROVE  /\ period'[j].units = period[j].units
               /\ \/ period'[j].status = period[j].status
                  \/ /\ period[j].status \in {"pending", "failed"}
                     /\ period'[j].status = "cancelled"
    BY <2>2, Typed DEF CancelRenewal, Periods, Items
  <2> QED
    BY <2>1, <2>2
<1>5. ASSUME NEW j \in Items PROVE Paced(j)'
  BY <1>2, <1>4, <1>5 DEF Pace, Paced, Unserved, Countable, Left, Given
<1>6. Read(t)' /\ Asks(t)'
  BY <1>3 DEF Read, Asks, Extending, Holding
<1>7. FirstSold'
  BY <1>1, <1>2, <1>3 DEF Pace, FirstSold, Extending, Ordering
<1> QED
  BY <1>1, <1>5, <1>6, <1>7 DEF Pace
\* An administrator enters an address: the first term counts, unless it did.
LEMMA ReplaceStep ==
  ASSUME Inv, Inv', Pace, Sighted', Alone', NEW a \in Admins, Replace(a)
  PROVE  Pace'
<1> USE DEF shop, provider, permits, world
<1>1. /\ UNCHANGED <<run, extended, again, reorders, miscounted>>
  BY DEF Replace, End
<1>2. /\ sub \in Subscriptions /\ period \in [Items -> Periods] /\ First \in Items
      /\ period[First].status # "absent" /\ Paced(First)
  BY DEF Inv, ShopSound, DeedsSound, DeedKnows, Begun, Replace, End, Pace, Items
<1>3. sub'.state = "ordered"
  BY <1>2 DEF Replace, Subscriptions
<1>4. ASSUME NEW j \in Items, j # First PROVE Same(j)
  BY <1>1, <1>2, <1>4 DEF Replace, Same
<1>5. CASE period[First].status = "none"
  <2>1. period[First].units = 0 /\ (reorders = 0 => extended[First] = 0)
    BY <1>2, <1>5 DEF Paced, Unserved, Countable
  <2>2. /\ period'[First].status = (IF Units[First] > 1 THEN "pending" ELSE "done")
        /\ period'[First].units = 1
    BY <1>2, <1>5, <2>1 DEF Replace, FirstTerm, Counted, Periods
  <2>3. Paced(First)'
    <3>1. again[First] <= again'[First]
      BY <1>1, <1>2, Numbers
    <3> QED
      BY <1>1, <2>1, <2>2, <3>1, FirstTermPaced
  <2>4. \A j \in Items : Paced(j)'
    BY <1>1, <1>4, <2>3, PacedKept DEF Pace
  <2>5. ASSUME NEW t \in Ticks PROVE Read(t)' /\ Asks(t)'
    <3>1. /\ First \in run[t].todo => run[t].pc \notin Extending
          /\ First = run[t].item => run[t].pc \notin Holding
      BY <1>5 DEF Pace, Read, Unserved
    <3>2. period'[First].status # "absent"
      BY <2>2
    <3>3. Read(t)'
      BY <1>1, <1>4, <2>2, <3>1, <3>2, Typed DEF Pace, Read, Same, Begun, Extending, Holding
    <3>4. Asks(t)'
      BY <1>1, <1>4, <3>1, Typed DEF Pace, Asks, Same, Countable, Left, Given, Holding
    <3> QED
      BY <3>3, <3>4
  <2>6. FirstSold'
    BY <1>1, <1>3 DEF Pace, FirstSold
  <2> QED
    BY <2>4, <2>5, <2>6 DEF Pace
<1>6. CASE period[First].status # "none"
  <2>1. period[First].units >= 1
    BY <1>2, <1>6 DEF Paced, Unserved
  <2>2. Same(First)
    BY <1>1, <1>2, <1>6, <2>1 DEF Replace, Same, Counted, Periods
  <2>3. Quiet
    BY <1>1, <1>3, <1>4, <2>2 DEF Quiet, Rests
  <2>4. Begun => Begun'
    BY <2>2 DEF Begun, Same
  <2> QED
    BY <2>3, <2>4, QuietKeeps
<1> QED
  BY <1>5, <1>6

\* An administrator names the order that was bought: the first term counts,
\* and one more may be asked for.
LEMMA SetOrderStep ==
  ASSUME Inv, Inv', Pace, Sighted', Alone', NEW a \in Admins, SetOrder(a)
  PROVE  Pace'
<1> USE DEF shop, provider, permits, world
<1>1. UNCHANGED <<run, extended, reorders>>
  BY DEF SetOrder, End
<1>2. /\ sub \in Subscriptions /\ period \in [Items -> Periods] /\ First \in Items
      /\ period[First].status # "absent" /\ Paced(First) /\ again \in [Items -> Nat]
  BY DEF Inv, ShopSound, WorldSound, DeedsSound, DeedKnows, Begun, SetOrder, End, Pace, Items
<1>3. sub'.state = "ordered" /\ again'[First] = again[First] + 1
  BY <1>2 DEF SetOrder, Subscriptions
<1>4. ASSUME NEW j \in Items, j # First PROVE Same(j)
  BY <1>1, <1>2, <1>4 DEF SetOrder, Same
<1>5. /\ period'[First].status = (IF Units[First] > 1 THEN "pending" ELSE "done")
      /\ period'[First].units = (IF period[First].units = 0 THEN 1 ELSE period[First].units)
  BY <1>2 DEF SetOrder, FirstTerm, Counted, Periods
<1>6. /\ Units[First] \in Nat \ {0} /\ again[First] \in Nat /\ extended[First] \in Nat
      /\ period[First].units \in Nat
  BY <1>2, Numbers
<1>7. FirstSold'
  BY <1>1, <1>3 DEF Pace, FirstSold
<1>8. Paced(First)'
  <2>1. CASE period[First].status \in Unserved
    <3>1. /\ period'[First].units = 1 /\ again[First] <= again'[First]
          /\ reorders = 0 => extended[First] = 0
      BY <1>2, <1>3, <1>5, <1>6, <2>1 DEF Paced, Countable
    <3> QED
      BY <1>1, <1>5, <3>1, FirstTermPaced
  <2>2. CASE period[First].status \notin Unserved
    <3>1. period'[First].units = period[First].units /\ period[First].units >= 1
      BY <1>2, <1>5, <1>6, <2>2 DEF Paced
    <3>2. Countable(First)' => Left(First, 0)' /\ Left(First, 1)'
      BY <1>1, <1>2, <1>3, <1>6, <3>1 DEF Paced, Countable, Left, Given
    <3> QED
      BY <1>5, <3>1, <3>2 DEF Paced, Unserved
  <2> QED
    BY <2>1, <2>2
<1>9. \A j \in Items : Paced(j)'
  BY <1>1, <1>4, <1>8, PacedKept DEF Pace
<1>10. ASSUME NEW t \in Ticks PROVE Read(t)' /\ Asks(t)'
  <2>1. /\ First \in run[t].todo /\ run[t].pc \in Extending
             => period'[First].units = period[First].units
        /\ First = run[t].item /\ run[t].pc \in Holding
             => period'[First].units = period[First].units
    BY <1>2, <1>5, <1>6 DEF Pace, Read, Paced, Unserved
  <2>2. period'[First].status \in {"pending", "done"}
    BY <1>5
  <2>3. Read(t)'
    BY <1>1, <1>4, <2>1, <2>2, Typed
       DEF Pace, Read, Same, Begun, Extending, Holding, Unserved
  <2>4. Asks(t)'
    <3>1. CASE run[t].item = First /\ run[t].pc \in Holding
      BY <1>1, <1>3, <1>6, <2>1, <3>1 DEF Pace, Asks, Countable, Left, Given, Holding
    <3>2. CASE run[t].item # First /\ run[t].pc \in Holding
      BY <1>1, <1>4, <3>2, Typed DEF Pace, Asks, Same, Countable, Left, Given
    <3>3. CASE run[t].pc \notin Holding
      BY <1>1, <3>3 DEF Asks, Holding
    <3> QED
      BY <3>1, <3>2, <3>3
  <2> QED
    BY <2>3, <2>4
<1> QED
  BY <1>7, <1>9, <1>10 DEF Pace

\* An administrator allows another purchase, after which the first term is not
\* counted.
LEMMA ReorderStep ==
  ASSUME Inv, Pace, Sighted', Alone', NEW a \in Admins, Reorder(a)
  PROVE  Pace'
<1> USE DEF shop, provider, permits, world
<1>1. UNCHANGED <<run, period, extended, again>> /\ reorders' # 0 /\ reorders \in Nat
  BY DEF Reorder, End, Inv, WorldSound
<1>2. \A j \in Items : Same(j)
  BY <1>1 DEF Same
<1>3. \A j \in Items : Paced(j)'
  BY <1>1, <1>2, PacedKept DEF Pace
<1>4. \A t \in Ticks : Read(t)' /\ Asks(t)'
  <2>1. ASSUME NEW t \in Ticks PROVE Read(t)' /\ Asks(t)'
    BY <1>1, <1>2, <2>1, RunKept DEF Pace, Rests, Begun
  <2> QED
    BY <2>1
<1>5. FirstSold'
  BY <1>1 DEF FirstSold
<1> QED
  BY <1>3, <1>4, <1>5 DEF Pace

\* An administrator settles a period, or asks for its term again, which may
\* then be added once more.
LEMMA PeriodByHandStep ==
  ASSUME Inv, Pace, Sighted', Alone', NEW a \in Admins,
         NEW name \in {"done", "retry"}, PeriodByHand(a, name)
  PROVE  Pace'
<1> USE DEF shop, provider, permits, world
<1>1. UNCHANGED <<run, sub, extended, reorders>>
  BY DEF PeriodByHand, End
<1>i. PICK i \in Items : i = admin[a].item
  BY DEF Inv, DeedsSound, DeedKnows, PeriodByHand, End
<1>2. /\ period \in [Items -> Periods] /\ again \in [Items -> Nat]
  BY DEF Inv, ShopSound, WorldSound
<1>3. ASSUME NEW j \in Items, j # i PROVE Same(j)
  BY <1>1, <1>2, <1>3, <1>i DEF PeriodByHand, Same
<1>4. again'[i] = IF name = "retry" THEN again[i] + 1 ELSE again[i]
  BY <1>2, <1>i DEF PeriodByHand
<1>5. /\ period'[i].units = period[i].units
      /\ \/ period'[i].status = period[i].status
         \/ /\ period[i].status \in {"failed", "extending"}
            /\ period'[i].status = (IF name = "done" THEN "done" ELSE "pending")
  <2>1. admin[a].saw \in {"failed", "extending"}
    BY DEF Pace, Sighted, PeriodByHand, End
  <2> QED
    BY <1>2, <1>i, <2>1 DEF PeriodByHand, Periods
<1>6. /\ Units[i] \in Nat \ {0} /\ again[i] \in Nat /\ extended[i] \in Nat
      /\ period[i].units \in Nat /\ Given(i) \in Nat
  BY Numbers
<1>7. Given(i)' = Given(i) /\ (Countable(i)' <=> Countable(i))
  BY <1>1 DEF Given, Countable
<1>8. ASSUME NEW n \in Nat, Left(i, n)
      PROVE  Left(i, n)' /\ (name = "retry" => Left(i, n + 1)')
  BY <1>4, <1>5, <1>6, <1>7, <1>8 DEF Left
<1>9. Paced(i)'
  <2>1. Paced(i)
    BY DEF Pace
  <2>2. Countable(i)' => Left(i, 0)' /\ (name = "retry" => Left(i, 1)')
    <3>1. Countable(i)' => Left(i, 0)
      BY <1>7, <2>1 DEF Paced
    <3> QED
      BY <1>8, <3>1
  <2>3. Countable(i)' /\ period[i].status \in {"pending", "failed"} => Left(i, 1)'
    BY <1>7, <1>8, <2>1 DEF Paced
  <2>4. period'[i].status \in Unserved <=> period[i].status \in Unserved
    BY <1>5 DEF Unserved
  <2>5. Countable(i)' /\ period'[i].status \in Unserved => extended'[i] = 0
    BY <1>1, <1>7, <2>1, <2>4 DEF Paced
  <2>6. Countable(i)' /\ period'[i].status \in {"pending", "failed"} => Left(i, 1)'
    BY <1>5, <2>2, <2>3
  <2>7. /\ period'[i].status \in Unserved => period'[i].units = 0
        /\ i = First => period'[i].status # "elsewhere"
        /\ i = First /\ period'[i].status \notin Unserved => period'[i].units >= 1
    BY <1>5, <2>1, <2>4 DEF Paced
  <2> QED
    BY <2>2, <2>5, <2>6, <2>7 DEF Paced
<1>10. \A j \in Items : Paced(j)'
  BY <1>1, <1>3, <1>9, PacedKept DEF Pace
<1>11. ASSUME NEW t \in Ticks PROVE Read(t)' /\ Asks(t)'
  <2>1. \A j \in Items :
          /\ period'[j].units = period[j].units
          /\ period'[j].status \in Unserved <=> period[j].status \in Unserved
    BY <1>3, <1>5 DEF Same, Unserved
  <2>2. Begun => Begun'
    <3>1. First \in Items
      BY DEF Items
    <3> QED
      BY <1>3, <1>5, <3>1 DEF Begun, Same
  <2>3. Read(t)'
    BY <1>1, <2>1, <2>2, Typed DEF Pace, Read, Extending, Holding
  <2>4. CASE run[t].pc \in Holding /\ run[t].item = i
    <3>1. Countable(i) /\ run[t].pc \in {"prolong", "refuse"} => Left(i, 1)
      BY <2>4 DEF Pace, Asks
    <3>2. Countable(i) /\ run[t].pc = "prolong" /\ period[i].status \in {"pending", "failed"}
          => Left(i, 2)
      BY <2>4 DEF Pace, Asks
    <3>3. Countable(i)' /\ run[t].pc \in {"prolong", "refuse"}
          => Left(i, 1)' /\ (name = "retry" => Left(i, 2)')
      BY <1>7, <1>8, <3>1
    <3>4. Countable(i)' /\ run[t].pc = "prolong" /\ period[i].status \in {"pending", "failed"}
          => Left(i, 2)'
      BY <1>7, <1>8, <3>2
    <3>5. Countable(i)' /\ run[t].pc = "prolong" /\ period'[i].status \in {"pending", "failed"}
          => Left(i, 2)'
      BY <1>5, <3>3, <3>4
    <3> QED
      BY <1>1, <2>3, <2>4, <3>3, <3>5 DEF Asks
  <2>5. CASE run[t].pc \in Holding /\ run[t].item # i
    BY <1>1, <1>3, <2>3, <2>5, Typed DEF Pace, Asks, Same, Countable, Left, Given
  <2>6. CASE run[t].pc \notin Holding
    BY <1>1, <2>3, <2>6 DEF Asks, Holding
  <2> QED
    BY <2>4, <2>5, <2>6
<1>12. FirstSold'
  <2>1. First \in Items
    BY DEF Items
  <2> QED
    BY <1>1, <2>1 DEF Pace, FirstSold
<1> QED
  BY <1>10, <1>11, <1>12 DEF Pace

-----------------------------------------------------------------------------
\* Every step keeps the pace.
LEMMA PaceStep ==
  ASSUME Inv, Pace, [Next]_vars, ~ overlapped'
  PROVE  Pace'
<1>1. Inv' /\ Sighted' /\ Alone' /\ (Begun => Begun')
  BY InvNext, SightedStep, StartedStays, AloneStep DEF Pace
<1>others. \A t \in Ticks : TickSteps(t) => Others(t)
  BY StepOfRun DEF Others, Pace, Alone
<1>2. ASSUME \/ \E i \in Items : Pay(i) \/ Refund(i)
             \/ \E p \in Processes : Both(p) \/ Crash(p)
             \/ \E t \in Ticks : Start(t)
             \/ \E r \in Reports : Report(r)
             \/ UNCHANGED vars
      PROVE  Pace'
  BY <1>1, <1>2, WorldQuiet, QuietKeeps
<1>3. ASSUME NEW t \in Ticks, OrderSteps(t), Others(t) PROVE Pace'
  <2>1. CASE ClaimOrder(t) \/ Ordered(t)
    BY <1>1, <1>3, <2>1, ClaimOrderStep, OrderedStep
  <2>2. CASE \/ PostOrder(t) \/ OrderRefused(t) \/ OrderLost(t) \/ PollOrder(t)
             \/ Assign(t) \/ ReadStale(t) \/ MarkUnknown(t)
    <3>1. Quiet
      BY <2>2, CronQuiet
    <3> QED
      BY <1>1, <3>1, QuietKeeps
  <2> QED
    BY <1>3, <2>1, <2>2 DEF OrderSteps
<1>4. ASSUME NEW t \in Ticks, ExtendSteps(t), Others(t) PROVE Pace'
  <2>1. CASE \/ ReadPeriods(t) \/ Prolong(t) \/ Refused(t) \/ Prolonged(t)
             \/ \E i \in Items : ClaimPeriod(t, i)
    BY <1>1, <1>4, <2>1, ReadPeriodsStep, ProlongStep, RefusedStep, ProlongedStep, ClaimPeriodStep
  <2>2. CASE \/ Silent(t) \/ RefreshExpiry(t) \/ ReadExtending(t)
             \/ \E i \in Items : ReadItem(t, i) \/ MarkExtending(t, i)
    <3>1. Quiet
      BY <2>2, CronQuiet
    <3> QED
      BY <1>1, <3>1, QuietKeeps
  <2> QED
    BY <1>4, <2>1, <2>2 DEF ExtendSteps
<1>5. ASSUME NEW t \in Ticks, TickSteps(t) PROVE Pace'
  <2>1. CASE \/ Insert(t) \/ CancelUnapplied(t)
             \/ \E i \in Renewals : CancelRenewal(t, i)
    BY <1>1, <1>5, <1>others, <2>1, InsertStep, CancelStep
  <2>2. CASE \/ ReadRefund(t) \/ Revoke(t) \/ Stop(t) \/ Handled(t) \/ Expire(t)
             \/ \E i \in Items : ReadItem(t, i) \/ MarkExtending(t, i)
    <3>1. Quiet
      BY <2>2, CronQuiet
    <3> QED
      BY <1>1, <3>1, QuietKeeps
  <2> QED
    BY <1>3, <1>4, <1>5, <1>others, <2>1, <2>2 DEF TickSteps
<1>6. ASSUME NEW a \in Admins, AdminSteps(a) PROVE Pace'
  <2>1. CASE Replace(a) \/ SetOrder(a) \/ Reorder(a)
    BY <1>1, <2>1, ReplaceStep, SetOrderStep, ReorderStep
  <2>2. ASSUME NEW name \in {"done", "retry"}, PeriodByHand(a, name) PROVE Pace'
    BY <1>1, <2>2, PeriodByHandStep
  <2>3. CASE \/ BeginSuspend(a) \/ BeginResume(a) \/ BeginReplace(a) \/ BeginSetOrder(a)
             \/ BeginReorder(a) \/ Suspend(a) \/ Resume(a)
             \/ \E name \in {"done", "retry"}, i \in Items : BeginPeriod(a, i, name)
    <3>1. Quiet
      BY <2>3, AdminQuiet
    <3> QED
      BY <1>1, <3>1, QuietKeeps
  <2> QED
    BY <1>6, <2>1, <2>2, <2>3 DEF AdminSteps
<1> QED
  BY <1>2, <1>5, <1>6 DEF Next

\* What is given is at most what is paid and asked for again: of renewals
\* always, of the first item while nobody allows another purchase.
LEMMA PacedTerms ==
  ASSUME Inv, Pace, NEW i \in Items, Countable(i)
  PROVE  Given(i) <= Units[i] + again[i]
<1>1. Left(i, 0)
  BY DEF Pace, Paced
<1> QED
  BY <1>1, Numbers DEF Left

\* Until runs overlap the pace is kept.
LEMMA PaceHolds == Spec => [](Inv /\ (overlapped \/ Pace))
<1>1. Init => Inv
  BY InvInit
<1>2. Init => Pace
  BY PaceInit
<1>3. Inv /\ [Next]_vars => Inv'
  BY InvNext
<1>4. Inv /\ (overlapped \/ Pace) /\ [Next]_vars => (overlapped \/ Pace)'
  BY PaceStep, AloneStep
<1> QED
  BY <1>1, <1>2, <1>3, <1>4, PTL DEF Spec

-----------------------------------------------------------------------------
(***************************************************************************)
(* Runs that overlap.  A term is owed for each run that has claimed an     *)
(* item and whose call has added nothing yet, and one while the item       *)
(* waits.  What is given and owed stays within what is paid, asked for     *)
(* again, and left out of the count.                                       *)
(***************************************************************************)
Asking(t, i) == IF run[t].item = i /\ run[t].pc \in {"prolong", "refuse"} THEN 1 ELSE 0

Claims(i) == {t \in Ticks : Asking(t, i) = 1}

Waiting(i) == IF period[i].status \in {"pending", "failed"} THEN 1 ELSE 0

Excused(i) == again[i] + miscounted[i]

\* Within what is paid, and at most one ahead of the count.
Balanced(i) ==
  Countable(i) =>
    /\ Given(i) + Cardinality(Claims(i)) + Waiting(i) <= Units[i] + Excused(i)
    /\ Given(i) + Cardinality(Claims(i)) + Waiting(i) <= period[i].units + 1 + Excused(i)

\* An item that was not served has no terms, and the first has one from then on.
Served(i) ==
  /\ period[i].status \in Unserved => period[i].units = 0 /\ extended[i] = 0
  /\ i = First => period[i].status # "elsewhere"
  /\ i = First /\ period[i].status \notin Unserved => period[i].units >= 1

Relies(t) ==
  /\ run[t].pc = "insert" /\ run[t].saw # "absent" => Begun
  /\ run[t].pc \in Holding => period[run[t].item].status \notin Unserved

Ledger ==
  /\ \A i \in Items : Served(i) /\ Balanced(i)
  /\ \A t \in Ticks : Relies(t)
  /\ Sighted

\* The numbers of the ledger.
LEMMA LedgerNumbers ==
  ASSUME Inv, NEW i \in Items
  PROVE  /\ IsFiniteSet(Claims(i)) /\ Cardinality(Claims(i)) \in Nat
         /\ Waiting(i) \in {0, 1} /\ Excused(i) \in Nat /\ miscounted[i] \in Nat
         /\ Given(i) \in Nat /\ period[i].units \in Nat /\ Units[i] \in Nat \ {0}
         /\ again[i] \in Nat /\ extended[i] \in Nat
<1>1. IsFiniteSet(Claims(i))
  BY HostedAssumption, FS_Subset DEF Claims
<1>2. Cardinality(Claims(i)) \in Nat
  BY <1>1, FS_CardinalityType
<1>3. miscounted[i] \in Nat /\ again[i] \in Nat
  BY DEF Inv, WorldSound
<1> QED
  BY <1>1, <1>2, <1>3, Numbers DEF Waiting, Excused

\* The numbers after a step.
LEMMA LedgerNumbersNext ==
  ASSUME Inv', NEW i \in Items
  PROVE  /\ Cardinality(Claims(i))' \in Nat /\ Waiting(i)' \in {0, 1}
         /\ Excused(i)' \in Nat /\ miscounted'[i] \in Nat /\ again'[i] \in Nat
         /\ Given(i)' \in Nat /\ period'[i].units \in Nat /\ extended'[i] \in Nat
<1>1. IsFiniteSet(Claims(i)')
  BY HostedAssumption, FS_Subset DEF Claims
<1>2. Cardinality(Claims(i)') \in Nat
  BY <1>1, FS_CardinalityType
<1>3. /\ miscounted'[i] \in Nat /\ again'[i] \in Nat /\ extended'[i] \in Nat
      /\ period'[i].units \in Nat
  BY DEF Inv, WorldSound, ShopSound, Periods
<1> QED
  BY <1>2, <1>3 DEF Waiting, Excused, Given

LEMMA LedgerInit == Init => Ledger
<1> SUFFICES ASSUME Init PROVE Ledger
  OBVIOUS
<1>1. ASSUME NEW t \in Ticks PROVE run[t].pc = "idle"
  BY DEF Init, At, Processes
<1>2. ASSUME NEW i \in Items PROVE Served(i) /\ Balanced(i)
  <2>1. /\ period[i].status = "absent" /\ period[i].units = 0 /\ extended[i] = 0
        /\ again[i] = 0 /\ miscounted[i] = 0 /\ Units[i] \in Nat \ {0}
    BY HostedAssumption DEF Init, Period
  <2>2. Claims(i) = {}
    BY <1>1 DEF Claims, Asking
  <2>3. Cardinality(Claims(i)) = 0
    BY <2>2, FS_EmptySet
  <2> QED
    BY <2>1, <2>3 DEF Served, Balanced, Given, Waiting, Excused, Unserved
<1>3. \A a \in Admins : admin[a].act = "none"
  BY DEF Init, NoAct, Act
<1> QED
  BY <1>1, <1>2, <1>3 DEF Ledger, Relies, Sighted, Holding

\* One run moves, and with it its own claim.
LEMMA ClaimsMoved ==
  ASSUME Inv, NEW t \in Ticks, NEW i \in Items, \A u \in Ticks : u # t => run'[u] = run[u]
  PROVE  Cardinality(Claims(i))' + Asking(t, i) = Cardinality(Claims(i)) + Asking(t, i)'
<1>1. IsFiniteSet(Claims(i)) /\ Cardinality(Claims(i)) \in Nat
  BY LedgerNumbers
<1>2. ASSUME NEW u \in Ticks, u # t PROVE Asking(u, i)' = Asking(u, i)
  BY <1>2 DEF Asking
<1>3. Asking(t, i) \in {0, 1} /\ Asking(t, i)' \in {0, 1}
  BY DEF Asking
<1>4. t \in Claims(i) <=> Asking(t, i) = 1
  BY DEF Claims
<1>5. CASE Asking(t, i)' = Asking(t, i)
  <2>1. Claims(i)' = Claims(i)
    BY <1>2, <1>5 DEF Claims
  <2> QED
    BY <1>1, <1>3, <1>5, <2>1
<1>6. CASE Asking(t, i) = 1 /\ Asking(t, i)' = 0
  <2>1. Claims(i)' = Claims(i) \ {t}
    BY <1>2, <1>6 DEF Claims
  <2>2. Cardinality(Claims(i) \ {t}) = Cardinality(Claims(i)) - 1
    BY <1>1, <1>4, <1>6, FS_RemoveElement
  <2> QED
    BY <1>1, <1>6, <2>1, <2>2
<1>7. CASE Asking(t, i) = 0 /\ Asking(t, i)' = 1
  <2>1. Claims(i)' = Claims(i) \cup {t}
    BY <1>2, <1>7 DEF Claims
  <2>2. Cardinality(Claims(i) \cup {t}) = Cardinality(Claims(i)) + 1
    BY <1>1, <1>4, <1>7, FS_AddElement
  <2> QED
    BY <1>1, <1>7, <2>1, <2>2
<1> QED
  BY <1>3, <1>5, <1>6, <1>7

\* A run that takes up what waits, or gives up what it claimed, and a call that
\* adds a term, move what is owed and what is given into each other.
LEMMA BalanceMoved ==
  ASSUME Inv, Inv', NEW t \in Ticks, NEW i \in Items, Balanced(i),
         \A u \in Ticks : u # t => run'[u] = run[u],
         reorders' = reorders, again'[i] = again[i], miscounted'[i] = miscounted[i],
         period'[i].units = period[i].units,
         extended'[i] + Asking(t, i)' + Waiting(i)' <= extended[i] + Asking(t, i) + Waiting(i)
  PROVE  Balanced(i)'
<1>1. Cardinality(Claims(i))' + Asking(t, i) = Cardinality(Claims(i)) + Asking(t, i)'
  BY ClaimsMoved
<1>2. /\ Cardinality(Claims(i)) \in Nat /\ Cardinality(Claims(i))' \in Nat
      /\ Waiting(i) \in {0, 1} /\ Waiting(i)' \in {0, 1} /\ Excused(i) \in Nat
      /\ extended[i] \in Nat /\ extended'[i] \in Nat /\ Units[i] \in Nat
      /\ period[i].units \in Nat
  BY LedgerNumbers, LedgerNumbersNext
<1>3. Asking(t, i) \in {0, 1} /\ Asking(t, i)' \in {0, 1}
  BY DEF Asking
<1>4. Excused(i)' = Excused(i) /\ (Countable(i)' => Countable(i))
  BY DEF Excused, Countable
<1> DEFINE g == extended[i]
           h == extended'[i]
           c == Cardinality(Claims(i))
           d == Cardinality(Claims(i))'
           a == Asking(t, i)
           b == Asking(t, i)'
           w == Waiting(i)
           v == Waiting(i)'
           o == IF i = First THEN 1 ELSE 0
           x == Excused(i)
           n == period[i].units
<1>5. d + a = c + b /\ h + b + v <= g + a + w
  BY <1>1
<1>6. Countable(i) => g + o + c + w <= Units[i] + x /\ g + o + c + w <= n + 1 + x
  BY DEF Balanced, Given
<1>7. o \in {0, 1}
  OBVIOUS
<1>8. Countable(i)' => h + o + d + v <= Units[i] + x /\ h + o + d + v <= n + 1 + x
  <2>1. /\ c \in Nat /\ d \in Nat /\ w \in {0, 1} /\ v \in {0, 1} /\ x \in Nat /\ g \in Nat
        /\ h \in Nat /\ Units[i] \in Nat /\ n \in Nat /\ a \in {0, 1} /\ b \in {0, 1}
    BY <1>2, <1>3
  <2> HIDE DEF g, h, c, d, a, b, w, v, o, x, n
  <2> QED
    BY <1>4, <1>5, <1>6, <1>7, <2>1
<1> QED
  BY <1>4, <1>8 DEF Balanced, Given

LEMMA BalanceKept ==
  ASSUME Inv, Inv', NEW i \in Items, Balanced(i), Same(i), reorders' = reorders,
         miscounted' = miscounted, Claims(i)' \subseteq Claims(i)
  PROVE  Balanced(i)'
<1>1. Cardinality(Claims(i))' <= Cardinality(Claims(i))
  BY LedgerNumbers, FS_Subset
<1>2. /\ Given(i)' = Given(i) /\ Waiting(i)' = Waiting(i) /\ Excused(i)' = Excused(i)
      /\ period'[i].units = period[i].units /\ (Countable(i)' <=> Countable(i))
  BY DEF Same, Given, Waiting, Excused, Countable
<1>3. /\ Cardinality(Claims(i)) \in Nat /\ Cardinality(Claims(i))' \in Nat
      /\ Waiting(i) \in {0, 1} /\ Excused(i) \in Nat /\ Given(i) \in Nat
      /\ Units[i] \in Nat /\ period[i].units \in Nat
  BY LedgerNumbers, LedgerNumbersNext
<1> QED
  BY <1>1, <1>2, <1>3 DEF Balanced

\* Steps that move nothing that is counted.
LEMMA LedgerQuiet ==
  ASSUME Inv, Inv', Ledger, Quiet, Begun => Begun', Sighted'
  PROVE  Ledger'
<1>1. ASSUME NEW i \in Items PROVE Served(i)' /\ Balanced(i)'
  <2>1. Claims(i)' \subseteq Claims(i)
    BY DEF Quiet, Rests, Claims, Asking, Extending, Ordering
  <2>2. Balanced(i)'
    BY <2>1, BalanceKept DEF Ledger, Quiet
  <2>3. Served(i)'
    BY DEF Ledger, Quiet, Served, Same
  <2> QED
    BY <2>2, <2>3
<1>2. ASSUME NEW t \in Ticks PROVE Relies(t)'
  <2>1. run[t].pc \in Holding => run[t].item \in Items
    BY DEF Inv, RunsSound, RunKnows, Processes, Holding, WithItem
  <2>2. CASE run'[t] = run[t]
    BY <2>1, <2>2 DEF Ledger, Relies, Quiet, Same
  <2>3. CASE run'[t] # run[t]
    BY <2>3 DEF Quiet, Rests, Relies, Holding, Extending, Ordering
  <2> QED
    BY <2>2, <2>3
<1> QED
  BY <1>1, <1>2 DEF Ledger

\* A step of one run.
Frame(t) == \A u \in Ticks : u # t => run'[u] = run[u]

\* Items that were served stay so, and so does the subscription.
Onward ==
  /\ Begun => Begun'
  /\ \A i \in Items : period[i].status \notin Unserved => period'[i].status \notin Unserved

LEMMA LedgerRun ==
  ASSUME Inv, Ledger, Sighted', Onward, NEW t \in Ticks, Frame(t),
         \A i \in Items : Served(i)' /\ Balanced(i)', Relies(t)'
  PROVE  Ledger'
<1>1. ASSUME NEW u \in Ticks, u # t PROVE Relies(u)'
  <2>1. run[u].pc \in Holding => run[u].item \in Items
    BY Typed
  <2> QED
    BY <1>1, <2>1 DEF Frame, Onward, Ledger, Relies
<1> QED
  BY <1>1 DEF Ledger

\* Nobody has claimed an item that was not served.
LEMMA Unclaimed ==
  ASSUME Ledger, NEW i \in Items, period[i].status \in Unserved
  PROVE  Claims(i) = {} /\ Cardinality(Claims(i)) = 0
<1>1. Claims(i) = {}
  BY DEF Ledger, Relies, Claims, Asking, Holding
<1> QED
  BY <1>1, FS_EmptySet

\* processPaidItem: an item has no terms yet; a renewal waits for them.
LEMMA LedgerInsert ==
  ASSUME Inv, Inv', Ledger, Sighted', Begun => Begun', NEW t \in Ticks, Frame(t), Insert(t)
  PROVE  Ledger'
<1> USE DEF shop, provider, permits, world
<1>i. PICK i \in Items : i = run[t].item
  BY DEF Insert, Inv, RunsSound, RunKnows, WithItem, Processes
<1>1. /\ run[t].pc = "insert" /\ UNCHANGED <<extended, again, miscounted, reorders>>
  BY DEF Insert
<1>2. run'[t].pc \in {"refunds", "ingest"}
  BY Typed DEF Insert, Go, At
<1>3. \A j \in Items : Asking(t, j) = 0 /\ Asking(t, j)' = 0
  BY <1>1, <1>2 DEF Asking
<1>4. Relies(t)'
  BY <1>2 DEF Relies, Holding
<1>5. ASSUME NEW j \in Items, period'[j] = period[j] PROVE Served(j)' /\ Balanced(j)'
  <2>1. Waiting(j)' = Waiting(j)
    BY <1>5 DEF Waiting
  <2>2. extended[j] \in Nat /\ extended'[j] = extended[j] /\ Waiting(j) \in {0, 1}
    BY <1>1, LedgerNumbers
  <2>3. extended'[j] + Asking(t, j)' + Waiting(j)' <= extended[j] + Asking(t, j) + Waiting(j)
    BY <1>3, <2>1, <2>2
  <2>4. Balanced(j)'
    BY <1>1, <1>5, <2>3, BalanceMoved DEF Ledger, Frame
  <2>5. Served(j)'
    BY <1>1, <1>5 DEF Ledger, Served
  <2> QED
    BY <2>4, <2>5
<1>6. CASE period[i].status # "absent"
  <2>1. period' = period
    BY <1>i, <1>6 DEF Insert
  <2> QED
    BY <1>4, <1>5, <2>1, LedgerRun DEF Onward
<1>7. CASE period[i].status = "absent"
  <2>1. PICK s \in {"pending", "none", "elsewhere"} :
          /\ period' = [period EXCEPT ![i] = Period(s)]
          /\ s = "elsewhere" => i # First
          /\ s = "pending" => run[t].saw # "absent"
    BY <1>i, <1>7 DEF Insert
  <2>2. s = "pending" => i # First
    BY <1>1, <1>7, <2>1 DEF Ledger, Relies, Begun
  <2>3. /\ period'[i].status = s /\ period'[i].units = 0
        /\ \A j \in Items : j # i => period'[j] = period[j]
    BY <2>1, Typed DEF Period
  <2>4. extended'[i] = 0 /\ Cardinality(Claims(i)) = 0 /\ i \in Items
    BY <1>1, <1>7, Unclaimed DEF Ledger, Served, Unserved
  <2>5. Served(i)'
    BY <2>1, <2>2, <2>3, <2>4 DEF Served, Unserved
  <2>6. Balanced(i)'
    <3>1. Cardinality(Claims(i))' = 0
      <4>1. /\ Cardinality(Claims(i))' + Asking(t, i) = Cardinality(Claims(i)) + Asking(t, i)'
            /\ Cardinality(Claims(i))' \in Nat
        BY ClaimsMoved, LedgerNumbersNext DEF Frame
      <4> QED
        BY <1>3, <2>4, <4>1
    <3>2. Given(i)' + Waiting(i)' <= 1 /\ Given(i)' \in Nat /\ Waiting(i)' \in {0, 1}
      BY <2>1, <2>2, <2>3, <2>4 DEF Given, Waiting
    <3>3. Units[i] \in Nat \ {0} /\ Excused(i)' \in Nat
      BY LedgerNumbers, LedgerNumbersNext
    <3> QED
      BY <2>3, <3>1, <3>2, <3>3 DEF Balanced
  <2>7. Onward
    BY <1>7, <2>3 DEF Onward, Unserved
  <2> QED
    BY <1>4, <1>5, <2>3, <2>5, <2>6, <2>7, LedgerRun
<1> QED
  BY <1>6, <1>7

\* Steps that read, or that take up, drop or add what is owed.
LEMMA LedgerMoved ==
  ASSUME Inv, Inv', Ledger, Sighted', Begun => Begun', NEW t \in Ticks, Frame(t),
         UNCHANGED <<again, miscounted, reorders>>, Relies(t)',
         \A i \in Items :
           /\ period'[i].units = period[i].units
           /\ \/ period'[i].status = period[i].status
              \/ period[i].status \notin Unserved /\ period'[i].status \notin Unserved
           /\ extended'[i] = extended[i] \/ period[i].status \notin Unserved
           /\ extended'[i] + Asking(t, i)' + Waiting(i)'
                <= extended[i] + Asking(t, i) + Waiting(i)
  PROVE  Ledger'
<1>1. ASSUME NEW i \in Items PROVE Served(i)' /\ Balanced(i)'
  <2>1. Balanced(i)'
    BY BalanceMoved DEF Ledger, Frame
  <2>2. Served(i)'
    BY DEF Ledger, Served, Unserved
  <2> QED
    BY <2>1, <2>2
<1>2. Onward
  BY DEF Onward
<1> QED
  BY <1>1, <1>2, LedgerRun

\* placeOrder, and the reading of the periods.
LEMMA LedgerRead ==
  ASSUME Inv, Inv', Ledger, Sighted', Begun => Begun', NEW t \in Ticks, Frame(t),
         ClaimOrder(t) \/ ReadPeriods(t)
  PROVE  Ledger'
<1> USE DEF shop, provider, permits, world
<1>1. UNCHANGED <<period, extended, again, miscounted, reorders>>
  BY DEF ClaimOrder, ReadPeriods
<1>2. run[t].pc \in {"order", "extend"} /\ run'[t].pc \in {"post", "extend1"}
  <2>1. CASE ClaimOrder(t)
    BY <2>1, Typed DEF ClaimOrder, Go, At
  <2>2. CASE ReadPeriods(t)
    BY <2>2, Typed DEF ReadPeriods, At
  <2> QED
    BY <2>1, <2>2
<1>3. \A i \in Items : Asking(t, i) = 0 /\ Asking(t, i)' = 0
  BY <1>2 DEF Asking
<1>4. Relies(t)'
  BY <1>2 DEF Relies, Holding
<1>5. ASSUME NEW i \in Items
      PROVE  extended'[i] + Asking(t, i)' + Waiting(i)'
               <= extended[i] + Asking(t, i) + Waiting(i)
  <2>1. extended[i] \in Nat /\ Waiting(i) \in {0, 1} /\ Waiting(i)' = Waiting(i)
    BY <1>1, LedgerNumbers DEF Waiting
  <2> QED
    BY <1>1, <1>3, <2>1
<1> QED
  BY <1>1, <1>4, <1>5, LedgerMoved

\* claimPeriod: what waited is claimed.
LEMMA LedgerClaim ==
  ASSUME Inv, Inv', Ledger, Sighted', Begun => Begun', NEW t \in Ticks, Frame(t),
         NEW k \in Items, ClaimPeriod(t, k)
  PROVE  Ledger'
<1> USE DEF shop, provider, permits, world
<1>1. /\ run[t].pc = "extend1" /\ UNCHANGED <<extended, again, miscounted, reorders>>
  BY DEF ClaimPeriod
<1>2. \A i \in Items : Asking(t, i) = 0 /\ extended[i] \in Nat /\ Waiting(i) \in {0, 1}
  BY <1>1, LedgerNumbers DEF Asking
<1>3. CASE period[k].status = "pending"
  <2>1. run'[t].pc = "prolong" /\ run'[t].item = k
    BY <1>3, Typed DEF ClaimPeriod, Runs
  <2>2. /\ period'[k].status = "extending" /\ period'[k].units = period[k].units
        /\ \A j \in Items : j # k => period'[j] = period[j]
    BY <1>3, Typed DEF ClaimPeriod, Periods
  <2>3. Relies(t)'
    BY <2>1, <2>2 DEF Relies, Unserved
  <2>4. ASSUME NEW i \in Items
        PROVE  Asking(t, i)' + Waiting(i)' <= Asking(t, i) + Waiting(i)
    <3>1. CASE i = k
      <4>1. Asking(t, i)' = 1 /\ Waiting(i)' = 0 /\ Waiting(i) = 1
        BY <1>3, <2>1, <2>2, <3>1 DEF Asking, Waiting
      <4> QED
        BY <1>2, <4>1
    <3>2. CASE i # k
      <4>1. Asking(t, i)' = 0 /\ Waiting(i)' = Waiting(i)
        BY <2>1, <2>2, <3>2 DEF Asking, Waiting
      <4> QED
        BY <1>2, <4>1
    <3> QED
      BY <3>1, <3>2
  <2>5. ASSUME NEW i \in Items
        PROVE  /\ extended'[i] = extended[i] /\ period'[i].units = period[i].units
               /\ \/ period'[i].status = period[i].status
                  \/ period[i].status \notin Unserved /\ period'[i].status \notin Unserved
               /\ extended'[i] + Asking(t, i)' + Waiting(i)'
                    <= extended[i] + Asking(t, i) + Waiting(i)
    <3>1. Asking(t, i)' \in {0, 1} /\ Waiting(i)' \in {0, 1}
      BY DEF Asking, Waiting
    <3>2. extended'[i] + Asking(t, i)' + Waiting(i)'
            <= extended[i] + Asking(t, i) + Waiting(i)
      BY <1>1, <1>2, <2>4, <3>1
    <3> QED
      BY <1>1, <1>3, <2>2, <3>2 DEF Unserved
  <2> QED
    BY <1>1, <2>3, <2>5, LedgerMoved
<1>4. CASE period[k].status # "pending"
  <2>1. run'[t].pc = "extend1" /\ period' = period
    BY <1>1, <1>4, Typed DEF ClaimPeriod, Runs
  <2>2. Relies(t)'
    BY <2>1 DEF Relies, Holding
  <2>3. ASSUME NEW i \in Items
        PROVE  extended'[i] + Asking(t, i)' + Waiting(i)'
                 <= extended[i] + Asking(t, i) + Waiting(i)
    <3>1. Asking(t, i)' = 0 /\ Waiting(i)' = Waiting(i)
      BY <2>1 DEF Asking, Waiting
    <3> QED
      BY <1>1, <1>2, <3>1
  <2> QED
    BY <1>1, <2>1, <2>2, <2>3, LedgerMoved
<1> QED
  BY <1>3, <1>4

\* extendOrder: a term that was claimed is added, or not.
LEMMA LedgerProlong ==
  ASSUME Inv, Inv', Ledger, Sighted', Begun => Begun', NEW t \in Ticks, Frame(t), Prolong(t)
  PROVE  Ledger'
<1> USE DEF shop, provider, permits, world
<1>1. /\ run[t].pc = "prolong" /\ UNCHANGED <<period, again, miscounted, reorders>>
  BY DEF Prolong
<1>i. PICK k \in Items : k = run[t].item
  BY <1>1, Typed DEF Holding
<1>2. run'[t].pc \in {"refuse", "silent", "prolonged"} /\ run'[t].item = k
  BY <1>i, Typed DEF Prolong, Runs
<1>3. period[k].status \notin Unserved
  BY <1>1, <1>i DEF Ledger, Relies, Holding
<1>4. Relies(t)'
  BY <1>1, <1>2, <1>3 DEF Relies
<1>5. \/ extended' = extended
      \/ /\ extended' = [extended EXCEPT ![k] = @ + 1]
         /\ run'[t].pc \in {"silent", "prolonged"}
  BY <1>i, Typed DEF Prolong, Runs
<1>6. ASSUME NEW i \in Items
      PROVE  /\ extended'[i] = extended[i] \/ period[i].status \notin Unserved
             /\ extended'[i] + Asking(t, i)' + Waiting(i)'
                  <= extended[i] + Asking(t, i) + Waiting(i)
  <2>1. /\ extended[i] \in Nat /\ Waiting(i) \in {0, 1} /\ Waiting(i)' = Waiting(i)
        /\ Asking(t, i)' \in {0, 1} /\ Asking(t, i) \in {0, 1}
    BY <1>1, LedgerNumbers DEF Waiting, Asking
  <2>2. CASE i = k
    <3>1. Asking(t, i) = 1
      BY <1>1, <1>i, <2>2 DEF Asking
    <3>2. CASE extended' = extended
      BY <2>1, <3>1, <3>2
    <3>3. CASE /\ extended' = [extended EXCEPT ![k] = @ + 1]
               /\ run'[t].pc \in {"silent", "prolonged"}
      <4>1. extended'[i] = extended[i] + 1
        BY <2>2, <3>3, Typed
      <4>2. Asking(t, i)' = 0
        BY <3>3 DEF Asking
      <4> QED
        BY <1>3, <2>1, <2>2, <3>1, <4>1, <4>2
    <3> QED
      BY <1>5, <3>2, <3>3
  <2>3. CASE i # k
    <3>1. Asking(t, i)' = 0 /\ extended'[i] = extended[i]
      BY <1>2, <1>5, <2>3, Typed DEF Asking
    <3> QED
      BY <2>1, <3>1
  <2> QED
    BY <2>2, <2>3
<1> QED
  BY <1>1, <1>4, <1>6, LedgerMoved

\* A refusal gives the claim up, and the item may be tried again.
LEMMA LedgerRefused ==
  ASSUME Inv, Inv', Ledger, Sighted', Begun => Begun', NEW t \in Ticks, Frame(t), Refused(t)
  PROVE  Ledger'
<1> USE DEF shop, provider, permits, world
<1>1. /\ run[t].pc = "refuse" /\ UNCHANGED <<extended, again, miscounted, reorders>>
  BY DEF Refused
<1>i. PICK k \in Items : k = run[t].item
  BY <1>1, Typed DEF Holding
<1>2. run'[t].pc = "extend1"
  BY Typed DEF Refused, Runs
<1>3. /\ period'[k].status = "failed" /\ period'[k].units = period[k].units
      /\ \A j \in Items : j # k => period'[j] = period[j]
  BY <1>i, Typed DEF Refused, Periods
<1>4. period[k].status \notin Unserved
  BY <1>1, <1>i DEF Ledger, Relies, Holding
<1>5. Relies(t)'
  BY <1>2 DEF Relies, Holding
<1>6. ASSUME NEW i \in Items
      PROVE  /\ period'[i].units = period[i].units
             /\ \/ period'[i].status = period[i].status
                \/ period[i].status \notin Unserved /\ period'[i].status \notin Unserved
             /\ extended'[i] + Asking(t, i)' + Waiting(i)'
                  <= extended[i] + Asking(t, i) + Waiting(i)
  <2>1. /\ extended[i] \in Nat /\ Waiting(i) \in {0, 1} /\ Waiting(i)' \in {0, 1}
        /\ Asking(t, i)' = 0 /\ Asking(t, i) \in {0, 1}
    BY <1>2, LedgerNumbers DEF Waiting, Asking
  <2>2. Waiting(i)' <= Asking(t, i) + Waiting(i)
    <3>1. CASE i = k
      <4>1. Asking(t, i) = 1
        BY <1>1, <1>i, <3>1 DEF Asking
      <4> QED
        BY <2>1, <4>1
    <3>2. CASE i # k
      <4>1. Waiting(i)' = Waiting(i)
        BY <1>3, <3>2 DEF Waiting
      <4> QED
        BY <2>1, <4>1
    <3> QED
      BY <3>1, <3>2
  <2>3. extended'[i] + Asking(t, i)' + Waiting(i)' <= extended[i] + Asking(t, i) + Waiting(i)
    BY <1>1, <2>1, <2>2
  <2> QED
    BY <1>3, <1>4, <2>3 DEF Unserved
<1> QED
  BY <1>1, <1>5, <1>6, LedgerMoved

\* Renewals that are cancelled wait no longer.
LEMMA LedgerCancel ==
  ASSUME Inv, Inv', Ledger, Sighted', Begun => Begun', NEW t \in Ticks, Frame(t),
         CancelUnapplied(t) \/ \E k \in Renewals : CancelRenewal(t, k)
  PROVE  Ledger'
<1> USE DEF shop, provider, permits, world
<1>1. /\ run[t].pc \in {"cancel", "renewals"}
      /\ UNCHANGED <<extended, again, miscounted, reorders>>
  BY DEF CancelUnapplied, CancelRenewal
<1>2. run'[t].pc \in {"idle", "renewals", "handled"}
  <2>1. CASE CancelUnapplied(t)
    BY <2>1, Typed DEF CancelUnapplied, Go, At
  <2>2. ASSUME NEW k \in Renewals, CancelRenewal(t, k)
        PROVE  run'[t].pc \in {"idle", "renewals", "handled"}
    <3>1. CASE run' = run
      BY <2>2, <3>1 DEF CancelRenewal
    <3>2. CASE run' = [run EXCEPT ![t].pc = "handled", ![t].item = k]
      BY <3>2, Typed DEF Runs
    <3> QED
      BY <2>2, <3>1, <3>2 DEF CancelRenewal
  <2> QED
    BY <2>1, <2>2
<1>3. ASSUME NEW j \in Items
      PROVE  /\ period'[j].units = period[j].units
             /\ \/ period'[j].status = period[j].status
                \/ /\ period[j].status \in {"pending", "failed"}
                   /\ period'[j].status = "cancelled"
  <2>1. CASE CancelUnapplied(t)
    BY <2>1, Typed DEF CancelUnapplied, Periods
  <2>2. ASSUME NEW k \in Renewals, CancelRenewal(t, k)
        PROVE  /\ period'[j].units = period[j].units
               /\ \/ period'[j].status = period[j].status
                  \/ /\ period[j].status \in {"pending", "failed"}
                     /\ period'[j].status = "cancelled"
    BY <2>2, Typed DEF CancelRenewal, Periods, Items
  <2> QED
    BY <2>1, <2>2
<1>4. Relies(t)'
  BY <1>2 DEF Relies, Holding
<1>5. ASSUME NEW i \in Items
      PROVE  /\ period'[i].units = period[i].units
             /\ \/ period'[i].status = period[i].status
                \/ period[i].status \notin Unserved /\ period'[i].status \notin Unserved
             /\ extended'[i] + Asking(t, i)' + Waiting(i)'
                  <= extended[i] + Asking(t, i) + Waiting(i)
  <2>1. /\ extended[i] \in Nat /\ Waiting(i) \in {0, 1} /\ Waiting(i)' \in {0, 1}
        /\ Asking(t, i)' = 0 /\ Asking(t, i) = 0
    BY <1>1, <1>2, LedgerNumbers DEF Waiting, Asking
  <2>2. Waiting(i)' <= Waiting(i)
    BY <1>3, <2>1 DEF Waiting
  <2>3. extended'[i] + Asking(t, i)' + Waiting(i)' <= extended[i] + Asking(t, i) + Waiting(i)
    BY <1>1, <2>1, <2>2
  <2> QED
    BY <1>3, <2>3 DEF Unserved
<1> QED
  BY <1>1, <1>4, <1>5, LedgerMoved

\* A term that was added is counted.  Whether one is left is decided by the count
\* that was read: rightly if it is still so, and otherwise the write is excused.
LEMMA LedgerProlonged ==
  ASSUME Inv, Inv', Ledger, Sighted', Begun => Begun', NEW t \in Ticks, Frame(t), Prolonged(t)
  PROVE  Ledger'
<1> USE DEF shop, provider, permits, world
<1>1. /\ run[t].pc = "prolonged" /\ UNCHANGED <<extended, again, reorders>>
  BY DEF Prolonged
<1>i. PICK k \in Items : k = run[t].item
  BY <1>1, Typed DEF Holding
<1>2. run'[t].pc = "reread"
  BY Typed DEF Prolonged, Runs
<1>3. /\ period'[k].status = (IF run[t].seen[k] + 1 >= Units[k] THEN "done" ELSE "pending")
      /\ period'[k].units = period[k].units + 1
      /\ \A j \in Items : j # k => period'[j] = period[j]
  BY <1>i, Typed DEF Prolonged, Periods
<1>4. /\ miscounted'[k] = (IF run[t].seen[k] = period[k].units
                             THEN miscounted[k] ELSE miscounted[k] + 1)
      /\ \A j \in Items : j # k => miscounted'[j] = miscounted[j]
  <2>1. miscounted \in [Items -> Nat]
    BY DEF Inv, WorldSound
  <2> QED
    BY <1>i, <2>1 DEF Prolonged, Counts
<1>5. period[k].status \notin Unserved
  BY <1>1, <1>i DEF Ledger, Relies, Holding
<1>6. \A i \in Items : Asking(t, i) = 0 /\ Asking(t, i)' = 0
  BY <1>1, <1>2 DEF Asking
<1>7. Relies(t)'
  BY <1>2 DEF Relies, Holding
<1>8. ASSUME NEW i \in Items, i # k PROVE Served(i)' /\ Balanced(i)'
  <2>1. Waiting(i)' = Waiting(i)
    BY <1>3, <1>8 DEF Waiting
  <2>2. extended[i] \in Nat /\ Waiting(i) \in {0, 1} /\ extended'[i] = extended[i]
    BY <1>1, LedgerNumbers
  <2>3. extended'[i] + Asking(t, i)' + Waiting(i)' <= extended[i] + Asking(t, i) + Waiting(i)
    BY <1>6, <2>1, <2>2
  <2>4. Balanced(i)'
    BY <1>1, <1>3, <1>4, <1>8, <2>3, BalanceMoved DEF Ledger, Frame
  <2>5. Served(i)'
    BY <1>1, <1>3, <1>8 DEF Ledger, Served
  <2> QED
    BY <2>4, <2>5
<1>9. Served(k)'
  <2>1. period[k].units \in Nat
    BY LedgerNumbers
  <2> QED
    BY <1>3, <1>5, <2>1 DEF Ledger, Served, Unserved
<1>10. Balanced(k)'
  <2>1. Cardinality(Claims(k))' = Cardinality(Claims(k))
    <3>1. Cardinality(Claims(k))' + Asking(t, k) = Cardinality(Claims(k)) + Asking(t, k)'
      BY ClaimsMoved DEF Frame
    <3>2. Cardinality(Claims(k)) \in Nat /\ Cardinality(Claims(k))' \in Nat
      BY LedgerNumbers, LedgerNumbersNext
    <3> QED
      BY <1>6, <3>1, <3>2
  <2>2. Given(k)' = Given(k) /\ (Countable(k)' <=> Countable(k))
    BY <1>1 DEF Given, Countable
  <2> DEFINE g == Given(k)
             c == Cardinality(Claims(k))
             w == Waiting(k)
             v == Waiting(k)'
             x == again[k]
             m == miscounted[k]
             q == miscounted'[k]
             n == period[k].units
             z == run[t].seen[k]
             y == Units[k]
  <2>3. /\ g \in Nat /\ c \in Nat /\ w \in {0, 1} /\ x \in Nat /\ m \in Nat /\ n \in Nat
        /\ y \in Nat /\ z \in Nat
    <3>1. z \in Nat
      BY Typed DEF Runs
    <3> QED
      BY <3>1, LedgerNumbers
  <2>4. Countable(k) => g + c + w <= y + (x + m) /\ g + c + w <= n + 1 + (x + m)
    BY DEF Ledger, Balanced, Excused
  <2>5. v = (IF z + 1 >= y THEN 0 ELSE 1) /\ q = (IF z = n THEN m ELSE m + 1)
    BY <1>3, <1>4 DEF Waiting
  <2>6. Countable(k) => g + c + v <= y + (x + q) /\ g + c + v <= n + 1 + 1 + (x + q)
    <3> HIDE DEF g, c, w, v, x, m, q, n, z, y
    <3> QED
      BY <2>3, <2>4, <2>5
  <2>7. Excused(k)' = x + q /\ period'[k].units = n + 1
    BY <1>1, <1>3 DEF Excused
  <2> QED
    BY <2>1, <2>2, <2>6, <2>7 DEF Balanced
<1>11. Onward
  BY <1>3, <1>5 DEF Onward, Unserved
<1> QED
  BY <1>7, <1>8, <1>9, <1>10, <1>11, LedgerRun

\* The first term that is counted of an item that was not served.
LEMMA FirstServed ==
  ASSUME Inv, Inv', Ledger, period[First].status \in Unserved, extended' = extended,
         period'[First].status = (IF Units[First] > 1 THEN "pending" ELSE "done"),
         period'[First].units = 1, Cardinality(Claims(First))' = Cardinality(Claims(First))
  PROVE  Served(First)' /\ Balanced(First)'
<1>1. First \in Items
  BY DEF Items
<1>2. extended[First] = 0 /\ Cardinality(Claims(First)) = 0
  BY <1>1, Unclaimed DEF Ledger, Served
<1>3. Given(First)' = 1 /\ Waiting(First)' = (IF Units[First] > 1 THEN 1 ELSE 0)
  BY <1>2 DEF Given, Waiting
<1>4. Units[First] \in Nat \ {0} /\ Excused(First)' \in Nat
  BY <1>1, LedgerNumbers, LedgerNumbersNext
<1>5. Balanced(First)'
  BY <1>2, <1>3, <1>4 DEF Balanced
<1> QED
  BY <1>5 DEF Served, Unserved

\* The count of the first item begins anew, and the terms that it forgets are
\* excused.
LEMMA LedgerOrdered ==
  ASSUME Inv, Inv', Ledger, Sighted', Begun => Begun', NEW t \in Ticks, Frame(t), Ordered(t)
  PROVE  Ledger'
<1> USE DEF shop, provider, permits, world
<1>1. run[t].pc = "ordered" /\ UNCHANGED <<extended, again, reorders>> /\ First \in Items
  BY DEF Ordered, Items
<1>2. run'[t].pc \in {"poll", "posting"}
  BY Typed DEF Ordered, Go, At
<1>3. \A i \in Items : Asking(t, i) = 0 /\ Asking(t, i)' = 0
  BY <1>1, <1>2 DEF Asking
<1>4. Relies(t)'
  BY <1>2 DEF Relies, Holding
<1>5. ASSUME NEW i \in Items, period'[i] = period[i], miscounted'[i] = miscounted[i]
      PROVE  Served(i)' /\ Balanced(i)'
  <2>1. Waiting(i)' = Waiting(i)
    BY <1>5 DEF Waiting
  <2>2. extended[i] \in Nat /\ Waiting(i) \in {0, 1} /\ extended'[i] = extended[i]
    BY <1>1, LedgerNumbers
  <2>3. extended'[i] + Asking(t, i)' + Waiting(i)' <= extended[i] + Asking(t, i) + Waiting(i)
    BY <1>3, <2>1, <2>2
  <2>4. Balanced(i)'
    BY <1>1, <1>5, <2>3, BalanceMoved DEF Ledger, Frame
  <2>5. Served(i)'
    BY <1>1, <1>5 DEF Ledger, Served
  <2> QED
    BY <2>4, <2>5
<1>6. CASE UNCHANGED <<period, miscounted>>
  <2>1. Onward
    BY <1>6 DEF Onward
  <2> QED
    BY <1>4, <1>5, <1>6, <2>1, LedgerRun
<1>7. CASE /\ period' = [period EXCEPT ![First] = FirstTerm(1)]
           /\ miscounted' = [miscounted EXCEPT ![First] = @ + period[First].units]
  <2>1. /\ period'[First].status = (IF Units[First] > 1 THEN "pending" ELSE "done")
        /\ period'[First].units = 1
        /\ \A j \in Items : j # First => period'[j] = period[j]
    BY <1>1, <1>7, Typed DEF FirstTerm, Periods
  <2>2. /\ miscounted'[First] = miscounted[First] + period[First].units
        /\ \A j \in Items : j # First => miscounted'[j] = miscounted[j]
    BY <1>1, <1>7 DEF Inv, WorldSound
  <2>3. Cardinality(Claims(First))' = Cardinality(Claims(First))
    <3>1. Cardinality(Claims(First))' + Asking(t, First)
            = Cardinality(Claims(First)) + Asking(t, First)'
      BY <1>1, ClaimsMoved DEF Frame
    <3>2. Cardinality(Claims(First)) \in Nat /\ Cardinality(Claims(First))' \in Nat
      BY <1>1, LedgerNumbers, LedgerNumbersNext
    <3> QED
      BY <1>1, <1>3, <3>1, <3>2
  <2>4. Served(First)' /\ Balanced(First)'
    <3>1. CASE period[First].status \in Unserved
      BY <1>1, <2>1, <2>3, <3>1, FirstServed
    <3>2. CASE period[First].status \notin Unserved
      <4>1. period[First].units >= 1
        BY <1>1, <3>2 DEF Ledger, Served
      <4>2. Given(First)' = Given(First) /\ (Countable(First)' <=> Countable(First))
        BY <1>1 DEF Given, Countable
      <4> DEFINE g == Given(First)
                 c == Cardinality(Claims(First))
                 w == Waiting(First)
                 v == Waiting(First)'
                 x == again[First]
                 m == miscounted[First]
                 n == period[First].units
                 y == Units[First]
      <4>3. /\ g \in Nat /\ c \in Nat /\ w \in {0, 1} /\ v \in {0, 1} /\ x \in Nat
            /\ m \in Nat /\ n \in Nat /\ n >= 1 /\ y \in Nat
        BY <1>1, <4>1, LedgerNumbers, LedgerNumbersNext
      <4>4. Countable(First) => g + c + w <= y + (x + m) /\ g + c + w <= n + 1 + (x + m)
        BY <1>1 DEF Ledger, Balanced, Excused
      <4>5. Countable(First) =>
              g + c + v <= y + (x + (m + n)) /\ g + c + v <= 1 + 1 + (x + (m + n))
        <5> HIDE DEF g, c, w, v, x, m, n, y
        <5> QED
          BY <4>3, <4>4
      <4>6. Excused(First)' = x + (m + n)
        BY <1>1, <2>2 DEF Excused
      <4>7. Balanced(First)'
        BY <2>1, <2>3, <4>2, <4>5, <4>6 DEF Balanced
      <4> QED
        BY <2>1, <4>7 DEF Served, Unserved
    <3> QED
      BY <3>1, <3>2
  <2>5. Onward
    BY <2>1 DEF Onward, Unserved
  <2>6. \A i \in Items : Served(i)' /\ Balanced(i)'
    BY <1>5, <2>1, <2>2, <2>4
  <2> QED
    BY <1>4, <2>5, <2>6, LedgerRun
<1> QED
  BY <1>6, <1>7 DEF Ordered

\* Administrators: no run moves.
LEMMA LedgerByHand ==
  ASSUME Inv, Ledger, Sighted', Onward, run' = run,
         \A i \in Items : Served(i)' /\ Balanced(i)'
  PROVE  Ledger'
<1>1. ASSUME NEW t \in Ticks PROVE Relies(t)'
  <2>1. run[t].pc \in Holding => run[t].item \in Items
    BY Typed
  <2> QED
    BY <2>1 DEF Onward, Ledger, Relies
<1> QED
  BY <1>1 DEF Ledger

LEMMA SameClaims ==
  ASSUME run' = run, NEW i \in Items
  PROVE  Claims(i)' = Claims(i) /\ Cardinality(Claims(i))' = Cardinality(Claims(i))
<1>1. Claims(i)' = Claims(i)
  BY DEF Claims, Asking
<1> QED
  BY <1>1

\* A permission to extend once more stands against the item that waits again.
LEMMA BalanceByHand ==
  ASSUME Inv, Inv', NEW i \in Items, Balanced(i), run' = run,
         extended' = extended, reorders' = reorders, miscounted' = miscounted,
         period'[i].units = period[i].units,
         again[i] + Waiting(i)' <= again'[i] + Waiting(i), again[i] <= again'[i]
  PROVE  Balanced(i)'
<1>1. /\ Cardinality(Claims(i))' = Cardinality(Claims(i))
      /\ Given(i)' = Given(i) /\ (Countable(i)' <=> Countable(i))
  BY SameClaims DEF Given, Countable
<1> DEFINE g == Given(i)
           c == Cardinality(Claims(i))
           w == Waiting(i)
           v == Waiting(i)'
           x == again[i]
           z == again'[i]
           m == miscounted[i]
           n == period[i].units
           y == Units[i]
<1>2. /\ g \in Nat /\ c \in Nat /\ w \in {0, 1} /\ v \in {0, 1} /\ x \in Nat
      /\ z \in Nat /\ m \in Nat /\ n \in Nat /\ y \in Nat
  BY LedgerNumbers, LedgerNumbersNext
<1>3. Countable(i) => g + c + w <= y + (x + m) /\ g + c + w <= n + 1 + (x + m)
  BY DEF Balanced, Excused
<1>4. Countable(i) => g + c + v <= y + (z + m) /\ g + c + v <= n + 1 + (z + m)
  <2>1. x + v <= z + w /\ x <= z
    OBVIOUS
  <2> HIDE DEF g, c, w, v, x, z, m, n, y
  <2> QED
    BY <1>2, <1>3, <2>1
<1>5. Excused(i)' = z + m
  BY DEF Excused
<1> QED
  BY <1>1, <1>4, <1>5 DEF Balanced

LEMMA LedgerReplace ==
  ASSUME Inv, Inv', Ledger, Sighted', Begun => Begun', NEW a \in Admins, Replace(a)
  PROVE  Ledger'
<1> USE DEF shop, provider, permits, world
<1>1. UNCHANGED <<run, extended, again, reorders, miscounted>> /\ First \in Items
  BY DEF Replace, End, Items
<1>2. /\ sub \in Subscriptions /\ period \in [Items -> Periods]
      /\ period[First].status # "absent" /\ Served(First)
  BY <1>1 DEF Inv, ShopSound, DeedsSound, DeedKnows, Begun, Replace, End, Ledger
<1>3. sub'.state = "ordered"
  BY <1>2 DEF Replace, Subscriptions
<1>4. ASSUME NEW j \in Items, j # First PROVE period'[j] = period[j]
  BY <1>1, <1>2, <1>4 DEF Replace
<1>5. CASE period[First].status = "none"
  <2>1. period[First].units = 0
    BY <1>2, <1>5 DEF Served, Unserved
  <2>2. /\ period'[First].status = (IF Units[First] > 1 THEN "pending" ELSE "done")
        /\ period'[First].units = 1
    BY <1>1, <1>2, <1>5, <2>1 DEF Replace, FirstTerm, Counted, Periods
  <2>3. Served(First)' /\ Balanced(First)'
    BY <1>1, <1>5, <2>2, FirstServed, SameClaims DEF Unserved
  <2>4. ASSUME NEW j \in Items, j # First PROVE Served(j)' /\ Balanced(j)'
    <3>1. Claims(j)' \subseteq Claims(j) /\ Same(j)
      BY <1>1, <1>4, <2>4, SameClaims DEF Same
    <3>2. Balanced(j)'
      BY <1>1, <3>1, BalanceKept DEF Ledger
    <3>3. Served(j)'
      BY <3>1 DEF Ledger, Served, Same
    <3> QED
      BY <3>2, <3>3
  <2>5. Onward
    BY <1>4, <2>2 DEF Onward, Unserved
  <2> QED
    BY <1>1, <2>3, <2>4, <2>5, LedgerByHand
<1>6. CASE period[First].status # "none"
  <2>1. period[First].units >= 1
    BY <1>2, <1>6 DEF Served, Unserved
  <2>2. Same(First)
    BY <1>1, <1>2, <1>6, <2>1 DEF Replace, Same, Counted, Periods
  <2>3. \A j \in Items : Same(j)
    BY <1>1, <1>4, <2>2 DEF Same
  <2>4. Quiet
    BY <1>1, <1>3, <2>3 DEF Quiet, Rests
  <2> QED
    BY <2>4, LedgerQuiet
<1> QED
  BY <1>5, <1>6

LEMMA LedgerSetOrder ==
  ASSUME Inv, Inv', Ledger, Sighted', Begun => Begun', NEW a \in Admins, SetOrder(a)
  PROVE  Ledger'
<1> USE DEF shop, provider, permits, world
<1>1. UNCHANGED <<run, extended, reorders, miscounted>> /\ First \in Items
  BY DEF SetOrder, End, Items
<1>2. /\ period \in [Items -> Periods] /\ again \in [Items -> Nat]
      /\ period[First].status # "absent" /\ Served(First)
  BY <1>1 DEF Inv, ShopSound, WorldSound, DeedsSound, DeedKnows, Begun, SetOrder, End, Ledger
<1>3. /\ again'[First] = again[First] + 1
      /\ \A j \in Items : j # First => again'[j] = again[j] /\ period'[j] = period[j]
  BY <1>1, <1>2 DEF SetOrder
<1>4. /\ period'[First].status = (IF Units[First] > 1 THEN "pending" ELSE "done")
      /\ period'[First].units = (IF period[First].units = 0 THEN 1 ELSE period[First].units)
  BY <1>1, <1>2 DEF SetOrder, FirstTerm, Counted, Periods
<1>5. ASSUME NEW j \in Items, j # First PROVE Served(j)' /\ Balanced(j)'
  <2>1. Claims(j)' \subseteq Claims(j) /\ Same(j)
    BY <1>1, <1>3, <1>5, SameClaims DEF Same
  <2>2. Balanced(j)'
    BY <1>1, <2>1, BalanceKept DEF Ledger
  <2>3. Served(j)'
    BY <2>1 DEF Ledger, Served, Same
  <2> QED
    BY <2>2, <2>3
<1>6. Served(First)' /\ Balanced(First)'
  <2>1. CASE period[First].status \in Unserved
    <3>1. period'[First].units = 1
      BY <1>2, <1>4, <2>1 DEF Served
    <3> QED
      BY <1>1, <1>4, <2>1, <3>1, FirstServed, SameClaims
  <2>2. CASE period[First].status \notin Unserved
    <3>1. period[First].units >= 1 /\ period[First].units \in Nat
      BY <1>1, <1>2, <2>2, LedgerNumbers DEF Served
    <3>2. period'[First].units = period[First].units
      BY <1>4, <3>1
    <3>3. again[First] + Waiting(First)' <= again'[First] + Waiting(First)
      <4>1. again[First] \in Nat /\ Waiting(First)' \in {0, 1} /\ Waiting(First) \in {0, 1}
        BY <1>1, LedgerNumbers, LedgerNumbersNext
      <4> QED
        BY <1>3, <4>1
    <3>4. again[First] <= again'[First]
      BY <1>1, <1>3, LedgerNumbers
    <3>5. Balanced(First)'
      BY <1>1, <3>2, <3>3, <3>4, BalanceByHand DEF Ledger
    <3> QED
      BY <1>4, <3>1, <3>2, <3>5 DEF Served, Unserved
  <2> QED
    BY <2>1, <2>2
<1>7. Onward
  BY <1>3, <1>4 DEF Onward, Unserved
<1> QED
  BY <1>1, <1>5, <1>6, <1>7, LedgerByHand

LEMMA LedgerReorder ==
  ASSUME Inv, Inv', Ledger, Sighted', Begun => Begun', NEW a \in Admins, Reorder(a)
  PROVE  Ledger'
<1> USE DEF shop, provider, permits, world
<1>1. UNCHANGED <<run, period, extended, again, miscounted>> /\ reorders' # 0 /\ reorders \in Nat
  BY DEF Reorder, End, Inv, WorldSound
<1>2. ASSUME NEW i \in Items PROVE Served(i)' /\ Balanced(i)'
  <2>1. Cardinality(Claims(i))' = Cardinality(Claims(i))
    BY <1>1, SameClaims
  <2>2. /\ Given(i)' = Given(i) /\ Waiting(i)' = Waiting(i) /\ Excused(i)' = Excused(i)
        /\ (Countable(i)' => Countable(i))
    BY <1>1 DEF Given, Waiting, Excused, Countable
  <2>3. Balanced(i)'
    BY <1>1, <2>1, <2>2 DEF Ledger, Balanced
  <2>4. Served(i)'
    BY <1>1 DEF Ledger, Served
  <2> QED
    BY <2>3, <2>4
<1>3. Onward
  BY <1>1 DEF Onward
<1> QED
  BY <1>1, <1>2, <1>3, LedgerByHand

LEMMA LedgerPeriod ==
  ASSUME Inv, Inv', Ledger, Sighted', Begun => Begun', NEW a \in Admins,
         NEW name \in {"done", "retry"}, PeriodByHand(a, name)
  PROVE  Ledger'
<1> USE DEF shop, provider, permits, world
<1>1. UNCHANGED <<run, extended, reorders, miscounted>>
  BY DEF PeriodByHand, End
<1>i. PICK k \in Items : k = admin[a].item
  BY DEF Inv, DeedsSound, DeedKnows, PeriodByHand, End
<1>2. /\ period \in [Items -> Periods] /\ again \in [Items -> Nat]
  BY DEF Inv, ShopSound, WorldSound
<1>3. \A j \in Items : j # k => period'[j] = period[j] /\ again'[j] = again[j]
  BY <1>2, <1>i DEF PeriodByHand
<1>4. again'[k] = IF name = "retry" THEN again[k] + 1 ELSE again[k]
  BY <1>2, <1>i DEF PeriodByHand
<1>5. /\ period'[k].units = period[k].units
      /\ \/ period'[k].status = period[k].status
         \/ /\ period[k].status \in {"failed", "extending"}
            /\ period'[k].status = (IF name = "done" THEN "done" ELSE "pending")
  <2>1. admin[a].saw \in {"failed", "extending"}
    BY DEF Ledger, Sighted, PeriodByHand, End
  <2> QED
    BY <1>2, <1>i, <2>1 DEF PeriodByHand, Periods
<1>6. ASSUME NEW i \in Items PROVE Served(i)' /\ Balanced(i)'
  <2>1. again[i] \in Nat /\ Waiting(i) \in {0, 1} /\ Waiting(i)' \in {0, 1}
    BY LedgerNumbers, LedgerNumbersNext
  <2>2. /\ again[i] + Waiting(i)' <= again'[i] + Waiting(i) /\ again[i] <= again'[i]
        /\ period'[i].units = period[i].units
    <3>1. CASE i # k
      <4>1. Waiting(i)' = Waiting(i)
        BY <1>3, <3>1 DEF Waiting
      <4> QED
        BY <1>3, <2>1, <3>1, <4>1
    <3>2. CASE i = k /\ name = "retry"
      BY <1>4, <1>5, <2>1, <3>2
    <3>3. CASE i = k /\ name = "done"
      <4>1. Waiting(i)' <= Waiting(i)
        BY <1>5, <2>1, <3>3 DEF Waiting
      <4> QED
        BY <1>4, <1>5, <2>1, <3>3, <4>1
    <3> QED
      BY <3>1, <3>2, <3>3
  <2>3. Balanced(i)'
    BY <1>1, <2>2, BalanceByHand DEF Ledger
  <2>4. Served(i)'
    BY <1>1, <1>3, <1>5 DEF Ledger, Served, Unserved
  <2> QED
    BY <2>3, <2>4
<1>7. Onward
  BY <1>3, <1>5 DEF Onward, Unserved
<1> QED
  BY <1>1, <1>6, <1>7, LedgerByHand

-----------------------------------------------------------------------------
\* Every step keeps the ledger.
LEMMA LedgerStep ==
  ASSUME Inv, Ledger, [Next]_vars
  PROVE  Ledger'
<1>1. Inv' /\ Sighted' /\ (Begun => Begun')
  BY InvNext, SightedStep, StartedStays DEF Ledger
<1>frame. \A t \in Ticks : TickSteps(t) => Frame(t)
  BY StepOfRun DEF Frame
<1>2. ASSUME \/ \E i \in Items : Pay(i) \/ Refund(i)
             \/ \E p \in Processes : Both(p) \/ Crash(p)
             \/ \E t \in Ticks : Start(t)
             \/ \E r \in Reports : Report(r)
             \/ UNCHANGED vars
      PROVE  Ledger'
  BY <1>1, <1>2, WorldQuiet, LedgerQuiet
<1>3. ASSUME NEW t \in Ticks, OrderSteps(t), Frame(t) PROVE Ledger'
  <2>1. CASE ClaimOrder(t) \/ Ordered(t)
    BY <1>1, <1>3, <2>1, LedgerRead, LedgerOrdered
  <2>2. CASE \/ PostOrder(t) \/ OrderRefused(t) \/ OrderLost(t) \/ PollOrder(t)
             \/ Assign(t) \/ ReadStale(t) \/ MarkUnknown(t)
    <3>1. Quiet
      BY <2>2, CronQuiet
    <3> QED
      BY <1>1, <3>1, LedgerQuiet
  <2> QED
    BY <1>3, <2>1, <2>2 DEF OrderSteps
<1>4. ASSUME NEW t \in Ticks, ExtendSteps(t), Frame(t) PROVE Ledger'
  <2>1. CASE \/ ReadPeriods(t) \/ Prolong(t) \/ Refused(t) \/ Prolonged(t)
             \/ \E i \in Items : ClaimPeriod(t, i)
    BY <1>1, <1>4, <2>1, LedgerRead, LedgerProlong, LedgerRefused, LedgerProlonged,
       LedgerClaim
  <2>2. CASE \/ Silent(t) \/ RefreshExpiry(t) \/ ReadExtending(t)
             \/ \E i \in Items : MarkExtending(t, i)
    <3>1. Quiet
      BY <2>2, CronQuiet
    <3> QED
      BY <1>1, <3>1, LedgerQuiet
  <2> QED
    BY <1>4, <2>1, <2>2 DEF ExtendSteps
<1>5. ASSUME NEW t \in Ticks, TickSteps(t) PROVE Ledger'
  <2>1. CASE \/ Insert(t) \/ CancelUnapplied(t)
             \/ \E i \in Renewals : CancelRenewal(t, i)
    BY <1>1, <1>5, <1>frame, <2>1, LedgerInsert, LedgerCancel
  <2>2. CASE \/ ReadRefund(t) \/ Revoke(t) \/ Stop(t) \/ Handled(t) \/ Expire(t)
             \/ \E i \in Items : ReadItem(t, i)
    <3>1. Quiet
      BY <2>2, CronQuiet
    <3> QED
      BY <1>1, <3>1, LedgerQuiet
  <2> QED
    BY <1>3, <1>4, <1>5, <1>frame, <2>1, <2>2 DEF TickSteps
<1>6. ASSUME NEW a \in Admins, AdminSteps(a) PROVE Ledger'
  <2>1. CASE Replace(a) \/ SetOrder(a) \/ Reorder(a)
    BY <1>1, <2>1, LedgerReplace, LedgerSetOrder, LedgerReorder
  <2>2. ASSUME NEW name \in {"done", "retry"}, PeriodByHand(a, name) PROVE Ledger'
    BY <1>1, <2>2, LedgerPeriod
  <2>3. CASE \/ BeginSuspend(a) \/ BeginResume(a) \/ BeginReplace(a) \/ BeginSetOrder(a)
             \/ BeginReorder(a) \/ Suspend(a) \/ Resume(a)
             \/ \E name \in {"done", "retry"}, i \in Items : BeginPeriod(a, i, name)
    <3>1. Quiet
      BY <2>3, AdminQuiet
    <3> QED
      BY <1>1, <3>1, LedgerQuiet
  <2> QED
    BY <1>6, <2>1, <2>2, <2>3 DEF AdminSteps
<1> QED
  BY <1>2, <1>5, <1>6 DEF Next

\* With runs that overlap, what is given is at most what is paid, asked for
\* again, and left out of the count.
LEMMA BalancedTerms ==
  ASSUME Inv, Ledger, NEW i \in Items, Countable(i)
  PROVE  Given(i) <= Units[i] + again[i] + miscounted[i]
<1>1. Given(i) + Cardinality(Claims(i)) + Waiting(i) <= Units[i] + Excused(i)
  BY DEF Ledger, Balanced
<1> QED
  BY <1>1, LedgerNumbers DEF Excused

LEMMA LedgerHolds == Spec => [](Inv /\ Ledger)
<1>1. Init => Inv /\ Ledger
  BY InvInit, LedgerInit
<1>2. Inv /\ Ledger /\ [Next]_vars => (Inv /\ Ledger)'
  BY InvNext, LedgerStep
<1> QED
  BY <1>1, <1>2, PTL DEF Spec

\* extendPeriods adds no more terms than were paid and asked for again, with
\* runs that die in a call, answers that are lost, refunds and administrators
\* at any moment (period_done, period_retry, replace and set_order of
\* applySubscriptionAction), as long as no run has overlapped another; and with
\* runs that overlap, no more than that and one for each term that a write on a
\* stale units_extended left out of the count.  The terms of renewals are
\* bounded also after a second purchase for the first item.
THEOREM ExtendsAsPaid == Spec => []ExtendedAsPaid
<1>1. Inv /\ (overlapped \/ Pace) /\ Ledger => ExtendedAsPaid
  <2> SUFFICES ASSUME Inv, overlapped \/ Pace, Ledger, NEW i \in Items,
                      i = First => reorders = 0
               PROVE  Given(i) <= Units[i] + again[i] + (IF overlapped THEN miscounted[i] ELSE 0)
    BY DEF ExtendedAsPaid, Given
  <2>1. CASE overlapped
    BY <2>1, BalancedTerms DEF Countable
  <2>2. CASE ~ overlapped
    <3>1. Given(i) <= Units[i] + again[i]
      BY <2>2, PacedTerms DEF Countable
    <3> QED
      BY <2>2, <3>1, Numbers
  <2> QED
    BY <2>1, <2>2
<1> QED
  BY <1>1, PaceHolds, LedgerHolds, PTL

=============================================================================
