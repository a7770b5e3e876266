-------------------------- MODULE DeliveriesProofs --------------------------
(***************************************************************************)
(* Proofs about Deliveries, for orders of any number of items, any number  *)
(* of workers, requests, crashes, retries and writes of the order: a       *)
(* completed order is delivered, grants follow deliveries, converted codes *)
(* belong to the order, and a closed order is neither delivered by a       *)
(* worker nor written again.                                               *)
(***************************************************************************)
EXTENDS Deliveries, TLAPS

Reading == {"stock", "convert", "count", "commit", "start", "manual", "complete"}
ByHand == {"start", "manual", "complete"}

\* What a process is at, and that it read an order that could be delivered.
SoundAt(p) ==
  /\ p \in WorkerStates
  /\ p.stage # "idle" => p.item \in Items
  /\ p.stage \in ByHand => p.item \in Manual
  /\ p.stage = "convert" => p.item \in Redeem /\ p.done < Quantity
  /\ p.stage # "convert" => p.done = 0
  /\ p.stage \in {"count", "commit"} => p.item \in Automatic
  /\ p.stage \in Reading => p.seen \in Deliverable

ShopTyped ==
  /\ order \in OrderStates
  /\ delivery \in [Items -> {"awaiting_supply", "pending", "processing", "delivered", "failed"}]
  /\ counted \in [Items -> BOOLEAN]
  /\ retries \in [Items -> Retries]
  /\ codes \in [Items -> {"none", "reserved", "delivered"}]
  /\ converted \in [Items -> 0 .. Quantity]
  /\ grant \in [Items -> {"pending", "active", "refunded"}]

QueueTyped ==
  /\ event \in [Items -> {"none", "pending", "sent", "published"}]
  /\ message \in [Items -> [Retries -> 0 .. MaxTries \cup {None}]]

ProcessesAreSound == \A w \in Processes : SoundAt(worker[w])

WorkersAreSound == worker \in [Processes -> WorkerStates] /\ ProcessesAreSound

\* A manual item has no codes; until it is filled or cancelled it has never
\* been requested, and what was cancelled has lost its grant.
ApartAt(i) ==
  /\ codes[i] = "none"
  /\ delivery[i] \in {"awaiting_supply", "processing"} =>
       /\ event[i] = "none"
       /\ \A n \in Retries : message[i][n] = None
       /\ \A w \in Processes : worker[w].item = i => worker[w].stage \in ByHand
  /\ delivery[i] \in {"failed", "pending"} => grant[i] = "refunded"

ManualIsApart == \A i \in Manual : ApartAt(i)

\* What a process has counted stays delivered, and a manual item is fillable
\* or filled as long as the version read is the order's.
Fillable == {"awaiting_supply", "processing", "delivered"}

CountedAt(p) ==
  /\ p.stage \in {"commit", "complete"} /\ p.next = "completed" =>
       \A j \in Items \ {p.item} : delivery[j] = "delivered"
  /\ p.version <= order.version
  /\ p.stage \in {"manual", "complete"} /\ p.version = order.version =>
       delivery[p.item] \in Fillable

CountIsSound == \A w \in Processes : CountedAt(worker[w])

\* The status that a failed refund restores.
BeforeIsSound ==
  order.before = "completed" /\ ~ order.byHand =>
    \A i \in Items : delivery[i] = "delivered"

Inv ==
  /\ TypeOK
  /\ ProcessesAreSound
  /\ ManualIsApart
  /\ CountIsSound
  /\ BeforeIsSound
  /\ CompletedMeansDelivered
  /\ GrantFollowsDelivery
  /\ RedeemedOwnsCodes

-----------------------------------------------------------------------------
(***************************************************************************)
(* The records.                                                            *)
(***************************************************************************)
LEMMA IdleIsSound == SoundAt(Idle)
BY DeliveriesAssumption
   DEF SoundAt, Idle, At, WorkerStates, Stages, OrderStatuses, Retries, ByHand, Reading

\* A process that is through with its delivery.
LEMMA EndIsSound ==
  ASSUME NEW stage \in {"throw", "ack", "close"}, NEW i \in Items, NEW n \in Retries
  PROVE  SoundAt(At(stage, i, n, "paid", 0))
<1>1. At(stage, i, n, "paid", 0) \in WorkerStates
  BY DeliveriesAssumption DEF At, WorkerStates, Stages, OrderStatuses
<1>2. /\ stage \notin ByHand /\ stage \notin Reading
      /\ stage # "convert" /\ stage \notin {"count", "commit"}
  BY DEF ByHand, Reading
<1> QED
  BY <1>1, <1>2 DEF SoundAt, At

\* One process writes its own record.
LEMMA OwnRecord ==
  ASSUME TypeOK, ProcessesAreSound, NEW w \in Processes, NEW r,
         worker' = [worker EXCEPT ![w] = r], SoundAt(r)
  PROVE  WorkersAreSound'
<1>1. r \in WorkerStates
  BY DEF SoundAt
<1>2. worker \in [Processes -> WorkerStates]
  BY DEF TypeOK
<1>3. \A v \in Processes : worker'[v] = IF v = w THEN r ELSE worker[v]
  BY <1>2
<1> QED
  BY <1>1, <1>2, <1>3 DEF WorkersAreSound, ProcessesAreSound

\* The order is written only as it was read.
LEMMA OrderWrite ==
  ASSUME TypeOK, NEW w \in Processes, NEW status \in OrderStatuses, WriteOrder(w, status)
  PROVE  /\ order' \in OrderStates
         /\ order'.before = order.before
         /\ order'.byHand = order.byHand
         /\ order'.returned = order.returned
         /\ \/ order' = order
            \/ /\ order.status = worker[w].seen
               /\ order.version = worker[w].version
               /\ order'.status = status
               /\ order'.version = order.version + 1
<1>1. order \in OrderStates
  BY DEF TypeOK
<1>2. CASE order' = order
  BY <1>1, <1>2
<1>3. CASE /\ order.status = worker[w].seen /\ order.version = worker[w].version
           /\ order' = [order EXCEPT !.status = status, !.version = @ + 1]
  <2>1. order' = [status |-> status, version |-> order.version + 1,
                  before |-> order.before, byHand |-> order.byHand,
                  returned |-> order.returned]
    BY <1>1, <1>3 DEF OrderStates
  <2>2. order.version \in Nat /\ order.version + 1 \in Nat
    BY <1>1 DEF OrderStates
  <2> QED
    BY <1>1, <1>3, <2>1, <2>2 DEF OrderStates
<1> QED
  BY <1>2, <1>3 DEF WriteOrder

LEMMA OrderRecord ==
  ASSUME order \in OrderStates, NEW status \in OrderStatuses,
         NEW before \in OrderStatuses \cup {"none"},
         NEW byHand \in BOOLEAN, NEW returned \in BOOLEAN
  PROVE  [status |-> status, version |-> order.version + 1, before |-> before,
          byHand |-> byHand, returned |-> returned] \in OrderStates
<1>1. order.version \in Nat /\ order.version + 1 \in Nat
  BY DEF OrderStates
<1> QED
  BY <1>1 DEF OrderStates

\* What is read of a process.
LEMMA Record ==
  ASSUME Inv, NEW w \in Processes
  PROVE  /\ worker[w] \in WorkerStates
         /\ SoundAt(worker[w])
         /\ worker[w].key \in Retries
         /\ worker[w].next \in {"fulfilling", "completed"}
BY DEF Inv, TypeOK, ProcessesAreSound, WorkerStates

LEMMA Moves == \A from \in OrderStatuses :
  /\ Successors(from) \subseteq OrderStatuses
BY DEF Successors, OrderStatuses

\* The steps that write more than the queue and a process.
LEMMA ShopSteps ==
  [Next]_vars =>
    \/ UNCHANGED <<shop, stock>>
    \/ \E w \in Processes : \/ Close(w) \/ Convert(w) \/ ConvertFails(w) \/ Commit(w)
                            \/ StartManual(w) \/ CompleteManual(w)
    \/ \E i \in Items : RetryDelivery(i)
    \/ MoveOrder \/ RequestRefund \/ RestoreOrder \/ RefundOrder
<1> SUFFICES ASSUME [Next]_vars, ~ UNCHANGED <<shop, stock>>
    PROVE \/ \E w \in Processes : \/ Close(w) \/ Convert(w) \/ ConvertFails(w) \/ Commit(w)
                                  \/ StartManual(w) \/ CompleteManual(w)
          \/ \E i \in Items : RetryDelivery(i)
          \/ MoveOrder \/ RequestRefund \/ RestoreOrder \/ RefundOrder
  OBVIOUS
<1>1. ASSUME NEW w \in Processes
      PROVE ~ Throw(w) /\ ~ Crash(w) /\ ~ Acknowledge(w) /\ ~ ReadStock(w) /\ ~ Count(w)
  BY DEF Throw, Crash, GiveUp, Acknowledge, ReadStock, Count
<1>2. ASSUME NEW w, NEW i, NEW n PROVE ~ Take(w, i, n) /\ ~ OpenManual(w, i, n)
  BY DEF Take, OpenManual
<1>3. ASSUME NEW i PROVE ~ Send(i) /\ ~ Mark(i)
  BY DEF Send, Mark
<1>4. ~ UNCHANGED vars
  BY DEF vars
<1> QED
  BY <1>1, <1>2, <1>3, <1>4 DEF Next, WorkerStep, Work, ItemStep, OrderStep

\* Nothing is delivered when the order is paid.
LEMMA InvInit == Init => Inv
<1> SUFFICES ASSUME Init PROVE Inv
  OBVIOUS
<1> USE DeliveriesAssumption
<1> USE DEF Init
<1>1. TypeOK
  BY DEF TypeOK, OrderStates, WorkerStates, Stages, OrderStatuses, Idle, At, Retries
<1>2. ProcessesAreSound
  BY IdleIsSound DEF ProcessesAreSound
<1>3. ManualIsApart
  BY DEF ManualIsApart, ApartAt, Idle, At
<1>4. CountIsSound /\ BeforeIsSound
  BY DEF CountIsSound, BeforeIsSound, CountedAt, Idle, At
<1>5. CompletedMeansDelivered /\ GrantFollowsDelivery /\ RedeemedOwnsCodes
  BY DEF CompletedMeansDelivered, GrantFollowsDelivery, RedeemedOwnsCodes
<1> QED
  BY <1>1, <1>2, <1>3, <1>4, <1>5 DEF Inv

-----------------------------------------------------------------------------
(***************************************************************************)
(* Types.                                                                  *)
(***************************************************************************)
\* A process goes on with the item it read.
LEMMA ProcessesStep == Inv /\ [Next]_vars => WorkersAreSound'
<1> SUFFICES ASSUME Inv, [Next]_vars PROVE WorkersAreSound'
  OBVIOUS
<1>0. TypeOK /\ ProcessesAreSound /\ WorkersAreSound
  BY DEF Inv, TypeOK, WorkersAreSound
<1> USE <1>0
<1>1. CASE WorkerStep
  <2>1. ASSUME NEW w \in Processes, Throw(w)
        PROVE WorkersAreSound'
    BY <2>1, IdleIsSound, OwnRecord DEF Throw, GiveUp
  <2>2. ASSUME NEW w \in Processes, Acknowledge(w)
        PROVE WorkersAreSound'
    BY <2>2, IdleIsSound, OwnRecord DEF Acknowledge
  <2>3. ASSUME NEW w \in Processes, Close(w)
        PROVE WorkersAreSound'
    <3>1. worker[w].item \in Items
      BY <2>3, Record DEF Close, SoundAt
    <3> QED
      BY <2>3, <3>1, Record, EndIsSound, OwnRecord DEF Close, EndAt
  <2>4. ASSUME NEW w \in Processes, ReadStock(w)
        PROVE WorkersAreSound'
    <3> DEFINE p == worker[w]
    <3>1. SoundAt(p) /\ p.stage = "stock" /\ p.item \in Items /\ p.key \in Retries
      BY <2>4, Record DEF ReadStock, SoundAt
    <3>2. CASE EndAt(w, "throw")
      BY <3>1, <3>2, EndIsSound, OwnRecord DEF EndAt
    <3>3. CASE p.item \in Redeem /\ worker' = [worker EXCEPT ![w] =
                 [p EXCEPT !.stage = "convert", !.saw = converted[p.item]]]
      <4>1. SoundAt([p EXCEPT !.stage = "convert", !.saw = converted[p.item]])
        <5>1. converted[p.item] \in 0 .. Quantity
          BY <3>1 DEF Inv, TypeOK
        <5>2. p.seen \in Deliverable /\ p \in WorkerStates
          BY <3>1 DEF SoundAt, Reading
        <5>3. p.done = 0 /\ 0 < Quantity
          BY <3>1, DeliveriesAssumption DEF SoundAt
        <5>4. p.stage \notin ByHand
          BY <3>1 DEF ByHand
        <5> QED
          BY <3>1, <3>3, <5>1, <5>2, <5>3, <5>4
             DEF SoundAt, WorkerStates, Stages, Reading, ByHand
      <4> QED
        BY <3>3, <4>1, OwnRecord
    <3>4. CASE codes[p.item] = "reserved" /\ worker' = [worker EXCEPT ![w] = [p EXCEPT !.stage = "count"]]
      <4>1. p.item \in Automatic
        <5>1. \A i \in Manual : codes[i] = "none"
          BY DEF Inv, ManualIsApart, ApartAt
        <5> QED
          BY <3>1, <3>4, <5>1 DEF Automatic
      <4>2. SoundAt([p EXCEPT !.stage = "count"])
        BY <3>1, <4>1 DEF SoundAt, WorkerStates, Stages, Reading, ByHand
      <4> QED
        BY <3>4, <4>2, OwnRecord
    <3> QED
      BY <2>4, <3>2, <3>3, <3>4 DEF ReadStock
  <2>5. ASSUME NEW w \in Processes, Convert(w)
        PROVE WorkersAreSound'
    <3> DEFINE p == worker[w]
    <3>1. SoundAt(p) /\ p.stage = "convert" /\ p.item \in Items /\ p.key \in Retries
      BY <2>5, Record DEF Convert, SoundAt
    <3>2. CASE EndAt(w, "throw")
      BY <3>1, <3>2, EndIsSound, OwnRecord DEF EndAt
    <3>3. CASE NextCode(w)
      <4>1. p.item \in Redeem /\ p.done < Quantity /\ p.done \in 0 .. Quantity /\ p.item \in Automatic
        <5>1. p.item \in Redeem /\ p.done < Quantity /\ p \in WorkerStates
          BY <3>1 DEF SoundAt
        <5>2. p.done \in 0 .. Quantity
          BY <5>1 DEF WorkerStates
        <5>3. p.item \in Automatic
          BY <5>1, DeliveriesAssumption DEF Automatic
        <5> QED
          BY <5>1, <5>2, <5>3
      <4>2. SoundAt([p EXCEPT !.stage = "count", !.done = 0, !.saw = 0])
        <5>1. 0 \in 0 .. Quantity
          BY DeliveriesAssumption
        <5>2. p \in WorkerStates /\ p.seen \in Deliverable
          BY <3>1 DEF SoundAt, Reading
        <5> QED
          BY <3>1, <4>1, <5>1, <5>2 DEF SoundAt, WorkerStates, Stages, ByHand
      <4>3. p.done + 1 # Quantity => SoundAt([p EXCEPT !.done = p.done + 1])
        <5>1. p.done + 1 # Quantity => p.done + 1 \in 0 .. Quantity /\ p.done + 1 < Quantity
          BY <4>1, DeliveriesAssumption
        <5> QED
          BY <3>1, <5>1 DEF SoundAt, WorkerStates
      <4>4. CASE p.done + 1 = Quantity
        BY <3>3, <4>2, <4>4, OwnRecord DEF NextCode
      <4>5. CASE p.done + 1 # Quantity
        <5>1. worker' = [worker EXCEPT ![w] = [p EXCEPT !.done = p.done + 1]]
          BY <3>3, <4>5 DEF NextCode
        <5> QED
          BY <4>3, <4>5, <5>1, OwnRecord
      <4> QED
        BY <4>4, <4>5
    <3> QED
      BY <2>5, <3>2, <3>3 DEF Convert
  <2>6. ASSUME NEW w \in Processes, ConvertFails(w)
        PROVE WorkersAreSound'
    <3>1. worker[w].item \in Items
      BY <2>6, Record DEF ConvertFails, SoundAt
    <3> QED
      BY <2>6, <3>1, Record, EndIsSound, OwnRecord DEF ConvertFails, EndAt
  <2>7. ASSUME NEW w \in Processes, Count(w)
        PROVE WorkersAreSound'
    <3> DEFINE p == worker[w]
               r == [p EXCEPT
                 !.next = IF \A j \in Items \ {p.item} : delivery[j] = "delivered"
                            THEN "completed" ELSE "fulfilling",
                 !.stage = IF p.stage = "count" THEN "commit" ELSE "complete"]
    <3>1. SoundAt(p) /\ p.stage \in {"count", "manual"}
      BY <2>7, Record DEF Count
    <3>2. SoundAt(r)
      BY <3>1 DEF SoundAt, WorkerStates, Stages, Reading, ByHand
    <3> QED
      BY <2>7, <3>2, OwnRecord DEF Count
  <2>8. ASSUME NEW w \in Processes, Commit(w)
        PROVE WorkersAreSound'
    <3>1. worker[w].item \in Items
      BY <2>8, Record DEF Commit, SoundAt
    <3> QED
      BY <2>8, <3>1, Record, EndIsSound, OwnRecord DEF Commit, EndAt
  <2>9. ASSUME NEW w \in Processes, StartManual(w)
        PROVE WorkersAreSound'
    BY <2>9, IdleIsSound, OwnRecord DEF StartManual
  <2>10. ASSUME NEW w \in Processes, CompleteManual(w)
        PROVE WorkersAreSound'
    BY <2>10, IdleIsSound, OwnRecord DEF CompleteManual
  <2>11. ASSUME NEW w \in Processes, Crash(w)
        PROVE WorkersAreSound'
    BY <2>11, IdleIsSound, OwnRecord DEF Crash, GiveUp
  <2>12. ASSUME NEW w \in Workers, NEW i \in Items, NEW n \in Retries, Take(w, i, n)
        PROVE WorkersAreSound'
    <3> w \in Processes
      BY DEF Processes
    <3>1. CASE Path(i) = "stock"
      <4>1. order.status \in Deliverable
        BY <3>1 DEF Path
      <4>2. SoundAt(At("stock", i, n, order.status, order.version))
        BY <4>1, DeliveriesAssumption
           DEF Inv, TypeOK, OrderStates, SoundAt, At, WorkerStates, Stages, OrderStatuses,
               Reading, ByHand
      <4> QED
        BY <2>12, <3>1, <4>2, OwnRecord DEF Take
    <3>2. CASE Path(i) # "stock"
      <4>1. Path(i) \in {"throw", "ack", "close"}
        BY <3>2 DEF Path
      <4> QED
        BY <2>12, <3>2, <4>1, EndIsSound, OwnRecord DEF Take
    <3> QED
      BY <3>1, <3>2
  <2>13. ASSUME NEW w \in Admins, NEW i \in Items, NEW stage \in {"start", "manual"},
               OpenManual(w, i, stage)
        PROVE WorkersAreSound'
    <3> w \in Processes
      BY DEF Processes
    <3>1. i \in Manual /\ order.status \in Deliverable
      BY <2>13 DEF OpenManual
    <3>2. At(stage, i, 0, order.status, order.version) \in WorkerStates
      BY DeliveriesAssumption DEF Inv, TypeOK, OrderStates, At, WorkerStates, Stages, Retries
    <3>3. SoundAt(At(stage, i, 0, order.status, order.version))
      BY <3>1, <3>2 DEF SoundAt, At
    <3> QED
      BY <2>13, <3>3, OwnRecord DEF OpenManual
  <2> QED
    BY <1>1, <2>1, <2>2, <2>3, <2>4, <2>5, <2>6, <2>7,
       <2>8, <2>9, <2>10, <2>11, <2>12, <2>13 DEF WorkerStep, Work
<1>2. CASE ItemStep
  <2>1. ASSUME NEW i \in Items, Send(i)
        PROVE WorkersAreSound'
    BY <2>1 DEF Send, WorkersAreSound, ProcessesAreSound
  <2>2. ASSUME NEW i \in Items, Mark(i)
        PROVE WorkersAreSound'
    BY <2>2 DEF Mark, WorkersAreSound, ProcessesAreSound
  <2>3. ASSUME NEW i \in Items, RetryDelivery(i)
        PROVE WorkersAreSound'
    BY <2>3 DEF RetryDelivery, WorkersAreSound, ProcessesAreSound
  <2> QED
    BY <1>2, <2>1, <2>2, <2>3 DEF ItemStep
<1>3. CASE OrderStep
  <2>1. CASE MoveOrder
    BY <2>1 DEF MoveOrder, WorkersAreSound, ProcessesAreSound
  <2>2. CASE RequestRefund
    BY <2>2 DEF RequestRefund, WorkersAreSound, ProcessesAreSound
  <2>3. CASE RestoreOrder
    BY <2>3 DEF RestoreOrder, WorkersAreSound, ProcessesAreSound
  <2>4. CASE RefundOrder
    BY <2>4 DEF RefundOrder, WorkersAreSound, ProcessesAreSound
  <2> QED
    BY <1>3, <2>1, <2>2, <2>3, <2>4 DEF OrderStep
<1>4. CASE UNCHANGED vars
  BY <1>4 DEF vars, WorkersAreSound, ProcessesAreSound
<1> QED
  BY <1>1, <1>2, <1>3, <1>4 DEF Next

\* Events and messages stay typed.
LEMMA QueueStep == Inv /\ [Next]_vars => QueueTyped'
<1> SUFFICES ASSUME Inv, [Next]_vars PROVE QueueTyped'
  OBVIOUS
<1>0. QueueTyped
  BY DEF Inv, TypeOK, QueueTyped
<1> USE <1>0
<1>1. CASE WorkerStep
  <2>1. ASSUME NEW w \in Processes, Throw(w)
        PROVE QueueTyped'
    BY <2>1 DEF Throw, GiveUp, QueueTyped, queue
  <2>2. ASSUME NEW w \in Processes, Acknowledge(w)
        PROVE QueueTyped'
    <3>1. worker[w].item \in Items
      BY <2>2, Record DEF Acknowledge, SoundAt
    <3> QED
      BY <2>2, <3>1, Record DEF Acknowledge, QueueTyped
  <2>3. ASSUME NEW w \in Processes, Close(w)
        PROVE QueueTyped'
    <3>1. worker[w].item \in Items
      BY <2>3, Record DEF Close, SoundAt
    <3> QED
      BY <2>3, <3>1, Record DEF Close, PublishEvent, QueueTyped
  <2>4. ASSUME NEW w \in Processes, ReadStock(w)
        PROVE QueueTyped'
    BY <2>4 DEF ReadStock, QueueTyped, queue
  <2>5. ASSUME NEW w \in Processes, Convert(w)
        PROVE QueueTyped'
    BY <2>5 DEF Convert, QueueTyped, queue
  <2>6. ASSUME NEW w \in Processes, ConvertFails(w)
        PROVE QueueTyped'
    BY <2>6 DEF ConvertFails, QueueTyped, queue
  <2>7. ASSUME NEW w \in Processes, Count(w)
        PROVE QueueTyped'
    BY <2>7 DEF Count, QueueTyped, queue
  <2>8. ASSUME NEW w \in Processes, Commit(w)
        PROVE QueueTyped'
    <3>1. worker[w].item \in Items
      BY <2>8, Record DEF Commit, SoundAt
    <3> QED
      BY <2>8, <3>1, Record DEF Commit, PublishEvent, QueueTyped
  <2>9. ASSUME NEW w \in Processes, StartManual(w)
        PROVE QueueTyped'
    BY <2>9 DEF StartManual, QueueTyped, queue
  <2>10. ASSUME NEW w \in Processes, CompleteManual(w)
        PROVE QueueTyped'
    BY <2>10 DEF CompleteManual, QueueTyped, queue
  <2>11. ASSUME NEW w \in Processes, Crash(w)
        PROVE QueueTyped'
    BY <2>11 DEF Crash, GiveUp, QueueTyped, queue
  <2>12. ASSUME NEW w \in Workers, NEW i \in Items, NEW n \in Retries, Take(w, i, n)
        PROVE QueueTyped'
    <3>1. message[i][n] - 1 \in 0 .. MaxTries
      BY <2>12, DeliveriesAssumption DEF Take, QueueTyped
    <3> QED
      BY <2>12, <3>1 DEF Take, QueueTyped
  <2>13. ASSUME NEW w \in Admins, NEW i \in Items, NEW stage \in {"start", "manual"},
               OpenManual(w, i, stage)
        PROVE QueueTyped'
    BY <2>13 DEF OpenManual, QueueTyped, queue
  <2> QED
    BY <1>1, <2>1, <2>2, <2>3, <2>4, <2>5, <2>6, <2>7,
       <2>8, <2>9, <2>10, <2>11, <2>12, <2>13 DEF WorkerStep, Work
<1>2. CASE ItemStep
  <2>1. ASSUME NEW i \in Items, Send(i)
        PROVE QueueTyped'
    BY <2>1, DeliveriesAssumption DEF Send, QueueTyped, Inv, TypeOK
  <2>2. ASSUME NEW i \in Items, Mark(i)
        PROVE QueueTyped'
    BY <2>2 DEF Mark, QueueTyped
  <2>3. ASSUME NEW i \in Items, RetryDelivery(i)
        PROVE QueueTyped'
    BY <2>3, DeliveriesAssumption DEF RetryDelivery, QueueTyped, Inv, TypeOK
  <2> QED
    BY <1>2, <2>1, <2>2, <2>3 DEF ItemStep
<1>3. CASE OrderStep
  <2>1. CASE MoveOrder
    BY <2>1 DEF MoveOrder, QueueTyped, queue
  <2>2. CASE RequestRefund
    BY <2>2 DEF RequestRefund, QueueTyped, queue
  <2>3. CASE RestoreOrder
    BY <2>3 DEF RestoreOrder, QueueTyped, queue
  <2>4. CASE RefundOrder
    BY <2>4 DEF RefundOrder, QueueTyped
  <2> QED
    BY <1>3, <2>1, <2>2, <2>3, <2>4 DEF OrderStep
<1>4. CASE UNCHANGED vars
  BY <1>4 DEF vars, QueueTyped, queue
<1> QED
  BY <1>1, <1>2, <1>3, <1>4 DEF Next

\* The columns of the shop stay typed.
LEMMA ShopStep == Inv /\ [Next]_vars => ShopTyped'
<1> SUFFICES ASSUME Inv, [Next]_vars PROVE ShopTyped'
  OBVIOUS
<1>0. TypeOK /\ ShopTyped
  BY DEF Inv, TypeOK, ShopTyped
<1> USE <1>0
<1>1. CASE UNCHANGED <<shop, stock>>
  BY <1>1 DEF ShopTyped, shop, stock
<1>2. ASSUME NEW w \in Processes, Close(w)
      PROVE ShopTyped'
  <2>1. worker[w].item \in Items
    BY <1>2, Record DEF Close, SoundAt
  <2> QED
    BY <1>2, <2>1 DEF Close, RecordFailure, ShopTyped, stock
<1>3. ASSUME NEW w \in Processes, Convert(w)
      PROVE ShopTyped'
  <2>1. /\ worker[w].item \in Items
        /\ worker[w].done + 1 \in 0 .. Quantity
    <3>1. SoundAt(worker[w]) /\ worker[w] \in WorkerStates /\ worker[w].stage = "convert"
      BY <1>3, Record DEF Convert
    <3> QED
      BY <3>1, DeliveriesAssumption DEF SoundAt, WorkerStates
  <2> QED
    BY <1>3, <2>1 DEF Convert, RecordFailure, ShopTyped
<1>4. ASSUME NEW w \in Processes, ConvertFails(w)
      PROVE ShopTyped'
  <2>1. worker[w].item \in Items
    BY <1>4, Record DEF ConvertFails, SoundAt
  <2> QED
    BY <1>4, <2>1 DEF ConvertFails, RecordFailure, ShopTyped, stock
<1>5. ASSUME NEW w \in Processes, Commit(w)
      PROVE ShopTyped'
  <2>1. worker[w].item \in Items /\ worker[w].next \in OrderStatuses
    BY <1>5, Record DEF Commit, SoundAt, OrderStatuses
  <2>2. order' \in OrderStates
    <3>1. CASE UNCHANGED order
      BY <3>1 DEF ShopTyped
    <3>2. CASE WriteOrder(w, worker[w].next)
      BY <2>1, <3>2, OrderWrite
    <3> QED
      BY <1>5, <3>1, <3>2 DEF Commit
  <2> QED
    BY <1>5, <2>1, <2>2 DEF Commit, Activate, RecordFailure, ShopTyped
<1>6. ASSUME NEW w \in Processes, StartManual(w)
      PROVE ShopTyped'
  <2>1. worker[w].item \in Items /\ "fulfilling" \in OrderStatuses
    BY <1>6, Record DEF StartManual, SoundAt, OrderStatuses
  <2>2. order' \in OrderStates
    BY <1>6, <2>1, OrderWrite DEF StartManual
  <2> QED
    BY <1>6, <2>1, <2>2 DEF StartManual, ShopTyped, stock
<1>7. ASSUME NEW w \in Processes, CompleteManual(w)
      PROVE ShopTyped'
  <2>1. worker[w].item \in Items /\ worker[w].next \in OrderStatuses
    BY <1>7, Record DEF CompleteManual, SoundAt, OrderStatuses
  <2>2. order' \in OrderStates
    BY <1>7, <2>1, OrderWrite DEF CompleteManual
  <2> QED
    BY <1>7, <2>1, <2>2 DEF CompleteManual, Activate, ShopTyped, stock
<1>8. ASSUME NEW i \in Items, RetryDelivery(i)
      PROVE ShopTyped'
  <2>1. retries[i] + 1 \in Retries
    BY <1>8, DeliveriesAssumption DEF RetryDelivery, ShopTyped, Retries
  <2> QED
    BY <1>8, <2>1 DEF RetryDelivery, ShopTyped, stock
<1>9. CASE MoveOrder
  <2>1. PICK to \in Successors(order.status) :
          /\ order' = [order EXCEPT !.status = to, !.version = @ + 1,
                                    !.byHand = @ \/ to = "completed"]
          /\ codes' = [i \in Items |-> IF to \in {"failed", "refunded"} /\ codes[i] = "reserved"
                                         THEN "none" ELSE codes[i]]
          /\ converted' = [i \in Items |->
               IF to \in {"failed", "refunded"} /\ codes[i] = "reserved" THEN 0 ELSE converted[i]]
          /\ UNCHANGED <<delivery, counted, retries, grant>>
    BY <1>9 DEF MoveOrder
  <2>2. to \in OrderStatuses
    BY <2>1, Moves DEF ShopTyped, OrderStates
  <2>3. order' = [status |-> to, version |-> order.version + 1, before |-> order.before,
                  byHand |-> order.byHand \/ to = "completed", returned |-> order.returned]
    BY <2>1 DEF ShopTyped, OrderStates
  <2>4. order.before \in OrderStatuses \cup {"none"} /\ order.returned \in BOOLEAN
    BY DEF ShopTyped, OrderStates
  <2>5. order' \in OrderStates
    BY <2>2, <2>3, <2>4, OrderRecord DEF ShopTyped
  <2> QED
    BY <2>1, <2>5, DeliveriesAssumption DEF ShopTyped
<1>10. CASE RequestRefund
  <2>1. order' = [status |-> "refunding", version |-> order.version + 1, before |-> order.status,
                  byHand |-> order.byHand, returned |-> order.returned]
    BY <1>10 DEF RequestRefund, ShopTyped, OrderStates
  <2>2. /\ "refunding" \in OrderStatuses
        /\ order.status \in OrderStatuses \cup {"none"}
        /\ order.byHand \in BOOLEAN /\ order.returned \in BOOLEAN
    BY <1>10 DEF RequestRefund, ShopTyped, OrderStates, OrderStatuses
  <2>3. order' \in OrderStates
    BY <2>1, <2>2, OrderRecord DEF ShopTyped
  <2> QED
    BY <1>10, <2>3 DEF RequestRefund, ShopTyped, stock
<1>11. CASE RestoreOrder
  <2>1. order' = [status |-> order.before, version |-> order.version + 1, before |-> "none",
                  byHand |-> order.byHand, returned |-> order.returned]
    BY <1>11 DEF RestoreOrder, ShopTyped, OrderStates
  <2>2. /\ order.before \in OrderStatuses
        /\ "none" \in OrderStatuses \cup {"none"}
        /\ order.byHand \in BOOLEAN /\ order.returned \in BOOLEAN
    BY <1>11 DEF RestoreOrder, ShopTyped, OrderStates, OrderStatuses
  <2>3. order' \in OrderStates
    BY <2>1, <2>2, OrderRecord DEF ShopTyped
  <2> QED
    BY <1>11, <2>3 DEF RestoreOrder, ShopTyped, stock
<1>12. CASE RefundOrder
  <2>1. order' = [status |-> "refunded", version |-> order.version + 1, before |-> "none",
                  byHand |-> order.byHand, returned |-> TRUE]
    BY <1>12 DEF RefundOrder, ShopTyped, OrderStates
  <2>2. /\ "refunded" \in OrderStatuses
        /\ "none" \in OrderStatuses \cup {"none"}
        /\ order.byHand \in BOOLEAN /\ TRUE \in BOOLEAN
    BY <1>12 DEF RefundOrder, ShopTyped, OrderStates, OrderStatuses
  <2>3. order' \in OrderStates
    BY <2>1, <2>2, OrderRecord DEF ShopTyped
  <2> QED
    BY <1>12, <2>3 DEF RefundOrder, ShopTyped, stock
<1> QED
  BY ShopSteps, <1>1, <1>2, <1>3, <1>4, <1>5, <1>6, <1>7, <1>8, <1>9, <1>10, <1>11, <1>12

\* The variables keep their types.
LEMMA TypeStep == Inv /\ [Next]_vars => TypeOK'
BY ProcessesStep, QueueStep, ShopStep DEF TypeOK, WorkersAreSound, QueueTyped, ShopTyped

-----------------------------------------------------------------------------
(***************************************************************************)
(* Deliveries are final.                                                   *)
(***************************************************************************)
Progress ==
  /\ \A j \in Items : delivery[j] = "delivered" => delivery'[j] = "delivered"
  /\ order'.version >= order.version
  /\ order'.version = order.version
       => \A j \in Manual : delivery[j] \in Fillable => delivery'[j] \in Fillable

\* A process that is not filling a manual item has a settled one, or none.
LEMMA NotByHand ==
  ASSUME Inv, NEW w \in Processes, worker[w].stage \notin ByHand, worker[w].stage # "idle"
  PROVE  /\ worker[w].item \in Items
         /\ worker[w].item \in Manual
              => delivery[worker[w].item] \notin {"awaiting_supply", "processing"}
<1>1. worker[w].item \in Items
  BY Record DEF SoundAt
<1> QED
  BY <1>1 DEF Inv, ManualIsApart, ApartAt

\* Delivered stays delivered, and a cancellation raises the version.
LEMMA ProgressStep == Inv /\ [Next]_vars => Progress
<1> SUFFICES ASSUME Inv, [Next]_vars PROVE Progress
  OBVIOUS
<1>0. ShopTyped /\ order.version \in Nat
  BY DEF Inv, TypeOK, ShopTyped, OrderStates
<1> USE <1>0 DEF Progress
<1> USE DeliveriesAssumption
<1>1. CASE UNCHANGED <<shop, stock>>
  BY <1>1 DEF shop
<1>2. ASSUME NEW w \in Processes, Close(w)
      PROVE Progress
  <2>1. worker[w].stage \notin ByHand /\ worker[w].stage # "idle"
    BY <1>2 DEF Close, ByHand
  <2>2. order' = order
    BY <1>2 DEF Close
  <2> QED
    BY <1>2, <2>1, <2>2, NotByHand DEF Close, ShopTyped, Unsettled, Fillable
<1>3. ASSUME NEW w \in Processes, Convert(w)
      PROVE Progress
  BY <1>3 DEF Convert
<1>4. ASSUME NEW w \in Processes, ConvertFails(w)
      PROVE Progress
  BY <1>4 DEF ConvertFails
<1>5. ASSUME NEW w \in Processes, Commit(w)
      PROVE Progress
  <2>1. worker[w].item \in Items \ Manual /\ worker[w].next \in OrderStatuses
    BY <1>5, Record DEF Commit, SoundAt, OrderStatuses, Automatic
  <2>2. order'.version >= order.version
    <3>1. CASE UNCHANGED order
      BY <3>1
    <3>2. CASE WriteOrder(w, worker[w].next)
      BY <2>1, <3>2, OrderWrite DEF Inv
    <3> QED
      BY <1>5, <3>1, <3>2 DEF Commit
  <2>3. \/ delivery' = delivery
        \/ delivery' = [delivery EXCEPT ![worker[w].item] = "delivered"]
    BY <1>5 DEF Commit
  <2> QED
    BY <2>1, <2>2, <2>3 DEF ShopTyped
<1>6. ASSUME NEW w \in Processes, StartManual(w)
      PROVE Progress
  <2>1. worker[w].item \in Items /\ "fulfilling" \in OrderStatuses
    BY <1>6, Record DEF StartManual, SoundAt, OrderStatuses
  <2>2. order'.version >= order.version
    BY <1>6, <2>1, OrderWrite DEF StartManual, Inv
  <2> QED
    BY <1>6, <2>1, <2>2 DEF StartManual, ShopTyped, Fillable
<1>7. ASSUME NEW w \in Processes, CompleteManual(w)
      PROVE Progress
  <2>1. worker[w].item \in Items /\ worker[w].next \in OrderStatuses
    BY <1>7, Record DEF CompleteManual, SoundAt, OrderStatuses
  <2>2. order'.version >= order.version
    BY <1>7, <2>1, OrderWrite DEF CompleteManual, Inv
  <2> QED
    BY <1>7, <2>1, <2>2 DEF CompleteManual, ShopTyped, Fillable
<1>8. ASSUME NEW i \in Items, RetryDelivery(i)
      PROVE Progress
  BY <1>8 DEF RetryDelivery, ShopTyped, Fillable
<1>9. CASE MoveOrder
  <2>1. order'.version = order.version + 1 /\ delivery' = delivery
    BY <1>9 DEF MoveOrder, ShopTyped, OrderStates
  <2> QED
    BY <2>1
<1>10. CASE RequestRefund
  <2>1. order'.version = order.version + 1 /\ delivery' = delivery
    BY <1>10 DEF RequestRefund, ShopTyped, OrderStates
  <2> QED
    BY <2>1
<1>11. CASE RestoreOrder
  <2>1. order'.version = order.version + 1 /\ delivery' = delivery
    BY <1>11 DEF RestoreOrder, ShopTyped, OrderStates
  <2> QED
    BY <2>1
<1>12. CASE RefundOrder
  <2>1. order'.version = order.version + 1
    BY <1>12 DEF RefundOrder, ShopTyped, OrderStates
  <2> QED
    BY <1>12, <2>1 DEF RefundOrder
<1> QED
  BY ShopSteps, <1>1, <1>2, <1>3, <1>4, <1>5, <1>6, <1>7, <1>8, <1>9, <1>10, <1>11, <1>12

\* Queue workers and administrators do not meet on a manual item.
LEMMA ManualStep == Inv /\ [Next]_vars => ManualIsApart'
<1> SUFFICES ASSUME Inv, [Next]_vars PROVE ManualIsApart'
  OBVIOUS
<1>0. /\ ManualIsApart /\ ProcessesAreSound /\ worker \in [Processes -> WorkerStates]
      /\ ShopTyped /\ QueueTyped
  BY DEF Inv, TypeOK, ShopTyped, QueueTyped
<1> USE <1>0, DeliveriesAssumption
<1>1. CASE WorkerStep
  <2>1. ASSUME NEW w \in Processes, Throw(w)
        PROVE ManualIsApart'
    BY <2>1 DEF Throw, GiveUp, Idle, At, ByHand, ManualIsApart, ApartAt, ShopTyped, QueueTyped, shop, stock, queue
  <2>2. ASSUME NEW w \in Processes, Acknowledge(w)
        PROVE ManualIsApart'
    BY <2>2 DEF Acknowledge, Idle, At, ByHand, ManualIsApart, ApartAt, ShopTyped, QueueTyped, shop, stock, queue
  <2>3. ASSUME NEW w \in Processes, Close(w)
        PROVE ManualIsApart'
    <3>1. worker[w].stage \notin ByHand /\ worker[w].stage # "idle"
      BY <2>3 DEF Close, ByHand
    <3>2. worker[w].item \in Items
      BY <3>1, NotByHand
    <3>3. \A v \in Processes :
            /\ worker'[v].item = worker[v].item
            /\ v # w => worker'[v] = worker[v]
      BY <2>3, <3>2 DEF Close, EndAt, At, WorkerStates
    <3>4. \A i \in Manual :
            /\ delivery'[i] = delivery[i] \/ (i = worker[w].item /\ delivery'[i] = "failed")
            /\ i # worker[w].item => event'[i] = event[i]
            /\ codes'[i] = codes[i] /\ grant'[i] = grant[i]
            /\ delivery'[i] = "failed" => delivery[i] \in {"failed", "pending"}
      BY <2>3, <3>1, <3>2, NotByHand DEF Close, EndAt, PublishEvent, ShopTyped, QueueTyped, Unsettled, stock, shop, queue
    <3>5. message' = message
      BY <2>3 DEF Close, queue
    <3>6. worker[w].item \in Manual => delivery[worker[w].item] \notin {"awaiting_supply", "processing"}
      BY <3>1, NotByHand
    <3>7. ASSUME NEW i \in Manual PROVE ApartAt(i)'
      <4>1. CASE i = worker[w].item
        BY <3>4, <3>6, <4>1 DEF ManualIsApart, ApartAt
      <4>2. CASE i # worker[w].item
        <5>1. ApartAt(i)
          BY DEF ManualIsApart
        <5>2. /\ delivery'[i] = delivery[i] /\ event'[i] = event[i]
              /\ codes'[i] = codes[i] /\ grant'[i] = grant[i]
          BY <3>4, <4>2
        <5>3. \A v \in Processes : worker'[v].item = i => worker'[v] = worker[v]
          BY <3>3, <4>2
        <5> QED
          BY <3>5, <5>1, <5>2, <5>3 DEF ApartAt
      <4> QED
        BY <4>1, <4>2
    <3> QED
      BY <3>7 DEF ManualIsApart
  <2>4. ASSUME NEW w \in Processes, ReadStock(w)
        PROVE ManualIsApart'
    <3>1. worker[w].stage \notin ByHand /\ worker[w].stage # "idle"
      BY <2>4 DEF ReadStock, ByHand
    <3>2. worker[w].item \in Items
      BY <3>1, NotByHand
    <3>3. \A v \in Processes :
            /\ worker'[v].item = worker[v].item
            /\ v # w => worker'[v] = worker[v]
      BY <2>4, <3>2 DEF ReadStock, EndAt, At, WorkerStates
    <3>4. \A i \in Manual :
            /\ delivery'[i] = delivery[i] \/ (i = worker[w].item /\ delivery'[i] = "failed")
            /\ i # worker[w].item => event'[i] = event[i]
            /\ codes'[i] = codes[i] /\ grant'[i] = grant[i]
            /\ delivery'[i] = "failed" => delivery[i] \in {"failed", "pending"}
      BY <2>4, <3>1, <3>2, NotByHand DEF ReadStock, EndAt, ShopTyped, QueueTyped, Unsettled, stock, shop, queue
    <3>5. message' = message
      BY <2>4 DEF ReadStock, queue
    <3>6. worker[w].item \in Manual => delivery[worker[w].item] \notin {"awaiting_supply", "processing"}
      BY <3>1, NotByHand
    <3>7. ASSUME NEW i \in Manual PROVE ApartAt(i)'
      <4>1. CASE i = worker[w].item
        BY <3>4, <3>6, <4>1 DEF ManualIsApart, ApartAt
      <4>2. CASE i # worker[w].item
        <5>1. ApartAt(i)
          BY DEF ManualIsApart
        <5>2. /\ delivery'[i] = delivery[i] /\ event'[i] = event[i]
              /\ codes'[i] = codes[i] /\ grant'[i] = grant[i]
          BY <3>4, <4>2
        <5>3. \A v \in Processes : worker'[v].item = i => worker'[v] = worker[v]
          BY <3>3, <4>2
        <5> QED
          BY <3>5, <5>1, <5>2, <5>3 DEF ApartAt
      <4> QED
        BY <4>1, <4>2
    <3> QED
      BY <3>7 DEF ManualIsApart
  <2>5. ASSUME NEW w \in Processes, Convert(w)
        PROVE ManualIsApart'
    <3>1. worker[w].stage \notin ByHand /\ worker[w].stage # "idle"
      BY <2>5 DEF Convert, ByHand
    <3>2. worker[w].item \in Items \ Manual
      BY <2>5, Record DEF Convert, SoundAt, Automatic
    <3>3. \A v \in Processes :
            /\ worker'[v].item = worker[v].item
            /\ v # w => worker'[v] = worker[v]
      <4>1. CASE EndAt(w, "throw")
        BY <4>1 DEF EndAt, At
      <4>2. CASE NextCode(w)
        BY <4>2 DEF NextCode, WorkerStates
      <4> QED
        BY <2>5, <4>1, <4>2 DEF Convert
    <3>4. \A i \in Manual :
            /\ delivery'[i] = delivery[i] \/ (i = worker[w].item /\ delivery'[i] = "failed")
            /\ i # worker[w].item => event'[i] = event[i]
            /\ codes'[i] = codes[i] /\ grant'[i] = grant[i]
            /\ delivery'[i] = "failed" => delivery[i] \in {"failed", "pending"}
      BY <2>5, <3>1, <3>2, NotByHand DEF Convert, EndAt, NextCode, ShopTyped, QueueTyped, Unsettled, stock, shop, queue
    <3>5. message' = message
      BY <2>5 DEF Convert, queue
    <3>6. worker[w].item \in Manual => delivery[worker[w].item] \notin {"awaiting_supply", "processing"}
      BY <3>1, NotByHand
    <3>7. ASSUME NEW i \in Manual PROVE ApartAt(i)'
      <4>1. CASE i = worker[w].item
        BY <3>4, <3>6, <4>1 DEF ManualIsApart, ApartAt
      <4>2. CASE i # worker[w].item
        <5>1. ApartAt(i)
          BY DEF ManualIsApart
        <5>2. /\ delivery'[i] = delivery[i] /\ event'[i] = event[i]
              /\ codes'[i] = codes[i] /\ grant'[i] = grant[i]
          BY <3>4, <4>2
        <5>3. \A v \in Processes : worker'[v].item = i => worker'[v] = worker[v]
          BY <3>3, <4>2
        <5> QED
          BY <3>5, <5>1, <5>2, <5>3 DEF ApartAt
      <4> QED
        BY <4>1, <4>2
    <3> QED
      BY <3>7 DEF ManualIsApart
  <2>6. ASSUME NEW w \in Processes, ConvertFails(w)
        PROVE ManualIsApart'
    <3>1. worker[w].stage \notin ByHand /\ worker[w].stage # "idle"
      BY <2>6 DEF ConvertFails, ByHand
    <3>2. worker[w].item \in Items
      BY <3>1, NotByHand
    <3>3. \A v \in Processes :
            /\ worker'[v].item = worker[v].item
            /\ v # w => worker'[v] = worker[v]
      BY <2>6, <3>2 DEF ConvertFails, EndAt, At, WorkerStates
    <3>4. \A i \in Manual :
            /\ delivery'[i] = delivery[i] \/ (i = worker[w].item /\ delivery'[i] = "failed")
            /\ i # worker[w].item => event'[i] = event[i]
            /\ codes'[i] = codes[i] /\ grant'[i] = grant[i]
            /\ delivery'[i] = "failed" => delivery[i] \in {"failed", "pending"}
      BY <2>6, <3>1, <3>2, NotByHand DEF ConvertFails, EndAt, ShopTyped, QueueTyped, Unsettled, stock, shop, queue
    <3>5. message' = message
      BY <2>6 DEF ConvertFails, queue
    <3>6. worker[w].item \in Manual => delivery[worker[w].item] \notin {"awaiting_supply", "processing"}
      BY <3>1, NotByHand
    <3>7. ASSUME NEW i \in Manual PROVE ApartAt(i)'
      <4>1. CASE i = worker[w].item
        BY <3>4, <3>6, <4>1 DEF ManualIsApart, ApartAt
      <4>2. CASE i # worker[w].item
        <5>1. ApartAt(i)
          BY DEF ManualIsApart
        <5>2. /\ delivery'[i] = delivery[i] /\ event'[i] = event[i]
              /\ codes'[i] = codes[i] /\ grant'[i] = grant[i]
          BY <3>4, <4>2
        <5>3. \A v \in Processes : worker'[v].item = i => worker'[v] = worker[v]
          BY <3>3, <4>2
        <5> QED
          BY <3>5, <5>1, <5>2, <5>3 DEF ApartAt
      <4> QED
        BY <4>1, <4>2
    <3> QED
      BY <3>7 DEF ManualIsApart
  <2>7. ASSUME NEW w \in Processes, Count(w)
        PROVE ManualIsApart'
    <3>1. \A v \in Processes :
            /\ worker'[v].item = worker[v].item
            /\ worker[v].stage \in ByHand => worker'[v].stage \in ByHand
      BY <2>7 DEF Count, ByHand, WorkerStates
    <3> QED
      BY <2>7, <3>1 DEF Count, ManualIsApart, ApartAt, shop, stock, queue
  <2>8. ASSUME NEW w \in Processes, Commit(w)
        PROVE ManualIsApart'
    <3>1. worker[w].stage \notin ByHand /\ worker[w].stage # "idle"
      BY <2>8 DEF Commit, ByHand
    <3>2. worker[w].item \in Items \ Manual
      BY <2>8, Record DEF Commit, SoundAt, Automatic
    <3>3. \A v \in Processes :
            /\ worker'[v].item = worker[v].item
            /\ v # w => worker'[v] = worker[v]
      BY <2>8, <3>2 DEF Commit, EndAt, At, WorkerStates
    <3>4. \A i \in Manual :
            /\ delivery'[i] = delivery[i] \/ (i = worker[w].item /\ delivery'[i] = "failed")
            /\ i # worker[w].item => event'[i] = event[i]
            /\ codes'[i] = codes[i] /\ grant'[i] = grant[i]
            /\ delivery'[i] = "failed" => delivery[i] \in {"failed", "pending"}
      BY <2>8, <3>1, <3>2, NotByHand DEF Commit, EndAt, PublishEvent, Activate, ShopTyped, QueueTyped, Unsettled, stock, shop, queue
    <3>5. message' = message
      BY <2>8 DEF Commit, queue
    <3>6. worker[w].item \in Manual => delivery[worker[w].item] \notin {"awaiting_supply", "processing"}
      BY <3>1, NotByHand
    <3>7. ASSUME NEW i \in Manual PROVE ApartAt(i)'
      <4>1. CASE i = worker[w].item
        BY <3>4, <3>6, <4>1 DEF ManualIsApart, ApartAt
      <4>2. CASE i # worker[w].item
        <5>1. ApartAt(i)
          BY DEF ManualIsApart
        <5>2. /\ delivery'[i] = delivery[i] /\ event'[i] = event[i]
              /\ codes'[i] = codes[i] /\ grant'[i] = grant[i]
          BY <3>4, <4>2
        <5>3. \A v \in Processes : worker'[v].item = i => worker'[v] = worker[v]
          BY <3>3, <4>2
        <5> QED
          BY <3>5, <5>1, <5>2, <5>3 DEF ApartAt
      <4> QED
        BY <4>1, <4>2
    <3> QED
      BY <3>7 DEF ManualIsApart
  <2>9. ASSUME NEW w \in Processes, StartManual(w)
        PROVE ManualIsApart'
    <3>1. worker[w].item \in Manual
      BY <2>9, Record DEF StartManual, SoundAt, ByHand
    <3> QED
      BY <2>9, <3>1 DEF StartManual, Idle, At, ByHand, Activate, ManualIsApart, ApartAt, ShopTyped, QueueTyped, shop, stock, queue
  <2>10. ASSUME NEW w \in Processes, CompleteManual(w)
        PROVE ManualIsApart'
    <3>1. worker[w].item \in Manual
      BY <2>10, Record DEF CompleteManual, SoundAt, ByHand
    <3> QED
      BY <2>10, <3>1 DEF CompleteManual, Idle, At, ByHand, Activate, ManualIsApart, ApartAt, ShopTyped, QueueTyped, shop, stock, queue
  <2>11. ASSUME NEW w \in Processes, Crash(w)
        PROVE ManualIsApart'
    BY <2>11 DEF Crash, GiveUp, Idle, At, ByHand, ManualIsApart, ApartAt, ShopTyped, QueueTyped, shop, stock, queue
  <2>12. ASSUME NEW w \in Workers, NEW i \in Items, NEW n \in Retries, Take(w, i, n)
        PROVE ManualIsApart'
    <3> w \in Processes
      BY DEF Processes
    <3> QED
      BY <2>12 DEF Take, At, Path, ManualIsApart, ApartAt, ShopTyped, QueueTyped, shop, stock, queue
  <2>13. ASSUME NEW w \in Admins, NEW i \in Items, NEW stage \in {"start", "manual"},
               OpenManual(w, i, stage)
        PROVE ManualIsApart'
    <3> w \in Processes
      BY DEF Processes
    <3> QED
      BY <2>13 DEF OpenManual, At, ByHand, ManualIsApart, ApartAt, ShopTyped, QueueTyped, shop, stock, queue
  <2> QED
    BY <1>1, <2>1, <2>2, <2>3, <2>4, <2>5, <2>6, <2>7,
       <2>8, <2>9, <2>10, <2>11, <2>12, <2>13 DEF WorkerStep, Work
<1>2. CASE ItemStep
  <2>1. ASSUME NEW i \in Items, Send(i)
        PROVE ManualIsApart'
    BY <2>1, DeliveriesAssumption DEF Send, ManualIsApart, ApartAt, ShopTyped, QueueTyped, shop, stock, queue
  <2>2. ASSUME NEW i \in Items, Mark(i)
        PROVE ManualIsApart'
    BY <2>2, DeliveriesAssumption DEF Mark, ManualIsApart, ApartAt, ShopTyped, QueueTyped, shop, stock, queue
  <2>3. ASSUME NEW i \in Items, RetryDelivery(i)
        PROVE ManualIsApart'
    BY <2>3 DEF RetryDelivery, ManualIsApart, ApartAt, ShopTyped, QueueTyped, shop, stock, queue
  <2> QED
    BY <1>2, <2>1, <2>2, <2>3 DEF ItemStep
<1>3. CASE OrderStep
  <2>1. CASE MoveOrder
    BY <2>1 DEF MoveOrder, ManualIsApart, ApartAt, ShopTyped, QueueTyped, shop, stock, queue
  <2>2. CASE RequestRefund
    BY <2>2 DEF RequestRefund, ManualIsApart, ApartAt, ShopTyped, QueueTyped, shop, stock, queue
  <2>3. CASE RestoreOrder
    BY <2>3 DEF RestoreOrder, ManualIsApart, ApartAt, ShopTyped, QueueTyped, shop, stock, queue
  <2>4. CASE RefundOrder
    BY <2>4 DEF RefundOrder, ManualIsApart, ApartAt, ShopTyped, QueueTyped, shop, stock, queue
  <2> QED
    BY <1>3, <2>1, <2>2, <2>3, <2>4 DEF OrderStep
<1>4. CASE UNCHANGED vars
  BY <1>4 DEF vars, ManualIsApart, ApartAt, ShopTyped, QueueTyped, shop, stock, queue
<1> QED
  BY <1>1, <1>2, <1>3, <1>4 DEF Next

\* A process that is where it was has counted what is still delivered.
LEMMA CountStays ==
  ASSUME Inv, order'.version \in Nat, Progress, NEW v \in Processes, worker'[v] = worker[v]
  PROVE  CountedAt(worker[v])'
<1>1. /\ CountedAt(worker[v]) /\ SoundAt(worker[v])
      /\ worker[v].version \in Nat /\ order.version \in Nat /\ order'.version \in Nat
  BY DEF Inv, CountIsSound, TypeOK, OrderStates, ProcessesAreSound, WorkerStates
<1>2. worker[v].stage # "idle" => worker[v].item \in Items
  BY <1>1 DEF SoundAt
<1>3. worker[v].stage \in {"manual", "complete"} => worker[v].item \in Manual
  BY <1>1 DEF SoundAt, ByHand
<1> QED
  BY <1>1, <1>2, <1>3 DEF CountedAt, Progress

\* A process elsewhere has counted nothing.
LEMMA CountStarts ==
  ASSUME Inv, order'.version \in Nat, Progress, NEW v \in Processes,
         worker'[v].stage \notin {"commit", "complete", "manual"},
         worker'[v].version \in {0, worker[v].version, order.version}
  PROVE  CountedAt(worker[v])'
<1>1. /\ CountedAt(worker[v]) /\ worker[v].version \in Nat /\ order.version \in Nat
  BY DEF Inv, CountIsSound, TypeOK, OrderStates, WorkerStates
<1> QED
  BY <1>1 DEF CountedAt, Progress

\* What was counted stays delivered; a cancelled manual item has a newer order.
LEMMA CountStep == Inv /\ [Next]_vars => CountIsSound'
<1> SUFFICES ASSUME Inv, [Next]_vars PROVE CountIsSound'
  OBVIOUS
<1>0. /\ worker \in [Processes -> WorkerStates] /\ order.version \in Nat /\ order'.version \in Nat
      /\ Progress
  BY TypeStep, ProgressStep DEF Inv, TypeOK, OrderStates
<1> USE <1>0
<1>1. CASE WorkerStep
  <2>1. ASSUME NEW w \in Processes, Throw(w)
        PROVE CountIsSound'
    <3>1. \A v \in Processes : v # w => worker'[v] = worker[v]
      BY <2>1 DEF Throw, GiveUp
    <3>2. worker'[w].stage \notin {"commit", "complete", "manual"} /\ worker'[w].version \in {0, worker[w].version, order.version}
      BY <2>1 DEF Throw, GiveUp, Idle, At
    <3> QED
      BY <3>1, <3>2, CountStays, CountStarts DEF CountIsSound
  <2>2. ASSUME NEW w \in Processes, Acknowledge(w)
        PROVE CountIsSound'
    <3>1. \A v \in Processes : v # w => worker'[v] = worker[v]
      BY <2>2 DEF Acknowledge
    <3>2. worker'[w].stage \notin {"commit", "complete", "manual"} /\ worker'[w].version \in {0, worker[w].version, order.version}
      BY <2>2 DEF Acknowledge, Idle, At
    <3> QED
      BY <3>1, <3>2, CountStays, CountStarts DEF CountIsSound
  <2>3. ASSUME NEW w \in Processes, Close(w)
        PROVE CountIsSound'
    <3>1. \A v \in Processes : v # w => worker'[v] = worker[v]
      BY <2>3 DEF Close, EndAt
    <3>2. worker'[w].stage \notin {"commit", "complete", "manual"} /\ worker'[w].version \in {0, worker[w].version, order.version}
      BY <2>3 DEF Close, EndAt, At
    <3> QED
      BY <3>1, <3>2, CountStays, CountStarts DEF CountIsSound
  <2>4. ASSUME NEW w \in Processes, ReadStock(w)
        PROVE CountIsSound'
    <3>1. \A v \in Processes : v # w => worker'[v] = worker[v]
      BY <2>4 DEF ReadStock, EndAt
    <3>2. worker'[w].stage \notin {"commit", "complete", "manual"} /\ worker'[w].version \in {0, worker[w].version, order.version}
      BY <2>4 DEF ReadStock, EndAt, At, WorkerStates
    <3> QED
      BY <3>1, <3>2, CountStays, CountStarts DEF CountIsSound
  <2>5. ASSUME NEW w \in Processes, Convert(w)
        PROVE CountIsSound'
    <3>1. CASE EndAt(w, "throw")
      <4>1. \A v \in Processes : v # w => worker'[v] = worker[v]
        BY <3>1 DEF EndAt
      <4>2. worker'[w].stage = "throw" /\ worker'[w].version = 0
        BY <3>1 DEF EndAt, At
      <4> QED
        BY <4>1, <4>2, CountStays, CountStarts DEF CountIsSound
    <3>2. CASE NextCode(w)
      <4>1. \A v \in Processes : v # w => worker'[v] = worker[v]
        BY <3>2 DEF NextCode
      <4>2. worker'[w].stage \in {"convert", "count"} /\ worker'[w].version = worker[w].version
        BY <2>5, <3>2 DEF Convert, NextCode, WorkerStates
      <4> QED
        BY <4>1, <4>2, CountStays, CountStarts DEF CountIsSound
    <3> QED
      BY <2>5, <3>1, <3>2 DEF Convert
  <2>6. ASSUME NEW w \in Processes, ConvertFails(w)
        PROVE CountIsSound'
    <3>1. \A v \in Processes : v # w => worker'[v] = worker[v]
      BY <2>6 DEF ConvertFails, EndAt
    <3>2. worker'[w].stage \notin {"commit", "complete", "manual"} /\ worker'[w].version \in {0, worker[w].version, order.version}
      BY <2>6 DEF ConvertFails, EndAt, At
    <3> QED
      BY <3>1, <3>2, CountStays, CountStarts DEF CountIsSound
  <2>7. ASSUME NEW w \in Processes, Count(w)
        PROVE CountIsSound'
    <3>1. \A v \in Processes : v # w => worker'[v] = worker[v]
      BY <2>7 DEF Count
    <3>2. /\ worker'[w].item = worker[w].item /\ worker'[w].version = worker[w].version
          /\ worker'[w].next = "completed"
               => \A j \in Items \ {worker[w].item} : delivery[j] = "delivered"
          /\ worker'[w].stage = "complete" => worker[w].stage = "manual"
          /\ worker'[w].stage # "manual"
      BY <2>7 DEF Count, WorkerStates
    <3>3. CountedAt(worker[w]) /\ order' = order /\ delivery' = delivery
      BY <2>7 DEF Inv, CountIsSound, Count, shop
    <3>4. CountedAt(worker[w])'
      BY <3>2, <3>3 DEF CountedAt
    <3> QED
      BY <3>1, <3>4, CountStays DEF CountIsSound
  <2>8. ASSUME NEW w \in Processes, Commit(w)
        PROVE CountIsSound'
    <3>1. \A v \in Processes : v # w => worker'[v] = worker[v]
      BY <2>8 DEF Commit, EndAt
    <3>2. worker'[w].stage \notin {"commit", "complete", "manual"} /\ worker'[w].version \in {0, worker[w].version, order.version}
      BY <2>8 DEF Commit, EndAt, At
    <3> QED
      BY <3>1, <3>2, CountStays, CountStarts DEF CountIsSound
  <2>9. ASSUME NEW w \in Processes, StartManual(w)
        PROVE CountIsSound'
    <3>1. \A v \in Processes : v # w => worker'[v] = worker[v]
      BY <2>9 DEF StartManual
    <3>2. worker'[w].stage \notin {"commit", "complete", "manual"} /\ worker'[w].version \in {0, worker[w].version, order.version}
      BY <2>9 DEF StartManual, Idle, At
    <3> QED
      BY <3>1, <3>2, CountStays, CountStarts DEF CountIsSound
  <2>10. ASSUME NEW w \in Processes, CompleteManual(w)
        PROVE CountIsSound'
    <3>1. \A v \in Processes : v # w => worker'[v] = worker[v]
      BY <2>10 DEF CompleteManual
    <3>2. worker'[w].stage \notin {"commit", "complete", "manual"} /\ worker'[w].version \in {0, worker[w].version, order.version}
      BY <2>10 DEF CompleteManual, Idle, At
    <3> QED
      BY <3>1, <3>2, CountStays, CountStarts DEF CountIsSound
  <2>11. ASSUME NEW w \in Processes, Crash(w)
        PROVE CountIsSound'
    <3>1. \A v \in Processes : v # w => worker'[v] = worker[v]
      BY <2>11 DEF Crash, GiveUp
    <3>2. worker'[w].stage \notin {"commit", "complete", "manual"} /\ worker'[w].version \in {0, worker[w].version, order.version}
      BY <2>11 DEF Crash, GiveUp, Idle, At
    <3> QED
      BY <3>1, <3>2, CountStays, CountStarts DEF CountIsSound
  <2>12. ASSUME NEW w \in Workers, NEW i \in Items, NEW n \in Retries, Take(w, i, n)
        PROVE CountIsSound'
    <3> w \in Processes
      BY DEF Processes
    <3>1. \A v \in Processes : v # w => worker'[v] = worker[v]
      BY <2>12 DEF Take
    <3>2. worker'[w].stage \notin {"commit", "complete", "manual"} /\ worker'[w].version \in {0, order.version}
      BY <2>12 DEF Take, At, Path
    <3> QED
      BY <3>1, <3>2, CountStays, CountStarts DEF CountIsSound
  <2>13. ASSUME NEW w \in Admins, NEW i \in Items, NEW stage \in {"start", "manual"},
               OpenManual(w, i, stage)
        PROVE CountIsSound'
    <3> w \in Processes
      BY DEF Processes
    <3>1. \A v \in Processes : v # w => worker'[v] = worker[v]
      BY <2>13 DEF OpenManual
    <3>2. /\ worker'[w] = At(stage, i, 0, order.status, order.version)
          /\ delivery[i] \in {"awaiting_supply", "processing"}
          /\ order' = order /\ delivery' = delivery
      BY <2>13 DEF OpenManual, shop
    <3>3. CountedAt(worker[w])'
      BY <3>2 DEF CountedAt, At, Fillable
    <3> QED
      BY <3>1, <3>3, CountStays DEF CountIsSound
  <2> QED
    BY <1>1, <2>1, <2>2, <2>3, <2>4, <2>5, <2>6, <2>7,
       <2>8, <2>9, <2>10, <2>11, <2>12, <2>13 DEF WorkerStep, Work
<1>2. CASE ItemStep
  <2>1. ASSUME NEW i \in Items, Send(i)
        PROVE CountIsSound'
    <3>1. worker' = worker
      BY <2>1 DEF Send
    <3> QED
      BY <3>1, CountStays DEF CountIsSound
  <2>2. ASSUME NEW i \in Items, Mark(i)
        PROVE CountIsSound'
    <3>1. worker' = worker
      BY <2>2 DEF Mark
    <3> QED
      BY <3>1, CountStays DEF CountIsSound
  <2>3. ASSUME NEW i \in Items, RetryDelivery(i)
        PROVE CountIsSound'
    <3>1. worker' = worker
      BY <2>3 DEF RetryDelivery
    <3> QED
      BY <3>1, CountStays DEF CountIsSound
  <2> QED
    BY <1>2, <2>1, <2>2, <2>3 DEF ItemStep
<1>3. CASE OrderStep
  <2>1. CASE MoveOrder
    <3>1. worker' = worker
      BY <2>1 DEF MoveOrder
    <3> QED
      BY <3>1, CountStays DEF CountIsSound
  <2>2. CASE RequestRefund
    <3>1. worker' = worker
      BY <2>2 DEF RequestRefund
    <3> QED
      BY <3>1, CountStays DEF CountIsSound
  <2>3. CASE RestoreOrder
    <3>1. worker' = worker
      BY <2>3 DEF RestoreOrder
    <3> QED
      BY <3>1, CountStays DEF CountIsSound
  <2>4. CASE RefundOrder
    <3>1. worker' = worker
      BY <2>4 DEF RefundOrder
    <3> QED
      BY <3>1, CountStays DEF CountIsSound
  <2> QED
    BY <1>3, <2>1, <2>2, <2>3, <2>4 DEF OrderStep
<1>4. CASE UNCHANGED vars
  <3>1. worker' = worker
    BY <1>4 DEF vars
  <3> QED
    BY <3>1, CountStays DEF CountIsSound
<1> QED
  BY <1>1, <1>2, <1>3, <1>4 DEF Next

-----------------------------------------------------------------------------
(***************************************************************************)
(* Orders, grants and codes.                                               *)
(***************************************************************************)
\* The order is completed with its last delivery, and restored as it was.
LEMMA CompletedStep == Inv /\ [Next]_vars => (CompletedMeansDelivered /\ BeforeIsSound)'
<1> SUFFICES ASSUME Inv, [Next]_vars PROVE (CompletedMeansDelivered /\ BeforeIsSound)'
  OBVIOUS
<1>0. /\ ShopTyped /\ order \in OrderStates /\ Progress
      /\ CompletedMeansDelivered /\ BeforeIsSound
  BY ProgressStep DEF Inv, TypeOK, ShopTyped
<1> USE <1>0
<1>1. CASE UNCHANGED <<shop, stock>>
  BY <1>1 DEF CompletedMeansDelivered, BeforeIsSound, Progress, shop
<1>2. ASSUME NEW w \in Processes, Close(w)
      PROVE (CompletedMeansDelivered /\ BeforeIsSound)'
  <2>1. order' = order
    BY <1>2 DEF Close
  <2> QED
    BY <2>1 DEF CompletedMeansDelivered, BeforeIsSound, Progress
<1>3. ASSUME NEW w \in Processes, Convert(w)
      PROVE (CompletedMeansDelivered /\ BeforeIsSound)'
  <2>1. order' = order
    BY <1>3 DEF Convert
  <2> QED
    BY <2>1 DEF CompletedMeansDelivered, BeforeIsSound, Progress
<1>4. ASSUME NEW w \in Processes, ConvertFails(w)
      PROVE (CompletedMeansDelivered /\ BeforeIsSound)'
  <2>1. order' = order
    BY <1>4 DEF ConvertFails
  <2> QED
    BY <2>1 DEF CompletedMeansDelivered, BeforeIsSound, Progress
<1>5. ASSUME NEW w \in Processes, Commit(w)
      PROVE (CompletedMeansDelivered /\ BeforeIsSound)'
  <2>1. /\ worker[w].item \in Items /\ worker[w].next \in OrderStatuses
        /\ worker[w].next = "completed" =>
             \A j \in Items \ {worker[w].item} : delivery[j] = "delivered"
    BY <1>5, Record DEF Commit, SoundAt, OrderStatuses, Inv, CountIsSound, CountedAt
  <2>2. CASE order' = order
    BY <2>2 DEF CompletedMeansDelivered, BeforeIsSound, Progress
  <2>3. CASE order' # order
    <3>1. /\ WriteOrder(w, worker[w].next)
          /\ delivery' = [delivery EXCEPT ![worker[w].item] = "delivered"]
      BY <1>5, <2>3 DEF Commit
    <3>2. /\ order'.status = worker[w].next
          /\ order'.before = order.before /\ order'.byHand = order.byHand
      BY <2>1, <2>3, <3>1, OrderWrite DEF Inv
    <3> QED
      BY <2>1, <3>1, <3>2 DEF ShopTyped, CompletedMeansDelivered, BeforeIsSound, Progress
  <2> QED
    BY <2>2, <2>3
<1>6. ASSUME NEW w \in Processes, StartManual(w)
      PROVE (CompletedMeansDelivered /\ BeforeIsSound)'
  <2>1. /\ "fulfilling" \in OrderStatuses /\ WriteOrder(w, "fulfilling")
    BY <1>6 DEF StartManual, OrderStatuses
  <2>2. /\ order'.status \in {order.status, "fulfilling"}
        /\ order'.before = order.before /\ order'.byHand = order.byHand
    BY <2>1, OrderWrite DEF Inv
  <2> QED
    BY <2>2 DEF CompletedMeansDelivered, BeforeIsSound, Progress
<1>7. ASSUME NEW w \in Processes, CompleteManual(w)
      PROVE (CompletedMeansDelivered /\ BeforeIsSound)'
  <2>1. /\ worker[w].item \in Manual /\ worker[w].item \in Items
        /\ worker[w].next \in OrderStatuses
        /\ worker[w].next = "completed" =>
             \A j \in Items \ {worker[w].item} : delivery[j] = "delivered"
        /\ worker[w].version = order.version => delivery[worker[w].item] \in Fillable
    BY <1>7, Record DEF CompleteManual, SoundAt, ByHand, OrderStatuses, Inv, CountIsSound, CountedAt
  <2>2. CASE order' = order
    BY <2>2 DEF CompletedMeansDelivered, BeforeIsSound, Progress
  <2>3. CASE order' # order
    <3>1. /\ WriteOrder(w, worker[w].next)
          /\ delivery' = [delivery EXCEPT ![worker[w].item] =
               IF delivery[worker[w].item] \in {"awaiting_supply", "processing"} THEN "delivered" ELSE @]
      BY <1>7 DEF CompleteManual
    <3>2. /\ order.version = worker[w].version /\ order'.status = worker[w].next
          /\ order'.before = order.before /\ order'.byHand = order.byHand
      BY <2>1, <2>3, <3>1, OrderWrite DEF Inv
    <3>3. delivery'[worker[w].item] = "delivered"
      BY <2>1, <3>1, <3>2 DEF ShopTyped, Fillable
    <3> QED
      BY <2>1, <3>1, <3>2, <3>3 DEF ShopTyped, CompletedMeansDelivered, BeforeIsSound, Progress
  <2> QED
    BY <2>2, <2>3
<1>8. ASSUME NEW i \in Items, RetryDelivery(i)
      PROVE (CompletedMeansDelivered /\ BeforeIsSound)'
  <2>1. order' = order
    BY <1>8 DEF RetryDelivery
  <2> QED
    BY <2>1 DEF CompletedMeansDelivered, BeforeIsSound, Progress
<1>9. CASE MoveOrder
  <2>1. /\ order'.before = order.before
        /\ order'.status = "completed" => order'.byHand
        /\ order.byHand => order'.byHand
        /\ order'.byHand \in BOOLEAN
    BY <1>9 DEF MoveOrder, OrderStates
  <2> QED
    BY <2>1 DEF OrderStates, CompletedMeansDelivered, BeforeIsSound, Progress
<1>10. CASE RequestRefund
  <2>1. /\ order'.before = order.status /\ order'.status = "refunding"
        /\ order'.byHand = order.byHand
    BY <1>10 DEF RequestRefund, OrderStates
  <2> QED
    BY <2>1 DEF CompletedMeansDelivered, BeforeIsSound, Progress
<1>11. CASE RestoreOrder
  <2>1. /\ order'.before = "none" /\ order'.status = order.before
        /\ order'.byHand = order.byHand
    BY <1>11 DEF RestoreOrder, OrderStates
  <2> QED
    BY <2>1 DEF CompletedMeansDelivered, BeforeIsSound, Progress
<1>12. CASE RefundOrder
  <2>1. /\ order'.before = "none" /\ order'.status = "refunded"
        /\ order'.byHand = order.byHand
    BY <1>12 DEF RefundOrder, OrderStates
  <2> QED
    BY <2>1 DEF CompletedMeansDelivered, BeforeIsSound, Progress
<1> QED
  BY ShopSteps, <1>1, <1>2, <1>3, <1>4, <1>5, <1>6, <1>7, <1>8, <1>9, <1>10, <1>11, <1>12

\* Grants are activated with deliveries and taken by the refund.
LEMMA GrantStep == Inv /\ [Next]_vars => GrantFollowsDelivery'
<1> SUFFICES ASSUME Inv, [Next]_vars PROVE GrantFollowsDelivery'
  OBVIOUS
<1>0. /\ ShopTyped /\ GrantFollowsDelivery /\ order \in OrderStates
      /\ \A i \in Manual : delivery[i] \in {"failed", "pending"} => grant[i] = "refunded"
  BY DEF Inv, TypeOK, ShopTyped, ManualIsApart, ApartAt
<1> USE <1>0
<1>1. CASE UNCHANGED <<shop, stock>>
  BY <1>1 DEF GrantFollowsDelivery, ShopTyped, shop
<1>2. ASSUME NEW w \in Processes, Close(w)
      PROVE GrantFollowsDelivery'
  BY <1>2 DEF Close, Unsettled, GrantFollowsDelivery, ShopTyped
<1>3. ASSUME NEW w \in Processes, Convert(w)
      PROVE GrantFollowsDelivery'
  BY <1>3 DEF Convert, GrantFollowsDelivery, ShopTyped
<1>4. ASSUME NEW w \in Processes, ConvertFails(w)
      PROVE GrantFollowsDelivery'
  BY <1>4 DEF ConvertFails, GrantFollowsDelivery, ShopTyped
<1>5. ASSUME NEW w \in Processes, Commit(w)
      PROVE GrantFollowsDelivery'
  <2>1. worker[w].item \in Items /\ worker[w].next \in OrderStatuses
    BY <1>5, Record DEF Commit, SoundAt, OrderStatuses
  <2>2. CASE UNCHANGED <<order, delivery, grant>>
    BY <2>2 DEF GrantFollowsDelivery
  <2>3. CASE /\ WriteOrder(w, worker[w].next)
             /\ delivery' = [delivery EXCEPT ![worker[w].item] = "delivered"]
             /\ Activate(worker[w].item)
    <3>1. order'.returned = order.returned
      BY <2>1, <2>3, OrderWrite DEF Inv
    <3> QED
      BY <2>1, <2>3, <3>1 DEF Activate, GrantFollowsDelivery, ShopTyped
  <2> QED
    BY <1>5, <2>2, <2>3 DEF Commit
<1>6. ASSUME NEW w \in Processes, StartManual(w)
      PROVE GrantFollowsDelivery'
  <2>1. worker[w].item \in Items /\ "fulfilling" \in OrderStatuses
    BY <1>6, Record DEF StartManual, SoundAt, OrderStatuses
  <2>2. order'.returned = order.returned
    BY <1>6, <2>1, OrderWrite DEF StartManual, Inv
  <2> QED
    BY <1>6, <2>1, <2>2 DEF StartManual, GrantFollowsDelivery, ShopTyped
<1>7. ASSUME NEW w \in Processes, CompleteManual(w)
      PROVE GrantFollowsDelivery'
  <2>1. worker[w].item \in Manual /\ worker[w].item \in Items /\ worker[w].next \in OrderStatuses
    BY <1>7, Record DEF CompleteManual, SoundAt, ByHand, OrderStatuses
  <2>2. order'.returned = order.returned
    BY <1>7, <2>1, OrderWrite DEF CompleteManual, Inv
  <2>3. delivery' = [delivery EXCEPT ![worker[w].item] =
          IF delivery[worker[w].item] \in {"awaiting_supply", "processing"} THEN "delivered" ELSE @]
    BY <1>7 DEF CompleteManual
  <2>4. Activate(worker[w].item)
    BY <1>7 DEF CompleteManual
  <2> QED
    BY <2>1, <2>2, <2>3, <2>4 DEF Activate, GrantFollowsDelivery, ShopTyped
<1>8. ASSUME NEW i \in Items, RetryDelivery(i)
      PROVE GrantFollowsDelivery'
  BY <1>8 DEF RetryDelivery, GrantFollowsDelivery, ShopTyped
<1>9. CASE MoveOrder
  <2>1. order'.returned = order.returned /\ UNCHANGED <<delivery, grant>>
    BY <1>9 DEF MoveOrder, OrderStates
  <2> QED
    BY <2>1 DEF GrantFollowsDelivery
<1>10. CASE RequestRefund
  <2>1. order'.returned = order.returned /\ UNCHANGED <<delivery, grant>>
    BY <1>10 DEF RequestRefund, OrderStates
  <2> QED
    BY <2>1 DEF GrantFollowsDelivery
<1>11. CASE RestoreOrder
  <2>1. order'.returned = order.returned /\ UNCHANGED <<delivery, grant>>
    BY <1>11 DEF RestoreOrder, OrderStates
  <2> QED
    BY <2>1 DEF GrantFollowsDelivery
<1>12. CASE RefundOrder
  BY <1>12 DEF RefundOrder, GrantFollowsDelivery, ShopTyped
<1> QED
  BY ShopSteps, <1>1, <1>2, <1>3, <1>4, <1>5, <1>6, <1>7, <1>8, <1>9, <1>10, <1>11, <1>12

\* Codes that were delivered are neither released nor converted.
LEMMA CodesStep == Inv /\ [Next]_vars => RedeemedOwnsCodes'
<1> SUFFICES ASSUME Inv, [Next]_vars PROVE RedeemedOwnsCodes'
  OBVIOUS
<1>0. ShopTyped /\ RedeemedOwnsCodes
  BY DEF Inv, TypeOK, ShopTyped
<1> USE <1>0, DeliveriesAssumption
<1>1. CASE UNCHANGED <<shop, stock>>
  BY <1>1 DEF RedeemedOwnsCodes, shop, stock
<1>2. ASSUME NEW w \in Processes, Close(w)
      PROVE RedeemedOwnsCodes'
  BY <1>2 DEF Close, stock, RedeemedOwnsCodes, ShopTyped
<1>3. ASSUME NEW w \in Processes, Convert(w)
      PROVE RedeemedOwnsCodes'
  <2>1. \/ converted' = converted
        \/ /\ codes[worker[w].item] = "reserved"
           /\ converted' = [converted EXCEPT ![worker[w].item] = worker[w].done + 1]
    BY <1>3 DEF Convert
  <2>2. UNCHANGED <<codes, delivery>>
    BY <1>3 DEF Convert
  <2> QED
    BY <2>1, <2>2 DEF RedeemedOwnsCodes, ShopTyped
<1>4. ASSUME NEW w \in Processes, ConvertFails(w)
      PROVE RedeemedOwnsCodes'
  BY <1>4 DEF ConvertFails, stock, RedeemedOwnsCodes, ShopTyped
<1>5. ASSUME NEW w \in Processes, Commit(w)
      PROVE RedeemedOwnsCodes'
  <2>1. worker[w].item \in Items
    BY <1>5, Record DEF Commit, SoundAt
  <2>2. CASE UNCHANGED <<delivery, codes>>
    BY <1>5, <2>2 DEF Commit, RedeemedOwnsCodes
  <2>3. CASE /\ MayDeliver(worker[w].item) \/ delivery[worker[w].item] = "delivered"
             /\ delivery' = [delivery EXCEPT ![worker[w].item] = "delivered"]
             /\ codes' = [codes EXCEPT ![worker[w].item] = IF @ = "reserved" THEN "delivered" ELSE @]
    BY <1>5, <2>1, <2>3 DEF Commit, MayDeliver, RedeemedOwnsCodes, ShopTyped
  <2> QED
    BY <1>5, <2>2, <2>3 DEF Commit
<1>6. ASSUME NEW w \in Processes, StartManual(w)
      PROVE RedeemedOwnsCodes'
  <2>1. worker[w].item \in Items /\ worker[w].item \notin Redeem
    BY <1>6, Record DEF StartManual, SoundAt, ByHand
  <2> QED
    BY <1>6, <2>1 DEF StartManual, stock, RedeemedOwnsCodes, ShopTyped
<1>7. ASSUME NEW w \in Processes, CompleteManual(w)
      PROVE RedeemedOwnsCodes'
  <2>1. worker[w].item \in Items /\ worker[w].item \notin Redeem
    BY <1>7, Record DEF CompleteManual, SoundAt, ByHand
  <2> QED
    BY <1>7, <2>1 DEF CompleteManual, stock, RedeemedOwnsCodes, ShopTyped
<1>8. ASSUME NEW i \in Items, RetryDelivery(i)
      PROVE RedeemedOwnsCodes'
  BY <1>8 DEF RetryDelivery, stock, RedeemedOwnsCodes, ShopTyped
<1>9. CASE MoveOrder
  BY <1>9 DEF MoveOrder, stock, RedeemedOwnsCodes, ShopTyped
<1>10. CASE RequestRefund
  BY <1>10 DEF RequestRefund, stock, RedeemedOwnsCodes, ShopTyped
<1>11. CASE RestoreOrder
  BY <1>11 DEF RestoreOrder, stock, RedeemedOwnsCodes, ShopTyped
<1>12. CASE RefundOrder
  BY <1>12 DEF RefundOrder, stock, RedeemedOwnsCodes, ShopTyped
<1> QED
  BY ShopSteps, <1>1, <1>2, <1>3, <1>4, <1>5, <1>6, <1>7, <1>8, <1>9, <1>10, <1>11, <1>12

\* An order that is not deliverable is not written: it was read deliverable.
LEMMA ClosedWrite ==
  ASSUME Inv, order.status \notin Deliverable, NEW w \in Processes, NEW status,
         worker[w].stage \in Reading, WriteOrder(w, status)
  PROVE  order' = order
BY Record DEF SoundAt, WriteOrder

\* A closed order is left alone by workers and administrators of deliveries.
LEMMA ClosedStep ==
  Inv /\ [Next]_vars =>
    [WorkerStep /\ order.status \notin Deliverable
       => /\ UNCHANGED order
          /\ \A i \in Automatic : delivery'[i] = "delivered" => delivery[i] = "delivered"]_vars
<1> SUFFICES ASSUME Inv, WorkerStep, order.status \notin Deliverable
    PROVE  /\ UNCHANGED order
           /\ \A i \in Automatic : delivery'[i] = "delivered" => delivery[i] = "delivered"
  OBVIOUS
<1>0. ShopTyped
  BY DEF Inv, TypeOK, ShopTyped
<1>1. CASE UNCHANGED <<order, delivery>>
  BY <1>1
<1>2. ASSUME NEW w \in Processes, Close(w)
      PROVE  order' = order /\ \A i \in Items : delivery'[i] = "delivered" => delivery[i] = "delivered"
  BY <1>0, <1>2 DEF Close, ShopTyped
<1>3. ASSUME NEW w \in Processes, Commit(w)
      PROVE  order' = order /\ \A i \in Items : delivery'[i] = "delivered" => delivery[i] = "delivered"
  <2>1. worker[w].stage \in Reading /\ ~ MayDeliver(worker[w].item)
    BY <1>3 DEF Commit, Reading, MayDeliver
  <2>2. order' = order
    BY <1>3, <2>1, ClosedWrite DEF Commit
  <2>3. \/ delivery' = delivery
        \/ /\ delivery[worker[w].item] = "delivered"
           /\ delivery' = [delivery EXCEPT ![worker[w].item] = "delivered"]
    BY <1>3, <2>1 DEF Commit
  <2> QED
    BY <1>0, <2>2, <2>3 DEF ShopTyped
<1>4. ASSUME NEW w \in Processes, StartManual(w) \/ CompleteManual(w)
      PROVE  order' = order /\ \A i \in Automatic : delivery'[i] = "delivered" => delivery[i] = "delivered"
  <2>1. worker[w].stage \in Reading /\ worker[w].stage \in ByHand
    BY <1>4 DEF StartManual, CompleteManual, Reading, ByHand
  <2>2. worker[w].item \in Manual
    BY <2>1, Record DEF SoundAt
  <2>3. order' = order
    BY <1>4, <2>1, ClosedWrite DEF StartManual, CompleteManual
  <2> QED
    BY <1>0, <1>4, <2>2, <2>3 DEF StartManual, CompleteManual, ShopTyped, Automatic
<1>5. ASSUME NEW w \in Processes,
             Throw(w) \/ Acknowledge(w) \/ ReadStock(w) \/ Convert(w) \/ ConvertFails(w)
             \/ Count(w) \/ Crash(w)
      PROVE  UNCHANGED <<order, delivery>>
  BY <1>5 DEF Throw, Acknowledge, ReadStock, Convert, ConvertFails, Count, Crash, GiveUp, shop
<1>6. ASSUME NEW w, NEW i, NEW n, Take(w, i, n) \/ OpenManual(w, i, n)
      PROVE  UNCHANGED <<order, delivery>>
  BY <1>6 DEF Take, OpenManual, shop
<1> QED
  BY <1>1, <1>2, <1>3, <1>4, <1>5, <1>6 DEF WorkerStep, Work, Automatic

-----------------------------------------------------------------------------
(***************************************************************************)
(* Theorems.                                                               *)
(***************************************************************************)
\* The invariant is kept by every step.
LEMMA InvNext == Inv /\ [Next]_vars => Inv'
BY TypeStep, ProcessesStep, ManualStep, CountStep, CompletedStep, GrantStep, CodesStep
   DEF Inv, WorkersAreSound

\* The variables have their types in every reachable state.
THEOREM TypeCorrect == Spec => []TypeOK
<1>1. Inv => TypeOK
  BY DEF Inv
<1> QED
  BY <1>1, InvInit, InvNext, PTL DEF Spec

\* Whatever writes the order between the count and the batch, an order that a
\* delivery completed (processDelivery, completeManualDelivery) is delivered.
THEOREM CompletedIsDelivered == Spec => []CompletedMeansDelivered
<1>1. Inv => CompletedMeansDelivered
  BY DEF Inv
<1> QED
  BY <1>1, InvInit, InvNext, PTL DEF Spec

\* Grants are active exactly with deliveries that are not paid back
\* (activateEntitlementGrantStatements, finalizeRefund).
THEOREM GrantsFollow == Spec => []GrantFollowsDelivery
<1>1. Inv => GrantFollowsDelivery
  BY DEF Inv
<1> QED
  BY <1>1, InvInit, InvNext, PTL DEF Spec

\* A converted delivery gives out the order's own, converted codes
\* (convertReservedStock and the guard of processDelivery).
THEOREM CodesAreOwned == Spec => []RedeemedOwnsCodes
<1>1. Inv => RedeemedOwnsCodes
  BY DEF Inv
<1> QED
  BY <1>1, InvInit, InvNext, PTL DEF Spec

\* No worker delivers or writes an order that is not paid or fulfilling
\* (the comment of processDelivery).
THEOREM ClosedIsClosed == Spec => ClosedStaysClosed
BY ClosedStep, InvInit, InvNext, PTL DEF Spec, ClosedStaysClosed

=============================================================================
