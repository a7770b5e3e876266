--------------------------- MODULE NodeQueueProofs ---------------------------
(***************************************************************************)
(* Proofs about NodeQueue, for every number of messages and slots, every   *)
(* limit of attempts and any number of crashes, stops and overruns: what   *)
(* the steps preserve, that a superseded handler changes no row, and that  *)
(* the steps of the queue are steps of an at-least-once queue.             *)
(***************************************************************************)
EXTENDS NodeQueue, TLAPS

\* A handler works for a claim that was made of a message that was sent.
Claimed ==
  \A t \in tasks : t.attempt <= attempts[t.id] /\ status[t.id] # "absent"

\* What was performed had been sent, and ack() follows the work.
Performed ==
  /\ \A t \in acks : t.id \in handled
  /\ \A m \in handled : status[m] # "absent"

Inv == TypeOK /\ Claimed /\ Performed /\ DeadIsExhausted /\ NeverAsleep

\* The table is empty and the consumer stopped when the process starts.
LEMMA InvInit == Init => Inv
<1> SUFFICES ASSUME Init PROVE Inv
  OBVIOUS
<1>1. budget \in [{"overrun", "crash", "stop"} -> Nat]
  BY NodeQueueAssumption DEF Init
<1>2. TypeOK
  BY <1>1 DEF Init, TypeOK, Task
<1>3. Claimed /\ Performed /\ DeadIsExhausted /\ NeverAsleep
  BY DEF Init, Claimed, Performed, DeadIsExhausted, NeverAsleep
<1> QED
  BY <1>2, <1>3 DEF Inv

\* Using up a bound keeps the budget typed.
LEMMA BudgetTyped ==
  ASSUME NEW what \in {"overrun", "crash", "stop"}, Spend(what),
         budget \in [{"overrun", "crash", "stop"} -> Nat]
  PROVE  budget' \in [{"overrun", "crash", "stop"} -> Nat]
<1>1. budget[what] - 1 \in Nat
  BY DEF Spend
<1> QED
  BY <1>1 DEF Spend

\* Each step of the queue keeps the invariant.
LEMMA InvNext == Inv /\ [Next]_vars => Inv'
<1> SUFFICES ASSUME Inv, [Next]_vars PROVE Inv'
  OBVIOUS
<1> USE NodeQueueAssumption
<1> USE DEF Inv, TypeOK, Claimed, Performed, DeadIsExhausted, NeverAsleep, Task,
        Current, rows, flight, consumer, Join, Leave, Wake
<1>1. CASE \E S \in SUBSET Messages : \E D \in SUBSET S : Send(S, D)
  <2>1. PICK S \in SUBSET Messages : \E D \in SUBSET S : Send(S, D)
    BY ONLY <1>1
  <2>2. TypeOK'
    BY <2>1 DEF Send
  <2>3. Claimed' /\ Performed'
    BY <2>1 DEF Send
  <2>4. DeadIsExhausted' /\ NeverAsleep'
    BY <2>1 DEF Send
  <2> QED
    BY <2>2, <2>3, <2>4
<1>2. CASE \E m \in Messages : Due(m) \/ Expire(m) \/ Overrun(m)
  <2>1. PICK m \in Messages : Due(m) \/ Expire(m) \/ Overrun(m)
    BY <1>2
  <2>2. CASE Due(m)
    BY <2>2 DEF Due
  <2>3. CASE Expire(m)
    BY <2>3 DEF Expire
  <2>4. CASE Overrun(m)
    BY <2>4, BudgetTyped DEF Overrun
  <2> QED
    BY <2>1, <2>2, <2>3, <2>4
<1>3. CASE Start
  BY <1>3 DEF Start
<1>4. CASE Stop
  BY <1>4, BudgetTyped DEF Stop
<1>5. CASE Poll
  <2>1. PICK P \in Selections :
          /\ status' = [m \in Messages |-> IF m \in P THEN "leased" ELSE status[m]]
          /\ attempts' = [m \in Messages |->
                            IF m \in P THEN attempts[m] + 1 ELSE attempts[m]]
          /\ lease' = [m \in Messages |-> IF m \in P THEN attempts[m] + 1 ELSE lease[m]]
          /\ lapsed' = lapsed \ P
          /\ tasks' = tasks \cup {[id |-> m, attempt |-> attempts[m] + 1] : m \in P}
    BY <1>5 DEF Poll
  <2>2. /\ timer' = (Cardinality(tasks') < Concurrency)
        /\ UNCHANGED <<available, ahead, acks, retries, stopped, handled, budget>>
    BY <1>5 DEF Poll
  <2>3. P \subseteq Messages /\ \A m \in P : status[m] \in {"ready", "leased"}
    BY DEF Selections, Candidates
  <2>4. tasks' \subseteq Task
    BY <2>1, <2>3
  <2>5. TypeOK'
    BY <2>1, <2>2, <2>3, <2>4
  <2>6. Claimed'
    BY <2>1, <2>3
  <2>7. Performed' /\ DeadIsExhausted'
    BY <2>1, <2>2, <2>3
  <2>8. NeverAsleep'
    BY <2>2
  <2> QED
    BY <2>5, <2>6, <2>7, <2>8
<1>6. CASE Crash
  BY <1>6, BudgetTyped DEF Crash
<1>7. CASE \E t \in tasks : Perform(t) \/ Fail(t)
  BY <1>7 DEF Perform, Fail, Undecided
<1>8. CASE \E t \in tasks : Settle(t)
  <2>1. PICK t \in tasks : Settle(t)
    BY <1>8
  <2>2. UNCHANGED <<status, lease, lapsed, available, ahead>> \/ Holds(t)
    BY <2>1 DEF Settle, Acknowledge, GiveBack
  <2>3. CASE UNCHANGED <<status, lease, lapsed, available, ahead>>
    BY <2>1, <2>3 DEF Settle
  <2>4. CASE Holds(t)
    <3>1. /\ \/ status' = [status EXCEPT ![t.id] = "deleted"]
             \/ /\ status' = [status EXCEPT ![t.id] = "dead"]
                /\ t.attempt >= MaxAttempts
             \/ status' = [status EXCEPT ![t.id] = "ready"]
          /\ lease' = [lease EXCEPT ![t.id] = 0]
          /\ lapsed' = lapsed \ {t.id}
          /\ Leave(t.id)
      BY <2>1, <2>4 DEF Settle, Acknowledge, GiveBack, Exhausted
    <3>2. TypeOK'
      BY <2>1, <3>1 DEF Settle
    <3>3. Claimed' /\ Performed'
      BY <2>1, <3>1 DEF Settle
    <3>4. DeadIsExhausted'
      BY <2>1, <3>1 DEF Settle
    <3>5. NeverAsleep'
      BY <2>1 DEF Settle
    <3> QED
      BY <3>2, <3>3, <3>4, <3>5
  <2> QED
    BY <2>2, <2>3, <2>4
<1>9. CASE UNCHANGED vars
  BY <1>9 DEF vars
<1> HIDE DEF Inv
<1> QED
  BY <1>1, <1>2, <1>3, <1>4, <1>5, <1>6, <1>7, <1>8, <1>9 DEF Next

\* Inv holds in every reachable state.
LEMMA InvHolds == Spec => []Inv
<1>1. Init => Inv
  BY InvInit
<1>2. Inv /\ [Next]_vars => Inv'
  BY InvNext
<1> QED
  BY <1>1, <1>2, PTL DEF Spec

\* The table, the tasks and the consumer keep their shapes, and a row holds a
\* token exactly while it is leased, that of its latest claim.
THEOREM TypeCorrect == Spec => []TypeOK
<1>1. Inv => TypeOK
  BY DEF Inv
<1> QED
  BY <1>1, InvHolds, PTL

\* No message is put aside before maxAttempts claims (NodeDurableQueue.retry).
THEOREM DeadAfterAllAttempts == Spec => []DeadIsExhausted
<1>1. Inv => DeadIsExhausted
  BY DEF Inv
<1> QED
  BY <1>1, InvHolds, PTL

\* A running consumer whose slots are not all taken has its timer armed
\* (NodeQueueConsumer.poll, wake and complete).
THEOREM ConsumerAwake == Spec => []NeverAsleep
<1>1. Inv => NeverAsleep
  BY DEF Inv
<1> QED
  BY <1>1, InvHolds, PTL

\* A handler whose claim was superseded changes no row when it ends (the
\* lease_token in the WHERE of ack and retry).
THEOREM SupersededHandlersAreInert == Spec => LateSettleIsInert
<1> DEFINE Inert ==
      \A t \in tasks \ tasks' :
        ~Current(t) => UNCHANGED <<status, attempts, lease, available, ahead, lapsed>>
<1>1. [Next]_vars => [Inert]_vars
  <2> SUFFICES ASSUME Next PROVE Inert
    OBVIOUS
  <2>1. CASE \E t \in tasks : Settle(t)
    BY <2>1 DEF Settle, Acknowledge, GiveBack, Holds
  <2>2. CASE Crash
    BY <2>2 DEF Crash, rows
  <2>3. CASE ~Crash /\ ~ \E t \in tasks : Settle(t)
    <3>1. tasks \subseteq tasks'
      BY <2>3 DEF Next, Send, Due, Expire, Overrun, Start, Stop, Poll, Perform, Fail,
                  flight
    <3> QED
      BY <3>1
  <2> QED
    BY <2>1, <2>2, <2>3
<1> QED
  BY <1>1, PTL DEF Spec, LateSettleIsInert

------------------------------------------------------------------------------
\* The sender's view of the rows after a step that changes no status.
LEMMA FateKept ==
  ASSUME UNCHANGED status
  PROVE  UNCHANGED [m \in Messages |-> Fate(m)]
  BY DEF Fate

\* Each step is a step of an at-least-once queue, or none.
LEMMA PromiseStep ==
  ASSUME Inv, [Next]_vars
  PROVE  [Promise!Next]_(Promise!promise)
<1> DEFINE fate == [m \in Messages |-> Fate(m)]
<1>1. CASE UNCHANGED <<status, handled>>
  BY <1>1, FateKept DEF Promise!promise
<1>2. CASE \E S \in SUBSET Messages : \E D \in SUBSET S : Send(S, D)
  <2>1. PICK S \in SUBSET Messages : \E D \in SUBSET S : Send(S, D)
    BY ONLY <1>2
  <2>2. /\ S # {} /\ UNCHANGED handled
        /\ \A m \in S : status[m] = "absent"
        /\ status' = [m \in Messages |-> IF m \in S THEN "ready" ELSE status[m]]
    BY <2>1 DEF Send, flight
  <2>3. \A m \in Messages : Fate(m)' = IF m \in S THEN "owed" ELSE Fate(m)
    <3> SUFFICES ASSUME NEW m \in Messages
                 PROVE  Fate(m)' = IF m \in S THEN "owed" ELSE Fate(m)
      OBVIOUS
    <3>1. CASE m \in S
      <4>1. status'[m] = "ready"
        BY <2>2, <3>1
      <4> QED
        BY ONLY <3>1, <4>1 DEF Fate
    <3>2. CASE m \notin S
      <4>1. status'[m] = status[m]
        BY <2>2, <3>2
      <4>2. status[m] \in {"absent", "ready", "leased", "dead", "deleted"}
        BY DEF Inv, TypeOK
      <4> QED
        BY ONLY <3>2, <4>1, <4>2 DEF Fate
    <3> QED
      BY <3>1, <3>2
  <2>4. \A m \in S : Fate(m) = "unsent"
    BY <2>2 DEF Fate
  <2>5. Promise!Accept(S)
    BY <2>2, <2>3, <2>4 DEF Promise!Accept
  <2> QED
    BY <2>5 DEF Promise!Next
<1>3. CASE Poll
  <2>1. PICK P \in Selections :
          status' = [m \in Messages |-> IF m \in P THEN "leased" ELSE status[m]]
    BY <1>3 DEF Poll
  <2>2. \A m \in P : status[m] \in {"ready", "leased"}
    BY DEF Selections, Candidates, Inv, TypeOK
  <2>3. \A m \in Messages : Fate(m)' = Fate(m)
    BY <2>1, <2>2 DEF Fate
  <2> QED
    BY <1>3, <2>3 DEF Poll, Promise!promise
<1>4. CASE \E t \in tasks : Perform(t)
  <2>1. PICK t \in tasks : Perform(t)
    BY <1>4
  <2>2. t.id \in Messages /\ status[t.id] # "absent"
    BY DEF Inv, TypeOK, Claimed, Task
  <2>3. Promise!Perform(t.id)
    <3>1. UNCHANGED status /\ handled' = handled \cup {t.id}
      BY <2>1 DEF Perform, rows
    <3>2. Fate(t.id) # "unsent"
      BY <2>2 DEF Fate, Inv, TypeOK
    <3> QED
      BY <2>2, <3>1, <3>2, FateKept DEF Promise!Perform
  <2> QED
    BY <2>2, <2>3 DEF Promise!Next
<1>5. CASE \E t \in tasks : Settle(t)
  <2>1. PICK t \in tasks : Settle(t)
    BY <1>5
  <2>2. t.id \in Messages /\ UNCHANGED handled
    BY <2>1 DEF Inv, TypeOK, Task, Settle
  <2>3. CASE status' = status
    BY <1>1, <2>2, <2>3
  <2>4. CASE status' # status
    <3>1. status[t.id] = "leased"
      BY <2>1, <2>4 DEF Settle, Acknowledge, GiveBack, Holds, Current
    <3>2. \/ status' = [status EXCEPT ![t.id] = "deleted"] /\ t.id \in handled
          \/ status' = [status EXCEPT ![t.id] = "dead"]
          \/ status' = [status EXCEPT ![t.id] = "ready"]
      BY <2>1, <2>4 DEF Settle, Acknowledge, GiveBack, Inv, Performed
    <3>3. CASE status' = [status EXCEPT ![t.id] = "deleted"] /\ t.id \in handled
      <4>1. Promise!Finish(t.id)
        BY <2>2, <3>1, <3>3 DEF Promise!Finish, Fate, Inv, TypeOK
      <4> QED
        BY <2>2, <4>1 DEF Promise!Next
    <3>4. CASE status' = [status EXCEPT ![t.id] = "dead"]
      <4>1. Promise!Bury(t.id)
        BY <2>2, <3>1, <3>4 DEF Promise!Bury, Fate, Inv, TypeOK
      <4> QED
        BY <2>2, <4>1 DEF Promise!Next
    <3>5. CASE status' = [status EXCEPT ![t.id] = "ready"]
      BY <2>2, <3>1, <3>5 DEF Fate, Inv, TypeOK, Promise!promise
    <3> QED
      BY <3>2, <3>3, <3>4, <3>5
  <2> QED
    BY <2>3, <2>4
<1> QED
  BY <1>1, <1>2, <1>3, <1>4, <1>5
  DEF Next, vars, rows, flight, Due, Expire, Overrun, Start, Stop, Fail, Crash

\* The queue keeps the safety part of its promise: a message that was accepted
\* stays owed until its work was performed and it is deleted, or it is dead.
THEOREM AtLeastOnceSafe == Spec => Promise!Safe
<1>1. Init => Promise!Init
  BY DEF Init, Promise!Init, Fate
<1>2. Inv /\ [Next]_vars => [Promise!Next]_(Promise!promise)
  BY PromiseStep
<1> QED
  BY <1>1, <1>2, InvHolds, PTL DEF Spec, Promise!Safe

=============================================================================
