------------------------------ MODULE NodeQueue ------------------------------
(***************************************************************************)
(* The durable queue of the Bun runtime (server/runtime/node/queue.ts):    *)
(* the table node_queue_messages, the one consumer that polls it, and the  *)
(* handler invocations in flight (server/queue/routing.ts).                *)
(*                                                                         *)
(* An SQLite transaction is one action; a handler is asynchronous, so      *)
(* leases run out, batches are sent and the process dies between its       *)
(* steps.  The clock is not counted: available_at and lease_expires_at are *)
(* kept as which messages are available, which became available before     *)
(* which others, and which leases ran out.  The lease token, a fresh UUID, *)
(* is the number of the claim that wrote it.  The messages of the commerce *)
(* queue differ in nothing the queue looks at.                             *)
(*                                                                         *)
(* Each definition whose comment begins with SLIP is a wrong variant of    *)
(* the one that follows it, used to see that the properties notice.        *)
(***************************************************************************)
EXTENDS Naturals, FiniteSets

CONSTANTS
  Messages,     \* rows that may be inserted
  Concurrency,  \* options.concurrency: handlers in flight at once
  MaxAttempts,  \* options.maxAttempts
  MaxOverruns,  \* bound: leases that run out under a running handler
  MaxCrashes,   \* bound: deaths of the process
  MaxStops      \* bound: calls of stop()

ASSUME NodeQueueAssumption ==
  /\ IsFiniteSet(Messages)
  /\ Concurrency \in Nat \ {0}
  /\ MaxAttempts \in Nat \ {0}
  /\ {MaxOverruns, MaxCrashes, MaxStops} \subseteq Nat

VARIABLES
  status,     \* "absent", "ready", "leased", "dead", or "deleted"
  attempts,   \* the column of that name
  lease,      \* lease_token: the claim that holds the row, 0 for NULL
  available,  \* rows with available_at <= now
  ahead,      \* for a row: the rows that became available before it
  lapsed,     \* leased rows with lease_expires_at <= now
  tasks,      \* inFlight: the claims whose process() has not returned
  acks,       \* tasks whose handler called ack()
  retries,    \* tasks whose handler called retry()
  timer,      \* the consumer's timer is armed
  stopped,    \* the consumer's flag
  handled,    \* observer: messages whose work a handler performed
  budget      \* what is left of the bounds

rows == <<status, attempts, lease, available, ahead, lapsed>>
flight == <<tasks, acks, retries, handled>>
consumer == <<timer, stopped>>
vars == <<rows, flight, consumer, budget>>

Task == [id : Messages, attempt : Nat \ {0}]

\* An invocation that holds the row it works for.
Current(t) == status[t.id] = "leased" /\ lease[t.id] = t.attempt

Init ==
  /\ status = [m \in Messages |-> "absent"]
  /\ attempts = [m \in Messages |-> 0]
  /\ lease = [m \in Messages |-> 0]
  /\ available = {}
  /\ ahead = [m \in Messages |-> {}]
  /\ lapsed = {}
  /\ tasks = {} /\ acks = {} /\ retries = {}
  /\ timer = FALSE
  /\ stopped = TRUE
  /\ handled = {}
  /\ budget = [overrun |-> MaxOverruns, crash |-> MaxCrashes, stop |-> MaxStops]

Spend(what) == budget[what] > 0 /\ budget' = [budget EXCEPT ![what] = @ - 1]

------------------------------------------------------------------------------
\* The order of the rows.

\* Rows that become available together may be selected in either order.
Join(S) ==
  /\ available' = available \cup S
  /\ ahead' = [m \in Messages |-> IF m \in S THEN available ELSE ahead[m]]

Leave(m) ==
  /\ available' = available \ {m}
  /\ ahead' = [k \in Messages |-> IF k = m THEN {} ELSE ahead[k] \ {m}]

\* available_at <= now
Due(m) ==
  /\ status[m] = "ready"
  /\ m \notin available
  /\ Join({m})
  /\ UNCHANGED <<status, attempts, lease, lapsed, flight, consumer, budget>>

\* A lease that nobody works under runs out.
Expire(m) ==
  /\ status[m] = "leased"
  /\ m \notin lapsed
  /\ ~ \E t \in tasks : t.id = m /\ Current(t)
  /\ lapsed' = lapsed \cup {m}
  /\ UNCHANGED <<status, attempts, lease, available, ahead, flight, consumer, budget>>

\* A handler works longer than its lease.
Overrun(m) ==
  /\ m \notin lapsed
  /\ \E t \in tasks : t.id = m /\ Current(t)
  /\ lapsed' = lapsed \cup {m}
  /\ Spend("overrun")
  /\ UNCHANGED <<status, attempts, lease, available, ahead, flight, consumer>>

------------------------------------------------------------------------------
\* Senders.

\* SLIP: the consumers are not woken.
SleepingWake == UNCHANGED consumer

Wake ==
  /\ timer' = (timer \/ ~stopped)
  /\ UNCHANGED stopped

\* send() and sendBatch(): S is inserted in one transaction, the rows of D
\* with a delay.
Send(S, D) ==
  /\ S # {}
  /\ \A m \in S : status[m] = "absent"
  /\ status' = [m \in Messages |-> IF m \in S THEN "ready" ELSE status[m]]
  /\ Join(S \ D)
  /\ Wake
  /\ UNCHANGED <<attempts, lease, lapsed, flight, budget>>

------------------------------------------------------------------------------
\* The consumer.

Start ==
  /\ stopped
  /\ stopped' = FALSE
  /\ timer' = TRUE
  /\ UNCHANGED <<rows, flight, budget>>

Stop ==
  /\ ~stopped
  /\ stopped' = TRUE
  /\ timer' = FALSE
  /\ Spend("stop")
  /\ UNCHANGED <<rows, flight>>

\* SLIP: a row whose lease ran out is never selected again.
ReadyOnly == {m \in available : status[m] = "ready"}

Candidates == {m \in available : status[m] = "ready" \/ m \in lapsed}

Free == Concurrency - Cardinality(tasks)

\* The rows that ORDER BY available_at LIMIT `Free' may select.
Selections ==
  {P \in SUBSET Candidates :
     /\ \A m \in P : ahead[m] \cap Candidates \subseteq P
     /\ \/ Cardinality(P) = Free
        \/ Cardinality(P) < Free /\ P = Candidates}

\* The timer fires: the rows are leased and their handlers started.  A full
\* consumer leaves its timer off until a handler completes.
Poll ==
  /\ timer
  /\ \E P \in Selections :
       /\ status' = [m \in Messages |-> IF m \in P THEN "leased" ELSE status[m]]
       /\ attempts' = [m \in Messages |->
                         IF m \in P THEN attempts[m] + 1 ELSE attempts[m]]
       /\ lease' = [m \in Messages |-> IF m \in P THEN attempts[m] + 1 ELSE lease[m]]
       /\ lapsed' = lapsed \ P
       /\ tasks' = tasks \cup {[id |-> m, attempt |-> attempts[m] + 1] : m \in P}
  /\ timer' = (Cardinality(tasks') < Concurrency)
  /\ UNCHANGED <<available, ahead, acks, retries, stopped, handled, budget>>

------------------------------------------------------------------------------
\* Handlers.

Undecided(t) == t \in tasks \ (acks \cup retries)

\* The work is performed and ack() called; the outbox drain follows.
Perform(t) ==
  /\ Undecided(t)
  /\ acks' = acks \cup {t}
  /\ handled' = handled \cup {t.id}
  /\ UNCHANGED <<rows, tasks, retries, consumer, budget>>

\* The work fails and retry() is called.
Fail(t) ==
  /\ Undecided(t)
  /\ retries' = retries \cup {t}
  /\ UNCHANGED <<rows, tasks, acks, handled, consumer, budget>>

\* SLIP: the row is only checked to be leased.
Unfenced(t) == status[t.id] = "leased"

Holds(t) == Current(t)

\* SLIP: the last attempt is not made.
DeadEarly(t) == t.attempt + 1 >= MaxAttempts

Exhausted(t) == t.attempt >= MaxAttempts

\* DELETE ... WHERE status = 'leased' AND lease_token = ?
Acknowledge(t) ==
  IF Holds(t)
  THEN /\ status' = [status EXCEPT ![t.id] = "deleted"]
       /\ lease' = [lease EXCEPT ![t.id] = 0]
       /\ lapsed' = lapsed \ {t.id}
       /\ Leave(t.id)
  ELSE UNCHANGED <<status, lease, lapsed, available, ahead>>

\* SLIP: the token of the claim stays in the row.
GiveBackLeased(t) ==
  IF Holds(t)
  THEN /\ status' = [status EXCEPT ![t.id] = IF Exhausted(t) THEN "dead" ELSE "ready"]
       /\ lapsed' = lapsed \ {t.id}
       /\ Leave(t.id)
       /\ UNCHANGED lease
  ELSE UNCHANGED <<status, lease, lapsed, available, ahead>>

\* UPDATE ... WHERE status = 'leased' AND lease_token = ?; a row that is ready
\* again becomes available when its delay is over.
GiveBack(t) ==
  IF Holds(t)
  THEN /\ status' = [status EXCEPT ![t.id] = IF Exhausted(t) THEN "dead" ELSE "ready"]
       /\ lease' = [lease EXCEPT ![t.id] = 0]
       /\ lapsed' = lapsed \ {t.id}
       /\ Leave(t.id)
  ELSE UNCHANGED <<status, lease, lapsed, available, ahead>>

\* The handler returns, or throws: after ack() when the drain fails, before
\* either call when a message is malformed.  complete() frees the slot.
Settle(t) ==
  /\ t \in tasks
  /\ \/ t \in acks /\ Acknowledge(t)
     \/ GiveBack(t)
  /\ tasks' = tasks \ {t}
  /\ acks' = acks \ {t}
  /\ retries' = retries \ {t}
  /\ Wake
  /\ UNCHANGED <<attempts, handled, budget>>

\* The process dies with everything it holds in memory.
Crash ==
  /\ ~stopped \/ tasks # {}
  /\ tasks' = {} /\ acks' = {} /\ retries' = {}
  /\ stopped' = TRUE
  /\ timer' = FALSE
  /\ Spend("crash")
  /\ UNCHANGED <<rows, handled>>

------------------------------------------------------------------------------
Next ==
  \/ \E S \in SUBSET Messages : \E D \in SUBSET S : Send(S, D)
  \/ \E m \in Messages : Due(m) \/ Expire(m) \/ Overrun(m)
  \/ Start \/ Stop \/ Poll \/ Crash
  \/ \E t \in tasks : Perform(t) \/ Fail(t) \/ Settle(t)

Spec == Init /\ [][Next]_vars

\* Time passes, the host restarts the process, an armed timer fires, and a
\* handler returns: its provider calls time out.
Fairness ==
  /\ \A m \in Messages :
       /\ WF_vars(Due(m))
       /\ WF_vars(Expire(m))
       /\ WF_vars(\E t \in tasks : t.id = m /\ Settle(t))
  /\ WF_vars(Start)
  /\ WF_vars(Poll)

FairSpec == Spec /\ Fairness

------------------------------------------------------------------------------
(* Properties *)

\* The tables and the consumer have their shapes: a row holds a token exactly
\* while it is leased, that of its latest claim; verdicts belong to tasks.
TypeOK ==
  /\ status \in [Messages -> {"absent", "ready", "leased", "dead", "deleted"}]
  /\ attempts \in [Messages -> Nat]
  /\ lease \in [Messages -> Nat]
  /\ \A m \in Messages :
       lease[m] = IF status[m] = "leased" THEN attempts[m] ELSE 0
  /\ available \subseteq Messages
  /\ ahead \in [Messages -> SUBSET Messages]
  /\ lapsed \subseteq {m \in Messages : status[m] = "leased"}
  /\ tasks \subseteq Task
  /\ acks \subseteq tasks
  /\ retries \subseteq tasks
  /\ timer \in BOOLEAN
  /\ stopped \in BOOLEAN
  /\ handled \subseteq Messages
  /\ budget \in [{"overrun", "crash", "stop"} -> Nat]

\* A message is put aside only after maxAttempts claims of it
\* (NodeDurableQueue.retry), whatever leases ran out meanwhile.
DeadIsExhausted ==
  \A m \in Messages : status[m] = "dead" => attempts[m] >= MaxAttempts

\* A running consumer either has its timer armed or has every slot taken, so
\* that a completion arms it: no send and no completion is missed
\* (NodeQueueConsumer.poll, wake and complete).
NeverAsleep ==
  stopped \/ timer \/ ~(Cardinality(tasks) < Concurrency)

\* The end of a handler whose message was claimed again, or has left the
\* queue, changes no row: the later claim is not undone
\* (lease_token in the WHERE of ack and retry).
LateSettleIsInert ==
  [][\A t \in tasks \ tasks' :
       ~Current(t) => UNCHANGED <<status, attempts, lease, available, ahead, lapsed>>]_vars

\* What became of a message, as its sender sees it.
Fate(m) ==
  CASE status[m] = "absent" -> "unsent"
    [] status[m] \in {"ready", "leased"} -> "owed"
    [] status[m] = "deleted" -> "done"
    [] status[m] = "dead" -> "dead"

Promise == INSTANCE AtLeastOnce WITH
  fate <- [m \in Messages |-> Fate(m)],
  performed <- handled

\* The queue is an at-least-once queue: every accepted message is deleted after
\* its work was performed, or put aside, whatever crashes, overruns and
\* redeliveries happen in between.
KeepsPromise == Promise!Spec

=============================================================================
