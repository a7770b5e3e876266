----------------------------- MODULE AtLeastOnce -----------------------------
(***************************************************************************)
(* What a durable queue promises its senders: a message that was accepted  *)
(* is owed until its work was performed at least once, or until it is put  *)
(* aside as dead.  Work may be performed again, even after the message     *)
(* left the queue, so every handler has to be idempotent.                  *)
(***************************************************************************)
EXTENDS Naturals

CONSTANT Messages

VARIABLES
  fate,      \* "unsent", "owed", "done" or "dead"
  performed  \* messages whose work was performed at least once

promise == <<fate, performed>>

Init ==
  /\ fate = [m \in Messages |-> "unsent"]
  /\ performed = {}

\* A batch is accepted as a whole.
Accept(S) ==
  /\ S # {}
  /\ \A m \in S : fate[m] = "unsent"
  /\ fate' = [m \in Messages |-> IF m \in S THEN "owed" ELSE fate[m]]
  /\ UNCHANGED performed

Perform(m) ==
  /\ fate[m] # "unsent"
  /\ performed' = performed \cup {m}
  /\ UNCHANGED fate

Finish(m) ==
  /\ fate[m] = "owed"
  /\ m \in performed
  /\ fate' = [fate EXCEPT ![m] = "done"]
  /\ UNCHANGED performed

Bury(m) ==
  /\ fate[m] = "owed"
  /\ fate' = [fate EXCEPT ![m] = "dead"]
  /\ UNCHANGED performed

Next ==
  \/ \E S \in SUBSET Messages : Accept(S)
  \/ \E m \in Messages : Perform(m) \/ Finish(m) \/ Bury(m)

Safe == Init /\ [][Next]_promise

\* No message stays owed for ever.
Spec == Safe /\ \A m \in Messages : WF_promise(Finish(m) \/ Bury(m))

=============================================================================
