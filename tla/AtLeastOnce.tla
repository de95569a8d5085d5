---------------------------- MODULE AtLeastOnce ----------------------------
(***************************************************************************)
(* What harnesses/integration/rabbitmq_redelivery_test_harness.py says a   *)
(* broker and its consumer owe a publisher: a message is held until it has *)
(* been processed, processed perhaps more than once, and only then let go. *)
(***************************************************************************)
CONSTANT Messages

VARIABLES
  held,   \* what the broker may still deliver
  done    \* what a consumer has processed at least once

vars == <<held, done>>

Init == held = {} /\ done = {}

Publish(m) == m \notin held \cup done /\ held' = held \cup {m} /\ UNCHANGED done
Process(m) == m \in held \cup done /\ done' = done \cup {m} /\ UNCHANGED held
Release(m) == m \in done /\ held' = held \ {m} /\ UNCHANGED done

Next == \E m \in Messages : Publish(m) \/ Process(m) \/ Release(m)

Spec == Init /\ [][Next]_vars

=============================================================================
