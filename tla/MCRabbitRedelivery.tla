------------------------- MODULE MCRabbitRedelivery -------------------------
(* Two consumers on one queue. *)
EXTENDS RabbitRedelivery

CONSTANTS a, b, m, n
TwoConsumers == {a, b}
TwoMessages == {m, n}
NoConsumer == {}
OnlyB == {b}

=============================================================================
