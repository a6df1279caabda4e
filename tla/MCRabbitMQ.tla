----------------------------- MODULE MCRabbitMQ -----------------------------
(* The instance of RabbitMQ that TLC checks: a producer and a receiver,    *)
(* registered in this order.                                               *)
EXTENDS RabbitMQ

OrderTwo == <<"dr", "direct">>
ProducersOne == <<"dr">>
=============================================================================
