----------------------------- MODULE MCLlmGateway -----------------------------
(* A small instance of LlmGateway: two providers that take turns, a          *)
(* structured request and a stream.                                          *)
EXTENDS LlmGateway

MCRoutes == <<"a", "b">>
MCWeight == [p \in {"a", "b"} |-> IF p = "a" THEN 2 ELSE 1]
===============================================================================
