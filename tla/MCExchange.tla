----------------------------- MODULE MCExchange -----------------------------
(* Instances of Exchange for TLC: the requests of MCRequestParser, and every *)
(* call with every kind of text in each parameter.                           *)
EXTENDS Exchange, MCRequestParser

AllParams == [1 .. 4 -> {Empty, "text", Number}]
=============================================================================
