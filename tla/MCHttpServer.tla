---------------------------- MODULE MCHttpServer ----------------------------
(* Instances of HttpServer for TLC: threads and connection objects are       *)
(* interchangeable.                                                          *)
EXTENDS HttpServer, TLC

Symmetry == Permutations(Workers) \cup Permutations(Conns)
=============================================================================
