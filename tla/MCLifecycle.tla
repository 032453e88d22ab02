---------------------------- MODULE MCLifecycle ----------------------------
(* Instances of Lifecycle for TLC: configuration files of up to three lines, *)
(* good, empty, malformed and with a number that is none.                    *)
EXTENDS Lifecycle

Line(t, v) == [token |-> t, val |-> v]

SomeLines ==
  {EmptyLine, Line("HTTPThreads", "0"), Line("HTTPThreads", "1"),
   Line("HTTPThreads", "2"), Line("HTTPThreads", "two"), Line("Debug", "maybe"),
   Line("Daemon", "true"), Line("Threads", "1")}

AllFiles == BoundedSeq(SomeLines, 3)
GoodFiles == {<<Line("Debug", "false"), Line("HTTPThreads", "1")>>}
=============================================================================
