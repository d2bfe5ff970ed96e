---------------------------- MODULE MCDeadlines -----------------------------
(***************************************************************************)
(* The clock around a full second, with the delay of the code: frames      *)
(* before it have their deadlines at, just before and after it.            *)
(***************************************************************************)
EXTENDS Deadlines

BeforeTheSecond ==
  {949999999, 950000000, 950500000, 951999999, 989999999, 999000001, 999999999}
AfterTheSecond ==
  {1000000000, 1000000001, 1000500000, 1001000001, 1002499999, 1039999999,
   1041000000, 1049999999, 1051999999, 1055000000}
MCInstants == {Instant(ns) : ns \in BeforeTheSecond \cup AfterTheSecond}
=============================================================================
