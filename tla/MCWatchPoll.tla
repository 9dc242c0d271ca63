---------------------------- MODULE MCWatchPoll ----------------------------
(* A small instance of WatchPoll for TLC. *)
EXTENDS WatchPoll
LateTimestamps == [s \in Strategies |-> IF s = "increment" THEN 0 ELSE 1]

(* two rows, two failed deliveries and one disturbance... *)
Disturbed == [k \in Kinds |-> IF k \in {"write", "fail"} THEN 2 ELSE 1]
(* ...or three writes and one failed delivery *)
Calm == [k \in Kinds |-> CASE k = "write" -> 3 [] k = "fail" -> 1 [] OTHER -> 0]
MCCases ==
  [strategy : Strategies, from : {"beginning"}, onError : {"abort", "continue"}, budget : {Disturbed}]
    \union [strategy : Strategies, from : {"now", "beginning"}, onError : {"continue"}, budget : {Calm}]
=============================================================================
