----------------------------- MODULE MCJobQueue -----------------------------
(* Small instances of JobQueue for TLC.                                     *)
EXTENDS JobQueue, TLC

CONSTANTS j1, j2, k1, k2, X, Y, c1, c2, ch1

(* Two jobs of two classes on one channel, where two consumers listen for   *)
(* the class of the first.                                                  *)
XAndY == [j \in Jobs |-> IF j = j1 THEN X ELSE Y]
OneConn == <<c1>>
OneChannel == [c \in {c1, c2} |-> {ch1}]
SameChannel == [k \in Consumers |-> [c |-> c1, ch |-> ch1, class |-> X]]
==============================================================================
