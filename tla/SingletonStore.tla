--------------------------- MODULE SingletonStore ---------------------------
(***************************************************************************)
(* What the cache of a container promises, without saying how services are *)
(* created: under a key there is at most one instance, everybody who asks  *)
(* is answered with that one, and only clearing the container forgets it.  *)
(***************************************************************************)
CONSTANTS Containers, Types, Instances, None

VARIABLES
    cell,    \* cell[c][t]: the instance stored in container c under t, or None
    answers  \* answers[c][t]: every instance given out since c was cleared

vars == <<cell, answers>>

Init ==
    /\ cell = [c \in Containers |-> [t \in Types |-> None]]
    /\ answers = [c \in Containers |-> [t \in Types |-> {}]]

(* The instance under t is given out, and stored if none was there.         *)
Answered(c, t) ==
    /\ cell'[c][t] \in Instances
    /\ cell[c][t] \in {None, cell'[c][t]}
    /\ answers'[c][t] = answers[c][t] \cup {cell'[c][t]}

Untouched(c, t) ==
    /\ cell'[c][t] = cell[c][t]
    /\ answers'[c][t] = answers[c][t]

(* One call may give out several services of a container.                   *)
Answer(c) ==
    /\ \A t \in Types : Answered(c, t) \/ Untouched(c, t)
    /\ \A e \in Containers \ {c} : \A t \in Types : Untouched(e, t)

Forget(c) ==
    /\ \A t \in Types : cell'[c][t] = None /\ answers'[c][t] = {}
    /\ \A e \in Containers \ {c} : \A t \in Types : Untouched(e, t)

Next == \E c \in Containers : Answer(c) \/ Forget(c)

Spec == Init /\ [][Next]_vars
==============================================================================
